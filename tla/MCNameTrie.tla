----------------------------- MODULE MCNameTrie -----------------------------
(***************************************************************************)
(* Up to three of five names, two of them below one namespace, and every   *)
(* pattern of at most three symbols over a letter, the separator and the   *)
(* gap.                                                                    *)
(***************************************************************************)
EXTENDS NameTrie

Names == {<<"a">>, <<"a", "a">>, <<"b", "a">>, <<"a", "/", "a">>, <<"a", "/", "b">>}
Patterns == UNION {[1..n -> {"a", "/", "*"}] : n \in 0..3}
=============================================================================
