----------------------------- MODULE MCSetMerge -----------------------------
(***************************************************************************)
(* Every merge of two sets over a pool of entries: the first of two        *)
(* entries, of either rank, possibly the generated set; the second of one. *)
(***************************************************************************)
EXTENDS SetMerge

E(s, c, us, as) == [subject |-> s, condition |-> c, units |-> us, aliases |-> as]

Pool == {E("f", "always", {"signature", "value"}, <<>>),
         E("f", "always", {"value", "sinks"}, <<>>),
         E("f", "one", {"value"}, <<>>),
         E("f", "one", {"signature"}, <<>>),
         E("a", "always", {"signature"}, <<"x">>),
         E("a", "always", {"signature"}, <<>>),
         E("a", "always", {"signature"}, <<"a">>),
         E("b", "always", {"signature"}, <<"x">>),
         E("x", "always", {"sinks"}, <<>>)}

Signed(e) == "signature" \in e.units /\ e.condition = "always"
Entries(k, x) == {[j \in 1..k |-> [entry |-> es[j], extension |-> x]] : es \in [1..k -> Pool]}
Generated == {[rank |-> 1, declares |-> {}, entries |-> es] :
                es \in {g \in Entries(2, "ext") : /\ \A k \in 1..2 : Signed(g[k].entry)
                                                 /\ g[1].entry.subject # g[2].entry.subject}}
Plain(k) == {[rank |-> r, declares |-> {}, entries |-> es] : r \in {0, 1}, es \in Entries(k, "none")}

AllInputs == {<<>>} \cup {<<m, n>> : m \in Generated \cup Plain(2), n \in Plain(1)}
=============================================================================
