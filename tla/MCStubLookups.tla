--------------------------- MODULE MCStubLookups ---------------------------
(***************************************************************************)
(* A bundle of a generated set and a vocabulary, and four consumer sets:   *)
(* one that declares a name, one that uses it, one whose class alias       *)
(* collides with the second's, and one whose manifest is missing.          *)
(***************************************************************************)
EXTENDS StubLookups

E(s, us, as) == [subject |-> s, condition |-> "always", units |-> us, aliases |-> as]
Set(verification, declares, uses, entries) ==
  [missing |-> FALSE, malformed |-> FALSE, verification |-> verification,
   declares |-> declares, uses |-> uses,
   documents |-> <<[extension |-> "ext", entries |-> entries]>>]

\* "twice" and "unsigned" break a rule of the generated set.
RootSets ==
  [r \in {"generated", "names", "declares", "uses", "collides", "absent", "twice", "unsigned"} |->
     CASE r = "generated" -> Set("derived", {}, {}, <<E("f", {"signature"}, <<>>), E("a", {"signature"}, <<>>)>>)
       [] r = "names"     -> Set("manual", {"sql"}, {}, <<E("f", {"sinks"}, <<>>)>>)
       [] r = "declares"  -> Set("none", {"own"}, {}, <<>>)
       [] r = "uses"      -> Set("none", {}, {"own"}, <<E("a", {"signature", "sinks"}, <<"x">>)>>)
       [] r = "collides"  -> Set("derived", {}, {"sql"}, <<E("x", {"signature"}, <<>>)>>)
       [] r = "absent"    -> [Set("none", {}, {}, <<>>) EXCEPT !.missing = TRUE]
       [] r = "twice"     -> Set("derived", {}, {}, <<E("f", {"signature"}, <<>>), E("f", {"signature"}, <<>>)>>)
       [] r = "unsigned"  -> Set("derived", {}, {}, <<E("f", {"sinks"}, <<>>)>>)]

Bundle(mapping, roots) == [mapping |-> mapping, roots |-> roots]
SoundBundle == {Bundle(TRUE, <<"generated", "names">>)}
Broken == {Bundle(FALSE, <<"generated", "names">>), Bundle(TRUE, <<"twice">>),
           Bundle(TRUE, <<"unsigned">>), Bundle(TRUE, <<"generated", "declares">>),
           Bundle(TRUE, <<"generated", "absent">>), Bundle(TRUE, <<"names", "generated">>)}
AllBundles == SoundBundle \cup Broken
Ranks == [v \in {"manual", "derived"} |-> IF v = "manual" THEN 0 ELSE 1]
NoInput == {}
=============================================================================
