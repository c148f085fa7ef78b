----------------------------- MODULE StubLookups -----------------------------
(***************************************************************************)
(* PhpStubs and MountSequence: the bundled lookup built on the first       *)
(* access, and with(), which mounts further sets behind those of its       *)
(* receiver and merges them all again.  The merge is SetMerge's, step by   *)
(* step; mount lists are objects with an address, as MutableList is.       *)
(***************************************************************************)
EXTENDS SetMerge

CONSTANTS
  Root,         \* the directories that may hold a set
  Sets,         \* what a root holds, read-only while the program runs
  ConsumerRoot, \* those a consumer may pass to with()
  Bundles,      \* the bundles the library may have been built with
  VariableName, \* the variable subjects among Subject
  Precedence,   \* verification kind -> rank
  MaxCalls,     \* bound on the calls of one run, the first access included
  MaxSets       \* bound on the sets of one with()

\* A set as it lies under its root: documents in manifest order, each with the
\* extension of its path; the vocabulary it declares, the names it uses.
SetOnDisk == [missing : BOOLEAN, malformed : BOOLEAN,
              verification : DOMAIN Precedence \cup {"none"},
              declares : SUBSET STRING, uses : SUBSET STRING,
              documents : Seq([extension : STRING, entries : Seq(Entry)])]

ASSUME LookupAssumption ==
  /\ Sets \in [Root -> SetOnDisk] /\ ConsumerRoot \subseteq Root
  /\ Bundles \subseteq [mapping : BOOLEAN, roots : Seq(Root) \ {<<>>}]
  /\ Precedence \in [DOMAIN Precedence -> Nat] /\ "manual" \in DOMAIN Precedence
  /\ MaxCalls \in Nat /\ MaxSets \in Nat

VARIABLES
  bundle,   \* the bundle of this build
  lists,    \* the mount lists, by address
  lookups,  \* the PhpStubs built, bundled first: roots, address of its mounts, answers
  building, \* the call under way: its roots, those left, its list, its vocabulary
  calls     \* the outcome of every finished call, with the roots it asked for

callVars == <<bundle, lists, lookups, building, calls>>
allVars  == <<callVars, vars>>

Idle == [roots |-> <<>>, left |-> <<>>, list |-> 0, vocabulary |-> {}]

LookupInit ==
  /\ Init /\ bundle \in Bundles
  /\ lists = <<>> /\ lookups = <<>> /\ building = Idle /\ calls = <<>>

-----------------------------------------------------------------------------
(* Reading one set                                                         *)

\* DocumentSetLoader.load and stubFailure: a manifest or a listed document the
\* opener cannot resolve is an absence, every other failure invalidity.
LoadFailure(set, known) ==
  CASE set.missing -> "not found"
    [] ~set.missing /\ (set.malformed \/ ~(set.uses \subseteq known \cup set.declares)) -> "invalid"
    [] OTHER -> "none"

\* Only the first bundled set is mounted as the generated one.
IsGenerated(k) == lookups = <<>> /\ k = 1

\* A bundled set without provenance that mounts as manual.
ManualByDefault(set) == IF set.verification = "none" THEN "manual" ELSE set.verification

\* Bundled sets must state their verification; consumer sets fall back to manual.
Verification(set) ==
  IF set.verification = "none" /\ lookups # <<>> THEN "manual" ELSE set.verification

EntriesOf(set, generated) ==
  LET doc(d) == [j \in 1..Len(d.entries) |->
                   [entry |-> d.entries[j], extension |-> IF generated THEN d.extension ELSE "none"]]
      upTo[k \in 0..Len(set.documents)] ==
        IF k = 0 THEN <<>> ELSE upTo[k - 1] \o doc(set.documents[k])
  IN upTo[Len(set.documents)]

\* The rules of the generated set: no variable, every entry signed and
\* unconditional, no subject twice.
GeneratedRules(es) ==
  /\ \A i \in DOMAIN es : /\ es[i].entry.subject \notin VariableName
                          /\ "signature" \in es[i].entry.units /\ es[i].entry.condition = Always
  /\ \A i, j \in DOMAIN es : es[i].entry.subject = es[j].entry.subject => i = j

-----------------------------------------------------------------------------
(* The mount lists                                                         *)

\* A sequence that writes to the list of its receiver.
SharedList(a) == [lists |-> lists, list |-> a]

\* toMutableList and toList: a new list with the same elements.
CopiedList(a) == [lists |-> Append(lists, lists[a]), list |-> Len(lists) + 1]

\* A sequence that starts from no vocabulary, whatever is mounted already.
NoVocabulary(ms) == {}

\* The names the mounts of a list declare.
VocabularyOf(ms) == UNION {ms[k].declares : k \in DOMAIN ms}

-----------------------------------------------------------------------------
(* The calls                                                               *)

Free == building = Idle /\ Len(calls) < MaxCalls

\* The call ends in an exception; nothing of it remains reachable.
Fails(why) ==
  /\ calls' = Append(calls, [roots |-> building.roots, outcome |-> why])
  /\ building' = Idle
  /\ UNCHANGED <<bundle, lists, lookups>>

\* The first access to PhpStubs builds the bundle from an empty sequence.
FirstAccess ==
  /\ Free /\ calls = <<>>
  /\ lists' = Append(lists, <<>>)
  /\ building' = [roots |-> bundle.roots, left |-> bundle.roots, list |-> Len(lists) + 1,
                  vocabulary |-> {}]
  /\ UNCHANGED <<bundle, lookups, calls, vars>>

\* The mapping of the bundled taint sets is read before any set.
MappingMissing ==
  /\ building.left # <<>> /\ lookups = <<>> /\ building.left = bundle.roots
  /\ ~bundle.mapping
  /\ Fails("not found") /\ UNCHANGED vars

\* A class whose initialisation failed stays unusable.
AccessAfterFailure ==
  /\ Free /\ calls # <<>> /\ lookups = <<>>
  /\ calls' = Append(calls, [roots |-> bundle.roots, outcome |-> "unusable"])
  /\ UNCHANGED <<bundle, lists, lookups, building, vars>>

With(r, roots) ==
  /\ Free
  /\ LET copy == CopiedList(lookups[r].list)
     IN /\ lists' = copy.lists
        /\ building' = [roots |-> lookups[r].roots \o roots, left |-> roots, list |-> copy.list,
                        vocabulary |-> VocabularyOf(lists[lookups[r].list])]
  /\ UNCHANGED <<bundle, lookups, calls, vars>>

\* Mount the next set, or fail.
MountNext ==
  /\ building.left # <<>> /\ (lookups = <<>> => bundle.mapping)
  /\ LET set == Sets[Head(building.left)]
         generated == IsGenerated(Len(building.roots) - Len(building.left) + 1)
         verification == Verification(set)
         entries == EntriesOf(set, generated)
         failure == LoadFailure(set, building.vocabulary)
     IN IF failure # "none" THEN Fails(failure)
        ELSE IF verification = "none" \/ (generated /\ ~GeneratedRules(entries)) THEN Fails("invalid")
        ELSE /\ lists' = [lists EXCEPT ![building.list] =
                  Append(@, [rank |-> Precedence[verification], declares |-> set.declares,
                             entries |-> entries])]
             /\ building' = [building EXCEPT !.left = Tail(@), !.vocabulary = @ \cup set.declares]
             /\ UNCHANGED <<bundle, lookups, calls>>
  /\ UNCHANGED vars

\* All mounted: the new PhpStubs takes a copy of the list and merges it.
StartMerge ==
  /\ building # Idle /\ building.left = <<>> /\ phase = "idle"
  /\ LET copy == CopiedList(building.list)
     IN lists' = copy.lists /\ building' = [building EXCEPT !.list = copy.list]
  /\ Begin(lists[building.list])
  /\ UNCHANGED <<bundle, lookups, calls>>

MergeStep == phase \notin {"idle", "done", "failed"} /\ Merge /\ UNCHANGED callVars

\* The merge is not kept once it is part of a lookup or was refused.
Discard ==
  /\ phase' = "idle" /\ mounts' = <<>> /\ step' = 0 /\ vocabulary' = {} /\ mounted' = <<>>
  /\ subjects' = <<>> /\ conditions' = [s \in {} |-> <<>>]
  /\ inForce' = [k \in {} |-> <<>>] /\ written' = {}
  /\ records' = <<>> /\ classes' = <<>> /\ names' = {} /\ aliases' = <<>>

\* What a record answers: everything but where its entries were mounted.
Answer(r) ==
  LET said(i) == IF i = 0 THEN <<>> ELSE <<mounted[i].entry>>
      facts(u) == [k \in 1..Len(r.facts[u]) |-> said(r.facts[u][k].item)]
  IN [subject |-> r.subject, signature |-> said(r.signature), extension |-> r.extension,
      facts |-> [u \in DOMAIN r.facts |-> facts(u)]]

Built ==
  /\ phase = "done" /\ building # Idle
  /\ lookups' = Append(lookups,
       [roots |-> building.roots, list |-> building.list,
        answers |-> [records |-> [k \in DOMAIN records |-> Answer(records[k])],
                     classes |-> classes, names |-> names, vocabulary |-> vocabulary]])
  /\ calls' = Append(calls, [roots |-> building.roots, outcome |-> "built"])
  /\ building' = Idle
  /\ Discard /\ UNCHANGED <<bundle, lists>>

Refused == phase = "failed" /\ building # Idle /\ Fails("invalid") /\ Discard

LookupNext ==
  \/ FirstAccess \/ MappingMissing \/ AccessAfterFailure
  \/ \E r \in DOMAIN lookups, n \in 0..MaxSets : \E roots \in [1..n -> ConsumerRoot] : With(r, roots)
  \/ MountNext \/ StartMerge \/ MergeStep \/ Built \/ Refused

LookupSpec == LookupInit /\ [][LookupNext]_allVars

-----------------------------------------------------------------------------
(* What the lookups promise.                                               *)

\* The mount a root yields in the k-th place of a lookup.
MountAt(roots, k) ==
  LET set == Sets[roots[k]]
  IN [rank |-> Precedence[IF set.verification = "none" THEN "manual" ELSE set.verification],
      declares |-> set.declares, entries |-> EntriesOf(set, k = 1)]

\* A lookup is over the bundled sets and the sets it was asked for, in that
\* order, and a later with() on it, finished or failed, adds none to it
\* (PhpStubs.kt: "leaving the receiver unchanged").
OverItsSets ==
  \A l \in DOMAIN lookups :
    lists[lookups[l].list] = [k \in DOMAIN lookups[l].roots |-> MountAt(lookups[l].roots, k)]

\* Chained with() calls and one with() of all their sets end alike, and two
\* lookups over one list of sets answer alike.
SameSetsSameAnswers ==
  /\ \A c, d \in DOMAIN calls :
       calls[c].roots = calls[d].roots /\ calls[c].outcome # "unusable" /\ calls[d].outcome # "unusable"
         => calls[c].outcome = calls[d].outcome
  /\ \A l, m \in DOMAIN lookups :
       lookups[l].roots = lookups[m].roots => lookups[l].answers = lookups[m].answers

\* The names declared by the sets before the k-th.
DeclaredBefore(roots, k) == UNION {Sets[roots[j]].declares : j \in 1..(k - 1)}

\* A call fails on the first set that cannot be mounted behind its predecessors,
\* as not found when a file is missing, and otherwise only on the merge.
FailsOnFirstBadSet ==
  \A c \in DOMAIN calls :
    LET roots == calls[c].roots
        bundled == roots = bundle.roots
        bad(k) == \/ LoadFailure(Sets[roots[k]], DeclaredBefore(roots, k)) # "none"
                  \/ bundled /\ Sets[roots[k]].verification = "none"
                  \/ bundled /\ k = 1 /\ ~GeneratedRules(EntriesOf(Sets[roots[k]], TRUE))
        firstBad == {k \in DOMAIN roots : bad(k) /\ \A j \in 1..(k - 1) : ~bad(j)}
    IN (bundled => bundle.mapping) /\ calls[c].outcome # "unusable" =>
         /\ calls[c].outcome = "not found" <=> \E k \in firstBad : Sets[roots[k]].missing
         /\ firstBad # {} => calls[c].outcome # "built"
=============================================================================
