-------------------------- MODULE StubLookupsProofs --------------------------
(***************************************************************************)
(* For every bundle and all sets: a lookup stays over its own sets, in     *)
(* their order, whatever calls follow, a call fails on the first of its    *)
(* sets that cannot be mounted, and equal sets answer alike.  The mount    *)
(* lists are objects with addresses, so the first proof is one about       *)
(* aliasing: what a call may still append to is nobody's list.  The second *)
(* rests on it: the vocabulary a set is read with is that of the sets      *)
(* before it.  The third is that a merge is a function of its mounts.      *)
(***************************************************************************)
EXTENDS StubLookups, SetMergeResultProofs

\* The mounts of the first n roots.
MountsOf(roots, n) == [k \in 1..n |-> MountAt(roots, k)]

\* A list of a lookup holds its sets.
LookupsOver ==
  \A l \in 1..Len(lookups) :
    /\ lookups[l].list \in 1..Len(lists)
    /\ lookups[l].roots \in Seq(Root) \ {<<>>}
    /\ lists[lookups[l].list] = MountsOf(lookups[l].roots, Len(lookups[l].roots))

\* The list of the call under way holds the sets it has mounted, and is no
\* lookup's; what is left are its last roots.  Only a call that has mounted all
\* merges, and only the first access mounts behind nothing.
BuildingOver ==
  IF building = Idle THEN phase = "idle"
  ELSE LET n == Len(building.roots) - Len(building.left) IN
    /\ building = [roots |-> building.roots, left |-> building.left, list |-> building.list,
                   vocabulary |-> building.vocabulary]
    /\ building.list \in 1..Len(lists)
    /\ building.roots \in Seq(Root) \ {<<>>} /\ building.left \in Seq(Root)
    /\ n \in 0..Len(building.roots)
    /\ \A i \in 1..Len(building.left) : building.left[i] = building.roots[n + i]
    /\ lists[building.list] = MountsOf(building.roots, n)
    /\ \A l \in 1..Len(lookups) : lookups[l].list # building.list
    /\ phase # "idle" => building.left = <<>>
    /\ lookups # <<>> => n > 0

LookInv ==
  /\ IsSeq(lists) /\ IsSeq(lookups) /\ IsSeq(calls) /\ bundle \in Bundles
  /\ calls = <<>> => lookups = <<>>
  /\ LookupsOver /\ BuildingOver

-----------------------------------------------------------------------------
\* A function on 1..n is a sequence of length n.
LEMMA SeqOf ==
  ASSUME NEW S, NEW n \in Nat, NEW f \in [1..n -> S]
  PROVE  f \in Seq(S) /\ Len(f) = n
OBVIOUS

\* The mounts of n roots are a sequence of length n.
LEMMA MountsSeq ==
  ASSUME NEW roots, NEW m \in Nat, NEW n \in Nat, n <= m
  PROVE  /\ MountsOf(roots, n) \in Seq({MountAt(roots, k) : k \in 1..m})
         /\ Len(MountsOf(roots, n)) = n
<1>1. MountsOf(roots, n) \in [1..n -> {MountAt(roots, k) : k \in 1..m}]
  BY DEF MountsOf
<1> QED BY <1>1, SeqOf

\* Mounting the next root extends the mounts by one.
LEMMA OneMore ==
  ASSUME NEW roots, NEW n \in Nat
  PROVE  Append(MountsOf(roots, n), MountAt(roots, n + 1)) = MountsOf(roots, n + 1)
<1> DEFINE S == {MountAt(roots, k) : k \in 1..(n + 1)}
           s == MountsOf(roots, n)
           t == MountsOf(roots, n + 1)
           x == MountAt(roots, n + 1)
<1>1. s \in Seq(S) /\ Len(s) = n /\ t \in Seq(S) /\ Len(t) = n + 1 /\ x \in S
  <2>1. n + 1 \in Nat /\ n <= n + 1 /\ n + 1 <= n + 1 /\ n + 1 \in 1..(n + 1)
    OBVIOUS
  <2>2. s \in Seq(S) /\ Len(s) = n
    BY <2>1, MountsSeq
  <2>3. t \in Seq(S) /\ Len(t) = n + 1
    BY <2>1, MountsSeq
  <2>4. x \in S
    BY <2>1
  <2> QED BY <2>2, <2>3, <2>4
<1>2. (\A i \in 1..n : s[i] = t[i]) /\ t[n + 1] = x
  BY DEF MountsOf
<1> HIDE DEF S, s, t, x
<1>3. /\ Append(s, x) \in Seq(S) /\ Len(Append(s, x)) = n + 1
      /\ \A i \in 1..(n + 1) : Append(s, x)[i] = t[i]
  BY <1>1, <1>2, AppendProperties
<1>4. Append(s, x) = t
  BY <1>1, <1>3, SeqEqual
<1> QED BY <1>4 DEF s, t, x

\* A mount depends on the root at its place only.
LEMMA SameMounts ==
  ASSUME NEW roots, NEW more, NEW n \in Nat, \A k \in 1..n : roots[k] = more[k]
  PROVE  MountsOf(roots, n) = MountsOf(more, n)
<1>1. \A k \in 1..n : MountAt(roots, k) = MountAt(more, k)
  BY DEF MountAt
<1> QED BY <1>1 DEF MountsOf

\* Nothing is mounted of no roots.
LEMMA NoMounts == ASSUME NEW roots PROVE MountsOf(roots, 0) = <<>>
<1>1. MountsOf(roots, 0) \in [1..0 -> {}]
  BY DEF MountsOf
<1>2. MountsOf(roots, 0) \in Seq({}) /\ Len(MountsOf(roots, 0)) = 0
  BY <1>1, SeqOf
<1> QED BY <1>2, EmptySeq

\* A step of the merge is none of a call.
LEMMA MergeGoesOn == Merge => phase' # "idle"
BY DEF Merge, Collect, AddSlot, SlotsAdded, WriteNext, Written, AddRecord, ListAliases, KeyAlias, Merged

-----------------------------------------------------------------------------
\* A call that ends leaves the lookups as they are.
LEMMA FailsLook ==
  ASSUME LookInv, NEW why, Fails(why), phase' = "idle"
  PROVE  LookInv'
<1>1. /\ lists' = lists /\ lookups' = lookups /\ bundle' = bundle /\ building' = Idle
      /\ calls' = Append(calls, [roots |-> building.roots, outcome |-> why])
  BY DEF Fails
<1>2. IsSeq(calls') /\ calls' # <<>>
  BY <1>1, Appended, EmptySeq DEF LookInv
<1>3. LookupsOver'
  BY <1>1 DEF LookInv, LookupsOver
<1>4. BuildingOver'
  BY <1>1 DEF BuildingOver
<1> QED BY <1>1, <1>2, <1>3, <1>4 DEF LookInv

\* A new list beside the old ones: the lookups keep theirs, and none has it.
LEMMA NewList ==
  ASSUME LookInv, NEW x, lists' = Append(lists, x), lookups' = lookups
  PROVE  /\ LookupsOver' /\ IsSeq(lists') /\ Len(lists) \in Nat
         /\ Len(lists) + 1 \in 1..Len(lists') /\ lists'[Len(lists) + 1] = x
         /\ \A l \in 1..Len(lookups) : lookups[l].list # Len(lists) + 1
<1>1. /\ IsSeq(lists') /\ Len(lists) \in Nat /\ Len(lists') = Len(lists) + 1
      /\ \A i \in 1..Len(lists) : lists'[i] = lists[i]
      /\ lists'[Len(lists) + 1] = x
  BY Appended DEF LookInv
<1>2. \A l \in 1..Len(lookups) : lookups[l].list \in 1..Len(lists)
  BY DEF LookInv, LookupsOver
<1>3. LookupsOver'
  BY <1>1, <1>2 DEF LookInv, LookupsOver
<1> QED BY <1>1, <1>2, <1>3

\* The first access starts a list that no lookup has.
LEMMA FirstAccessLook == LookInv /\ FirstAccess => LookInv'
<1> SUFFICES ASSUME LookInv, FirstAccess PROVE LookInv'
  OBVIOUS
<1>1. /\ building = Idle /\ calls = <<>> /\ lookups = <<>> /\ phase = "idle" /\ phase' = phase
      /\ lists' = Append(lists, <<>>) /\ lookups' = lookups /\ bundle' = bundle /\ calls' = calls
      /\ building' = [roots |-> bundle.roots, left |-> bundle.roots, list |-> Len(lists) + 1,
                      vocabulary |-> {}]
  BY DEF FirstAccess, Free, LookInv, BuildingOver, vars
<1>2. bundle.roots \in Seq(Root) \ {<<>>} /\ Len(bundle.roots) \in Nat
  BY LookupAssumption, LenProperties DEF LookInv
<1>3. /\ LookupsOver' /\ IsSeq(lists') /\ Len(lists) \in Nat
      /\ Len(lists) + 1 \in 1..Len(lists') /\ lists'[Len(lists) + 1] = <<>>
      /\ \A l \in 1..Len(lookups) : lookups[l].list # Len(lists) + 1
  BY <1>1, NewList
<1>4. building' # Idle
  BY <1>1, <1>3 DEF Idle
<1>5. Len(building'.roots) - Len(building'.left) = 0
  BY <1>1, <1>2
<1>6. BuildingOver'
  BY <1>1, <1>2, <1>3, <1>4, <1>5, NoMounts DEF BuildingOver
<1> QED BY <1>1, <1>3, <1>6 DEF LookInv

\* with() copies the list of its receiver: the new list is no lookup's.
LEMMA WithLook ==
  ASSUME LookInv, NEW r \in DOMAIN lookups, NEW n \in 0..MaxSets,
         NEW roots \in [1..n -> ConsumerRoot], With(r, roots)
  PROVE  LookInv'
<1> DEFINE own == lookups[r].roots
<1>1. /\ building = Idle /\ phase = "idle" /\ phase' = phase
      /\ lists' = Append(lists, lists[lookups[r].list]) /\ lookups' = lookups /\ bundle' = bundle
      /\ calls' = calls
      /\ building' = [roots |-> own \o roots, left |-> roots, list |-> Len(lists) + 1,
                      vocabulary |-> VocabularyOf(lists[lookups[r].list])]
  BY DEF With, Free, LookInv, BuildingOver, vars, CopiedList
<1>2. /\ own \in Seq(Root) \ {<<>>} /\ Len(own) \in Nat /\ Len(own) > 0
      /\ lists[lookups[r].list] = MountsOf(own, Len(own))
  <2>1. r \in 1..Len(lookups)
    BY SeqFacts DEF LookInv
  <2>2. own \in Seq(Root) \ {<<>>} /\ lists[lookups[r].list] = MountsOf(own, Len(own))
    BY <2>1 DEF LookInv, LookupsOver
  <2> QED BY <2>2, LenProperties, EmptySeq
<1>3. roots \in Seq(Root) /\ Len(roots) \in Nat
  <2>1. n \in Nat /\ roots \in [1..n -> Root]
    BY LookupAssumption
  <2> QED BY <2>1, SeqOf
<1>4. /\ LookupsOver' /\ IsSeq(lists') /\ Len(lists) \in Nat
      /\ Len(lists) + 1 \in 1..Len(lists') /\ lists'[Len(lists) + 1] = lists[lookups[r].list]
      /\ \A l \in 1..Len(lookups) : lookups[l].list # Len(lists) + 1
  BY <1>1, NewList
<1> HIDE DEF own
<1>5. /\ own \o roots \in Seq(Root) \ {<<>>} /\ Len(own \o roots) = Len(own) + Len(roots)
      /\ \A i \in 1..Len(own) : (own \o roots)[i] = own[i]
      /\ \A i \in 1..Len(roots) : (own \o roots)[Len(own) + i] = roots[i]
  <2>1. own \o roots \in Seq(Root) /\ Len(own \o roots) = Len(own) + Len(roots)
    BY <1>2, <1>3, ConcatProperties
  <2>2. ASSUME NEW i \in 1..(Len(own) + Len(roots))
        PROVE  (own \o roots)[i] = IF i <= Len(own) THEN own[i] ELSE roots[i - Len(own)]
    BY <1>2, <1>3, ConcatProperties
  <2>3. \A i \in 1..Len(roots) : (own \o roots)[Len(own) + i] = roots[i]
    BY <1>2, <1>3, <2>2
  <2>4. own \o roots # <<>>
    BY <1>2, <1>3, <2>1, EmptySeq
  <2> QED BY <1>2, <1>3, <2>1, <2>2, <2>3, <2>4
<1>6. lists'[Len(lists) + 1] = MountsOf(own \o roots, Len(own))
  <2>1. \A k \in 1..Len(own) : own[k] = (own \o roots)[k]
    BY <1>5
  <2>2. MountsOf(own, Len(own)) = MountsOf(own \o roots, Len(own))
    BY <1>2, <2>1, SameMounts
  <2> QED BY <1>2, <1>4, <2>2
<1>7. building' # Idle
  BY <1>1, <1>4 DEF Idle
<1>8. Len(building'.roots) - Len(building'.left) = Len(own)
  BY <1>1, <1>2, <1>3, <1>5
<1>9. BuildingOver'
  BY <1>1, <1>2, <1>3, <1>4, <1>5, <1>6, <1>7, <1>8 DEF BuildingOver
<1> QED BY <1>1, <1>4, <1>9 DEF LookInv

\* Mounting appends to the list of the call under way, which is no lookup's.
LEMMA MountNextLook == LookInv /\ MountNext => LookInv'
<1> SUFFICES ASSUME LookInv, MountNext PROVE LookInv'
  OBVIOUS
<1> DEFINE n == Len(building.roots) - Len(building.left)
           set == Sets[Head(building.left)]
           m == [rank |-> Precedence[Verification(set)], declares |-> set.declares,
                 entries |-> EntriesOf(set, IsGenerated(n + 1))]
<1>1. building # Idle /\ phase' = phase /\ building.left # <<>> /\ phase = "idle"
  <2>1. building.left # <<>> /\ phase' = phase
    BY DEF MountNext, vars
  <2>2. building # Idle
    BY <2>1 DEF Idle
  <2> QED BY <2>1, <2>2 DEF LookInv, BuildingOver
<1>2. /\ building.list \in 1..Len(lists)
      /\ building.roots \in Seq(Root) \ {<<>>} /\ building.left \in Seq(Root)
      /\ n \in 0..Len(building.roots)
      /\ \A i \in 1..Len(building.left) : building.left[i] = building.roots[n + i]
      /\ lists[building.list] = MountsOf(building.roots, n)
      /\ \A l \in 1..Len(lookups) : lookups[l].list # building.list
      /\ lookups # <<>> => n > 0
      /\ building = [roots |-> building.roots, left |-> building.left, list |-> building.list,
                     vocabulary |-> building.vocabulary]
  BY <1>1 DEF LookInv, BuildingOver
<1>3. /\ Len(building.left) \in Nat /\ Len(building.left) > 0 /\ Len(building.roots) \in Nat /\ n \in Nat
      /\ Head(building.left) = building.roots[n + 1]
      /\ Tail(building.left) \in Seq(Root) /\ Len(Tail(building.left)) = Len(building.left) - 1
      /\ \A i \in 1..(Len(building.left) - 1) : Tail(building.left)[i] = building.left[i + 1]
  <2>1. /\ Len(building.left) \in Nat /\ Len(building.left) > 0 /\ Len(building.roots) \in Nat /\ n \in Nat
        /\ Head(building.left) = building.left[1]
    BY <1>1, <1>2, LenProperties, EmptySeq, HeadTailProperties
  <2>2. Head(building.left) = building.roots[n + 1]
    <3>1. 1 \in 1..Len(building.left)
      BY <2>1
    <3>2. building.left[1] = building.roots[n + 1]
      BY <1>2, <3>1
    <3> QED BY <2>1, <3>2
  <2> QED BY <1>1, <1>2, <2>1, <2>2, HeadTailProperties
<1>4. CASE \E why \in {"not found", "invalid"} : Fails(why)
  BY <1>1, <1>4, FailsLook
<1>5. CASE /\ Verification(set) # "none"
           /\ lists' = [lists EXCEPT ![building.list] = Append(@, m)]
           /\ building' = [building EXCEPT !.left = Tail(@), !.vocabulary = @ \cup set.declares]
           /\ UNCHANGED <<bundle, lookups, calls>>
  <2>1. m = MountAt(building.roots, n + 1)
    <3>1. set = Sets[building.roots[n + 1]]
      BY <1>3
    <3>2. Verification(set) = IF set.verification = "none" THEN "manual" ELSE set.verification
      BY <1>5 DEF Verification
    <3>3. IsGenerated(n + 1) = (n + 1 = 1)
      BY <1>2, <1>3 DEF IsGenerated
    <3> HIDE DEF n, set
    <3> QED BY <3>1, <3>2, <3>3 DEF MountAt
  <2> HIDE DEF n, set, m
  <2>2. /\ IsSeq(lists') /\ Len(lists') = Len(lists)
        /\ lists'[building.list] = MountsOf(building.roots, n + 1)
        /\ \A i \in 1..Len(lists) : i # building.list => lists'[i] = lists[i]
    <3>1. Append(lists[building.list], m) = MountsOf(building.roots, n + 1)
      BY <1>2, <1>3, <2>1, OneMore
    <3>2. lists' = [lists EXCEPT ![building.list] = MountsOf(building.roots, n + 1)]
      BY <1>5, <3>1
    <3>3. IsSeq(lists)
      BY DEF LookInv
    <3> DEFINE a == building.list
               x == MountsOf(building.roots, n + 1)
    <3>4. a \in 1..Len(lists) /\ lists' = [lists EXCEPT ![a] = x]
      BY <1>2, <3>2
    <3> HIDE DEF a, x
    <3>5. /\ IsSeq(lists') /\ Len(lists') = Len(lists) /\ lists'[a] = x
          /\ \A i \in 1..Len(lists) : i # a => lists'[i] = lists[i]
      <4>1. PICK S : lists \in Seq(S)
        BY <3>3 DEF IsSeq
      <4>2. Len(lists) \in Nat /\ DOMAIN lists = 1..Len(lists)
        BY <4>1, LenProperties
      <4>3. \A i \in 1..Len(lists) : lists[i] \in S
        BY <4>1, ElementOfSeq
      <4>4. lists' \in [1..Len(lists) -> S \cup {x}]
        BY <3>4, <4>2, <4>3
      <4>5. lists' \in Seq(S \cup {x}) /\ Len(lists') = Len(lists)
        BY <4>2, <4>4, SeqOf
      <4>6. lists'[a] = x /\ \A i \in 1..Len(lists) : i # a => lists'[i] = lists[i]
        BY <3>4, <4>2
      <4> QED BY <4>5, <4>6 DEF IsSeq
    <3> QED BY <3>5 DEF a, x
  <2>3. LookupsOver'
    BY <1>2, <1>5, <2>2 DEF LookInv, LookupsOver
  <2>4. /\ building'.roots = building.roots /\ building'.left = Tail(building.left)
        /\ building'.list = building.list
        /\ building' = [roots |-> building'.roots, left |-> building'.left, list |-> building'.list,
                        vocabulary |-> building'.vocabulary]
    BY <1>2, <1>5
  <2>5. Len(building'.roots) - Len(building'.left) = n + 1
    <3>1. Len(building'.left) = Len(building.left) - 1 /\ Len(building'.roots) = Len(building.roots)
      BY <1>3, <2>4
    <3>2. n = Len(building.roots) - Len(building.left)
      BY DEF n
    <3> QED BY <1>3, <3>1, <3>2
  <2>6. \A i \in 1..Len(building'.left) : building'.left[i] = building'.roots[(n + 1) + i]
    <3>1. ASSUME NEW i \in 1..(Len(building.left) - 1)
          PROVE  Tail(building.left)[i] = building.roots[(n + 1) + i]
      <4>1. i + 1 \in 1..Len(building.left) /\ n + (i + 1) = (n + 1) + i
        BY <1>3
      <4>2. building.left[i + 1] = building.roots[n + (i + 1)]
        BY <1>2, <4>1
      <4> QED BY <1>3, <4>1, <4>2
    <3> QED BY <1>3, <2>4, <3>1
  <2>7. building' # Idle
    BY <1>2, <2>4 DEF Idle
  <2>8. n + 1 \in 0..Len(building.roots)
    BY <1>2, <1>3 DEF n
  <2>9. BuildingOver'
    BY <1>1, <1>2, <1>3, <1>5, <2>2, <2>4, <2>5, <2>6, <2>7, <2>8 DEF BuildingOver
  <2> QED BY <1>5, <2>2, <2>3, <2>9 DEF LookInv
<1> QED
  BY <1>4, <1>5 DEF MountNext, LoadFailure

\* The merge starts when nothing is left to mount.
LEMMA StartMergeLook == LookInv /\ StartMerge => LookInv'
<1> SUFFICES ASSUME LookInv, StartMerge PROVE LookInv'
  OBVIOUS
<1>1. /\ building # Idle /\ building.left = <<>>
      /\ lists' = Append(lists, lists[building.list]) /\ building' = [building EXCEPT !.list = Len(lists) + 1]
      /\ lookups' = lookups /\ bundle' = bundle /\ calls' = calls
  BY DEF StartMerge, CopiedList
<1>2. /\ LookupsOver' /\ IsSeq(lists') /\ Len(lists) \in Nat
      /\ Len(lists) + 1 \in 1..Len(lists') /\ lists'[Len(lists) + 1] = lists[building.list]
      /\ \A l \in 1..Len(lookups) : lookups[l].list # Len(lists) + 1
  BY <1>1, NewList
<1>3. /\ building'.roots = building.roots /\ building'.left = building.left
      /\ building'.list = Len(lists) + 1
      /\ building' = [roots |-> building'.roots, left |-> building'.left, list |-> building'.list,
                      vocabulary |-> building'.vocabulary]
  BY <1>1 DEF LookInv, BuildingOver
<1>4. building' # Idle
  BY <1>2, <1>3 DEF Idle
<1>5. BuildingOver'
  BY <1>1, <1>2, <1>3, <1>4 DEF LookInv, BuildingOver
<1> QED BY <1>1, <1>2, <1>5 DEF LookInv

\* The list of a call becomes that of its lookup when it holds all sets.
LEMMA BuiltLook == LookInv /\ Built => LookInv'
<1> SUFFICES ASSUME LookInv, Built PROVE LookInv'
  OBVIOUS
<1> DEFINE answers == [records |-> [k \in DOMAIN records |-> Answer(records[k])],
                       classes |-> classes, names |-> names, vocabulary |-> vocabulary]
           new == [roots |-> building.roots, list |-> building.list, answers |-> answers]
<1>1. /\ building # Idle /\ phase = "done" /\ phase' = "idle" /\ building' = Idle
      /\ lookups' = Append(lookups, new) /\ lists' = lists /\ bundle' = bundle
      /\ calls' = Append(calls, [roots |-> building.roots, outcome |-> "built"])
  BY DEF Built, Discard
<1> HIDE DEF answers
<1>2. /\ building.list \in 1..Len(lists) /\ building.roots \in Seq(Root) \ {<<>>}
      /\ lists[building.list] = MountsOf(building.roots, Len(building.roots))
  <2>1. building.left = <<>> /\ Len(building.left) = 0 /\ Len(building.roots) \in Nat
    BY <1>1, EmptySeq, LenProperties DEF LookInv, BuildingOver
  <2> QED BY <1>1, <2>1 DEF LookInv, BuildingOver
<1>3. new.list = building.list /\ new.roots = building.roots
  OBVIOUS
<1> HIDE DEF new
<1>4. /\ IsSeq(lookups') /\ Len(lookups) \in Nat /\ Len(lookups') = Len(lookups) + 1
      /\ \A l \in 1..Len(lookups) : lookups'[l] = lookups[l]
      /\ lookups'[Len(lookups) + 1] = new
  BY <1>1, Appended DEF LookInv
<1>5. IsSeq(calls') /\ calls' # <<>>
  BY <1>1, Appended, EmptySeq DEF LookInv
<1>6. LookupsOver'
  <2> SUFFICES ASSUME NEW l \in 1..(Len(lookups) + 1)
               PROVE  /\ lookups'[l].list \in 1..Len(lists)
                      /\ lookups'[l].roots \in Seq(Root) \ {<<>>}
                      /\ lists[lookups'[l].list] = MountsOf(lookups'[l].roots, Len(lookups'[l].roots))
    BY <1>1, <1>4 DEF LookupsOver
  <2>1. CASE l = Len(lookups) + 1
    BY <1>2, <1>3, <1>4, <2>1
  <2>2. CASE l \in 1..Len(lookups)
    BY <1>4, <2>2 DEF LookInv, LookupsOver
  <2> QED BY <1>4, <2>1, <2>2
<1>7. BuildingOver'
  BY <1>1 DEF BuildingOver
<1> QED BY <1>1, <1>4, <1>5, <1>6, <1>7 DEF LookInv

\* No step changes the list of a lookup.
LEMMA NextLook == LookInv /\ [LookupNext]_allVars => LookInv'
<1> SUFFICES ASSUME LookInv, [LookupNext]_allVars PROVE LookInv'
  OBVIOUS
<1>1. CASE AccessAfterFailure
  <2>1. /\ lists' = lists /\ lookups' = lookups /\ bundle' = bundle /\ building' = building /\ phase' = phase
        /\ calls' = Append(calls, [roots |-> bundle.roots, outcome |-> "unusable"]) /\ lookups = <<>>
    BY <1>1 DEF AccessAfterFailure, vars
  <2>2. IsSeq(calls')
    BY <2>1, Appended DEF LookInv
  <2> QED BY <2>1, <2>2 DEF LookInv, LookupsOver, BuildingOver
<1>2. CASE MappingMissing
  <2>1. phase = "idle"
    BY <1>2 DEF MappingMissing, LookInv, BuildingOver
  <2> QED BY <1>2, <2>1, FailsLook DEF MappingMissing, vars
<1>3. CASE Refused
  BY <1>3, FailsLook DEF Refused, Discard
<1>4. CASE MergeStep
  <2>1. phase' # "idle" /\ building # Idle /\ phase # "idle"
    BY <1>4, MergeGoesOn DEF MergeStep, LookInv, BuildingOver
  <2>2. UNCHANGED callVars
    BY <1>4 DEF MergeStep
  <2> QED BY <2>1, <2>2 DEF callVars, LookInv, LookupsOver, BuildingOver
<1>5. CASE UNCHANGED allVars
  BY <1>5 DEF allVars, callVars, vars, LookInv, LookupsOver, BuildingOver
<1>6. CASE \E r \in DOMAIN lookups, n \in 0..MaxSets : \E roots \in [1..n -> ConsumerRoot] : With(r, roots)
  BY <1>6, WithLook
<1> QED BY <1>1, <1>2, <1>3, <1>4, <1>5, <1>6, FirstAccessLook, MountNextLook, StartMergeLook, BuiltLook
        DEF LookupNext

\* Before the first access there is nothing.
LEMMA InitLook == LookupInit => LookInv
<1> SUFFICES ASSUME LookupInit PROVE LookInv
  OBVIOUS
<1>1. /\ lists = <<>> /\ lookups = <<>> /\ calls = <<>> /\ building = Idle /\ phase = "idle" /\ bundle \in Bundles
  BY DEF LookupInit, Init
<1>2. IsSeq(<<>>) /\ Len(<<>>) = 0
  <2>1. <<>> \in Seq({})
    BY EmptySeq
  <2> QED BY <2>1, EmptySeq DEF IsSeq
<1> QED BY <1>1, <1>2 DEF LookInv, LookupsOver, BuildingOver

\* For every bundle, all sets and all calls: a lookup is over the sets it was
\* built for, in their order, and no later with() on it, finished or failed,
\* changes the list it reads.
THEOREM LookupsStayOverTheirSets == LookupSpec => []OverItsSets
<1>1. LookupInit => LookInv
  BY InitLook
<1>2. LookInv => OverItsSets
  <2> SUFFICES ASSUME LookInv, NEW l \in DOMAIN lookups
               PROVE  lists[lookups[l].list] = [k \in DOMAIN lookups[l].roots |-> MountAt(lookups[l].roots, k)]
    BY DEF OverItsSets
  <2>1. l \in 1..Len(lookups)
    BY SeqFacts DEF LookInv
  <2>2. /\ lookups[l].roots \in Seq(Root)
        /\ lists[lookups[l].list] = MountsOf(lookups[l].roots, Len(lookups[l].roots))
    BY <2>1 DEF LookInv, LookupsOver
  <2>3. DOMAIN lookups[l].roots = 1..Len(lookups[l].roots)
    BY <2>2, LenProperties
  <2> QED BY <2>2, <2>3 DEF MountsOf
<1> QED BY <1>1, <1>2, NextLook, PTL DEF LookupSpec

-----------------------------------------------------------------------------
(* The set a call fails on.                                                *)

\* The k-th set of a call cannot be mounted behind its predecessors.
Bad(roots, k) ==
  \/ LoadFailure(Sets[roots[k]], DeclaredBefore(roots, k)) # "none"
  \/ roots = bundle.roots /\ Sets[roots[k]].verification = "none"
  \/ roots = bundle.roots /\ k = 1 /\ ~GeneratedRules(EntriesOf(Sets[roots[k]], TRUE))

AllGood(roots, n) == \A k \in 1..n : ~Bad(roots, k)

FirstBad(roots, k) == k \in 1..Len(roots) /\ Bad(roots, k) /\ AllGood(roots, k - 1)

Absent(roots, k) == Sets[roots[k]].missing

\* A call ends as its sets say it must.
RightOutcome(call) ==
  (call.roots = bundle.roots => bundle.mapping) /\ call.outcome # "unusable" =>
    /\ call.outcome = "not found" <=> \E k : FirstBad(call.roots, k) /\ Absent(call.roots, k)
    /\ call.outcome = "built" => \A k : ~FirstBad(call.roots, k)

\* A sequence that begins with the sets of the bundle.
OnBundle(roots) ==
  /\ Len(bundle.roots) <= Len(roots)
  /\ \A k \in 1..Len(bundle.roots) : roots[k] = bundle.roots[k]

\* How many sets the call under way has mounted.
Place == Len(building.roots) - Len(building.left)

\* A lookup is over sets that could be mounted, the bundled ones first, and so
\* is what a call under way has mounted; the vocabulary it reads the next set
\* with is theirs.
FailInv ==
  /\ \A c \in 1..Len(calls) : calls[c].roots \in Seq(Root) /\ RightOutcome(calls[c])
  /\ \A l \in 1..Len(lookups) :
       OnBundle(lookups[l].roots) /\ AllGood(lookups[l].roots, Len(lookups[l].roots))
  /\ building # Idle =>
       /\ AllGood(building.roots, Place)
       /\ building.vocabulary = DeclaredBefore(building.roots, Place + 1)
       /\ lookups = <<>> => building.roots = bundle.roots
       /\ lookups # <<>> => OnBundle(building.roots) /\ Len(bundle.roots) <= Place

-----------------------------------------------------------------------------
\* There is one first bad set.
LEMMA OneFirstBad ==
  ASSUME NEW roots, NEW k, NEW l, Len(roots) \in Nat, FirstBad(roots, k), FirstBad(roots, l)
  PROVE  k = l
<1>1. k \in 1..Len(roots) /\ l \in 1..Len(roots) /\ Bad(roots, k) /\ Bad(roots, l)
  BY DEF FirstBad
<1>2. ~(k \in 1..(l - 1)) /\ ~(l \in 1..(k - 1))
  BY <1>1 DEF FirstBad, AllGood
<1> QED BY <1>1, <1>2

\* With every set good there is no first bad one.
LEMMA NoFirstBad ==
  ASSUME NEW roots, Len(roots) \in Nat, AllGood(roots, Len(roots))
  PROVE  \A k : ~FirstBad(roots, k)
BY DEF AllGood, FirstBad

\* A call that ends is recorded, the others stay as they were.
LEMMA EndFails ==
  ASSUME LookInv, FailInv, NEW call, call.roots \in Seq(Root), RightOutcome(call),
         calls' = Append(calls, call), bundle' = bundle
  PROVE  \A c \in 1..Len(calls') : calls'[c].roots \in Seq(Root) /\ (RightOutcome(calls[c]))'
<1>1. /\ Len(calls) \in Nat /\ Len(calls') = Len(calls) + 1
      /\ \A c \in 1..Len(calls) : calls'[c] = calls[c]
      /\ calls'[Len(calls) + 1] = call
  BY Appended DEF LookInv
<1> SUFFICES ASSUME NEW c \in 1..(Len(calls) + 1)
             PROVE  calls'[c].roots \in Seq(Root) /\ (RightOutcome(calls[c]))'
  BY <1>1
<1>2. calls'[c].roots \in Seq(Root) /\ RightOutcome(calls'[c])
  <2>1. CASE c = Len(calls) + 1
    BY <1>1, <2>1
  <2>2. CASE c \in 1..Len(calls)
    BY <1>1, <2>2 DEF FailInv
  <2> QED BY <1>1, <2>1, <2>2
<1>3. \A r, k : (FirstBad(r, k))' <=> FirstBad(r, k)
  BY DEF FirstBad, AllGood, Bad
<1> QED BY <1>2, <1>3 DEF RightOutcome

\* What a set may be does not change while the library runs.
LEMMA BadKept ==
  ASSUME bundle' = bundle
  PROVE  /\ \A r, k : (FirstBad(r, k))' <=> FirstBad(r, k)
         /\ \A r, k : (Bad(r, k))' <=> Bad(r, k)
         /\ \A r, n : (AllGood(r, n))' <=> AllGood(r, n)
         /\ \A r : (OnBundle(r))' <=> OnBundle(r)
         /\ \A e : (RightOutcome(e))' <=> RightOutcome(e)
<1>1. \A r, k : (Bad(r, k))' <=> Bad(r, k)
  BY DEF Bad
<1>2. \A r, n : (AllGood(r, n))' <=> AllGood(r, n)
  BY <1>1 DEF AllGood
<1>3. \A r, k : (FirstBad(r, k))' <=> FirstBad(r, k)
  BY <1>1, <1>2 DEF FirstBad
<1>4. \A r : (OnBundle(r))' <=> OnBundle(r)
  BY DEF OnBundle
<1> QED BY <1>1, <1>2, <1>3, <1>4 DEF RightOutcome

\* What the call under way has mounted and what is left of it.
LEMMA BuildingFacts ==
  ASSUME LookInv, building # Idle
  PROVE  /\ building.roots \in Seq(Root) /\ building.left \in Seq(Root) /\ building.roots # <<>>
         /\ Len(building.roots) \in Nat /\ Len(building.left) \in Nat /\ Place \in Nat
         /\ Place + Len(building.left) = Len(building.roots)
         /\ building.left = <<>> => Place = Len(building.roots)
         /\ building.left # <<>> => /\ Place + 1 \in 1..Len(building.roots) /\ Place < Len(building.roots)
                                    /\ Head(building.left) = building.roots[Place + 1]
                                    /\ Len(Tail(building.left)) = Len(building.left) - 1
<1> DEFINE a == Len(building.roots)
           b == Len(building.left)
<1>1. /\ building.roots \in Seq(Root) \ {<<>>} /\ building.left \in Seq(Root) /\ Place \in 0..a
      /\ \A i \in 1..b : building.left[i] = building.roots[Place + i]
  BY DEF LookInv, BuildingOver, Place
<1>2. a \in Nat /\ b \in Nat /\ Place = a - b
  BY <1>1, LenProperties DEF Place
<1>3. building.left = <<>> => b = 0
  BY <1>1, EmptySeq
<1>4. ASSUME building.left # <<>>
      PROVE  b > 0 /\ Head(building.left) = building.left[1] /\ Len(Tail(building.left)) = b - 1
  BY <1>1, <1>2, <1>4, EmptySeq, HeadTailProperties
<1> HIDE DEF a, b
<1>5. Place \in Nat /\ Place + b = a /\ (b = 0 => Place = a)
  BY <1>1, <1>2
<1>6. b > 0 => Place + 1 \in 1..a /\ Place < a /\ 1 \in 1..b
  BY <1>1, <1>2
<1>7. b > 0 => building.left[1] = building.roots[Place + 1]
  BY <1>1, <1>6
<1> QED BY <1>1, <1>2, <1>3, <1>4, <1>5, <1>6, <1>7 DEF a, b

\* The vocabulary behind one more set.
LEMMA OneMoreDeclared ==
  ASSUME NEW roots, NEW n \in Nat
  PROVE  DeclaredBefore(roots, (n + 1) + 1) = DeclaredBefore(roots, n + 1) \cup Sets[roots[n + 1]].declares
<1>1. (n + 1) - 1 = n /\ ((n + 1) + 1) - 1 = n + 1
  OBVIOUS
<1>2. DeclaredBefore(roots, (n + 1) + 1) = UNION {Sets[roots[j]].declares : j \in 1..(n + 1)}
  BY <1>1 DEF DeclaredBefore
<1>3. DeclaredBefore(roots, n + 1) = UNION {Sets[roots[j]].declares : j \in 1..n}
  BY <1>1 DEF DeclaredBefore
<1>4. \A j : j \in 1..(n + 1) <=> j \in 1..n \/ j = n + 1
  OBVIOUS
<1> QED BY <1>2, <1>3, <1>4

\* The vocabulary of a list of mounts is what their sets declare.
LEMMA DeclaredByMounts ==
  ASSUME NEW roots, NEW n \in Nat
  PROVE  VocabularyOf(MountsOf(roots, n)) = DeclaredBefore(roots, n + 1)
<1>1. DOMAIN MountsOf(roots, n) = 1..n /\ (n + 1) - 1 = n
  BY DEF MountsOf
<1>2. \A k \in 1..n : MountsOf(roots, n)[k].declares = Sets[roots[k]].declares
  BY DEF MountsOf, MountAt
<1> QED BY <1>1, <1>2 DEF VocabularyOf, DeclaredBefore

\* A set depends on what precedes it only.
LEMMA SameDeclared ==
  ASSUME NEW roots, NEW more, NEW n \in Nat, \A k \in 1..n : roots[k] = more[k]
  PROVE  \A k \in 1..(n + 1) : DeclaredBefore(roots, k) = DeclaredBefore(more, k)
<1>1. ASSUME NEW k \in 1..(n + 1), NEW j \in 1..(k - 1) PROVE roots[j] = more[j]
  <2>1. j \in 1..n
    OBVIOUS
  <2> QED BY <2>1
<1> QED BY <1>1 DEF DeclaredBefore

-----------------------------------------------------------------------------
\* One forth and one back.
LEMMA OneBack == \A a \in Nat : (a + 1) - 1 = a
OBVIOUS

\* The set that is read next is the first that cannot be mounted.
LEMMA MountFails ==
  ASSUME LookInv, FailInv, building # Idle, building.left # <<>>, NEW why, Fails(why),
         Bad(building.roots, Place + 1),
         why = "not found" <=> Absent(building.roots, Place + 1), why # "built"
  PROVE  FailInv'
<1> DEFINE call == [roots |-> building.roots, outcome |-> why]
           k == Place + 1
<1>1. bundle' = bundle
  BY DEF Fails
<1>2. /\ building.roots \in Seq(Root) /\ k \in 1..Len(building.roots) /\ Len(building.roots) \in Nat
      /\ k - 1 = Place
  <2>1. /\ building.roots \in Seq(Root) /\ Place + 1 \in 1..Len(building.roots)
        /\ Len(building.roots) \in Nat /\ Place \in Nat
    BY BuildingFacts
  <2> QED BY <2>1, OneBack
<1>3. AllGood(building.roots, k - 1)
  BY <1>2 DEF FailInv
<1>4. FirstBad(building.roots, k)
  BY <1>2, <1>3 DEF FirstBad
<1>5. RightOutcome(call)
  <2>1. call.roots = building.roots /\ call.outcome = why
    OBVIOUS
  <2>2. why = "not found" <=> Absent(building.roots, k)
    OBVIOUS
  <2> HIDE DEF call, k
  <2>3. \A l : FirstBad(building.roots, l) => l = k
    BY <1>2, <1>4, OneFirstBad
  <2> QED BY <1>4, <2>1, <2>2, <2>3 DEF RightOutcome
<1>6. calls' = Append(calls, call) /\ building' = Idle /\ lookups' = lookups
  BY DEF Fails
<1>7. call.roots \in Seq(Root)
  BY <1>2
<1> HIDE DEF call
<1>8. \A c \in 1..Len(calls') : calls'[c].roots \in Seq(Root) /\ (RightOutcome(calls[c]))'
  BY <1>1, <1>5, <1>6, <1>7, EndFails
<1> QED BY <1>1, <1>6, <1>8, BadKept DEF FailInv

\* The call under way ends on its next set, which cannot be mounted.
EndsOnBad(why) ==
  /\ why \in {"not found", "invalid"} /\ Fails(why) /\ Bad(building.roots, Place + 1)
  /\ why = "not found" <=> Absent(building.roots, Place + 1)

\* A set that is mounted was good, and one that fails was the first bad one.
LEMMA MountNextFails ==
  ASSUME LookInv, FailInv, MountNext
  PROVE  /\ FailInv'
         /\ \/ \E why : EndsOnBad(why)
            \/ building'.roots = building.roots /\ UNCHANGED <<bundle, lookups, calls>>
<1> DEFINE set == Sets[Head(building.left)]
           roots == building.roots
           n == Place
           failure == LoadFailure(set, building.vocabulary)
           generated == IsGenerated(n + 1)
<1>1. building # Idle /\ building.left # <<>>
  BY DEF MountNext, Idle
<1>2. /\ roots \in Seq(Root) /\ Len(roots) \in Nat /\ n \in Nat /\ n < Len(roots)
      /\ set = Sets[roots[n + 1]] /\ Len(building.left) \in Nat /\ n + Len(building.left) = Len(roots)
      /\ Len(Tail(building.left)) = Len(building.left) - 1
  BY <1>1, BuildingFacts
<1>3. /\ AllGood(roots, n) /\ building.vocabulary = DeclaredBefore(roots, n + 1)
      /\ lookups = <<>> => roots = bundle.roots
      /\ lookups # <<>> => OnBundle(roots) /\ Len(bundle.roots) <= n
  BY <1>1 DEF FailInv
<1>4. /\ failure = "not found" <=> Absent(roots, n + 1)
      /\ failure \in {"none", "not found", "invalid"}
  <2>1. /\ failure = "not found" <=> set.missing
        /\ failure \in {"none", "not found", "invalid"}
    BY DEF LoadFailure
  <2>2. set = Sets[roots[n + 1]]
    BY <1>2
  <2> HIDE DEF failure, set, roots, n
  <2> QED BY <2>1, <2>2 DEF Absent
<1>5. \/ failure # "none" /\ Fails(failure)
      \/ failure = "none" /\ Verification(set) = "none" /\ Fails("invalid")
      \/ /\ failure = "none" /\ generated /\ ~GeneratedRules(EntriesOf(set, generated))
         /\ Fails("invalid")
      \/ /\ failure = "none" /\ Verification(set) # "none"
         /\ ~(generated /\ ~GeneratedRules(EntriesOf(set, generated)))
         /\ building' = [building EXCEPT !.left = Tail(@), !.vocabulary = @ \cup set.declares]
         /\ UNCHANGED <<bundle, lookups, calls>>
  BY DEF MountNext, Place
<1>6. ASSUME NEW why, EndsOnBad(why) PROVE FailInv' /\ \E bad : EndsOnBad(bad)
  BY <1>1, <1>6, MountFails DEF EndsOnBad
<1>7. CASE failure # "none" /\ Fails(failure)
  <2>1. Bad(roots, n + 1)
    BY <1>2, <1>3, <1>7 DEF Bad
  <2> HIDE DEF failure
  <2>2. PICK why \in {"not found", "invalid"} : why = failure
    BY <1>4, <1>7
  <2>3. Fails(why) /\ (why = "not found" <=> Absent(roots, n + 1))
    BY <1>4, <1>7, <2>2
  <2>4. EndsOnBad(why)
    BY <2>1, <2>2, <2>3 DEF EndsOnBad
  <2> QED BY <1>6, <2>4
<1>8. ASSUME Bad(roots, n + 1), failure = "none", Fails("invalid") PROVE EndsOnBad("invalid")
  <2>1. ~Absent(roots, n + 1)
    BY <1>4, <1>8
  <2> QED BY <1>8, <2>1 DEF EndsOnBad
<1>9. CASE failure = "none" /\ Verification(set) = "none" /\ Fails("invalid")
  <2>1. lookups = <<>> /\ set.verification = "none"
    BY <1>9 DEF Verification
  <2>2. Bad(roots, n + 1)
    BY <1>2, <1>3, <2>1 DEF Bad
  <2> QED BY <1>6, <1>8, <1>9, <2>2
<1>10. CASE /\ failure = "none" /\ generated /\ ~GeneratedRules(EntriesOf(set, generated))
           /\ Fails("invalid")
  <2>1. generated = TRUE /\ lookups = <<>> /\ n + 1 = 1
    BY <1>10 DEF IsGenerated
  <2>2. ~GeneratedRules(EntriesOf(set, TRUE))
    BY <1>10, <2>1
  <2>3. Sets[roots[n + 1]] = set /\ roots = bundle.roots
    BY <1>2, <1>3, <2>1
  <2>4. Bad(roots, n + 1)
    <3> HIDE DEF set, roots, generated, n
    <3> QED BY <2>1, <2>2, <2>3 DEF Bad
  <2> QED BY <1>6, <1>8, <1>10, <2>4
<1>11. CASE /\ failure = "none" /\ Verification(set) # "none"
           /\ ~(generated /\ ~GeneratedRules(EntriesOf(set, generated)))
           /\ building' = [building EXCEPT !.left = Tail(@), !.vocabulary = @ \cup set.declares]
           /\ UNCHANGED <<bundle, lookups, calls>>
  <2>1. ~Bad(roots, n + 1)
    <3>1. LoadFailure(Sets[roots[n + 1]], DeclaredBefore(roots, n + 1)) = "none"
      BY <1>2, <1>3, <1>11
    <3>2. CASE lookups = <<>>
      <4>1. Sets[roots[n + 1]].verification # "none"
        BY <1>2, <1>11, <3>2 DEF Verification
      <4>2. ASSUME n + 1 = 1 PROVE GeneratedRules(EntriesOf(Sets[roots[n + 1]], TRUE))
        <5>1. generated = TRUE
          BY <3>2, <4>2 DEF IsGenerated
        <5> QED BY <1>2, <1>11, <5>1
      <4> QED BY <3>1, <4>1, <4>2 DEF Bad
    <3>3. CASE lookups # <<>>
      <4>1. roots # bundle.roots
        BY <1>2, <1>3, <3>3
      <4> QED BY <3>1, <4>1 DEF Bad
    <3> QED BY <3>2, <3>3
  <2>2. /\ building'.roots = roots /\ building'.left = Tail(building.left)
        /\ building'.vocabulary = building.vocabulary \cup set.declares
    BY <1>1, <1>11 DEF LookInv, BuildingOver
  <2>3. Place' = n + 1
    <3>1. Place' = Len(roots) - Len(Tail(building.left))
      BY <2>2 DEF Place
    <3>2. Place' = Len(roots) - (Len(building.left) - 1)
      BY <1>2, <3>1
    <3> HIDE DEF n, roots
    <3>3. PICK a \in Nat, b \in Nat, c \in Nat : a = Len(roots) /\ b = Len(building.left) /\ c = n
      BY <1>2
    <3>4. c + b = a
      BY <1>2, <3>3
    <3>5. a - (b - 1) = c + 1
      BY <3>4
    <3> QED BY <3>2, <3>3, <3>5
  <2>4. AllGood(roots, n + 1)
    <3>1. \A k \in 1..(n + 1) : k \in 1..n \/ k = n + 1
      BY <1>2
    <3> QED BY <1>3, <2>1, <3>1 DEF AllGood
  <2>5. building'.vocabulary = DeclaredBefore(roots, (n + 1) + 1)
    BY <1>2, <1>3, <2>2, OneMoreDeclared
  <2>6. lookups' = lookups /\ calls' = calls /\ bundle' = bundle
    BY <1>11
  <2>7. lookups # <<>> => Len(bundle.roots) <= n + 1
    <3>1. Len(bundle.roots) \in Nat
      <4>1. bundle.roots \in Seq(Root)
        BY LookupAssumption DEF LookInv
      <4> QED BY <4>1, LenProperties
    <3> QED BY <1>2, <1>3, <3>1
  <2> HIDE DEF n, roots, set, failure, generated
  <2>8. FailInv'
    BY <1>3, <2>2, <2>3, <2>4, <2>5, <2>6, <2>7, BadKept DEF FailInv
  <2> QED BY <2>2, <2>6, <2>8 DEF roots
<1> HIDE DEF roots, set, failure, generated, n
<1> QED BY <1>5, <1>7, <1>9, <1>10, <1>11

\* A call that merges has mounted all its sets.
AllMounted ==
  /\ building.roots \in Seq(Root) /\ OnBundle(building.roots)
  /\ AllGood(building.roots, Len(building.roots)) /\ \A k : ~FirstBad(building.roots, k)

\* A call that merges has mounted all its sets.
LEMMA MergesAll ==
  ASSUME LookInv, FailInv, building # Idle, phase # "idle"
  PROVE  AllMounted
<1>1. building.left = <<>>
  BY DEF LookInv, BuildingOver
<1>2. building.roots \in Seq(Root) /\ Len(building.roots) \in Nat /\ Place = Len(building.roots)
  BY <1>1, BuildingFacts
<1>3. AllGood(building.roots, Len(building.roots)) /\ \A k : ~FirstBad(building.roots, k)
  BY <1>2, NoFirstBad DEF FailInv
<1>4. OnBundle(building.roots)
  BY <1>2 DEF FailInv, OnBundle
<1> QED BY <1>2, <1>3, <1>4 DEF AllMounted

\* A call that has mounted all its sets can only be refused by the merge.
LEMMA RefusedFails == ASSUME LookInv, FailInv, Refused PROVE FailInv'
<1> DEFINE call == [roots |-> building.roots, outcome |-> "invalid"]
<1>1. /\ building # Idle /\ phase = "failed" /\ calls' = Append(calls, call)
      /\ building' = Idle /\ lookups' = lookups /\ bundle' = bundle
  BY DEF Refused, Fails
<1>2. AllMounted
  BY <1>1, MergesAll
<1>3. RightOutcome(call)
  BY <1>2 DEF AllMounted, RightOutcome
<1>4. call.roots \in Seq(Root)
  BY <1>2 DEF AllMounted
<1> HIDE DEF call
<1>5. \A c \in 1..Len(calls') : calls'[c].roots \in Seq(Root) /\ (RightOutcome(calls[c]))'
  BY <1>1, <1>3, <1>4, EndFails
<1> QED BY <1>1, <1>5, BadKept DEF FailInv

\* A call that succeeds had no bad set.
LEMMA BuiltFails == ASSUME LookInv, FailInv, Built PROVE FailInv'
<1> DEFINE call == [roots |-> building.roots, outcome |-> "built"]
           answers == [records |-> [k \in DOMAIN records |-> Answer(records[k])],
                       classes |-> classes, names |-> names, vocabulary |-> vocabulary]
           new == [roots |-> building.roots, list |-> building.list, answers |-> answers]
<1>1. /\ building # Idle /\ phase = "done" /\ calls' = Append(calls, call)
      /\ building' = Idle /\ lookups' = Append(lookups, new) /\ bundle' = bundle
  BY DEF Built
<1>2. AllMounted
  BY <1>1, MergesAll
<1>3. RightOutcome(call)
  BY <1>2 DEF AllMounted, RightOutcome
<1>4. call.roots \in Seq(Root) /\ new.roots = building.roots
  BY <1>2 DEF AllMounted
<1> HIDE DEF call, answers, new
<1>5. \A c \in 1..Len(calls') : calls'[c].roots \in Seq(Root) /\ (RightOutcome(calls[c]))'
  BY <1>1, <1>3, <1>4, EndFails
<1>6. /\ Len(lookups) \in Nat /\ Len(lookups') = Len(lookups) + 1
      /\ \A l \in 1..Len(lookups) : lookups'[l] = lookups[l]
      /\ lookups'[Len(lookups) + 1] = new
  BY <1>1, Appended DEF LookInv
<1>7. ASSUME NEW l \in 1..(Len(lookups) + 1)
      PROVE  OnBundle(lookups'[l].roots) /\ AllGood(lookups'[l].roots, Len(lookups'[l].roots))
  <2>1. CASE l = Len(lookups) + 1
    BY <1>2, <1>4, <1>6, <2>1 DEF AllMounted
  <2>2. CASE l \in 1..Len(lookups)
    BY <1>6, <2>2 DEF FailInv
  <2> QED BY <1>6, <2>1, <2>2
<1> QED BY <1>1, <1>5, <1>6, <1>7, BadKept DEF FailInv

\* with() starts behind the sets of its receiver, which could be mounted.
LEMMA WithFails ==
  ASSUME LookInv, FailInv, NEW r \in DOMAIN lookups, NEW n \in 0..MaxSets,
         NEW roots \in [1..n -> ConsumerRoot], With(r, roots)
  PROVE  FailInv'
<1> DEFINE own == lookups[r].roots
           all == own \o roots
<1>1. /\ lookups' = lookups /\ bundle' = bundle /\ calls' = calls
      /\ building'.roots = all /\ building'.left = roots
      /\ building'.vocabulary = VocabularyOf(lists[lookups[r].list])
  BY DEF With, CopiedList
<1>2. r \in 1..Len(lookups) /\ lookups # <<>>
  BY SeqFacts, EmptySeq DEF LookInv
<1>3. /\ own \in Seq(Root) \ {<<>>} /\ lists[lookups[r].list] = MountsOf(own, Len(own))
      /\ OnBundle(own) /\ AllGood(own, Len(own))
  BY <1>2 DEF LookInv, LookupsOver, FailInv
<1>4. roots \in Seq(Root) /\ Len(roots) \in Nat /\ Len(own) \in Nat
  <2>1. n \in Nat /\ roots \in [1..n -> Root]
    BY LookupAssumption
  <2>2. roots \in Seq(Root)
    BY <2>1, SeqOf
  <2> QED BY <1>3, <2>2, LenProperties
<1>5. bundle.roots \in Seq(Root) /\ Len(bundle.roots) \in Nat
  <2>1. bundle.roots \in Seq(Root)
    BY LookupAssumption DEF LookInv
  <2> QED BY <2>1, LenProperties
<1> HIDE DEF own
<1>6. /\ all \in Seq(Root) /\ Len(all) = Len(own) + Len(roots) /\ \A i \in 1..Len(own) : all[i] = own[i]
  BY <1>3, <1>4, ConcatProperties
<1> HIDE DEF all
<1>7. Place' = Len(own)
  <2>1. Place' = Len(all) - Len(roots)
    BY <1>1 DEF Place
  <2> QED BY <1>4, <1>6, <2>1
<1>8. OnBundle(all)
  <2>1. /\ Len(bundle.roots) <= Len(own) /\ \A k \in 1..Len(bundle.roots) : own[k] = bundle.roots[k]
    BY <1>3 DEF OnBundle
  <2>2. Len(bundle.roots) <= Len(all)
    BY <1>4, <1>5, <1>6, <2>1
  <2>3. \A k \in 1..Len(bundle.roots) : k \in 1..Len(own)
    BY <1>4, <1>5, <2>1
  <2> QED BY <1>6, <2>1, <2>2, <2>3 DEF OnBundle
<1>9. all = bundle.roots => own = bundle.roots
  <2>1. ASSUME all = bundle.roots PROVE own = bundle.roots
    <3>1. Len(bundle.roots) <= Len(own) /\ Len(bundle.roots) = Len(own) + Len(roots)
      BY <1>3, <1>6, <2>1 DEF OnBundle
    <3>2. Len(own) = Len(bundle.roots)
      BY <1>4, <1>5, <3>1
    <3>3. \A i \in 1..Len(own) : own[i] = bundle.roots[i]
      BY <1>6, <2>1
    <3> QED BY <1>3, <1>5, <3>2, <3>3, SeqEqual
  <2> QED BY <2>1
<1>10. AllGood(all, Len(own))
  <2> SUFFICES ASSUME NEW k \in 1..Len(own) PROVE ~Bad(all, k)
    BY DEF AllGood
  <2>1. ~Bad(own, k) /\ all[k] = own[k]
    BY <1>3, <1>6 DEF AllGood
  <2>2. DeclaredBefore(all, k) = DeclaredBefore(own, k)
    <3>1. k - 1 <= Len(own) /\ 1..(k - 1) \subseteq 1..Len(own)
      BY <1>4
    <3>2. \A j \in 1..(k - 1) : all[j] = own[j]
      BY <1>6, <3>1
    <3> QED BY <3>2 DEF DeclaredBefore
  <2> QED BY <1>9, <2>1, <2>2 DEF Bad
<1>11. building'.vocabulary = DeclaredBefore(all, Len(own) + 1)
  <2>1. building'.vocabulary = DeclaredBefore(own, Len(own) + 1)
    BY <1>1, <1>3, <1>4, DeclaredByMounts
  <2>2. Len(own) + 1 \in 1..(Len(own) + 1)
    BY <1>4
  <2>3. \A i \in 1..Len(own) : all[i] = own[i]
    BY <1>6
  <2>4. DeclaredBefore(all, Len(own) + 1) = DeclaredBefore(own, Len(own) + 1)
    BY <1>4, <2>2, <2>3, SameDeclared
  <2> QED BY <2>1, <2>4
<1>12. Len(bundle.roots) <= Len(own)
  BY <1>3 DEF OnBundle
<1> QED BY <1>1, <1>2, <1>7, <1>8, <1>10, <1>11, <1>12, BadKept DEF FailInv

\* The first access starts with nothing mounted.
LEMMA FirstAccessFails == ASSUME LookInv, FailInv, FirstAccess PROVE FailInv'
<1>1. /\ building = Idle /\ calls = <<>> /\ lookups = <<>>
      /\ lookups' = lookups /\ bundle' = bundle /\ calls' = calls
      /\ building'.roots = bundle.roots /\ building'.left = bundle.roots /\ building'.vocabulary = {}
  BY DEF FirstAccess, Free, LookInv
<1>2. bundle.roots \in Seq(Root) /\ Len(bundle.roots) \in Nat
  <2>1. bundle.roots \in Seq(Root)
    BY LookupAssumption DEF LookInv
  <2> QED BY <2>1, LenProperties
<1>3. Place' = 0
  <2>1. Place' = Len(bundle.roots) - Len(bundle.roots)
    BY <1>1 DEF Place
  <2> QED BY <1>2, <2>1
<1>4. DeclaredBefore(bundle.roots, 0 + 1) = {}
  BY DEF DeclaredBefore
<1>5. AllGood(bundle.roots, 0)
  BY DEF AllGood
<1> QED BY <1>1, <1>3, <1>4, <1>5, BadKept DEF FailInv

\* Every step keeps that calls fail on their first bad set.
LEMMA NextFails == LookInv /\ FailInv /\ [LookupNext]_allVars => FailInv'
<1> SUFFICES ASSUME LookInv, FailInv, [LookupNext]_allVars PROVE FailInv'
  OBVIOUS
<1>1. CASE AccessAfterFailure
  <2> DEFINE call == [roots |-> bundle.roots, outcome |-> "unusable"]
  <2>1. /\ lookups' = lookups /\ bundle' = bundle /\ building' = building /\ calls' = Append(calls, call)
        /\ building = Idle
    BY <1>1 DEF AccessAfterFailure, Free
  <2>2. call.roots \in Seq(Root) /\ RightOutcome(call)
    BY LookupAssumption DEF LookInv, RightOutcome
  <2> HIDE DEF call
  <2>3. \A c \in 1..Len(calls') : calls'[c].roots \in Seq(Root) /\ (RightOutcome(calls[c]))'
    BY <2>1, <2>2, EndFails
  <2> QED BY <2>1, <2>3, BadKept DEF FailInv
<1>2. CASE MappingMissing
  <2> DEFINE call == [roots |-> building.roots, outcome |-> "not found"]
  <2>1. /\ building # Idle /\ lookups = <<>> /\ ~bundle.mapping
        /\ lookups' = lookups /\ bundle' = bundle /\ building' = Idle /\ calls' = Append(calls, call)
    <3>1. building.left # <<>>
      BY <1>2 DEF MappingMissing
    <3>2. building # Idle
      BY <3>1 DEF Idle
    <3> QED BY <1>2, <3>2 DEF MappingMissing, Fails
  <2>2. call.roots = building.roots /\ building.roots = bundle.roots /\ bundle.roots \in Seq(Root)
    BY <2>1, LookupAssumption DEF LookInv, FailInv
  <2> HIDE DEF call
  <2>3. RightOutcome(call)
    BY <2>1, <2>2 DEF RightOutcome
  <2>4. \A c \in 1..Len(calls') : calls'[c].roots \in Seq(Root) /\ (RightOutcome(calls[c]))'
    BY <2>1, <2>2, <2>3, EndFails
  <2> QED BY <2>1, <2>4, BadKept DEF FailInv
<1>3. CASE StartMerge
  <2>1. /\ lookups' = lookups /\ bundle' = bundle /\ calls' = calls /\ building # Idle
        /\ building'.roots = building.roots /\ building'.left = building.left
        /\ building'.vocabulary = building.vocabulary
    BY <1>3 DEF StartMerge, LookInv, BuildingOver
  <2>2. Place' = Place
    BY <2>1 DEF Place
  <2> QED BY <2>1, <2>2, BadKept DEF FailInv
<1>4. CASE MergeStep \/ UNCHANGED allVars
  <2>1. /\ lookups' = lookups /\ bundle' = bundle /\ calls' = calls /\ building' = building
    BY <1>4 DEF MergeStep, allVars, callVars
  <2>2. Place' = Place
    BY <2>1 DEF Place
  <2> QED BY <2>1, <2>2, BadKept DEF FailInv
<1>5. CASE \E r \in DOMAIN lookups, n \in 0..MaxSets : \E roots \in [1..n -> ConsumerRoot] : With(r, roots)
  BY <1>5, WithFails
<1> QED BY <1>1, <1>2, <1>3, <1>4, <1>5, FirstAccessFails, MountNextFails, RefusedFails, BuiltFails
        DEF LookupNext

\* For every bundle, all sets and all calls: a call fails on the first set that
\* cannot be mounted behind its predecessors, as not found exactly when a file
\* of that set is missing, and with no such set only the merge can refuse it.
THEOREM CallsFailOnFirstBadSet == LookupSpec => []FailsOnFirstBadSet
<1>1. LookupInit => LookInv /\ FailInv
  <2> SUFFICES ASSUME LookupInit PROVE LookInv /\ FailInv
    OBVIOUS
  <2>1. LookInv
    BY InitLook
  <2>2. lookups = <<>> /\ calls = <<>> /\ building = Idle /\ Len(<<>>) = 0
    BY EmptySeq DEF LookupInit
  <2> QED BY <2>1, <2>2 DEF FailInv
<1>2. LookInv /\ FailInv => FailsOnFirstBadSet
  <2> SUFFICES ASSUME LookInv, FailInv, NEW c \in DOMAIN calls,
                      calls[c].roots = bundle.roots => bundle.mapping, calls[c].outcome # "unusable"
               PROVE  LET roots == calls[c].roots
                          bundled == roots = bundle.roots
                          bad(k) == \/ LoadFailure(Sets[roots[k]], DeclaredBefore(roots, k)) # "none"
                                    \/ bundled /\ Sets[roots[k]].verification = "none"
                                    \/ bundled /\ k = 1 /\ ~GeneratedRules(EntriesOf(Sets[roots[k]], TRUE))
                          firstBad == {k \in DOMAIN roots : bad(k) /\ \A j \in 1..(k - 1) : ~bad(j)}
                      IN /\ calls[c].outcome = "not found" <=> \E k \in firstBad : Sets[roots[k]].missing
                         /\ firstBad # {} => calls[c].outcome # "built"
    BY DEF FailsOnFirstBadSet
  <2> DEFINE roots == calls[c].roots
  <2>1. c \in 1..Len(calls)
    BY SeqFacts DEF LookInv
  <2>2. roots \in Seq(Root) /\ RightOutcome(calls[c])
    BY <2>1 DEF FailInv
  <2>3. DOMAIN roots = 1..Len(roots)
    BY <2>2, LenProperties
  <2>4. /\ calls[c].outcome = "not found" <=> \E k : FirstBad(roots, k) /\ Absent(roots, k)
        /\ calls[c].outcome = "built" => \A k : ~FirstBad(roots, k)
    BY <2>2 DEF RightOutcome
  <2> DEFINE first == {k \in DOMAIN roots : Bad(roots, k) /\ \A j \in 1..(k - 1) : ~Bad(roots, j)}
  <2>5. \A k : FirstBad(roots, k) <=> k \in first
    BY <2>3 DEF FirstBad, AllGood
  <2>6. /\ calls[c].outcome = "not found" <=> \E k \in first : Sets[roots[k]].missing
        /\ first # {} => calls[c].outcome # "built"
    <3> HIDE DEF roots, first
    <3> QED BY <2>4, <2>5 DEF Absent
  <2> QED BY <2>6 DEF Bad
<1> QED BY <1>1, <1>2, NextLook, NextFails, PTL DEF LookupSpec

-----------------------------------------------------------------------------
(* The merges that lookups make.                                           *)

\* The entries of a set as they are mounted.
MountedEntry == [entry : Entry, extension : STRING \cup {"none"}]

\* The entries of a document as they are mounted.
EntriesOfDocument(d, generated) ==
  [j \in 1..Len(d.entries) |->
     [entry |-> d.entries[j], extension |-> IF generated THEN d.extension ELSE "none"]]

LEMMA DocumentTyped ==
  ASSUME NEW set \in SetOnDisk, NEW g \in BOOLEAN, NEW k \in 1..Len(set.documents)
  PROVE  EntriesOfDocument(set.documents[k], g) \in Seq(MountedEntry)
<1> DEFINE d == set.documents[k]
<1>1. set.documents \in Seq([extension : STRING, entries : Seq(Entry)])
  BY DEF SetOnDisk
<1>2. d \in [extension : STRING, entries : Seq(Entry)]
  BY <1>1, ElementOfSeq
<1> HIDE DEF d
<1>3. d.extension \in STRING /\ d.entries \in Seq(Entry)
  BY <1>2
<1>4. Len(d.entries) \in Nat /\ \A j \in 1..Len(d.entries) : d.entries[j] \in Entry
  BY <1>3, LenProperties, ElementOfSeq
<1> DEFINE x == IF g THEN d.extension ELSE "none"
<1>5. x \in STRING \cup {"none"}
  BY <1>3
<1>6. EntriesOfDocument(d, g) \in [1..Len(d.entries) -> MountedEntry]
  <2>1. EntriesOfDocument(d, g) = [j \in 1..Len(d.entries) |-> [entry |-> d.entries[j], extension |-> x]]
    BY DEF EntriesOfDocument
  <2> HIDE DEF x
  <2>2. \A j \in 1..Len(d.entries) : [entry |-> d.entries[j], extension |-> x] \in MountedEntry
    BY <1>4, <1>5 DEF MountedEntry
  <2> QED BY <2>1, <2>2
<1>7. EntriesOfDocument(d, g) \in Seq(MountedEntry)
  BY <1>4, <1>6, SeqOf
<1> QED BY <1>7 DEF d

\* The entries of a set are listed document by document.
LEMMA EntriesTyped ==
  ASSUME NEW set \in SetOnDisk, NEW g \in BOOLEAN
  PROVE  EntriesOf(set, g) \in Seq(MountedEntry)
<1> DEFINE n == Len(set.documents)
           D(k) == EntriesOfDocument(set.documents[k], g)
           G(f) == [k \in 0..n |-> IF k = 0 THEN <<>> ELSE f[k - 1] \o D(k)]
           upTo == CHOOSE f : f = G(f)
           T == MountedEntry
<1>1. EntriesOf(set, g) = upTo[n]
  BY DEF EntriesOf, EntriesOfDocument
<1>2. n \in Nat
  <2>1. set.documents \in Seq([extension : STRING, entries : Seq(Entry)])
    BY DEF SetOnDisk
  <2> QED BY <2>1, LenProperties
<1>3. \A k \in 1..n : D(k) \in Seq(T)
  BY DocumentTyped
<1> HIDE DEF n, D, T
<1>4. PICK f : f \in [0..n -> Seq(T)] /\ f = G(f)
  <2>1. PICK next : next = [x \in Seq(T) \X (1..n) |-> x[1] \o D(x[2])]
    OBVIOUS
  <2>2. \A t \in Seq(T), k \in 1..n : <<t, k>> \in Seq(T) \X (1..n) /\ next[<<t, k>>] = t \o D(k)
    BY <2>1
  <2>3. next \in [Seq(T) \X (1..n) -> Seq(T)]
    <3>1. ASSUME NEW x \in Seq(T) \X (1..n) PROVE x[1] \o D(x[2]) \in Seq(T)
      <4>1. x[1] \in Seq(T) /\ x[2] \in 1..n
        OBVIOUS
      <4>2. D(x[2]) \in Seq(T)
        BY <1>3, <4>1
      <4> QED BY <4>1, <4>2, ConcatProperties
    <3> QED BY <2>1, <3>1
  <2>4. PICK f \in [0..n -> Seq(T)] : Follows(f, <<>>, next, n)
    <3>1. <<>> \in Seq(T)
      BY EmptySeq
    <3> QED BY <1>2, <2>3, <3>1, Recursion
  <2>5. \A k \in 0..n : f[k] = IF k = 0 THEN <<>> ELSE f[k - 1] \o D(k)
    <3> SUFFICES ASSUME NEW k \in 0..n, k # 0 PROVE f[k] = f[k - 1] \o D(k)
      BY <2>4 DEF Follows
    <3>1. k \in 1..n /\ k - 1 \in 0..n
      BY <1>2
    <3>2. f[k - 1] \in Seq(T)
      BY <3>1
    <3> QED BY <2>2, <2>4, <3>1, <3>2 DEF Follows
  <2>6. f = [k \in 0..n |-> f[k]]
    OBVIOUS
  <2> QED BY <2>4, <2>5, <2>6
<1>5. upTo = G(upTo)
  <2> HIDE DEF G
  <2> QED BY <1>4
<1> HIDE DEF upTo
<1>6. \A k \in 0..n : upTo[k] = IF k = 0 THEN <<>> ELSE upTo[k - 1] \o D(k)
  <2>1. PICK u : u = upTo
    OBVIOUS
  <2>2. \A k \in 0..n : u[k] = G(u)[k]
    <3> HIDE DEF G
    <3> QED BY <1>5, <2>1
  <2>3. \A k \in 0..n : G(u)[k] = IF k = 0 THEN <<>> ELSE u[k - 1] \o D(k)
    OBVIOUS
  <2> HIDE DEF G
  <2> QED BY <2>1, <2>2, <2>3
<1>7. 0..n \subseteq {k \in 0..n : upTo[k] \in Seq(T)}
  <2> DEFINE U == {k \in 0..n : upTo[k] \in Seq(T)}
  <2>1. 0 \in U
    <3>1. 0 \in 0..n /\ <<>> \in Seq(T)
      BY <1>2, EmptySeq
    <3> HIDE DEF G
    <3> QED BY <1>6, <3>1
  <2>2. ASSUME NEW k \in 1..n, k - 1 \in U PROVE k \in U
    <3>1. k \in 0..n /\ k # 0
      BY <1>2
    <3>2. upTo[k] = upTo[k - 1] \o D(k) /\ upTo[k - 1] \in Seq(T) /\ D(k) \in Seq(T)
      BY <1>3, <1>6, <2>2, <3>1
    <3>3. upTo[k] \in Seq(T)
      BY <3>2, ConcatProperties
    <3> QED BY <3>1, <3>3
  <2>3. 0..n \subseteq U
    <3> HIDE DEF U
    <3> QED BY <1>2, <2>1, <2>2, UpTo
  <2> QED BY <2>3
<1>8. upTo[n] \in Seq(T)
  BY <1>2, <1>7
<1> QED BY <1>1, <1>8 DEF T

\* What is mounted of roots is a sequence of mounts.
LEMMA MountsTyped ==
  ASSUME NEW roots \in Seq(Root)
  PROVE  MountsOf(roots, Len(roots)) \in Seq(Mount) /\ Len(MountsOf(roots, Len(roots))) = Len(roots)
<1>1. ASSUME NEW k \in 1..Len(roots) PROVE MountAt(roots, k) \in Mount
  <2>1. roots[k] \in Root
    BY ElementOfSeq
  <2> DEFINE set == Sets[roots[k]]
             g == k = 1
  <2>2. set \in SetOnDisk
    BY <2>1, LookupAssumption
  <2>3. set.verification \in DOMAIN Precedence \cup {"none"} /\ set.declares \in SUBSET STRING
    BY <2>2 DEF SetOnDisk
  <2>4. Precedence[IF set.verification = "none" THEN "manual" ELSE set.verification] \in Nat
    BY <2>3, LookupAssumption
  <2>5. EntriesOf(set, g) \in Seq(MountedEntry)
    BY <2>2, EntriesTyped
  <2> QED BY <2>3, <2>4, <2>5 DEF MountAt, Mount, MountedEntry
<1>2. Len(roots) \in Nat
  BY LenProperties
<1>3. MountsOf(roots, Len(roots)) \in [1..Len(roots) -> Mount]
  BY <1>1 DEF MountsOf
<1> QED BY <1>2, <1>3, SeqOf

\* A call merges its mounts, all of them.
LEMMA MergesItsMounts ==
  ASSUME LookInv, StartMerge
  PROVE  /\ building # Idle /\ building.roots \in Seq(Root)
         /\ Begin(MountsOf(building.roots, Len(building.roots)))
<1>1. building # Idle /\ building.left = <<>> /\ Begin(lists[building.list])
  BY DEF StartMerge
<1>2. building.roots \in Seq(Root) /\ Place = Len(building.roots)
  BY <1>1, BuildingFacts
<1>3. lists[building.list] = MountsOf(building.roots, Place)
  BY <1>1 DEF LookInv, BuildingOver, Place
<1> QED BY <1>1, <1>2, <1>3

\* Every merge of a lookup keeps what a merge keeps.
LEMMA NextMerging == LookInv /\ ResultInv /\ [LookupNext]_allVars => ResultInv'
<1> SUFFICES ASSUME LookInv, ResultInv, [LookupNext]_allVars PROVE ResultInv'
  OBVIOUS
<1>1. CASE StartMerge
  BY <1>1, MergesItsMounts, MountsTyped, BeginResult
<1>2. CASE MergeStep
  BY <1>2, NextResult DEF MergeStep, Next
<1>3. CASE Built \/ Refused
  <2>1. Discard
    BY <1>3 DEF Built, Refused
  <2>2. Init'
    BY <2>1 DEF Discard, Init
  <2> QED BY <2>2, InitResult, PTL
<1>4. CASE UNCHANGED vars
  BY <1>4, NextResult
<1> QED BY <1>1, <1>2, <1>3, <1>4
        DEF LookupNext, FirstAccess, MappingMissing, AccessAfterFailure, With, MountNext, allVars

\* For every bundle, all sets and all calls: each merge that a lookup makes
\* keeps what a merge promises.
THEOREM LookupsMergeAsPromised ==
  LookupSpec => [](InForceIsStrongest /\ MountOrder /\ OneRecordPerKey /\ ClassKeys /\ RefusedForAReason)
<1>1. LookupInit => LookInv /\ ResultInv
  BY InitLook, InitResult DEF LookupInit
<1>2. ResultInv => InForceIsStrongest /\ MountOrder /\ OneRecordPerKey /\ ClassKeys /\ RefusedForAReason
  BY ResultPromises
<1> QED BY <1>1, <1>2, NextLook, NextMerging, PTL DEF LookupSpec

-----------------------------------------------------------------------------
(* A merge is a function of its mounts.  Its actions choose nothing: the   *)
(* entry that is written next is the only weakest one.  What follows       *)
(* writes the step of each state down, as a function of that state.        *)

\* The state of the merge, as a value.
state == [phase |-> phase, mounts |-> mounts, step |-> step, vocabulary |-> vocabulary,
          mounted |-> mounted, subjects |-> subjects, conditions |-> conditions,
          inForce |-> inForce, written |-> written, records |-> records, classes |-> classes,
          names |-> names, aliases |-> aliases]

\* The operators of the merge in the state s.
At(s) == INSTANCE StubLookups WITH
  phase <- s.phase, mounts <- s.mounts, step <- s.step, vocabulary <- s.vocabulary,
  mounted <- s.mounted, subjects <- s.subjects, conditions <- s.conditions,
  inForce <- s.inForce, written <- s.written, records <- s.records, classes <- s.classes,
  names <- s.names, aliases <- s.aliases

\* The state a merge of ms begins in.
Begun(ms) ==
  [phase |-> "collect", mounts |-> ms, step |-> 1, vocabulary |-> {}, mounted |-> <<>>,
   subjects |-> <<>>, conditions |-> [s \in {} |-> <<>>], inForce |-> [k \in {} |-> <<>>],
   written |-> {}, records |-> <<>>, classes |-> <<>>, names |-> {}, aliases |-> <<>>]

\* s with the fields of d.
Changed(s, d) ==
  LET value(x) == IF x \in DOMAIN d THEN d[x] ELSE s[x]
  IN [phase |-> value("phase"), mounts |-> value("mounts"), step |-> value("step"),
      vocabulary |-> value("vocabulary"), mounted |-> value("mounted"), subjects |-> value("subjects"),
      conditions |-> value("conditions"), inForce |-> value("inForce"), written |-> value("written"),
      records |-> value("records"), classes |-> value("classes"), names |-> value("names"),
      aliases |-> value("aliases")]

\* Collect.
Collecting(s) ==
  LET m == s.mounts[s.step]
      more == [j \in 1..Len(m.entries) |->
                 [position |-> s.step, rank |-> m.rank, entry |-> m.entries[j].entry,
                  extension |-> m.entries[j].extension]]
  IN IF s.step <= Len(s.mounts)
     THEN Changed(s, [step |-> s.step + 1, vocabulary |-> s.vocabulary \cup m.declares,
                      mounted |-> s.mounted \o more])
     ELSE Changed(s, [step |-> 1, phase |-> "slots"])

\* AddSlot and SlotsAdded.
AddingSlot(s) ==
  LET e == s.mounted[s.step].entry
      k == <<e.subject, e.condition>>
      ss == IF e.subject \in DOMAIN s.conditions THEN s.subjects ELSE Append(s.subjects, e.subject)
      cs == [t \in DOMAIN s.conditions \cup {e.subject} |->
               CASE t # e.subject -> s.conditions[t]
                 [] t = e.subject /\ k \in DOMAIN s.inForce -> s.conditions[e.subject]
                 [] t = e.subject /\ e.subject \notin DOMAIN s.conditions -> <<e.condition>>
                 [] OTHER -> Append(s.conditions[e.subject], e.condition)]
      fs == [l \in DOMAIN s.inForce \cup {k} |->
               IF l \in DOMAIN s.inForce THEN s.inForce[l] ELSE [u \in {} |-> 0]]
  IN IF s.step > Len(s.mounted) THEN Changed(s, [step |-> 1, phase |-> "write"])
     ELSE IF ConditionalSignature(e) THEN Changed(s, [phase |-> "failed"])
     ELSE Changed(s, [step |-> s.step + 1, subjects |-> ss, conditions |-> cs, inForce |-> fs])

\* The weakest entry that is not written.
Weakest(s) ==
  CHOOSE i \in At(s)!Items \ s.written : \A j \in At(s)!Items \ s.written : ~At(s)!Weaker(j, i)

\* WriteNext and Written.
Writing(s) ==
  LET i == Weakest(s)
      fs == [s.inForce EXCEPT ![At(s)!Key(i)] =
               [u \in DOMAIN @ \cup s.mounted[i].entry.units |->
                  IF u \in s.mounted[i].entry.units THEN i ELSE @[u]]]
  IN IF s.written = At(s)!Items THEN Changed(s, [step |-> 1, phase |-> "assemble"])
     ELSE Changed(s, [written |-> s.written \cup {i}, inForce |-> fs])

\* The aliases of the class records, in the order of their keys.
ListedAliases(s) ==
  LET upTo[k \in 0..Len(s.classes)] == IF k = 0 THEN <<>> ELSE upTo[k - 1] \o At(s)!AliasesAt(k)
  IN upTo[Len(s.classes)]

\* AddRecord and ListAliases.
Assembling(s) ==
  LET c == s.subjects[s.step]
      cs == IF c \in ClassName THEN Append(s.classes, <<c, c>>) ELSE s.classes
      ns == IF c \in ClassName \cup FunctionName /\ At(s)!Signature(c) # 0 THEN s.names \cup {c} ELSE s.names
  IN IF s.step > Len(s.subjects)
     THEN Changed(s, [step |-> 1, phase |-> "alias", aliases |-> ListedAliases(s)])
     ELSE Changed(s, [step |-> s.step + 1, records |-> Append(s.records, At(s)!Record(c)),
                      classes |-> cs, names |-> ns])

\* KeyAlias and Merged.
KeyingAlias(s) ==
  IF s.step > Len(s.aliases) THEN Changed(s, [phase |-> "done"])
  ELSE IF s.aliases[s.step][1] \in At(s)!Keys THEN Changed(s, [phase |-> "failed"])
  ELSE Changed(s, [step |-> s.step + 1, classes |-> Append(s.classes, s.aliases[s.step])])

\* The state behind s, while a merge is under way.
NextOf(s) ==
  CASE s.phase = "collect"  -> Collecting(s)
    [] s.phase = "slots"    -> AddingSlot(s)
    [] s.phase = "write"    -> Writing(s)
    [] s.phase = "assemble" -> Assembling(s)
    [] s.phase = "alias"    -> KeyingAlias(s)

\* The operators of the merge, read in the state it is in.
LEMMA AtState ==
  /\ At(state)!Items = Items /\ At(state)!Keys = Keys
  /\ \A i, j : At(state)!Weaker(i, j) <=> Weaker(i, j)
  /\ \A i : At(state)!Key(i) = Key(i)
  /\ \A c : At(state)!Record(c) = Record(c) /\ At(state)!Signature(c) = Signature(c)
  /\ \A k : At(state)!AliasesAt(k) = AliasesAt(k)
  /\ \A r : At(state)!Answer(r) = Answer(r)
<1>1. /\ state.phase = phase /\ state.mounted = mounted /\ state.classes = classes
      /\ state.inForce = inForce /\ state.conditions = conditions /\ state.aliases = aliases
  BY DEF state
<1> HIDE DEF state
<1>2. At(state)!Items = Items /\ At(state)!Keys = Keys
  BY <1>1 DEF Items, At!Items, Keys, At!Keys
<1>3. \A i, j : At(state)!Weaker(i, j) <=> Weaker(i, j)
  BY <1>1 DEF Weaker, At!Weaker
<1>4. \A i : At(state)!Key(i) = Key(i)
  BY <1>1 DEF Key, At!Key
<1>5. \A c : At(state)!Signature(c) = Signature(c)
  BY <1>1 DEF Signature, At!Signature
<1>6. \A c, u : At(state)!InForceOf(c, u) = InForceOf(c, u)
  BY <1>1 DEF InForceOf, At!InForceOf, Kept, At!Kept
<1>7. At(state)!Unit = Unit
  BY DEF Unit, At!Unit, Units, At!Units
<1>8. \A c : At(state)!Record(c) = Record(c)
  BY <1>1, <1>5, <1>6, <1>7 DEF Record, At!Record
<1>9. \A k : At(state)!AliasesAt(k) = AliasesAt(k)
  BY <1>1, <1>5 DEF AliasesAt, At!AliasesAt
<1>10. \A r : At(state)!Answer(r) = Answer(r)
  BY <1>1 DEF Answer, At!Answer
<1> QED BY <1>2, <1>3, <1>4, <1>5, <1>8, <1>9, <1>10

\* The state of the merge has every field.
LEMMA StateFields ==
  /\ state.phase = phase /\ state.mounts = mounts /\ state.step = step
  /\ state.vocabulary = vocabulary /\ state.mounted = mounted /\ state.subjects = subjects
  /\ state.conditions = conditions /\ state.inForce = inForce /\ state.written = written
  /\ state.records = records /\ state.classes = classes /\ state.names = names
  /\ state.aliases = aliases
BY DEF state

\* Collecting is one step, without a choice.
LEMMA CollectNext == ASSUME Collect PROVE state' = NextOf(state)
<1>1. NextOf(state) = Collecting(state)
  BY StateFields DEF Collect, NextOf
<1> DEFINE m == mounts[step]
           more == mounted \o [j \in 1..Len(m.entries) |->
                     [position |-> step, rank |-> m.rank, entry |-> m.entries[j].entry,
                      extension |-> m.entries[j].extension]]
<1>2. CASE step <= Len(mounts)
  <2>1. Collecting(state)
          = Changed(state, [step |-> step + 1, vocabulary |-> vocabulary \cup m.declares, mounted |-> more])
    BY <1>2, StateFields DEF Collecting
  <2>2. /\ step' = step + 1 /\ vocabulary' = vocabulary \cup m.declares /\ mounted' = more /\ phase' = phase
        /\ UNCHANGED <<mounts, slots, written, result>>
    BY <1>2 DEF Collect
  <2> HIDE DEF m, more
  <2>3. state' = Changed(state, [step |-> step + 1, vocabulary |-> vocabulary \cup m.declares, mounted |-> more])
    BY <2>2 DEF Changed, state, slots, result
  <2> QED BY <1>1, <2>1, <2>3
<1>3. CASE ~(step <= Len(mounts))
  <2>1. Collecting(state) = Changed(state, [step |-> 1, phase |-> "slots"])
    BY <1>3, StateFields DEF Collecting
  <2>2. state' = Changed(state, [step |-> 1, phase |-> "slots"])
    BY <1>3 DEF Changed, Collect, state, slots, result
  <2> QED BY <1>1, <2>1, <2>2
<1> QED BY <1>2, <1>3

\* And so is each step over the slots.
LEMMA SlotNext ==
  ASSUME AddSlot \/ SlotsAdded, step \in Nat, Len(mounted) \in Nat PROVE state' = NextOf(state)
<1>1. NextOf(state) = AddingSlot(state)
  BY StateFields DEF AddSlot, SlotsAdded, NextOf
<1>2. CASE SlotsAdded
  <2>1. step > Len(mounted)
    BY <1>2 DEF SlotsAdded
  <2>2. AddingSlot(state) = Changed(state, [step |-> 1, phase |-> "write"])
    BY <2>1, StateFields DEF AddingSlot
  <2>3. state' = Changed(state, [step |-> 1, phase |-> "write"])
    BY <1>2 DEF Changed, SlotsAdded, state, slots, result
  <2> QED BY <1>1, <2>2, <2>3
<1>3. CASE AddSlot
  <2>1. ~(step > Len(mounted)) /\ UNCHANGED <<mounts, vocabulary, mounted, written, result>>
    <3>1. step <= Len(mounted) /\ UNCHANGED <<mounts, vocabulary, mounted, written, result>>
      BY <1>3, Zenon DEF AddSlot
    <3>2. ~(step > Len(mounted))
      BY <3>1
    <3> QED BY <3>1, <3>2
  <2> DEFINE e == mounted[step].entry
             k == <<e.subject, e.condition>>
             ss == IF e.subject \in DOMAIN conditions THEN subjects ELSE Append(subjects, e.subject)
             cs == [t \in DOMAIN conditions \cup {e.subject} |->
                      CASE t # e.subject -> conditions[t]
                        [] t = e.subject /\ k \in DOMAIN inForce -> conditions[e.subject]
                        [] t = e.subject /\ e.subject \notin DOMAIN conditions -> <<e.condition>>
                        [] OTHER -> Append(conditions[e.subject], e.condition)]
             fs == [l \in DOMAIN inForce \cup {k} |-> IF l \in DOMAIN inForce THEN inForce[l] ELSE [u \in {} |-> 0]]
  <2>2. CASE ConditionalSignature(e)
    <3>1. AddingSlot(state) = Changed(state, [phase |-> "failed"])
      BY <2>1, <2>2, StateFields DEF AddingSlot
    <3>2. phase' = "failed" /\ UNCHANGED <<step, slots>>
      BY <1>3, <2>2 DEF AddSlot
    <3>3. state' = Changed(state, [phase |-> "failed"])
      BY <2>1, <3>2 DEF Changed, state, slots, result
    <3> QED BY <1>1, <3>1, <3>3
  <2>3. CASE ~ConditionalSignature(e)
    <3>1. AddingSlot(state) = Changed(state, [step |-> step + 1, subjects |-> ss, conditions |-> cs,
                 inForce |-> fs])
      BY <2>1, <2>3, StateFields DEF AddingSlot
    <3>2. /\ subjects' = ss /\ conditions' = cs /\ inForce' = fs /\ step' = step + 1 /\ phase' = phase
      BY <1>3, <2>3 DEF AddSlot, Inserted
    <3> HIDE DEF ss, cs, fs
    <3>3. state' = Changed(state, [step |-> step + 1, subjects |-> ss, conditions |-> cs,
                 inForce |-> fs])
      BY <2>1, <3>2 DEF Changed, state, result
    <3> QED BY <1>1, <3>1, <3>3
  <2> QED BY <2>2, <2>3
<1> QED BY <1>2, <1>3

\* There is one weakest entry.
LEMMA OneWeakest ==
  ASSUME mounted \in Seq(Item), NEW i \in Items \ written, NEW j \in Items \ written,
         \A k \in Items \ written : ~Weaker(k, i), \A k \in Items \ written : ~Weaker(k, j)
  PROVE  i = j
BY WeakerTotal

\* The entry written next is that one.
LEMMA WriteStep ==
  ASSUME MergeInv, WriteNext \/ Written PROVE state' = NextOf(state)
<1>1. NextOf(state) = Writing(state)
  BY StateFields DEF WriteNext, Written, NextOf
<1>2. CASE Written
  <2>1. written = At(state)!Items
    BY <1>2, AtState DEF Written
  <2>2. Writing(state) = Changed(state, [step |-> 1, phase |-> "assemble"])
    BY <2>1, StateFields DEF Writing
  <2>3. state' = Changed(state, [step |-> 1, phase |-> "assemble"])
    BY <1>2 DEF Changed, Written, state, slots, result
  <2> QED BY <1>1, <2>2, <2>3
<1>3. CASE WriteNext
  <2>1. PICK i \in Items \ written :
       /\ \A j \in Items \ written : ~Weaker(j, i)
       /\ inForce' = [inForce EXCEPT ![Key(i)] =
            [u \in DOMAIN @ \cup mounted[i].entry.units |->
               IF u \in mounted[i].entry.units THEN i ELSE @[u]]]
       /\ written' = written \cup {i}
    BY <1>3 DEF WriteNext
  <2>2. mounted \in Seq(Item)
    BY DEF MergeInv, Collected
  <2>3. Weakest(state) = i
    <3>1. Weakest(state) = CHOOSE j \in Items \ written : \A k \in Items \ written : ~Weaker(k, j)
      BY AtState, StateFields DEF Weakest
    <3>2. \A j \in Items \ written : (\A k \in Items \ written : ~Weaker(k, j)) => j = i
      BY <2>1, <2>2, OneWeakest
    <3> QED BY <2>1, <3>1, <3>2
  <2>4. state.written # At(state)!Items
    BY <2>1, AtState, StateFields
  <2> DEFINE fs == [inForce EXCEPT ![Key(i)] =
              [u \in DOMAIN @ \cup mounted[i].entry.units |->
                 IF u \in mounted[i].entry.units THEN i ELSE @[u]]]
  <2>5. Writing(state) = Changed(state, [written |-> written \cup {i},
                 inForce |-> fs])
    BY <2>3, <2>4, AtState, StateFields DEF Writing
  <2>6. inForce' = fs /\ UNCHANGED <<phase, mounts, step, vocabulary, mounted, subjects, conditions, result>>
    BY <1>3, <2>1 DEF WriteNext
  <2> HIDE DEF fs
  <2>7. state' = Changed(state, [written |-> written \cup {i},
                 inForce |-> fs])
    BY <2>1, <2>6 DEF Changed, state, result
  <2> QED BY <1>1, <2>5, <2>7
<1> QED BY <1>2, <1>3

\* The aliases that a merge lists are those its state lists.
LEMMA ListedState ==
  LET upTo[k \in 0..Len(classes)] == IF k = 0 THEN <<>> ELSE upTo[k - 1] \o AliasesAt(k)
  IN ListedAliases(state) = upTo[Len(classes)]
<1> DEFINE G(f) == [k \in 0..Len(classes) |-> IF k = 0 THEN <<>> ELSE f[k - 1] \o AliasesAt(k)]
           H(f) == [k \in 0..Len(state.classes) |-> IF k = 0 THEN <<>> ELSE f[k - 1] \o At(state)!AliasesAt(k)]
           g == CHOOSE f : f = G(f)
           h == CHOOSE f : f = H(f)
<1>1. ListedAliases(state) = h[Len(state.classes)]
  BY DEF ListedAliases
<1>2. \A f : H(f) = G(f)
  BY AtState, StateFields
<1>3. h = g
  <2> HIDE DEF G, H
  <2> QED BY <1>2
<1>4. ListedAliases(state) = g[Len(classes)]
  <2> HIDE DEF g, h
  <2> QED BY <1>1, <1>3, StateFields
<1> QED BY <1>4

\* The records are added one after the other, and then the aliases listed.
LEMMA AssembleNext ==
  ASSUME AddRecord \/ ListAliases, step \in Nat, Len(subjects) \in Nat PROVE state' = NextOf(state)
<1>1. NextOf(state) = Assembling(state)
  BY StateFields DEF AddRecord, ListAliases, NextOf
<1>2. CASE AddRecord
  <2> DEFINE c == subjects[step]
             rs == Append(records, Record(c))
             cs == IF c \in ClassName THEN Append(classes, <<c, c>>) ELSE classes
             ns == IF c \in ClassName \cup FunctionName /\ Signature(c) # 0 THEN names \cup {c} ELSE names
  <2>1. ~(step > Len(subjects))
    BY <1>2 DEF AddRecord
  <2>2. Assembling(state) = Changed(state, [step |-> step + 1, records |-> rs, classes |-> cs, names |-> ns])
    BY <2>1, AtState, StateFields DEF Assembling
  <2>3. /\ records' = rs /\ classes' = cs /\ names' = ns /\ step' = step + 1
        /\ UNCHANGED <<phase, mounts, vocabulary, mounted, slots, written, aliases>>
    BY <1>2 DEF AddRecord
  <2> HIDE DEF rs, cs, ns
  <2>4. state' = Changed(state, [step |-> step + 1, records |-> rs, classes |-> cs, names |-> ns])
    BY <2>3 DEF Changed, state, slots
  <2> QED BY <1>1, <2>2, <2>4
<1>3. CASE ListAliases
  <2>1. step > Len(subjects)
    BY <1>3 DEF ListAliases
  <2> DEFINE upTo[k \in 0..Len(classes)] == IF k = 0 THEN <<>> ELSE upTo[k - 1] \o AliasesAt(k)
             as == upTo[Len(classes)]
  <2>2. ListedAliases(state) = as
    BY ListedState
  <2>3. Assembling(state) = Changed(state, [step |-> 1, phase |-> "alias", aliases |-> ListedAliases(state)])
    BY <2>1, StateFields DEF Assembling
  <2>4. /\ aliases' = as /\ phase' = "alias" /\ step' = 1
        /\ UNCHANGED <<mounts, vocabulary, mounted, slots, written, records, classes, names>>
    BY <1>3 DEF ListAliases
  <2> HIDE DEF as
  <2>5. state' = Changed(state, [step |-> 1, phase |-> "alias", aliases |-> as])
    BY <2>4 DEF Changed, state, slots
  <2> QED BY <1>1, <2>2, <2>3, <2>5
<1> QED BY <1>2, <1>3

\* The aliases are keyed one after the other.
LEMMA KeyNext ==
  ASSUME KeyAlias \/ Merged, step \in Nat, Len(aliases) \in Nat PROVE state' = NextOf(state)
<1>1. NextOf(state) = KeyingAlias(state)
  BY StateFields DEF KeyAlias, Merged, NextOf
<1>2. CASE Merged
  <2>1. KeyingAlias(state) = Changed(state, [phase |-> "done"])
    BY <1>2, StateFields DEF Merged, KeyingAlias
  <2>2. state' = Changed(state, [phase |-> "done"])
    BY <1>2 DEF Changed, Merged, state, slots, result
  <2> QED BY <1>1, <2>1, <2>2
<1>3. CASE KeyAlias
  <2>1. ~(step > Len(aliases)) /\ UNCHANGED <<mounts, vocabulary, mounted, slots, written, records, names, aliases>>
    BY <1>3 DEF KeyAlias
  <2>2. CASE aliases[step][1] \in Keys
    <3>1. KeyingAlias(state) = Changed(state, [phase |-> "failed"])
      BY <2>1, <2>2, AtState, StateFields DEF KeyingAlias
    <3>2. state' = Changed(state, [phase |-> "failed"])
      BY <1>3, <2>1, <2>2 DEF Changed, KeyAlias, state, slots
    <3> QED BY <1>1, <3>1, <3>2
  <2>3. CASE aliases[step][1] \notin Keys
    <3>1. KeyingAlias(state) = Changed(state, [step |-> step + 1, classes |-> Append(classes, aliases[step])])
      BY <2>1, <2>3, AtState, StateFields DEF KeyingAlias
    <3>2. state' = Changed(state, [step |-> step + 1, classes |-> Append(classes, aliases[step])])
      BY <1>3, <2>1, <2>3 DEF Changed, KeyAlias, state, slots
    <3> QED BY <1>1, <3>1, <3>2
  <2> QED BY <2>2, <2>3
<1> QED BY <1>2, <1>3

\* Every step of a merge is the one its state has.
LEMMA StepIsNext == ASSUME ResultInv, Merge PROVE state' = NextOf(state)
<1>1. MergeInv /\ step \in Nat /\ Len(mounted) \in Nat
  BY LenProperties DEF ResultInv, MergeInv, Collected
<1>2. Len(subjects) \in Nat /\ Len(aliases) \in Nat
  BY SeqFacts DEF ResultInv, RecordsInv, ClassesInv
<1>3. CASE Collect
  BY <1>3, CollectNext
<1>4. CASE AddSlot \/ SlotsAdded
  BY <1>1, <1>4, SlotNext
<1>5. CASE WriteNext \/ Written
  BY <1>1, <1>5, WriteStep
<1>6. CASE AddRecord \/ ListAliases
  BY <1>1, <1>2, <1>6, AssembleNext
<1>7. CASE KeyAlias \/ Merged
  BY <1>1, <1>2, <1>7, KeyNext
<1> QED BY <1>3, <1>4, <1>5, <1>6, <1>7 DEF Merge

\* A merge that is neither finished nor refused goes on.
Running(s) == s.phase \notin {"done", "failed"}

\* f is the states a merge of ms goes through in m steps.
Run(f, m, ms) ==
  /\ f[0] = Begun(ms)
  /\ \A k \in 1..m : Running(f[k - 1]) /\ f[k] = NextOf(f[k - 1])

\* A merge of ms comes to s.
Reaches(ms, s) == \E m \in Nat : \E f : Run(f, m, ms) /\ f[m] = s

\* A merge begins in the one state its mounts give it.
LEMMA BeginReaches == ASSUME NEW ms, Begin(ms) PROVE Reaches(ms, state')
<1>1. state' = Begun(ms)
  BY DEF Begin, Begun, state
<1> DEFINE f == [k \in {0} |-> Begun(ms)]
<1>2. Run(f, 0, ms) /\ f[0] = Begun(ms)
  BY DEF Run
<1> HIDE DEF f
<1> QED BY <1>1, <1>2 DEF Reaches

\* What it comes to next is its next state.
LEMMA StepReaches ==
  ASSUME NEW ms, NEW s, Reaches(ms, s), Running(s)
  PROVE  Reaches(ms, NextOf(s))
<1>1. PICK m \in Nat : \E f : Run(f, m, ms) /\ f[m] = s
  BY DEF Reaches
<1>2. PICK f : Run(f, m, ms) /\ f[m] = s
  BY <1>1
<1> DEFINE g == [k \in 0..(m + 1) |-> IF k = m + 1 THEN NextOf(s) ELSE f[k]]
<1>3. g[m + 1] = NextOf(s) /\ \A k \in 0..m : g[k] = f[k]
  OBVIOUS
<1> HIDE DEF g
<1>4. ASSUME NEW k \in 1..(m + 1) PROVE Running(g[k - 1]) /\ g[k] = NextOf(g[k - 1])
  <2>1. CASE k = m + 1
    <3>1. k - 1 = m /\ m \in 0..m
      BY <2>1
    <3> QED BY <1>2, <1>3, <2>1, <3>1
  <2>2. CASE k # m + 1
    <3>1. k \in 1..m /\ k \in 0..m /\ k - 1 \in 0..m
      BY <2>2
    <3> QED BY <1>2, <1>3, <3>1 DEF Run
  <2> QED BY <2>1, <2>2
<1>5. g[0] = Begun(ms)
  BY <1>2, <1>3 DEF Run
<1>6. Run(g, m + 1, ms)
  BY <1>4, <1>5 DEF Run
<1> QED BY <1>3, <1>6 DEF Reaches

\* A run that is finished goes no further.
LEMMA LongerRun ==
  ASSUME NEW ms, NEW m \in Nat, NEW n \in Nat, m <= n, NEW f, NEW g, Run(f, m, ms), Run(g, n, ms),
         ~Running(f[m])
  PROVE  f[m] = g[n]
<1> DEFINE T == {k \in 0..m : f[k] = g[k]}
<1>1. 0 \in T
  BY DEF Run
<1>2. ASSUME NEW k \in 1..m, k - 1 \in T PROVE k \in T
  <2>1. k \in 1..n /\ f[k - 1] = g[k - 1] /\ k \in 0..m
    BY <1>2
  <2> QED BY <2>1 DEF Run
<1>3. 0..m \subseteq T
  <2> HIDE DEF T
  <2> QED BY <1>1, <1>2, UpTo
<1>4. f[m] = g[m]
  BY <1>3
<1>5. m = n
  <2>1. ASSUME m < n PROVE FALSE
    <3>1. m + 1 \in 1..n /\ (m + 1) - 1 = m
      BY <2>1
    <3>2. Running(g[m])
      BY <3>1 DEF Run
    <3> QED BY <1>4, <3>2
  <2> QED BY <2>1
<1> QED BY <1>4, <1>5

\* A merge ends in one way.
LEMMA OneEnd ==
  ASSUME NEW ms, NEW s, NEW t, Reaches(ms, s), Reaches(ms, t), ~Running(s), ~Running(t)
  PROVE  s = t
<1>1. PICK m \in Nat : \E f : Run(f, m, ms) /\ f[m] = s
  BY DEF Reaches
<1>2. PICK f : Run(f, m, ms) /\ f[m] = s
  BY <1>1
<1>3. PICK n \in Nat : \E g : Run(g, n, ms) /\ g[n] = t
  BY DEF Reaches
<1>4. PICK g : Run(g, n, ms) /\ g[n] = t
  BY <1>3
<1>5. m <= n \/ n <= m
  OBVIOUS
<1> QED BY <1>2, <1>4, <1>5, LongerRun

-----------------------------------------------------------------------------
(* Equal sets, equal answers.                                              *)

\* What a finished merge answers.
AnswersOf(s) ==
  [records |-> [k \in DOMAIN s.records |-> At(s)!Answer(s.records[k])],
   classes |-> s.classes, names |-> s.names, vocabulary |-> s.vocabulary]

\* What the sets of a call mount, when all of them can be mounted.
AllMounts(roots) == MountsOf(roots, Len(roots))

\* The answers x are those of the merge of all the sets.
Answered(roots, x) ==
  \E s : Reaches(AllMounts(roots), s) /\ s.phase = "done" /\ x = AnswersOf(s)

\* A call whose sets can all be mounted ends as their merge does.
EndsLikeItsMerge(call) ==
  /\ call.outcome \in {"built", "not found", "invalid", "unusable"}
  /\ call.roots = bundle.roots /\ ~bundle.mapping => call.outcome \in {"not found", "unusable"}
  /\ /\ \A k : ~FirstBad(call.roots, k)
     /\ call.roots = bundle.roots => bundle.mapping
     /\ call.outcome # "unusable"
     => \E s : /\ Reaches(AllMounts(call.roots), s) /\ ~Running(s)
               /\ call.outcome = "built" <=> s.phase = "done"

\* A merge under way is one of all the sets of its call, from its beginning;
\* lookups and outcomes are those of such merges.
MergedInv ==
  /\ lookups # <<>> => bundle.mapping
  /\ building # Idle /\ Place # 0 => bundle.mapping
  /\ phase # "idle" => Reaches(AllMounts(building.roots), state)
  /\ \A l \in 1..Len(lookups) : Answered(lookups[l].roots, lookups[l].answers)
  /\ \A c \in 1..Len(calls) : EndsLikeItsMerge(calls[c])

-----------------------------------------------------------------------------
\* What a merge comes to does not change while the library runs.
LEMMA MergeKept ==
  /\ \A ms, s : (Reaches(ms, s))' <=> Reaches(ms, s)
  /\ \A r, x : (Answered(r, x))' <=> Answered(r, x)
  /\ \A s : (Running(s))' <=> Running(s)
<1>1. \A ms, s : (Reaches(ms, s))' <=> Reaches(ms, s)
  OBVIOUS
<1>2. \A r, x : (Answered(r, x))' <=> Answered(r, x)
  OBVIOUS
<1> QED BY <1>1, <1>2 DEF Running

\* How a call ended does not change either.
LEMMA EndKept == ASSUME bundle' = bundle PROVE \A e : (EndsLikeItsMerge(e))' <=> EndsLikeItsMerge(e)
BY BadKept, MergeKept DEF EndsLikeItsMerge

\* A call that ends is recorded, the others stay as they were.
LEMMA EndMerged ==
  ASSUME LookInv, MergedInv, NEW call, EndsLikeItsMerge(call),
         calls' = Append(calls, call), bundle' = bundle
  PROVE  \A c \in 1..Len(calls') : (EndsLikeItsMerge(calls[c]))'
<1>1. /\ Len(calls) \in Nat /\ Len(calls') = Len(calls) + 1
      /\ \A c \in 1..Len(calls) : calls'[c] = calls[c]
      /\ calls'[Len(calls) + 1] = call
  BY Appended DEF LookInv
<1> SUFFICES ASSUME NEW c \in 1..(Len(calls) + 1) PROVE (EndsLikeItsMerge(calls[c]))'
  BY <1>1
<1>2. EndsLikeItsMerge(calls'[c])
  <2>1. CASE c = Len(calls) + 1
    BY <1>1, <2>1
  <2>2. CASE c \in 1..Len(calls)
    BY <1>1, <2>2 DEF MergedInv
  <2> QED BY <1>1, <2>1, <2>2
<1> QED BY <1>2, EndKept

\* A call that ends before it merges.
LEMMA EndsEarly ==
  ASSUME LookInv, MergedInv, phase' = "idle", NEW why, Fails(why),
         EndsLikeItsMerge([roots |-> building.roots, outcome |-> why])
  PROVE  MergedInv'
<1>1. /\ calls' = Append(calls, [roots |-> building.roots, outcome |-> why])
      /\ building' = Idle /\ lookups' = lookups /\ bundle' = bundle
  BY DEF Fails
<1>2. \A c \in 1..Len(calls') : (EndsLikeItsMerge(calls[c]))'
  BY <1>1, EndMerged
<1> QED BY <1>1, <1>2, MergeKept DEF MergedInv

\* The set that cannot be mounted leaves nothing to merge.
LEMMA BadEnds ==
  ASSUME LookInv, FailInv, MergedInv, building # Idle, building.left # <<>>,
         lookups = <<>> => bundle.mapping, phase' = "idle", NEW why, EndsOnBad(why)
  PROVE  MergedInv'
<1> DEFINE call == [roots |-> building.roots, outcome |-> why]
           k == Place + 1
<1>1. k \in 1..Len(building.roots) /\ k - 1 = Place
  <2>1. Place + 1 \in 1..Len(building.roots) /\ Place \in Nat
    BY BuildingFacts
  <2> QED BY <2>1, OneBack
<1>2. AllGood(building.roots, k - 1) /\ Bad(building.roots, k)
  BY <1>1 DEF FailInv, EndsOnBad
<1>3. FirstBad(building.roots, k)
  BY <1>1, <1>2 DEF FirstBad
<1>4. bundle.mapping
  BY DEF MergedInv
<1>5. call.roots = building.roots /\ call.outcome \in {"not found", "invalid"}
  BY DEF EndsOnBad
<1> HIDE DEF k
<1>6. EndsLikeItsMerge(call)
  <2> HIDE DEF call
  <2> QED BY <1>3, <1>4, <1>5 DEF EndsLikeItsMerge
<1> QED BY <1>6, EndsEarly DEF EndsOnBad

\* Mounting a set merges nothing.
LEMMA MountNextMerged == ASSUME LookInv, FailInv, MergedInv, MountNext PROVE MergedInv'
<1>1. /\ building # Idle /\ building.left # <<>> /\ (lookups = <<>> => bundle.mapping)
      /\ phase' = phase
  BY DEF MountNext, Idle, vars
<1>2. phase = "idle"
  BY <1>1 DEF LookInv, BuildingOver
<1>3. ASSUME NEW why, EndsOnBad(why) PROVE MergedInv'
  BY <1>1, <1>2, <1>3, BadEnds
<1>4. CASE building'.roots = building.roots /\ UNCHANGED <<bundle, lookups, calls>>
  <2>1. bundle.mapping
    BY <1>1 DEF MergedInv
  <2> QED BY <1>1, <1>2, <1>4, <2>1, MergeKept, EndKept DEF MergedInv
<1> QED BY <1>3, <1>4, MountNextFails

\* A call that merges has all its sets mounted, the mapping among what it read.
LEMMA MergesMapped ==
  ASSUME LookInv, MergedInv, building # Idle, building.left = <<>>
  PROVE  bundle.mapping
<1>1. /\ building.roots \in Seq(Root) /\ building.roots # <<>> /\ Len(building.roots) \in Nat
      /\ Place = Len(building.roots)
  BY BuildingFacts
<1>2. Place # 0
  BY <1>1, EmptySeq
<1> QED BY <1>2 DEF MergedInv

\* The merge of a call begins with all its mounts.
LEMMA StartMerged == ASSUME LookInv, FailInv, MergedInv, StartMerge PROVE MergedInv'
<1>1. /\ building # Idle /\ building.left = <<>> /\ building'.roots = building.roots
      /\ lookups' = lookups /\ bundle' = bundle /\ calls' = calls
  BY DEF StartMerge, LookInv, BuildingOver
<1>2. bundle.mapping
  BY <1>1, MergesMapped
<1>3. Begin(AllMounts(building.roots))
  BY MergesItsMounts DEF AllMounts
<1>4. Reaches(AllMounts(building.roots), state')
  BY <1>3, BeginReaches
<1> QED BY <1>1, <1>2, <1>4, MergeKept, EndKept DEF MergedInv

\* A step of the merge is its only one.
LEMMA StepMerged == ASSUME LookInv, ResultInv, MergedInv, MergeStep PROVE MergedInv'
<1>1. phase \notin {"idle", "done", "failed"} /\ Merge /\ UNCHANGED callVars
  BY DEF MergeStep
<1>2. Running(state)
  BY <1>1, StateFields DEF Running
<1>3. Reaches(AllMounts(building.roots), state')
  BY <1>1, <1>2, StepIsNext, StepReaches DEF MergedInv
<1>4. Place' = Place
  BY <1>1 DEF Place, callVars
<1> QED BY <1>1, <1>3, <1>4, MergeKept, EndKept DEF MergedInv, callVars

\* A refused merge ends the call, and so does any merge of its sets.
LEMMA RefusedMerged == ASSUME LookInv, FailInv, MergedInv, Refused PROVE MergedInv'
<1> DEFINE call == [roots |-> building.roots, outcome |-> "invalid"]
<1>1. building # Idle /\ phase = "failed" /\ Fails("invalid") /\ phase' = "idle"
  BY DEF Refused, Discard
<1>2. bundle.mapping
  <2>1. building.left = <<>>
    BY <1>1 DEF LookInv, BuildingOver
  <2> QED BY <1>1, <2>1, MergesMapped
<1>3. Reaches(AllMounts(building.roots), state) /\ ~Running(state) /\ state.phase = "failed"
  BY <1>1, StateFields DEF MergedInv, Running
<1>4. call.roots = building.roots /\ call.outcome = "invalid"
  OBVIOUS
<1>5. EndsLikeItsMerge(call)
  <2> HIDE DEF call
  <2> QED BY <1>2, <1>3, <1>4 DEF EndsLikeItsMerge
<1> QED BY <1>1, <1>5, EndsEarly

\* A finished merge gives the lookup its answers.
LEMMA BuiltMerged == ASSUME LookInv, FailInv, MergedInv, Built PROVE MergedInv'
<1> DEFINE call == [roots |-> building.roots, outcome |-> "built"]
           answers == [records |-> [k \in DOMAIN records |-> Answer(records[k])],
                       classes |-> classes, names |-> names, vocabulary |-> vocabulary]
           new == [roots |-> building.roots, list |-> building.list, answers |-> answers]
<1>1. /\ building # Idle /\ phase = "done" /\ phase' = "idle" /\ calls' = Append(calls, call)
      /\ building' = Idle /\ lookups' = Append(lookups, new) /\ bundle' = bundle
  BY DEF Built, Discard
<1>2. bundle.mapping
  <2>1. building.left = <<>>
    BY <1>1 DEF LookInv, BuildingOver
  <2> QED BY <1>1, <2>1, MergesMapped
<1>3. Reaches(AllMounts(building.roots), state) /\ ~Running(state) /\ state.phase = "done"
  BY <1>1, StateFields DEF MergedInv, Running
<1>4. answers = AnswersOf(state)
  BY AtState, StateFields DEF AnswersOf
<1>5. call.roots = building.roots /\ call.outcome = "built"
      /\ new.roots = building.roots /\ new.answers = AnswersOf(state)
  BY <1>4
<1> HIDE DEF call, new, answers
<1>6. EndsLikeItsMerge(call)
  BY <1>2, <1>3, <1>5 DEF EndsLikeItsMerge
<1>7. Answered(new.roots, new.answers)
  BY <1>3, <1>5 DEF Answered
<1>8. \A c \in 1..Len(calls') : (EndsLikeItsMerge(calls[c]))'
  BY <1>1, <1>6, EndMerged
<1>9. /\ Len(lookups) \in Nat /\ Len(lookups') = Len(lookups) + 1
      /\ \A l \in 1..Len(lookups) : lookups'[l] = lookups[l]
      /\ lookups'[Len(lookups) + 1] = new
  BY <1>1, Appended DEF LookInv
<1>10. ASSUME NEW l \in 1..Len(lookups') PROVE Answered(lookups'[l].roots, lookups'[l].answers)
  <2>1. CASE l = Len(lookups) + 1
    BY <1>7, <1>9, <2>1
  <2>2. CASE l \in 1..Len(lookups)
    BY <1>9, <2>2 DEF MergedInv
  <2> QED BY <1>9, <2>1, <2>2
<1> QED BY <1>1, <1>2, <1>8, <1>10, MergeKept DEF MergedInv

\* Every step keeps lookups and outcomes those of the merges of their sets.
LEMMA NextMerged ==
  LookInv /\ FailInv /\ ResultInv /\ MergedInv /\ [LookupNext]_allVars => MergedInv'
<1> SUFFICES ASSUME LookInv, FailInv, ResultInv, MergedInv, [LookupNext]_allVars PROVE MergedInv'
  OBVIOUS
<1>1. CASE FirstAccess
  <2>1. /\ building'.roots = bundle.roots /\ building'.left = bundle.roots /\ phase' = "idle"
        /\ lookups' = lookups /\ bundle' = bundle /\ calls' = calls
    BY <1>1 DEF FirstAccess, Free, vars, LookInv, BuildingOver
  <2>2. Place' = 0
    <3>1. bundle.roots \in Seq(Root)
      BY LookupAssumption DEF LookInv
    <3>2. Place' = Len(bundle.roots) - Len(bundle.roots)
      BY <2>1 DEF Place
    <3> QED BY <3>1, <3>2, LenProperties
  <2> QED BY <2>1, <2>2, MergeKept, EndKept DEF MergedInv
<1>2. CASE AccessAfterFailure
  <2> DEFINE call == [roots |-> bundle.roots, outcome |-> "unusable"]
  <2>1. /\ lookups' = lookups /\ bundle' = bundle /\ building' = building /\ calls' = Append(calls, call)
        /\ building = Idle /\ phase' = "idle"
    BY <1>2 DEF AccessAfterFailure, Free, vars, LookInv, BuildingOver
  <2>2. EndsLikeItsMerge(call)
    BY DEF EndsLikeItsMerge
  <2> HIDE DEF call
  <2>3. \A c \in 1..Len(calls') : (EndsLikeItsMerge(calls[c]))'
    BY <2>1, <2>2, EndMerged
  <2> QED BY <2>1, <2>3, MergeKept DEF MergedInv
<1>3. CASE MappingMissing
  <2> DEFINE call == [roots |-> building.roots, outcome |-> "not found"]
  <2>1. /\ building # Idle /\ lookups = <<>> /\ ~bundle.mapping /\ Fails("not found") /\ phase' = "idle"
    <3>1. building.left # <<>> /\ phase' = phase
      BY <1>3 DEF MappingMissing, vars
    <3>2. building # Idle
      BY <3>1 DEF Idle
    <3> QED BY <1>3, <3>1, <3>2 DEF MappingMissing, LookInv, BuildingOver
  <2>2. call.roots = bundle.roots /\ call.outcome = "not found"
    BY <2>1 DEF FailInv
  <2>3. EndsLikeItsMerge(call)
    <3> HIDE DEF call
    <3> QED BY <2>1, <2>2 DEF EndsLikeItsMerge
  <2> QED BY <2>1, <2>3, EndsEarly
<1>4. ASSUME NEW r \in DOMAIN lookups, NEW n \in 0..MaxSets, NEW roots \in [1..n -> ConsumerRoot],
             With(r, roots)
      PROVE  MergedInv'
  <2>1. lookups' = lookups /\ bundle' = bundle /\ calls' = calls /\ phase' = "idle"
    BY <1>4 DEF With, Free, vars, LookInv, BuildingOver
  <2>2. lookups # <<>>
    BY SeqFacts, EmptyIsSeq DEF LookInv
  <2>3. bundle.mapping
    BY <2>2 DEF MergedInv
  <2> QED BY <2>1, <2>3, MergeKept, EndKept DEF MergedInv
<1>5. CASE UNCHANGED allVars
  <2>1. /\ lookups' = lookups /\ bundle' = bundle /\ building' = building /\ calls' = calls
        /\ phase' = phase /\ state' = state
    BY <1>5 DEF allVars, callVars, vars, state
  <2>2. Place' = Place
    BY <2>1 DEF Place
  <2> QED BY <2>1, <2>2, MergeKept, EndKept DEF MergedInv
<1> QED BY <1>1, <1>2, <1>3, <1>4, <1>5, MountNextMerged, StartMerged, StepMerged, BuiltMerged,
           RefusedMerged DEF LookupNext

\* Two calls for the same sets end alike.
LEMMA SameEnds ==
  ASSUME NEW call, NEW other, call.roots = other.roots,
         RightOutcome(call), RightOutcome(other), EndsLikeItsMerge(call), EndsLikeItsMerge(other),
         call.outcome # "unusable", other.outcome # "unusable"
  PROVE  call.outcome = other.outcome
<1>1. CASE call.roots = bundle.roots /\ ~bundle.mapping
  BY <1>1 DEF EndsLikeItsMerge
<1>2. CASE ~(call.roots = bundle.roots /\ ~bundle.mapping)
  <2>1. /\ call.outcome = "not found" <=> other.outcome = "not found"
        /\ call.outcome = "built" => \A k : ~FirstBad(call.roots, k)
        /\ other.outcome = "built" => \A k : ~FirstBad(call.roots, k)
    BY <1>2 DEF RightOutcome
  <2>2. ASSUME \A k : ~FirstBad(call.roots, k)
        PROVE  call.outcome = "built" <=> other.outcome = "built"
    <3>1. PICK s : /\ Reaches(AllMounts(call.roots), s) /\ ~Running(s)
                   /\ call.outcome = "built" <=> s.phase = "done"
      BY <1>2, <2>2 DEF EndsLikeItsMerge
    <3>2. /\ \A k : ~FirstBad(other.roots, k)
          /\ other.roots = bundle.roots => bundle.mapping
      BY <1>2, <2>2
    <3>3. PICK t : /\ Reaches(AllMounts(other.roots), t) /\ ~Running(t)
                   /\ other.outcome = "built" <=> t.phase = "done"
      BY <3>2 DEF EndsLikeItsMerge
    <3>4. Reaches(AllMounts(call.roots), t)
      BY <3>3
    <3> QED BY <3>1, <3>3, <3>4, OneEnd
  <2>3. call.outcome = "built" <=> other.outcome = "built"
    BY <2>1, <2>2
  <2>4. /\ call.outcome \in {"built", "not found", "invalid"}
        /\ other.outcome \in {"built", "not found", "invalid"}
    BY DEF EndsLikeItsMerge
  <2>5. call.outcome = "not found" <=> other.outcome = "not found"
    BY <2>1
  <2> QED BY <2>3, <2>4, <2>5
<1> QED BY <1>1, <1>2

\* For every bundle, all sets and all calls: two calls for the same sets, asked
\* for at once or one after the other, end alike, and two lookups over the same
\* sets answer alike.
THEOREM EqualSetsAnswerAlike == LookupSpec => []SameSetsSameAnswers
<1>1. LookupInit => LookInv /\ FailInv /\ ResultInv /\ MergedInv
  <2> SUFFICES ASSUME LookupInit PROVE LookInv /\ FailInv /\ ResultInv /\ MergedInv
    OBVIOUS
  <2>1. LookInv /\ ResultInv
    BY InitLook, InitResult DEF LookupInit
  <2>2. lookups = <<>> /\ calls = <<>> /\ building = Idle /\ phase = "idle" /\ Len(<<>>) = 0
    BY EmptySeq DEF LookupInit, Init
  <2> QED BY <2>1, <2>2 DEF FailInv, MergedInv
<1>2. LookInv /\ FailInv /\ MergedInv => SameSetsSameAnswers
  <2> SUFFICES ASSUME LookInv, FailInv, MergedInv PROVE SameSetsSameAnswers
    OBVIOUS
  <2>1. DOMAIN calls = 1..Len(calls) /\ DOMAIN lookups = 1..Len(lookups)
    BY SeqFacts DEF LookInv
  <2>2. ASSUME NEW c \in 1..Len(calls), NEW d \in 1..Len(calls), calls[c].roots = calls[d].roots,
               calls[c].outcome # "unusable", calls[d].outcome # "unusable"
        PROVE  calls[c].outcome = calls[d].outcome
    BY <2>2, SameEnds DEF FailInv, MergedInv
  <2>3. ASSUME NEW l \in 1..Len(lookups), NEW m \in 1..Len(lookups), lookups[l].roots = lookups[m].roots
        PROVE  lookups[l].answers = lookups[m].answers
    <3>1. PICK s : /\ Reaches(AllMounts(lookups[l].roots), s) /\ s.phase = "done"
                   /\ lookups[l].answers = AnswersOf(s)
      BY DEF MergedInv, Answered
    <3>2. PICK t : /\ Reaches(AllMounts(lookups[l].roots), t) /\ t.phase = "done"
                   /\ lookups[m].answers = AnswersOf(t)
      BY <2>3 DEF MergedInv, Answered
    <3>3. s = t
      BY <3>1, <3>2, OneEnd DEF Running
    <3> QED BY <3>1, <3>2, <3>3
  <2> QED BY <2>1, <2>2, <2>3 DEF SameSetsSameAnswers
<1> QED BY <1>1, <1>2, NextLook, NextFails, NextMerging, NextMerged, PTL DEF LookupSpec
=============================================================================
