--------------------------- MODULE SetMergeProofs ---------------------------
(***************************************************************************)
(* For every mount sequence: the fold puts the strongest entry in force    *)
(* for each key, and no class key reads two records.                       *)
(***************************************************************************)
EXTENDS SetMerge, DataInduction

Item == [position : Nat, rank : Nat, entry : Entry, extension : STRING \cup {"none"}]

Collected ==
  /\ mounts \in Seq(Mount) /\ mounted \in Seq(Item) /\ step \in Nat
  /\ phase \in {"idle", "collect", "slots", "write", "assemble", "alias", "done", "failed"}
  /\ \A i, j \in Items : i < j => mounted[i].position <= mounted[j].position
  /\ phase # "idle" => step # 0
  /\ phase = "collect" => \A i \in Items : mounted[i].position < step

\* Every entry passed has its slot, and no unit is written before the sort.
Slotted ==
  /\ phase = "collect" => DOMAIN inForce = {}
  /\ phase \in {"collect", "slots"} => written = {}
  /\ phase = "slots" =>
       /\ \A i \in Items : i < step => Key(i) \in DOMAIN inForce
       /\ \A key \in DOMAIN inForce : DOMAIN inForce[key] = {}
  /\ phase = "write" \/ Folded => \A i \in Items : Key(i) \in DOMAIN inForce

\* What is written is weaker than what is not, and each unit holds the
\* strongest of the written entries that state it.
WrittenInOrder ==
  phase \in {"slots", "write"} \/ Folded =>
    /\ written \subseteq Items
    /\ \A i \in written, j \in Items \ written : Weaker(i, j)
    /\ \A key \in DOMAIN inForce, u \in Unit :
         IF u \in DOMAIN inForce[key]
         THEN /\ inForce[key][u] \in written /\ States(inForce[key][u], key, u)
              /\ \A j \in written : States(j, key, u) =>
                   j = inForce[key][u] \/ Weaker(j, inForce[key][u])
         ELSE \A j \in written : ~States(j, key, u)

AllWritten == Folded => written = Items

MergeInv == Collected /\ Slotted /\ WrittenInOrder /\ AllWritten

-----------------------------------------------------------------------------
LEMMA ItemFacts ==
  ASSUME mounted \in Seq(Item), NEW i \in Items
  PROVE  /\ mounted[i].position \in Nat /\ mounted[i].rank \in Nat /\ i \in Nat
         /\ mounted[i].entry.units \subseteq Unit
<1>1. mounted[i] \in Item
  BY DEF Items
<1> QED BY <1>1 DEF Item, Entry, Items

\* Weaker is a strict total order on the mounted entries.
LEMMA WeakerTotal ==
  ASSUME mounted \in Seq(Item), NEW i \in Items, NEW j \in Items
  PROVE  i = j \/ Weaker(i, j) \/ Weaker(j, i)
BY ItemFacts DEF Weaker

LEMMA InitMerge == Init => MergeInv
BY EmptySeq DEF Init, MergeInv, Collected, Slotted, WrittenInOrder, AllWritten, Folded, Items

LEMMA BeginMerge == ASSUME NEW ms \in Seq(Mount), Begin(ms) PROVE MergeInv'
<1>1. mounts' \in Seq(Mount) /\ mounted' \in Seq(Item)
  BY EmptySeq DEF Begin
<1>2. Items' = {}
  BY DEF Begin, Items
<1> QED BY <1>1, <1>2 DEF Begin, MergeInv, Collected, Slotted, WrittenInOrder, AllWritten, Folded

LEMMA Concatenated ==
  ASSUME NEW S, NEW s \in Seq(S), NEW t \in Seq(S)
  PROVE  /\ s \o t \in Seq(S) /\ Len(s \o t) = Len(s) + Len(t)
         /\ \A i \in 1..Len(s) : (s \o t)[i] = s[i]
         /\ \A i \in (Len(s) + 1)..(Len(s) + Len(t)) : (s \o t)[i] = t[i - Len(s)]
<1>1. Len(s) \in Nat /\ Len(t) \in Nat
  OBVIOUS
<1>2. s \o t \in Seq(S) /\ Len(s \o t) = Len(s) + Len(t)
  BY ConcatProperties
<1>3. ASSUME NEW i \in 1..(Len(s) + Len(t))
      PROVE  (s \o t)[i] = IF i <= Len(s) THEN s[i] ELSE t[i - Len(s)]
  BY ConcatProperties
<1> QED BY <1>1, <1>2, <1>3

LEMMA CollectMerge == MergeInv /\ Collect => MergeInv'
<1> SUFFICES ASSUME MergeInv, Collect PROVE MergeInv'
  OBVIOUS
<1>1. /\ mounts \in Seq(Mount) /\ mounted \in Seq(Item) /\ step \in Nat \ {0}
      /\ phase = "collect" /\ Len(mounted) \in Nat /\ mounts' = mounts
      /\ written = {} /\ written' = {} /\ inForce' = inForce /\ DOMAIN inForce = {}
      /\ \A i, j \in Items : i < j => mounted[i].position <= mounted[j].position
      /\ \A i \in Items : mounted[i].position < step
  BY DEF MergeInv, Collected, Slotted, Collect, slots
<1>2. CASE step <= Len(mounts)
  <2> DEFINE es == mounts[step].entries
             more == [j \in 1..Len(es) |->
                        [position |-> step, rank |-> mounts[step].rank,
                         entry |-> es[j].entry, extension |-> es[j].extension]]
  <2>1. mounts[step] \in Mount
    BY <1>1, <1>2
  <2>2. es \in Seq([entry : Entry, extension : STRING \cup {"none"}]) /\ mounts[step].rank \in Nat
    BY <2>1 DEF Mount
  <2>3. more \in Seq(Item) /\ Len(more) = Len(es) /\ Len(more) \in Nat
        /\ \A j \in 1..Len(more) : more[j].position = step
    <3>1. Len(es) \in Nat /\ \A j \in 1..Len(es) : es[j] \in [entry : Entry, extension : STRING \cup {"none"}]
      BY <2>2, LenProperties, ElementOfSeq
    <3>2. \A j \in 1..Len(es) : more[j] \in Item /\ more[j].position = step
      BY <1>1, <2>2, <3>1 DEF Item
    <3>3. DOMAIN more = 1..Len(es)
      OBVIOUS
    <3>4. more = [j \in 1..Len(es) |-> more[j]]
      OBVIOUS
    <3>5. more \in [1..Len(es) -> Item]
      BY <3>2, <3>4, Zenon
    <3> HIDE DEF es, more
    <3> QED BY <3>1, <3>2, <3>5
  <2>4. mounted' = mounted \o more /\ step' = step + 1 /\ phase' = "collect"
    BY <1>1, <1>2 DEF Collect
  <2> HIDE DEF es, more
  <2>5. /\ mounted \o more \in Seq(Item) /\ Len(mounted \o more) = Len(mounted) + Len(more)
        /\ \A i \in 1..Len(mounted) : (mounted \o more)[i] = mounted[i]
        /\ \A i \in (Len(mounted) + 1)..(Len(mounted) + Len(more)) :
             (mounted \o more)[i] = more[i - Len(mounted)]
    <3>1. mounted \in Seq(Item) /\ more \in Seq(Item)
      BY <1>1, <2>3
    <3> QED BY <3>1, Concatenated, Zenon
  <2>6. \A i \in Items' : \/ i \in Items /\ mounted'[i] = mounted[i]
                          \/ i \notin Items /\ i > Len(mounted) /\ mounted'[i].position = step
    BY <1>1, <2>3, <2>4, <2>5 DEF Items
  <2>7. \A i \in Items' : i \in Nat /\ mounted'[i].position \in Nat
    <3>1. \A i \in Items : mounted[i].position \in Nat
      BY <1>1, ItemFacts
    <3> QED BY <1>1, <2>6, <3>1 DEF Items
  <2>8. \A i, j \in Items' : i < j => mounted'[i].position <= mounted'[j].position
    BY <1>1, <2>6, <2>7 DEF Items
  <2>9. \A i \in Items' : mounted'[i].position < step'
    <3> SUFFICES ASSUME NEW i \in Items' PROVE mounted'[i].position < step + 1
      BY <2>4
    <3>1. mounted'[i].position < step \/ mounted'[i].position = step
      BY <1>1, <2>6
    <3>2. mounted'[i].position \in Nat
      BY <2>7
    <3> QED BY <1>1, <3>1, <3>2
  <2>10. Collected'
    BY <1>1, <2>4, <2>5, <2>8, <2>9 DEF Collected, Items
  <2> QED BY <1>1, <2>4, <2>10 DEF MergeInv, Slotted, WrittenInOrder, AllWritten, Folded
<1>3. CASE step > Len(mounts)
  <2>1. mounted' = mounted /\ step' = 1 /\ phase' = "slots" /\ Items' = Items
    BY <1>1, <1>3 DEF Collect, Items
  <2>2. Collected'
    BY <1>1, <2>1 DEF Collected
  <2>3. Slotted' /\ WrittenInOrder' /\ AllWritten'
    BY <1>1, <2>1 DEF Slotted, WrittenInOrder, AllWritten, Folded, Items
  <2> QED BY <2>2, <2>3 DEF MergeInv
<1> QED BY <1>1, <1>2, <1>3

LEMMA AddSlotMerge == MergeInv /\ AddSlot => MergeInv'
<1> SUFFICES ASSUME MergeInv, AddSlot PROVE MergeInv'
  OBVIOUS
<1>1. /\ mounts \in Seq(Mount) /\ mounted \in Seq(Item) /\ step \in Nat \ {0}
      /\ phase = "slots" /\ mounts' = mounts /\ mounted' = mounted /\ Items' = Items
      /\ written = {} /\ written' = {} /\ step \in Items
      /\ \A i, j \in Items : i < j => mounted[i].position <= mounted[j].position
      /\ \A i \in Items : i < step => Key(i) \in DOMAIN inForce
      /\ \A key \in DOMAIN inForce : DOMAIN inForce[key] = {}
  BY DEF MergeInv, Collected, Slotted, AddSlot, Items
<1>2. CASE phase' = "failed"
  <2>1. Collected'
    BY <1>1, <1>2 DEF Collected, AddSlot
  <2> QED BY <1>2, <2>1 DEF MergeInv, Slotted, WrittenInOrder, AllWritten, Folded
<1>3. CASE phase' = "slots"
  <2>1. /\ step' = step + 1
        /\ inForce' = [k \in DOMAIN inForce \cup {Key(step)} |->
             IF k \in DOMAIN inForce THEN inForce[k] ELSE [u \in {} |-> 0]]
    BY <1>3 DEF AddSlot, Key
  <2>2. Collected'
    BY <1>1, <1>3, <2>1 DEF Collected
  <2>3. \A key \in DOMAIN inForce' : DOMAIN inForce'[key] = {}
    BY <1>1, <2>1
  <2>4. \A i \in Items' : i < step' => Key(i)' \in DOMAIN inForce'
    BY <1>1, <2>1 DEF Items, Key
  <2> QED BY <1>1, <1>3, <2>2, <2>3, <2>4
          DEF MergeInv, Slotted, WrittenInOrder, AllWritten, Folded
<1>4. phase' \in {"failed", "slots"}
  BY <1>1 DEF AddSlot
<1> QED BY <1>2, <1>3, <1>4

LEMMA WriteMerge == MergeInv /\ WriteNext => MergeInv'
<1> SUFFICES ASSUME MergeInv, WriteNext PROVE MergeInv'
  OBVIOUS
<1>1. PICK i \in Items \ written :
        /\ \A j \in Items \ written : ~Weaker(j, i)
        /\ inForce' = [inForce EXCEPT ![Key(i)] =
             [u \in DOMAIN @ \cup mounted[i].entry.units |->
                IF u \in mounted[i].entry.units THEN i ELSE @[u]]]
        /\ written' = written \cup {i}
  BY DEF WriteNext
<1>2. /\ mounted \in Seq(Item) /\ Key(i) \in DOMAIN inForce
      /\ phase = "write" /\ phase' = "write" /\ mounted' = mounted
      /\ written \subseteq Items /\ Items' = Items
      /\ UNCHANGED <<mounts, step>>
      /\ \A j \in written, k \in Items \ written : Weaker(j, k)
      /\ \A key \in DOMAIN inForce, u \in Unit :
         IF u \in DOMAIN inForce[key]
         THEN /\ inForce[key][u] \in written /\ States(inForce[key][u], key, u)
              /\ \A j \in written : States(j, key, u) =>
                   j = inForce[key][u] \/ Weaker(j, inForce[key][u])
         ELSE \A j \in written : ~States(j, key, u)
  BY DEF WriteNext, MergeInv, Collected, Slotted, WrittenInOrder, Items
<1>3. Collected' /\ Slotted' /\ AllWritten'
  BY <1>1, <1>2 DEF MergeInv, Collected, Slotted, AllWritten, Folded, Items, Key
<1>4. \A j, k : Weaker(j, k)' = Weaker(j, k)
  BY <1>2 DEF Weaker
<1>5. \A j, key, u : States(j, key, u)' = States(j, key, u)
  BY <1>2 DEF States, Key
<1>6. \A j \in written', k \in Items' \ written' : Weaker(j, k)
  <2>1. \A k \in Items \ written' : Weaker(i, k)
    BY <1>1, <1>2, WeakerTotal
  <2> QED BY <1>1, <1>2, <2>1
<1>7. ASSUME NEW key \in DOMAIN inForce', NEW u \in Unit
      PROVE  IF u \in DOMAIN inForce'[key]
             THEN /\ inForce'[key][u] \in written' /\ States(inForce'[key][u], key, u)
                  /\ \A j \in written' : States(j, key, u) =>
                       j = inForce'[key][u] \/ Weaker(j, inForce'[key][u])
             ELSE \A j \in written' : ~States(j, key, u)
  <2>1. key \in DOMAIN inForce
    BY <1>1, <1>7
  <2>2. CASE States(i, key, u)
    <3>1. u \in DOMAIN inForce'[key] /\ inForce'[key][u] = i
      BY <1>1, <1>2, <2>1, <2>2 DEF States
    <3>2. \A j \in written : Weaker(j, i)
      BY <1>1, <1>2
    <3> QED BY <1>1, <2>2, <3>1, <3>2
  <2>3. CASE ~States(i, key, u)
    <3>1. (u \in DOMAIN inForce'[key]) = (u \in DOMAIN inForce[key])
      BY <1>1, <1>2, <2>1, <2>3 DEF States
    <3>2. u \in DOMAIN inForce[key] => inForce'[key][u] = inForce[key][u]
      BY <1>1, <1>2, <2>1, <2>3 DEF States
    <3> QED BY <1>1, <1>2, <2>1, <2>3, <3>1, <3>2
  <2> QED BY <2>2, <2>3
<1>8. WrittenInOrder'
  BY <1>1, <1>2, <1>4, <1>5, <1>6, <1>7 DEF WrittenInOrder
<1> QED BY <1>3, <1>8 DEF MergeInv

\* A step that leaves the fold's variables alone.
LEMMA FoldUnchanged ==
  ASSUME MergeInv, UNCHANGED <<mounts, mounted, inForce, written>>,
         step' = 1 \/ step' = step + 1 \/ step' = step,
         \/ phase \in {"slots", "write"} /\ phase' = "write" /\ written = {} /\ step > Len(mounted)
         \/ phase = "write" /\ Folded' /\ written = Items
         \/ Folded /\ (Folded' \/ phase' = "failed")
         \/ phase' = phase /\ step' = step
  PROVE  MergeInv'
<1>1. Items' = Items /\ (\A i : Key(i)' = Key(i)) /\ (\A i, j : Weaker(i, j)' = Weaker(i, j))
      /\ (\A i, k, u : States(i, k, u)' = States(i, k, u))
  BY DEF Items, Key, Weaker, States
<1>2. Collected'
  <2>1. phase' # "collect" \/ (phase' = phase /\ step' = step)
    BY DEF Folded
  <2> QED BY <1>1, <2>1 DEF MergeInv, Collected, Folded
<1>3. Slotted'
  BY <1>1 DEF MergeInv, Collected, Slotted, Folded, Items
<1>4. WrittenInOrder' /\ AllWritten'
  BY <1>1 DEF MergeInv, WrittenInOrder, AllWritten, Folded
<1> QED BY <1>2, <1>3, <1>4 DEF MergeInv

LEMMA NextMerge == MergeInv /\ [Next]_vars => MergeInv'
<1> SUFFICES ASSUME MergeInv, [Next]_vars PROVE MergeInv'
  OBVIOUS
<1>1. CASE SlotsAdded
  BY <1>1, FoldUnchanged DEF SlotsAdded, slots, MergeInv, Slotted
<1>2. CASE Written
  BY <1>2, FoldUnchanged DEF Written, slots, Folded
<1>3. CASE AddRecord \/ ListAliases \/ KeyAlias \/ Merged
  <2>1. step \in Nat
    BY DEF MergeInv, Collected
  <2> QED BY <1>3, <2>1, FoldUnchanged
          DEF AddRecord, ListAliases, KeyAlias, Merged, slots, Folded
<1>4. CASE UNCHANGED vars
  BY <1>4, FoldUnchanged DEF vars
<1>5. CASE Merge
  BY <1>1, <1>2, <1>3, <1>5, CollectMerge, AddSlotMerge, WriteMerge DEF Merge
<1>6. CASE \E ms \in Inputs : Begin(ms)
  BY <1>6, BeginMerge, InputAssumption
<1> QED BY <1>4, <1>5, <1>6 DEF Next

\* What the weakest-first order leaves in force is the strongest.
LEMMA StrongestIn == MergeInv => InForceIsStrongest
<1> SUFFICES ASSUME MergeInv, Folded, NEW key \in DOMAIN inForce, NEW u \in Unit
             PROVE  IF u \in DOMAIN inForce[key] THEN Strongest(inForce[key][u], key, u)
                    ELSE \A i \in Items : ~States(i, key, u)
  BY DEF InForceIsStrongest
<1>1. written = Items /\ mounted \in Seq(Item)
      /\ \A i, j \in Items : i < j => mounted[i].position <= mounted[j].position
  BY DEF MergeInv, AllWritten, Collected
<1>2. CASE u \notin DOMAIN inForce[key]
  BY <1>1, <1>2 DEF MergeInv, WrittenInOrder
<1>3. CASE u \in DOMAIN inForce[key]
  <2>1. PICK i \in Items : i = inForce[key][u] /\ States(i, key, u)
          /\ \A j \in Items : States(j, key, u) => j = i \/ Weaker(j, i)
    BY <1>1, <1>3 DEF MergeInv, WrittenInOrder
  <2>2. ASSUME NEW j \in Items, States(j, key, u)
        PROVE  \/ mounted[i].rank < mounted[j].rank
               \/ mounted[i].rank = mounted[j].rank /\ j <= i
    <3>1. /\ mounted[i].rank \in Nat /\ mounted[i].position \in Nat /\ i \in Nat
          /\ mounted[j].rank \in Nat /\ mounted[j].position \in Nat /\ j \in Nat
      BY <1>1, ItemFacts
    <3>2. j = i \/ Weaker(j, i)
      BY <2>1, <2>2
    <3>3. i < j => mounted[i].position <= mounted[j].position
      BY <1>1
    <3> QED BY <3>1, <3>2, <3>3 DEF Weaker
  <2> QED BY <1>3, <2>1, <2>2 DEF Strongest
<1> QED BY <1>2, <1>3

\* For every mount sequence, each key has its strongest entry in force.
THEOREM StrongestInForce == Spec => []InForceIsStrongest
BY InitMerge, NextMerge, StrongestIn, PTL DEF Spec

-----------------------------------------------------------------------------
(* The class keys.                                                         *)

\* Each subject is folded once, so its class key is added once.
KeysInv ==
  /\ step \in Nat /\ IsSeq(subjects) /\ IsSeq(classes)
  /\ phase = "assemble" => step # 0
  /\ \A k \in 1..Len(subjects) : subjects[k] \in DOMAIN conditions
  /\ \A k, l \in 1..Len(subjects) : subjects[k] = subjects[l] => k = l
  /\ phase \in {"collect", "slots", "write"} => classes = <<>>
  /\ phase = "assemble" =>
       \A m \in 1..Len(classes) : \E k \in 1..Len(subjects) : k < step /\ classes[m][1] = subjects[k]
  /\ \A m, n \in 1..Len(classes) : classes[m][1] = classes[n][1] => m = n

LEMMA KeysUnchanged ==
  ASSUME KeysInv, UNCHANGED <<subjects, conditions, classes>>, step' \in Nat,
         \/ phase' = phase /\ step' = step
         \/ /\ phase' \in {"slots", "write", "assemble"} /\ phase \in {"collect", "slots", "write"}
            /\ phase' = "assemble" => step' # 0
         \/ phase' \in {"alias", "done", "failed"}
  PROVE  KeysInv'
<1>1. phase' \in {"collect", "slots", "write"} => classes = <<>>
  BY DEF KeysInv
<1>2. phase' = "assemble" =>
       \A m \in 1..Len(classes) : \E k \in 1..Len(subjects) : k < step' /\ classes[m][1] = subjects[k]
  BY EmptyIsSeq DEF KeysInv
<1>3. phase' = "assemble" => step' # 0
  BY DEF KeysInv
<1>4. /\ IsSeq(subjects) /\ IsSeq(classes)
      /\ \A k \in 1..Len(subjects) : subjects[k] \in DOMAIN conditions
      /\ \A k, l \in 1..Len(subjects) : subjects[k] = subjects[l] => k = l
      /\ \A m, n \in 1..Len(classes) : classes[m][1] = classes[n][1] => m = n
  BY DEF KeysInv
<1>5. subjects' = subjects /\ conditions' = conditions /\ classes' = classes
  OBVIOUS
<1>6. /\ \A k \in 1..Len(subjects') : subjects'[k] \in DOMAIN conditions'
      /\ \A k, l \in 1..Len(subjects') : subjects'[k] = subjects'[l] => k = l
      /\ \A m, n \in 1..Len(classes') : classes'[m][1] = classes'[n][1] => m = n
      /\ IsSeq(subjects') /\ IsSeq(classes')
  BY <1>4, <1>5
<1>7. phase' = "assemble" =>
        \A m \in 1..Len(classes') : \E k \in 1..Len(subjects') : k < step' /\ classes'[m][1] = subjects'[k]
  BY <1>2, <1>5
<1> QED BY <1>1, <1>3, <1>5, <1>6, <1>7 DEF KeysInv

LEMMA AddSlotKeys == KeysInv /\ AddSlot => KeysInv'
<1> SUFFICES ASSUME KeysInv, AddSlot PROVE KeysInv'
  OBVIOUS
<1>1. CASE ConditionalSignature(mounted[step].entry)
  <2>1. phase' = "failed" /\ UNCHANGED <<step, subjects, conditions, classes>>
    BY <1>1 DEF AddSlot, slots, result
  <2>2. step' \in Nat
    BY <2>1 DEF KeysInv
  <2> QED BY <2>1, <2>2, KeysUnchanged
<1>2. CASE ~ConditionalSignature(mounted[step].entry)
  <2> DEFINE s == mounted[step].entry.subject
  <2>1. /\ subjects' = IF s \in DOMAIN conditions THEN subjects ELSE Append(subjects, s)
        /\ DOMAIN conditions' = DOMAIN conditions \cup {s}
        /\ phase = "slots" /\ phase' = "slots" /\ classes' = classes /\ step' = step + 1
        /\ classes = <<>>
    BY <1>2 DEF AddSlot, Inserted, KeysInv, result
  <2>2. /\ IsSeq(subjects) /\ Len(subjects) \in Nat /\ step \in Nat
        /\ \A k \in 1..Len(subjects) : subjects[k] \in DOMAIN conditions
        /\ \A k, l \in 1..Len(subjects) : subjects[k] = subjects[l] => k = l
    BY Appended DEF KeysInv
  <2> HIDE DEF s
  <2>3. CASE s \in DOMAIN conditions
    BY <2>1, <2>2, <2>3, EmptyIsSeq DEF KeysInv
  <2>4. CASE s \notin DOMAIN conditions
    <3>1. subjects' = Append(subjects, s)
      BY <2>1, <2>4
    <3>2. /\ IsSeq(subjects') /\ Len(subjects') = Len(subjects) + 1
          /\ \A i \in 1..Len(subjects) : subjects'[i] = subjects[i]
          /\ subjects'[Len(subjects) + 1] = s
      BY <2>2, <3>1, Appended
    <3>3. \A k \in 1..Len(subjects') : subjects'[k] \in DOMAIN conditions'
      BY <2>1, <2>2, <3>2
    <3>4. \A k, l \in 1..Len(subjects') : subjects'[k] = subjects'[l] => k = l
      BY <2>2, <2>4, <3>2
    <3> QED BY <2>1, <2>2, <3>2, <3>3, <3>4, EmptyIsSeq DEF KeysInv
  <2> QED BY <2>3, <2>4
<1> QED BY <1>1, <1>2

LEMMA AddRecordKeys == KeysInv /\ AddRecord => KeysInv'
<1> SUFFICES ASSUME KeysInv, AddRecord PROVE KeysInv'
  OBVIOUS
<1> DEFINE s == subjects[step]
           x == <<s, s>>
<1>1. /\ phase = "assemble" /\ phase' = "assemble" /\ step' = step + 1 /\ step \in Nat
      /\ subjects' = subjects /\ conditions' = conditions /\ step <= Len(subjects)
      /\ classes' = (IF s \in ClassName THEN Append(classes, x) ELSE classes)
      /\ IsSeq(subjects) /\ IsSeq(classes) /\ x[1] = s
      /\ \A k \in 1..Len(subjects) : subjects[k] \in DOMAIN conditions
      /\ \A k, l \in 1..Len(subjects) : subjects[k] = subjects[l] => k = l
      /\ \A m \in 1..Len(classes) : \E k \in 1..Len(subjects) : k < step /\ classes[m][1] = subjects[k]
      /\ \A m, n \in 1..Len(classes) : classes[m][1] = classes[n][1] => m = n
      /\ step # 0
  BY DEF AddRecord, KeysInv, slots
<1>2. Len(subjects) \in Nat /\ Len(classes) \in Nat /\ step \in 1..Len(subjects)
  BY <1>1, Appended
<1>3. /\ IsSeq(Append(classes, x)) /\ Len(Append(classes, x)) = Len(classes) + 1
      /\ \A i \in 1..Len(classes) : Append(classes, x)[i] = classes[i]
      /\ Append(classes, x)[Len(classes) + 1] = x
  BY <1>1, Appended
<1>4. CASE s \notin ClassName
  BY <1>1, <1>2, <1>4 DEF KeysInv
<1>5. CASE s \in ClassName
  <2>1. classes' = Append(classes, x)
    BY <1>1, <1>5
  <2>2. \A m \in 1..Len(classes) : classes[m][1] # s
    BY <1>1, <1>2
  <2>3. ASSUME NEW m \in 1..Len(classes')
        PROVE  \E k \in 1..Len(subjects) : k < step' /\ classes'[m][1] = subjects[k]
    <3>1. CASE m \in 1..Len(classes)
      <4>1. PICK k \in 1..Len(subjects) : k < step /\ classes[m][1] = subjects[k]
        BY <1>1, <3>1
      <4>2. classes'[m] = classes[m] /\ k < step'
        BY <1>1, <1>2, <1>3, <2>1, <3>1, <4>1
      <4> QED BY <4>1, <4>2
    <3>2. CASE m = Len(classes) + 1
      <4>1. classes'[m][1] = subjects[step] /\ step < step'
        BY <1>1, <1>2, <1>3, <2>1, <3>2
      <4> QED BY <1>2, <4>1
    <3>3. m \in 1..Len(classes) \/ m = Len(classes) + 1
      <4>1. m \in 1..(Len(classes) + 1)
        BY <1>3, <2>1
      <4> QED BY <1>2, <4>1
    <3> QED BY <3>1, <3>2, <3>3
  <2> HIDE DEF s, x
  <2>4. \A m, n \in 1..Len(classes') : classes'[m][1] = classes'[n][1] => m = n
    BY <1>1, <1>2, <1>3, <2>1, <2>2
  <2> QED BY <1>1, <1>2, <1>3, <2>1, <2>3, <2>4 DEF KeysInv
<1> QED BY <1>4, <1>5

LEMMA KeyAliasKeys == KeysInv /\ KeyAlias => KeysInv'
<1> SUFFICES ASSUME KeysInv, KeyAlias PROVE KeysInv'
  OBVIOUS
<1>1. CASE aliases[step][1] \in Keys
  BY <1>1, KeysUnchanged DEF KeyAlias, KeysInv, slots
<1>2. CASE aliases[step][1] \notin Keys
  <2> DEFINE x == aliases[step]
  <2>1. /\ classes' = Append(classes, x) /\ phase' = "alias" /\ step' = step + 1 /\ step \in Nat
        /\ subjects' = subjects /\ conditions' = conditions /\ IsSeq(classes)
        /\ \A m, n \in 1..Len(classes) : classes[m][1] = classes[n][1] => m = n
    BY <1>2 DEF KeyAlias, KeysInv, slots
  <2>2. /\ IsSeq(Append(classes, x)) /\ Len(Append(classes, x)) = Len(classes) + 1
        /\ Len(classes) \in Nat /\ DOMAIN classes = 1..Len(classes)
        /\ \A i \in 1..Len(classes) : Append(classes, x)[i] = classes[i]
        /\ Append(classes, x)[Len(classes) + 1] = x
    BY <2>1, Appended
  <2>3. \A m \in 1..Len(classes) : classes[m][1] # x[1]
    BY <1>2, <2>2 DEF Keys
  <2> HIDE DEF x
  <2>4. \A m, n \in 1..Len(classes') : classes'[m][1] = classes'[n][1] => m = n
    BY <2>1, <2>2, <2>3
  <2> QED BY <2>1, <2>2, <2>4 DEF KeysInv
<1> QED BY <1>1, <1>2

LEMMA NextKeys == KeysInv /\ MergeInv /\ [Next]_vars => KeysInv'
<1> SUFFICES ASSUME KeysInv, MergeInv, [Next]_vars PROVE KeysInv'
  OBVIOUS
<1>1. CASE Collect \/ SlotsAdded \/ WriteNext \/ Written \/ ListAliases \/ Merged \/ UNCHANGED vars
  <2>1. CASE Collect
    BY <2>1, KeysUnchanged DEF Collect, slots, result, KeysInv
  <2>2. CASE SlotsAdded
    BY <2>2, KeysUnchanged DEF SlotsAdded, slots, result, KeysInv
  <2>3. CASE WriteNext
    BY <2>3, KeysUnchanged DEF WriteNext, result, KeysInv
  <2>4. CASE Written
    BY <2>4, KeysUnchanged DEF Written, slots, result, KeysInv
  <2>5. CASE ListAliases
    BY <2>5, KeysUnchanged DEF ListAliases, slots, KeysInv
  <2>6. CASE Merged
    BY <2>6, KeysUnchanged DEF Merged, slots, result, KeysInv
  <2>7. CASE UNCHANGED vars
    BY <2>7, KeysUnchanged DEF vars, slots, result, KeysInv
  <2> QED BY <1>1, <2>1, <2>2, <2>3, <2>4, <2>5, <2>6, <2>7
<1>2. CASE AddRecord
  BY <1>2, AddRecordKeys
<1>3. CASE Merge
  BY <1>1, <1>2, <1>3, AddSlotKeys, KeyAliasKeys DEF Merge
<1>4. CASE \E ms \in Inputs : Begin(ms)
  BY <1>4, EmptyIsSeq DEF Begin, KeysInv
<1> QED BY <1>1, <1>3, <1>4 DEF Next

\* For every mount sequence, no class key reads two records: two declarations,
\* two aliases, or a declaration and an alias of one spelling never coexist.
THEOREM ClassKeysUnique == Spec => []OneRecordPerKey
<1>1. Init => KeysInv
  BY EmptyIsSeq DEF Init, KeysInv
<1>2. KeysInv => OneRecordPerKey
  BY Appended DEF KeysInv, OneRecordPerKey
<1> QED BY <1>1, <1>2, InitMerge, NextMerge, NextKeys, PTL DEF Spec
=============================================================================
