------------------------ MODULE SetMergeResultProofs ------------------------
(***************************************************************************)
(* What a finished merge holds, for every mount sequence: the records in   *)
(* the order of the subjects' first entries, the class keys that the       *)
(* records declare and state, and a refusal for one of two reasons only.   *)
(* The first part is about lists in the order of first positions; before   *)
(* the class keys come lists behind each other.                            *)
(***************************************************************************)
EXTENDS SetMergeProofs

-----------------------------------------------------------------------------
(* Lists in the order of first entries.                                    *)

\* i is the first of the positions I that has the label x.
IsFirstOf(i, label, I, x) == i \in I /\ label[i] = x /\ \A j \in I : j < i => label[j] # x

\* A list of the labels that the positions of I up to h have, each once, in the
\* order of their first positions.
InFirstOrder(list, label, I, h) ==
  /\ IsSeq(list)
  /\ \A i \in I : i <= h => \E k \in 1..Len(list) : list[k] = label[i]
  /\ \A k \in 1..Len(list) : \E i \in I : i <= h /\ IsFirstOf(i, label, I, list[k])
  /\ \A k, l \in 1..Len(list) : \A i, j \in I :
       k < l /\ IsFirstOf(i, label, I, list[k]) /\ IsFirstOf(j, label, I, list[l]) => i < j

\* A label has one first position.
LEMMA FirstIsOne ==
  ASSUME NEW label, NEW I, I \subseteq Nat, NEW x, NEW i, IsFirstOf(i, label, I, x),
         NEW j, IsFirstOf(j, label, I, x)
  PROVE  i = j
<1>1. i \in Nat /\ j \in Nat /\ ~(i < j) /\ ~(j < i)
  BY DEF IsFirstOf
<1> QED BY <1>1

\* Before the first position, no label is listed.
LEMMA NothingListed ==
  ASSUME NEW label, NEW I, NEW h, \A i \in I : ~(i <= h)
  PROVE  InFirstOrder(<<>>, label, I, h)
BY EmptyIsSeq DEF InFirstOrder

\* A label that is listed already is not listed again.
LEMMA Skipped ==
  ASSUME NEW list, NEW label, NEW I, I \subseteq Nat, NEW h \in Nat, InFirstOrder(list, label, I, h),
         h + 1 \in I => \E k \in 1..Len(list) : list[k] = label[h + 1]
  PROVE  InFirstOrder(list, label, I, h + 1)
<1>1. \A i \in I : i <= h + 1 => i <= h \/ i = h + 1
  OBVIOUS
<1>2. \A i \in I : i <= h => i <= h + 1
  OBVIOUS
<1>3. \A i \in I : i <= h + 1 => \E k \in 1..Len(list) : list[k] = label[i]
  BY <1>1 DEF InFirstOrder
<1>4. \A k \in 1..Len(list) : \E i \in I : i <= h + 1 /\ IsFirstOf(i, label, I, list[k])
  BY <1>2 DEF InFirstOrder
<1> QED BY <1>3, <1>4 DEF InFirstOrder

\* A new label is listed last: its first position is behind all others.
LEMMA Listed ==
  ASSUME NEW list, NEW label, NEW I, I \subseteq Nat, NEW h \in Nat, InFirstOrder(list, label, I, h),
         h + 1 \in I, \A k \in 1..Len(list) : list[k] # label[h + 1]
  PROVE  InFirstOrder(Append(list, label[h + 1]), label, I, h + 1)
<1> DEFINE x == label[h + 1]
           more == Append(list, x)
<1>1. /\ IsSeq(more) /\ Len(list) \in Nat /\ Len(more) = Len(list) + 1
      /\ \A k \in 1..Len(list) : more[k] = list[k]
      /\ more[Len(list) + 1] = x
  BY Appended DEF InFirstOrder
<1>2. \A k \in 1..Len(more) : k \in 1..Len(list) \/ k = Len(list) + 1
  BY <1>1
<1>3. \A k \in 1..Len(list) : k \in 1..Len(more) /\ k < Len(list) + 1
  BY <1>1
<1>4. Len(list) + 1 \in 1..Len(more)
  BY <1>1
<1> HIDE DEF more
<1>5. IsFirstOf(h + 1, label, I, x)
  <2>1. \A j \in I : j < h + 1 => j <= h
    OBVIOUS
  <2>2. \A j \in I : j < h + 1 => label[j] # x
    BY <2>1 DEF InFirstOrder
  <2> QED BY <2>2 DEF IsFirstOf
<1> HIDE DEF x
<1>6. ASSUME NEW i \in I, i <= h + 1 PROVE \E k \in 1..Len(more) : more[k] = label[i]
  <2>1. CASE i = h + 1
    BY <1>1, <1>4, <2>1 DEF x
  <2>2. CASE i <= h
    <3>1. PICK k \in 1..Len(list) : list[k] = label[i]
      BY <2>2 DEF InFirstOrder
    <3> QED BY <1>1, <1>3, <3>1
  <2> QED BY <1>6, <2>1, <2>2
<1>7. ASSUME NEW k \in 1..Len(more) PROVE \E i \in I : i <= h + 1 /\ IsFirstOf(i, label, I, more[k])
  <2>1. CASE k \in 1..Len(list)
    <3>1. PICK i \in I : i <= h /\ IsFirstOf(i, label, I, list[k])
      BY <2>1 DEF InFirstOrder
    <3>2. i <= h + 1 /\ more[k] = list[k]
      BY <1>1, <2>1, <3>1
    <3> QED BY <3>1, <3>2
  <2>2. CASE k = Len(list) + 1
    BY <1>1, <1>5, <2>2
  <2> QED BY <1>2, <2>1, <2>2
<1>8. ASSUME NEW k \in 1..Len(more), NEW l \in 1..Len(more), NEW i \in I, NEW j \in I,
             k < l, IsFirstOf(i, label, I, more[k]), IsFirstOf(j, label, I, more[l])
      PROVE  i < j
  <2>1. k \in 1..Len(list) /\ more[k] = list[k]
    BY <1>1, <1>2, <1>8
  <2>2. CASE l \in 1..Len(list)
    BY <1>1, <1>8, <2>1, <2>2 DEF InFirstOrder
  <2>3. CASE l = Len(list) + 1
    <3>1. PICK m \in I : m <= h /\ IsFirstOf(m, label, I, list[k])
      BY <2>1 DEF InFirstOrder
    <3>2. m = i
      BY <1>8, <2>1, <3>1, FirstIsOne
    <3>3. more[l] = x
      BY <1>1, <2>3
    <3>4. j = h + 1
      BY <1>5, <1>8, <3>3, FirstIsOne
    <3> QED BY <3>1, <3>2, <3>4
  <2> QED BY <1>2, <2>2, <2>3
<1> QED BY <1>1, <1>6, <1>7, <1>8 DEF InFirstOrder, more, x

\* What is kept of a list in first order is in first order.
LEMMA KeptInOrder ==
  ASSUME NEW list, NEW label, NEW I, I \subseteq Nat, NEW h, InFirstOrder(list, label, I, h), NEW S
  PROVE  /\ IsSeq(Kept(list, S))
         /\ \A m, n \in 1..Len(Kept(list, S)) : \A i, j \in I :
              m < n /\ IsFirstOf(i, label, I, Kept(list, S)[m])
                    /\ IsFirstOf(j, label, I, Kept(list, S)[n]) => i < j
<1>1. PICK T : list \in Seq(T)
  BY DEF InFirstOrder, IsSeq
<1>2. Kept(list, S) \in Seq(T) /\ KeptUpTo(list, S, Len(list), Kept(list, S))
  BY <1>1, KeptFacts
<1> DEFINE t == Kept(list, S)
<1> HIDE DEF t
<1>3. t \in Seq(T) /\ KeptUpTo(list, S, Len(list), t)
  BY <1>2 DEF t
<1>4. ASSUME NEW m \in 1..Len(t), NEW n \in 1..Len(t), NEW i \in I, NEW j \in I, m < n,
             IsFirstOf(i, label, I, t[m]), IsFirstOf(j, label, I, t[n])
      PROVE  i < j
  <2>1. PICK a, b \in 1..Len(list) : a < b /\ t[m] = list[a] /\ t[n] = list[b]
    BY <1>3, <1>4 DEF KeptUpTo
  <2> QED BY <1>4, <2>1 DEF InFirstOrder
<1> QED BY <1>3, <1>4 DEF IsSeq, t

-----------------------------------------------------------------------------
(* The order of the fold.                                                  *)

\* The subject and the condition of each entry, and the entries of a subject.
SubjectAt   == [i \in Items |-> mounted[i].entry.subject]
ConditionAt == [i \in Items |-> mounted[i].entry.condition]
ItemsOf(s)  == {i \in Items : mounted[i].entry.subject = s}

\* The entries whose slots are there, once the entries are collected.
Folding == phase \in {"slots", "write"} \/ Folded
Reached == IF phase = "slots" THEN step - 1 ELSE Len(mounted)

\* Subjects, and the conditions of each subject, are listed as they come first.
OrderInv ==
  /\ phase \in {"idle", "collect"} => subjects = <<>> /\ DOMAIN conditions = {} /\ DOMAIN inForce = {}
  /\ Folding =>
       /\ Reached \in 0..Len(mounted)
       /\ \A i \in 1..Reached : ~ConditionalSignature(mounted[i].entry)
       /\ DOMAIN inForce = {Key(i) : i \in 1..Reached}
       /\ DOMAIN conditions = {mounted[i].entry.subject : i \in 1..Reached}
       /\ InFirstOrder(subjects, SubjectAt, Items, Reached)
       /\ \A s \in DOMAIN conditions : InFirstOrder(conditions[s], ConditionAt, ItemsOf(s), Reached)

\* A step that leaves the fold alone keeps the order.
LEMMA OrderUnchanged ==
  ASSUME OrderInv, UNCHANGED <<mounted, subjects, conditions>>, DOMAIN inForce' = DOMAIN inForce,
         \/ phase' = "failed"
         \/ Folding /\ Folding' /\ Reached' = Reached
         \/ phase = phase' /\ step' = step
  PROVE  OrderInv'
<1>1. /\ SubjectAt' = SubjectAt /\ ConditionAt' = ConditionAt /\ Items' = Items
      /\ (\A s : ItemsOf(s)' = ItemsOf(s)) /\ (\A i : Key(i)' = Key(i))
  BY DEF SubjectAt, ConditionAt, ItemsOf, Items, Key
<1>2. CASE phase' = "failed"
  BY <1>2 DEF OrderInv, Folding, Folded
<1>3. CASE Folding /\ Folding' /\ Reached' = Reached
  <2>1. phase' \notin {"idle", "collect"}
    BY <1>3 DEF Folding, Folded
  <2> QED BY <1>1, <1>3, <2>1 DEF OrderInv
<1>4. CASE phase' = phase /\ step' = step
  <2>1. Folding' = Folding /\ Reached' = Reached
    BY <1>4 DEF Folding, Folded, Reached
  <2> QED BY <1>1, <1>4, <2>1 DEF OrderInv
<1> QED BY <1>2, <1>3, <1>4

\* No slot is there before the last set is collected.
LEMMA CollectOrder == ASSUME OrderInv, MergeInv, Collect PROVE OrderInv'
<1>1. /\ phase = "collect" /\ phase' \in {"collect", "slots"}
      /\ subjects' = <<>> /\ DOMAIN conditions' = {} /\ DOMAIN inForce' = {}
      /\ mounted' \in Seq(Item)
  <2>1. MergeInv'
    BY CollectMerge
  <2> QED BY <2>1 DEF OrderInv, Collect, slots, MergeInv, Collected
<1>2. CASE phase' = "collect"
  BY <1>1, <1>2 DEF OrderInv, Folding, Folded
<1>3. CASE phase' = "slots"
  <2>1. step' = 1 /\ Reached' = 0 /\ Len(mounted') \in Nat
    BY <1>1, <1>3 DEF Collect, Reached
  <2>2. 1..0 = {}
    OBVIOUS
  <2>3. InFirstOrder(subjects, SubjectAt, Items, Reached)'
    <3>1. PICK label, I : label = SubjectAt' /\ I = Items'
      OBVIOUS
    <3>2. \A i \in I : ~(i <= 0)
      BY <2>1, <3>1 DEF Items
    <3>3. InFirstOrder(<<>>, label, I, 0)
      BY <3>2, NothingListed
    <3> QED BY <1>1, <2>1, <3>1, <3>3
  <2> QED BY <1>1, <1>3, <2>1, <2>2, <2>3 DEF OrderInv
<1> QED BY <1>1, <1>2, <1>3

\* The next entry lists its subject and its condition unless they are listed.
LEMMA AddSlotOrder == ASSUME OrderInv, MergeInv, AddSlot PROVE OrderInv'
<1>1. CASE phase' = "failed"
  BY <1>1, OrderUnchanged DEF AddSlot, slots
<1>2. CASE phase' # "failed"
  <2>1. PICK h, s, c, label, where, I :
          /\ h = step - 1 /\ s = mounted[step].entry.subject /\ c = mounted[step].entry.condition
          /\ label = SubjectAt /\ where = ConditionAt /\ I = Items
    OBVIOUS
  <2>2. /\ mounted' = mounted /\ phase = "slots" /\ phase' = "slots" /\ step' = step + 1
        /\ ~ConditionalSignature(mounted[step].entry)
        /\ subjects' = IF s \in DOMAIN conditions THEN subjects ELSE Append(subjects, s)
        /\ conditions' = [t \in DOMAIN conditions \cup {s} |->
             CASE t # s -> conditions[t]
               [] t = s /\ <<s, c>> \in DOMAIN inForce -> conditions[s]
               [] t = s /\ s \notin DOMAIN conditions -> <<c>>
               [] OTHER -> Append(conditions[s], c)]
        /\ DOMAIN inForce' = DOMAIN inForce \cup {<<s, c>>}
    BY <1>2, <2>1 DEF AddSlot, Inserted
  <2>3. /\ step \in Items /\ step \in Nat \ {0} /\ Len(mounted) \in Nat /\ h \in Nat /\ h + 1 = step
        /\ Reached = h /\ Reached' = h + 1 /\ h + 1 \in 0..Len(mounted)
        /\ I = 1..Len(mounted) /\ I \subseteq Nat /\ h + 1 \in I
        /\ label[h + 1] = s /\ where[h + 1] = c
    <3>1. step \in Nat \ {0} /\ step <= Len(mounted) /\ Len(mounted) \in Nat
      BY <2>2 DEF MergeInv, Collected, AddSlot
    <3>2. step \in Items /\ h \in Nat /\ h + 1 = step /\ h + 1 \in 0..Len(mounted)
      BY <2>1, <3>1 DEF Items
    <3>3. Reached = h /\ Reached' = step' - 1 /\ step' - 1 = h + 1
      BY <2>1, <2>2, <3>1 DEF Reached
    <3>4. SubjectAt[step] = s /\ ConditionAt[step] = c
      BY <2>1, <3>2 DEF SubjectAt, ConditionAt
    <3>5. I = 1..Len(mounted) /\ I \subseteq Nat
      BY <2>1 DEF Items
    <3>6. label[h + 1] = s /\ where[h + 1] = c
      BY <2>1, <3>2, <3>4
    <3> QED BY <2>1, <3>1, <3>2, <3>3, <3>5, <3>6
  <2>4. /\ SubjectAt' = label /\ ConditionAt' = where /\ Items' = I
        /\ (\A t : ItemsOf(t)' = ItemsOf(t)) /\ (\A i : Key(i)' = Key(i))
    BY <2>1, <2>2 DEF SubjectAt, ConditionAt, ItemsOf, Items, Key
  <2>5. \A i : i \in 1..(h + 1) <=> (i \in 1..h \/ i = h + 1)
    BY <2>3
  <2>6. /\ \A i \in 1..h : ~ConditionalSignature(mounted[i].entry)
        /\ DOMAIN inForce = {Key(i) : i \in 1..h}
        /\ DOMAIN conditions = {mounted[i].entry.subject : i \in 1..h}
        /\ InFirstOrder(subjects, label, I, h)
        /\ \A t \in DOMAIN conditions : InFirstOrder(conditions[t], where, ItemsOf(t), h)
    BY <2>1, <2>2, <2>3 DEF OrderInv, Folding
  <2>7. \A i \in 1..(h + 1) : ~ConditionalSignature(mounted'[i].entry)
    BY <2>2, <2>3, <2>5, <2>6
  <2>8. DOMAIN inForce' = {Key(i)' : i \in 1..(h + 1)}
    <3>1. Key(h + 1) = <<s, c>>
      BY <2>1, <2>3 DEF Key
    <3> QED BY <2>2, <2>4, <2>5, <2>6, <3>1
  <2>9. DOMAIN conditions' = {mounted'[i].entry.subject : i \in 1..(h + 1)}
    <3>1. mounted[h + 1].entry.subject = s
      BY <2>1, <2>3
    <3> QED BY <2>2, <2>5, <2>6, <3>1
  <2>10. InFirstOrder(subjects', label, I, h + 1)
    <3>1. CASE s \in DOMAIN conditions
      <4>1. PICK i \in 1..h : mounted[i].entry.subject = s
        BY <2>6, <3>1
      <4>2. i \in I /\ i <= h /\ label[i] = s
        BY <2>1, <2>3, <4>1 DEF SubjectAt, Items
      <4>3. \E k \in 1..Len(subjects) : subjects[k] = label[h + 1]
        BY <2>3, <2>6, <4>2 DEF InFirstOrder
      <4>4. PICK list : list = subjects
        OBVIOUS
      <4>5. InFirstOrder(list, label, I, h + 1)
        BY <2>3, <2>6, <4>3, <4>4, Skipped
      <4> QED BY <2>2, <3>1, <4>4, <4>5
    <3>2. CASE s \notin DOMAIN conditions
      <4>1. PICK list : list = subjects
        OBVIOUS
      <4>2. ASSUME NEW k \in 1..Len(list) PROVE list[k] # label[h + 1]
        <5>1. PICK i \in I : i <= h /\ label[i] = list[k]
          BY <2>6, <4>1 DEF InFirstOrder, IsFirstOf
        <5>2. i \in 1..h /\ mounted[i].entry.subject = list[k]
          BY <2>1, <2>3, <5>1 DEF SubjectAt, Items
        <5> QED BY <2>3, <2>6, <3>2, <5>2
      <4>3. InFirstOrder(Append(list, label[h + 1]), label, I, h + 1)
        BY <2>3, <2>6, <4>1, <4>2, Listed
      <4> QED BY <2>2, <2>3, <3>2, <4>1, <4>3
    <3> QED BY <3>1, <3>2
  <2>11. ASSUME NEW t \in DOMAIN conditions'
         PROVE  InFirstOrder(conditions'[t], where, ItemsOf(t), h + 1)
    <3>1. PICK J, list : J = ItemsOf(t) /\ list = conditions[t]
      OBVIOUS
    <3>2. J \subseteq Nat /\ (\A i : i \in J <=> i \in I /\ mounted[i].entry.subject = t)
          /\ \A i \in I : where[i] = mounted[i].entry.condition
      BY <2>1, <2>3, <3>1 DEF ItemsOf, ConditionAt, Items
    <3>3. CASE t # s
      <4>1. t \in DOMAIN conditions /\ conditions'[t] = list
        BY <2>2, <2>11, <3>1, <3>3
      <4>2. h + 1 \notin J
        BY <2>1, <2>3, <3>2, <3>3
      <4>3. InFirstOrder(list, where, J, h)
        BY <2>6, <3>1, <4>1
      <4>4. InFirstOrder(list, where, J, h + 1)
        BY <2>3, <3>2, <4>2, <4>3, Skipped
      <4> QED BY <3>1, <4>1, <4>4
    <3>4. CASE t = s
      <4>1. h + 1 \in J
        BY <2>1, <2>3, <3>2, <3>4
      <4>2. CASE <<s, c>> \in DOMAIN inForce
        <5>1. PICK i \in 1..h : Key(i) = <<s, c>>
          BY <2>6, <4>2
        <5>2. i \in J /\ i <= h /\ where[i] = c /\ s \in DOMAIN conditions
          <6>1. mounted[i].entry.subject = s /\ mounted[i].entry.condition = c
            BY <5>1 DEF Key
          <6>2. i \in I /\ i <= h
            BY <2>3, <5>1
          <6> QED BY <2>6, <3>2, <3>4, <5>1, <6>1, <6>2
        <5>3. InFirstOrder(list, where, J, h) /\ conditions'[t] = list
          BY <2>2, <2>6, <3>1, <3>4, <4>2, <5>2
        <5>4. \E k \in 1..Len(list) : list[k] = where[h + 1]
          BY <2>3, <5>2, <5>3 DEF InFirstOrder
        <5>5. InFirstOrder(list, where, J, h + 1)
          BY <2>3, <3>2, <5>3, <5>4, Skipped
        <5> QED BY <3>1, <5>3, <5>5
      <4>3. CASE <<s, c>> \notin DOMAIN inForce
        <5>1. \A i \in J : i <= h => where[i] # c
          <6> SUFFICES ASSUME NEW i \in J, i <= h, where[i] = c PROVE FALSE
            OBVIOUS
          <6>1. i \in 1..h /\ Key(i) = <<s, c>>
            BY <2>3, <3>2, <3>4 DEF Key
          <6> QED BY <2>6, <4>3, <6>1
        <5>2. CASE s \notin DOMAIN conditions
          <6>1. conditions'[t] = <<c>>
            BY <2>2, <3>4, <4>3, <5>2
          <6>2. <<c>> = Append(<<>>, where[h + 1])
            BY <2>3
          <6>3. \A i \in J : ~(i <= h)
            <7> SUFFICES ASSUME NEW i \in J, i <= h PROVE FALSE
              OBVIOUS
            <7>1. i \in 1..h /\ mounted[i].entry.subject = s
              BY <2>3, <3>2, <3>4
            <7> QED BY <2>6, <5>2, <7>1
          <6>4. InFirstOrder(<<>>, where, J, h)
            BY <6>3, NothingListed
          <6>5. \A k \in 1..Len(<<>>) : <<>>[k] # where[h + 1]
            BY EmptyIsSeq
          <6>6. InFirstOrder(Append(<<>>, where[h + 1]), where, J, h + 1)
            BY <2>3, <3>2, <4>1, <6>4, <6>5, Listed
          <6> QED BY <3>1, <6>1, <6>2, <6>6
        <5>3. CASE s \in DOMAIN conditions
          <6>1. conditions'[t] = Append(list, c) /\ InFirstOrder(list, where, J, h)
            BY <2>2, <2>6, <3>1, <3>4, <4>3, <5>3
          <6>2. \A k \in 1..Len(list) : list[k] # where[h + 1]
            <7> SUFFICES ASSUME NEW k \in 1..Len(list) PROVE list[k] # where[h + 1]
              OBVIOUS
            <7>1. PICK i \in J : i <= h /\ IsFirstOf(i, where, J, list[k])
              BY <6>1 DEF InFirstOrder
            <7>2. where[i] = list[k] /\ where[i] # c
              BY <5>1, <7>1 DEF IsFirstOf
            <7> QED BY <2>3, <7>2
          <6>3. InFirstOrder(Append(list, where[h + 1]), where, J, h + 1)
            BY <2>3, <3>2, <4>1, <6>1, <6>2, Listed
          <6> QED BY <2>3, <3>1, <6>1, <6>3
        <5> QED BY <5>2, <5>3
      <4> QED BY <4>2, <4>3
    <3> QED BY <3>3, <3>4
  <2> QED BY <2>1, <2>2, <2>3, <2>4, <2>7, <2>8, <2>9, <2>10, <2>11 DEF OrderInv
<1> QED BY <1>1, <1>2

\* Every step keeps the order of first entries.
LEMMA NextOrder == OrderInv /\ MergeInv /\ [Next]_vars => OrderInv'
<1> SUFFICES ASSUME OrderInv, MergeInv, [Next]_vars PROVE OrderInv'
  OBVIOUS
<1>1. CASE SlotsAdded
  <2>1. mounted \in Seq(Item) /\ step \in Nat /\ phase = "slots" /\ step > Len(mounted) /\ Len(mounted) \in Nat
    BY <1>1 DEF MergeInv, Collected, SlotsAdded
  <2>2. Reached = Len(mounted) /\ Folding /\ Folding'
    <3>1. Reached = step - 1 /\ Reached \in 0..Len(mounted)
      BY <1>1, <2>1 DEF OrderInv, Folding, Reached
    <3> QED BY <1>1, <2>1, <3>1 DEF Folding, SlotsAdded
  <2>3. Reached' = Len(mounted)
    BY <1>1 DEF SlotsAdded, Reached
  <2> QED BY <1>1, <2>2, <2>3, OrderUnchanged DEF SlotsAdded, slots
<1>2. CASE WriteNext \/ Written \/ AddRecord \/ ListAliases \/ KeyAlias \/ Merged
  <2>1. UNCHANGED <<mounted, subjects, conditions>>
    BY <1>2 DEF WriteNext, Written, AddRecord, ListAliases, KeyAlias, Merged, slots
  <2>2. DOMAIN inForce' = DOMAIN inForce
    BY <1>2 DEF WriteNext, Written, AddRecord, ListAliases, KeyAlias, Merged, slots
  <2>3. phase' = "failed" \/ (Folding /\ Folding' /\ Reached' = Reached)
    BY <1>2 DEF WriteNext, Written, AddRecord, ListAliases, KeyAlias, Merged, slots, Folding, Folded, Reached
  <2> QED BY <2>1, <2>2, <2>3, OrderUnchanged
<1>3. CASE UNCHANGED vars
  BY <1>3, OrderUnchanged DEF vars
<1>4. CASE \E ms \in Inputs : Begin(ms)
  BY <1>4 DEF Begin, OrderInv, Folding, Folded
<1> QED BY <1>1, <1>2, <1>3, <1>4, CollectOrder, AddSlotOrder DEF Next, Merge

-----------------------------------------------------------------------------
(* The records.                                                            *)

\* There is a record for each subject passed, and it is what the fold says.
RecordsInv ==
  /\ IsSeq(records) /\ IsSeq(subjects)
  /\ phase \in {"idle", "collect", "slots", "write"} => records = <<>>
  /\ phase = "assemble" => step \in 1..(Len(subjects) + 1) /\ Len(records) = step - 1
  /\ phase \in {"alias", "done"} => Len(records) = Len(subjects)
  /\ Folded => \A k \in 1..Len(records) : records[k] = Record(subjects[k])

\* Record and Signature read only the fold.
LEMMA RecordUnchanged ==
  ASSUME UNCHANGED <<mounted, conditions, inForce>>
  PROVE  \A s : Record(s)' = Record(s) /\ Signature(s)' = Signature(s)
<1>1. \A s : Signature(s)' = Signature(s)
  BY DEF Signature
<1>2. \A s, u : InForceOf(s, u)' = InForceOf(s, u)
  BY DEF InForceOf
<1> QED BY <1>1, <1>2 DEF Record

\* A step that leaves subjects and records alone keeps them in step.
LEMMA RecordsUnchanged ==
  ASSUME RecordsInv, UNCHANGED <<records, subjects>>,
         \/ phase' = "failed"
         \/ phase' \in {"alias", "done"} /\ Len(records) = Len(subjects) /\ Folded
            /\ UNCHANGED <<mounted, conditions, inForce>>
         \/ UNCHANGED <<phase, step>> /\ (Folded => UNCHANGED <<mounted, conditions, inForce>>)
         \/ phase \in {"idle", "collect", "slots", "write"} /\ phase' \in {"collect", "slots", "write"}
         \/ phase = "write" /\ phase' = "assemble" /\ step' = 1
  PROVE  RecordsInv'
<1>1. /\ IsSeq(records) /\ IsSeq(subjects) /\ IsSeq(records') /\ IsSeq(subjects')
      /\ Len(subjects) \in Nat /\ records' = records /\ subjects' = subjects
  BY Appended DEF RecordsInv
<1>2. CASE phase' = "failed"
  BY <1>1, <1>2 DEF RecordsInv, Folded
<1>3. CASE phase' \in {"alias", "done"} /\ Len(records) = Len(subjects) /\ Folded
            /\ UNCHANGED <<mounted, conditions, inForce>>
  <2>1. \A s : Record(s)' = Record(s)
    BY <1>3, RecordUnchanged
  <2> QED BY <1>1, <1>3, <2>1 DEF RecordsInv
<1>4. CASE UNCHANGED <<phase, step>> /\ (Folded => UNCHANGED <<mounted, conditions, inForce>>)
  <2>1. Folded' = Folded
    BY <1>4 DEF Folded
  <2>2. Folded => \A s : Record(s)' = Record(s)
    BY <1>4, RecordUnchanged
  <2> QED BY <1>1, <1>4, <2>1, <2>2 DEF RecordsInv
<1>5. CASE phase \in {"idle", "collect", "slots", "write"} /\ phase' \in {"collect", "slots", "write"}
  BY <1>1, <1>5 DEF RecordsInv, Folded
<1>6. CASE phase = "write" /\ phase' = "assemble" /\ step' = 1
  BY <1>1, <1>6, EmptyIsSeq DEF RecordsInv, Folded
<1> QED BY <1>2, <1>3, <1>4, <1>5, <1>6

\* The next subject gets its record.
LEMMA AddRecordRecords == ASSUME RecordsInv, AddRecord PROVE RecordsInv'
<1>1. /\ phase = "assemble" /\ phase' = phase /\ step \in 1..Len(subjects) /\ step' = step + 1
      /\ Len(records) = step - 1 /\ subjects' = subjects /\ Folded /\ Folded' /\ Len(subjects) \in Nat
      /\ records' = Append(records, Record(subjects[step])) /\ IsSeq(records) /\ IsSeq(subjects)
  <2>1. Len(subjects) \in Nat
    BY Appended DEF RecordsInv
  <2> QED BY <2>1 DEF AddRecord, RecordsInv, slots, Folded
<1>2. \A s : Record(s)' = Record(s)
  BY RecordUnchanged DEF AddRecord, slots
<1>3. PICK rs, x : rs = records /\ x = Record(subjects[step])
  OBVIOUS
<1>4. /\ IsSeq(Append(rs, x)) /\ Len(Append(rs, x)) = Len(rs) + 1
      /\ \A k \in 1..Len(rs) : Append(rs, x)[k] = rs[k]
      /\ Append(rs, x)[Len(rs) + 1] = x
  BY <1>1, <1>3, Appended
<1>5. ASSUME NEW k \in 1..Len(records') PROVE records'[k] = Record(subjects[k])
  <2>1. k \in 1..Len(rs) \/ k = Len(rs) + 1
    BY <1>1, <1>3, <1>4
  <2>2. \A l \in 1..Len(rs) : rs[l] = Record(subjects[l])
    BY <1>1, <1>3 DEF RecordsInv
  <2>3. Len(rs) + 1 = step
    BY <1>1, <1>3
  <2> QED BY <1>1, <1>3, <1>4, <2>1, <2>2, <2>3
<1>6. step' \in 1..(Len(subjects') + 1) /\ Len(records') = step' - 1 /\ IsSeq(records') /\ IsSeq(subjects')
  BY <1>1, <1>3, <1>4
<1> QED BY <1>1, <1>2, <1>5, <1>6 DEF RecordsInv

\* Every step keeps the records those of the subjects passed.
LEMMA NextRecords == RecordsInv /\ OrderInv /\ MergeInv /\ [Next]_vars => RecordsInv'
<1> SUFFICES ASSUME RecordsInv, OrderInv, MergeInv, [Next]_vars PROVE RecordsInv'
  OBVIOUS
<1>1. CASE AddSlot
  <2>1. /\ records' = <<>> /\ phase' \in {"slots", "failed"} /\ IsSeq(subjects')
    <3>1. records' = <<>> /\ phase' \in {"slots", "failed"}
      BY <1>1 DEF AddSlot, RecordsInv, result
    <3>2. PICK list, x : list = subjects /\ x = mounted[step].entry.subject
      OBVIOUS
    <3>3. IsSeq(list) /\ IsSeq(Append(list, x))
      BY <3>2, Appended DEF RecordsInv
    <3>4. subjects' = list \/ subjects' = Append(list, x)
      BY <1>1, <3>2 DEF AddSlot, Inserted, slots
    <3> QED BY <3>1, <3>3, <3>4
  <2> QED BY <2>1, EmptyIsSeq DEF RecordsInv, Folded
<1>2. CASE Collect \/ SlotsAdded \/ WriteNext \/ Written \/ KeyAlias \/ UNCHANGED vars
  <2>1. UNCHANGED <<records, subjects>>
    BY <1>2 DEF Collect, SlotsAdded, WriteNext, Written, KeyAlias, vars, slots, result
  <2>2. \/ phase' = "failed"
        \/ phase' \in {"alias", "done"} /\ phase = "alias" /\ UNCHANGED <<mounted, conditions, inForce>>
        \/ UNCHANGED <<phase, step>> /\ (Folded => UNCHANGED <<mounted, conditions, inForce>>)
        \/ phase \in {"idle", "collect", "slots", "write"} /\ phase' \in {"collect", "slots", "write"}
        \/ phase = "write" /\ phase' = "assemble" /\ step' = 1
    BY <1>2 DEF Collect, SlotsAdded, WriteNext, Written, KeyAlias, vars, slots, result
  <2> QED BY <2>1, <2>2, RecordsUnchanged DEF RecordsInv, Folded
<1>3. CASE ListAliases \/ Merged
  <2>1. UNCHANGED <<records, subjects>> /\ UNCHANGED <<mounted, conditions, inForce>>
        /\ phase' \in {"alias", "done"} /\ Folded
    BY <1>3 DEF ListAliases, Merged, slots, result, Folded
  <2>2. Len(records) = Len(subjects)
    <3>1. CASE ListAliases
      <4>1. phase = "assemble" /\ step > Len(subjects) /\ Len(subjects) \in Nat
        BY <3>1, Appended DEF ListAliases, RecordsInv
      <4> QED BY <4>1 DEF RecordsInv
    <3>2. CASE Merged
      BY <3>2 DEF RecordsInv, Merged
    <3> QED BY <1>3, <3>1, <3>2
  <2> QED BY <2>1, <2>2, RecordsUnchanged
<1>4. CASE \E ms \in Inputs : Begin(ms)
  BY <1>4, EmptyIsSeq DEF Begin, RecordsInv, Folded
<1> QED BY <1>1, <1>2, <1>3, <1>4, AddRecordRecords DEF Next, Merge

\* Nothing is folded at first.
LEMMA InitOrder == Init => OrderInv /\ RecordsInv
BY EmptyIsSeq DEF Init, OrderInv, RecordsInv, Folding, Folded

\* The first entry of a subject, and of a condition of it.
LEMMA FirstEntryIs ==
  ASSUME NEW s, NEW i \in Items, IsFirstOf(i, SubjectAt, Items, s)
  PROVE  FirstEntry(s) \in Items /\ IsFirstOf(FirstEntry(s), SubjectAt, Items, s)
<1> DEFINE P(n) == n \in Items /\ mounted[n].entry.subject = s /\ \A j \in 1..(n - 1) : mounted[j].entry.subject # s
<1>1. \A n \in Items : P(n) <=> IsFirstOf(n, SubjectAt, Items, s)
  <2>1. \A n \in Items : \A j : j \in 1..(n - 1) <=> (j \in Items /\ j < n)
    BY DEF Items
  <2> QED BY <2>1 DEF IsFirstOf, SubjectAt
<1>2. FirstEntry(s) = CHOOSE n \in Items : P(n)
  BY DEF FirstEntry
<1>3. P(i)
  BY <1>1
<1> HIDE DEF P
<1>4. FirstEntry(s) \in Items /\ P(FirstEntry(s))
  BY <1>2, <1>3
<1> QED BY <1>1, <1>4

\* The same for a condition of a subject.
LEMMA FirstKeyIs ==
  ASSUME NEW s, NEW c, NEW i \in Items, IsFirstOf(i, ConditionAt, ItemsOf(s), c)
  PROVE  FirstKey(s, c) \in ItemsOf(s) /\ IsFirstOf(FirstKey(s, c), ConditionAt, ItemsOf(s), c)
<1> DEFINE P(n) == Key(n) = <<s, c>> /\ \A j \in 1..(n - 1) : Key(j) # <<s, c>>
<1>1. \A n \in Items : P(n) <=> IsFirstOf(n, ConditionAt, ItemsOf(s), c)
  <2>1. \A n \in Items : \A j : j \in 1..(n - 1) <=> (j \in Items /\ j < n)
    BY DEF Items
  <2>2. \A n : Key(n) = <<s, c>> <=> mounted[n].entry.subject = s /\ mounted[n].entry.condition = c
    BY DEF Key
  <2>3. \A n \in Items : (n \in ItemsOf(s) /\ ConditionAt[n] = c) <=> Key(n) = <<s, c>>
    BY <2>2 DEF ItemsOf, ConditionAt
  <2>4. \A n : n \in ItemsOf(s) => n \in Items
    BY DEF ItemsOf
  <2> QED BY <2>1, <2>3, <2>4 DEF IsFirstOf
<1>2. FirstKey(s, c) = CHOOSE n \in Items : P(n)
  BY DEF FirstKey
<1>3. P(i)
  BY <1>1
<1> HIDE DEF P
<1>4. FirstKey(s, c) \in Items /\ P(FirstKey(s, c))
  BY <1>2, <1>3
<1> QED BY <1>1, <1>4 DEF IsFirstOf

\* The records of a finished merge follow the order of the fold.
LEMMA OrderedRecords ==
  ASSUME OrderInv, RecordsInv, phase = "done"
  PROVE  MountOrder
<1>1. /\ Folding /\ Folded /\ Reached = Len(mounted) /\ 1..Reached = Items /\ Items \subseteq Nat
      /\ DOMAIN conditions = {mounted[i].entry.subject : i \in Items}
      /\ InFirstOrder(subjects, SubjectAt, Items, Len(mounted))
      /\ \A s \in DOMAIN conditions : InFirstOrder(conditions[s], ConditionAt, ItemsOf(s), Len(mounted))
      /\ \A i \in Items : i <= Len(mounted)
  <2>1. Folding /\ Folded /\ Reached = Len(mounted) /\ 1..Reached = Items
    BY DEF Folding, Folded, Reached, Items
  <2> QED BY <2>1 DEF OrderInv, Items
<1>2. /\ DOMAIN records = 1..Len(subjects)
      /\ \A k \in 1..Len(subjects) : records[k] = Record(subjects[k]) /\ records[k].subject = subjects[k]
  <2>1. DOMAIN records = 1..Len(records) /\ Len(records) = Len(subjects)
    BY Appended DEF RecordsInv
  <2>2. \A k \in 1..Len(records) : records[k] = Record(subjects[k])
    BY <1>1 DEF RecordsInv
  <2>3. \A s : Record(s).subject = s
    BY DEF Record
  <2> QED BY <2>1, <2>2, <2>3
<1>3. ASSUME NEW k \in 1..Len(subjects)
      PROVE  /\ FirstEntry(subjects[k]) \in Items
             /\ IsFirstOf(FirstEntry(subjects[k]), SubjectAt, Items, subjects[k])
             /\ subjects[k] \in {mounted[i].entry.subject : i \in Items}
  <2>1. PICK s : s = subjects[k]
    OBVIOUS
  <2>2. PICK i \in Items : IsFirstOf(i, SubjectAt, Items, s)
    BY <1>1, <2>1 DEF InFirstOrder
  <2>3. mounted[i].entry.subject = s
    BY <2>2 DEF IsFirstOf, SubjectAt
  <2> QED BY <2>1, <2>2, <2>3, FirstEntryIs
<1>4. {records[k].subject : k \in DOMAIN records} = {mounted[i].entry.subject : i \in Items}
  <2>1. ASSUME NEW i \in Items PROVE \E k \in 1..Len(subjects) : subjects[k] = mounted[i].entry.subject
    BY <1>1 DEF InFirstOrder, SubjectAt
  <2>2. {records[k].subject : k \in DOMAIN records} = {subjects[k] : k \in 1..Len(subjects)}
    BY <1>2
  <2>3. {mounted[i].entry.subject : i \in Items} \subseteq {subjects[k] : k \in 1..Len(subjects)}
    BY <2>1
  <2>4. {subjects[k] : k \in 1..Len(subjects)} \subseteq {mounted[i].entry.subject : i \in Items}
    BY <1>3
  <2> QED BY <2>2, <2>3, <2>4
<1>5. \A k, l \in DOMAIN records :
         k < l => FirstEntry(records[k].subject) < FirstEntry(records[l].subject)
  <2> SUFFICES ASSUME NEW k \in 1..Len(subjects), NEW l \in 1..Len(subjects), k < l
               PROVE  FirstEntry(subjects[k]) < FirstEntry(subjects[l])
    BY <1>2
  <2>1. PICK i \in Items, j \in Items :
             /\ i = FirstEntry(subjects[k]) /\ j = FirstEntry(subjects[l])
             /\ IsFirstOf(i, SubjectAt, Items, subjects[k])
             /\ IsFirstOf(j, SubjectAt, Items, subjects[l])
    BY <1>3
  <2>2. \A a, b \in 1..Len(subjects) : \A c, d \in Items :
             a < b /\ IsFirstOf(c, SubjectAt, Items, subjects[a])
                   /\ IsFirstOf(d, SubjectAt, Items, subjects[b]) => c < d
    BY <1>1 DEF InFirstOrder
  <2>3. i < j
    BY <2>1, <2>2
  <2> QED BY <2>1, <2>3
<1>6. ASSUME NEW k \in 1..Len(subjects), NEW u \in Unit \ {"signature"},
             NEW m \in DOMAIN records[k].facts[u], NEW n \in DOMAIN records[k].facts[u], m < n
      PROVE  FirstKey(records[k].subject, records[k].facts[u][m].condition)
               < FirstKey(records[k].subject, records[k].facts[u][n].condition)
  <2>1. PICK s, list, S, where, I :
          /\ s = subjects[k] /\ list = conditions[s] /\ where = ConditionAt /\ I = ItemsOf(s)
          /\ S = {c \in Condition : <<s, c>> \in DOMAIN inForce /\ u \in DOMAIN inForce[<<s, c>>]}
    OBVIOUS
  <2>2. s \in DOMAIN conditions /\ InFirstOrder(list, where, I, Len(mounted)) /\ I \subseteq Nat
    BY <1>1, <1>3, <2>1 DEF ItemsOf
  <2>3. PICK t : t = Kept(list, S)
    OBVIOUS
  <2>4. records[k].facts[u] = InForceOf(s, u)
    BY <1>2, <2>1 DEF Record
  <2>5. InForceOf(s, u) = [j \in 1..Len(t) |-> [condition |-> t[j], item |-> inForce[<<s, t[j]>>][u]]]
    BY <2>1, <2>3 DEF InForceOf
  <2>6. /\ m \in 1..Len(t) /\ n \in 1..Len(t)
        /\ records[k].facts[u][m].condition = t[m] /\ records[k].facts[u][n].condition = t[n]
    BY <2>4, <2>5
  <2>7. /\ IsSeq(t)
        /\ \A a, b \in 1..Len(t) : \A i, j \in I :
             a < b /\ IsFirstOf(i, where, I, t[a]) /\ IsFirstOf(j, where, I, t[b]) => i < j
    BY <2>2, <2>3, KeptInOrder
  <2>8. ASSUME NEW a \in 1..Len(t)
        PROVE  FirstKey(s, t[a]) \in I /\ IsFirstOf(FirstKey(s, t[a]), where, I, t[a])
    <3>1. PICK c : c = t[a]
      OBVIOUS
    <3>2. PICK b \in 1..Len(list) : c = list[b]
      <4>1. PICK T : list \in Seq(T)
        BY <2>2 DEF InFirstOrder, IsSeq
      <4>2. KeptUpTo(list, S, Len(list), t)
        BY <2>3, <4>1, KeptFacts
      <4> QED BY <3>1, <4>2 DEF KeptUpTo
    <3>3. PICK i \in I : IsFirstOf(i, where, I, c)
      BY <2>2, <3>2 DEF InFirstOrder
    <3>4. i \in Items
      BY <2>1 DEF ItemsOf
    <3> QED BY <2>1, <3>1, <3>3, <3>4, FirstKeyIs
  <2> QED BY <1>2, <1>6, <2>1, <2>6, <2>7, <2>8
<1> QED BY <1>2, <1>4, <1>5, <1>6 DEF MountOrder

\* For every mount sequence, records are enumerated in the mount order of the
\* first entry of each subject, whatever its rank, and the facts of a record in
\* that of the first entry of each condition.
THEOREM EnumerationFollowsMounts == Spec => []MountOrder
<1>1. OrderInv /\ RecordsInv => MountOrder
  <2>1. phase # "done" => MountOrder
    BY DEF MountOrder
  <2> QED BY <2>1, OrderedRecords
<1> QED BY <1>1, InitMerge, InitOrder, NextMerge, NextOrder, NextRecords, PTL DEF Spec

-----------------------------------------------------------------------------
(* Lists behind each other.                                                *)

\* t is the lists F[1], ..., F[n] behind each other: its p-th element is the
\* at[p]-th of the of[p]-th list, and every element of every list is there once.
Places(of, at, t, F, n) ==
  /\ \A p \in 1..Len(t) : of[p] \in 1..n /\ at[p] \in 1..Len(F[of[p]]) /\ t[p] = F[of[p]][at[p]]
  /\ \A p, q \in 1..Len(t) : of[p] = of[q] /\ at[p] = at[q] => p = q
  /\ \A k \in 1..n : \A j \in 1..Len(F[k]) : \E p \in 1..Len(t) : of[p] = k /\ at[p] = j

\* One list more behind the others.
LEMMA OneListMore ==
  ASSUME NEW T, NEW n \in Nat \ {0}, NEW F, F[n] \in Seq(T), NEW t \in Seq(T), NEW of, NEW at,
         Places(of, at, t, F, n - 1)
  PROVE  \E of2, at2 : Places(of2, at2, t \o F[n], F, n)
<1>1. PICK m, r : m = Len(t) /\ r = Len(F[n]) /\ m \in Nat /\ r \in Nat
  BY LenProperties
<1>2. PICK u : /\ u = t \o F[n] /\ Len(u) = m + r
               /\ \A p \in 1..m : u[p] = t[p]
               /\ \A p \in (m + 1)..(m + r) : u[p] = F[n][p - m]
  <2>1. PICK w \in Seq(T) : w = F[n]
    OBVIOUS
  <2>2. /\ t \o w \in Seq(T) /\ Len(t \o w) = Len(t) + Len(w)
        /\ \A i \in 1..Len(t) : (t \o w)[i] = t[i]
        /\ \A i \in (Len(t) + 1)..(Len(t) + Len(w)) : (t \o w)[i] = w[i - Len(t)]
    BY Concatenated, Zenon
  <2>3. PICK u : u = t \o w
    OBVIOUS
  <2>4. /\ Len(u) = m + r
        /\ \A p \in 1..m : u[p] = t[p]
        /\ \A p \in (m + 1)..(m + r) : u[p] = w[p - m]
    BY <1>1, <2>1, <2>2, <2>3
  <2> QED BY <2>1, <2>3, <2>4
<1> DEFINE of2 == [p \in 1..(m + r) |-> IF p <= m THEN of[p] ELSE n]
           at2 == [p \in 1..(m + r) |-> IF p <= m THEN at[p] ELSE p - m]
<1>3. \A p \in 1..m : of2[p] = of[p] /\ at2[p] = at[p]
  BY <1>1
<1>4. \A p \in (m + 1)..(m + r) : of2[p] = n /\ at2[p] = p - m
  BY <1>1
<1>5. \A p \in 1..(m + r) : p \in 1..m \/ p \in (m + 1)..(m + r)
  BY <1>1
<1>6. \A p \in 1..m : p \in 1..(m + r) /\ of[p] \in 1..n /\ of[p] # n /\ at[p] \in 1..Len(F[of[p]])
                      /\ t[p] = F[of[p]][at[p]]
  <2>1. \A k \in 1..(n - 1) : k \in 1..n /\ k # n
    OBVIOUS
  <2> QED BY <1>1, <2>1 DEF Places
<1> HIDE DEF of2, at2
<1>7. ASSUME NEW p \in 1..(m + r)
      PROVE  of2[p] \in 1..n /\ at2[p] \in 1..Len(F[of2[p]]) /\ u[p] = F[of2[p]][at2[p]]
  <2>1. CASE p \in 1..m
    BY <1>2, <1>3, <1>6, <2>1
  <2>2. CASE p \in (m + 1)..(m + r)
    <3>1. n \in 1..n /\ p - m \in 1..r
      BY <1>1, <2>2
    <3> QED BY <1>1, <1>2, <1>4, <2>2, <3>1
  <2> QED BY <1>5, <2>1, <2>2
<1>8. ASSUME NEW p \in 1..(m + r), NEW q \in 1..(m + r), of2[p] = of2[q], at2[p] = at2[q]
      PROVE  p = q
  <2>1. CASE p \in 1..m /\ q \in 1..m
    BY <1>1, <1>3, <1>8, <2>1 DEF Places
  <2>2. CASE p \in (m + 1)..(m + r) /\ q \in (m + 1)..(m + r)
    <3>1. p - m = q - m
      BY <1>4, <1>8, <2>2
    <3> QED BY <1>1, <3>1
  <2>3. CASE p \in 1..m /\ q \in (m + 1)..(m + r)
    BY <1>3, <1>4, <1>6, <1>8, <2>3
  <2>4. CASE q \in 1..m /\ p \in (m + 1)..(m + r)
    BY <1>3, <1>4, <1>6, <1>8, <2>4
  <2> QED BY <1>5, <2>1, <2>2, <2>3, <2>4
<1>9. ASSUME NEW k \in 1..n, NEW j \in 1..Len(F[k])
      PROVE  \E p \in 1..(m + r) : of2[p] = k /\ at2[p] = j
  <2>1. CASE k = n
    <3>1. m + j \in (m + 1)..(m + r) /\ m + j \in 1..(m + r) /\ (m + j) - m = j
      BY <1>1, <1>9, <2>1
    <3> QED BY <1>4, <2>1, <3>1
  <2>2. CASE k # n
    <3>1. k \in 1..(n - 1)
      BY <2>2
    <3>2. PICK p \in 1..m : of[p] = k /\ at[p] = j
      BY <1>1, <1>9, <3>1 DEF Places
    <3> QED BY <1>3, <1>6, <3>2
  <2> QED BY <2>1, <2>2
<1>10. Places(of2, at2, u, F, n)
  BY <1>2, <1>7, <1>8, <1>9 DEF Places
<1> QED BY <1>2, <1>10

\* Concatenating lists one after the other.
LEMMA Flattened ==
  ASSUME NEW T, NEW n \in Nat, NEW F, \A k \in 1..n : F[k] \in Seq(T),
         NEW f, f[0] = <<>>, \A k \in 1..n : f[k] = f[k - 1] \o F[k]
  PROVE  f[n] \in Seq(T) /\ \E of, at : Places(of, at, f[n], F, n)
<1> DEFINE U == {k \in 0..n : f[k] \in Seq(T) /\ \E of, at : Places(of, at, f[k], F, k)}
<1>1. 0 \in U
  <2>1. <<>> \in Seq(T) /\ Len(<<>>) = 0
    BY EmptySeq
  <2>2. Places(<<>>, <<>>, <<>>, F, 0)
    BY <2>1 DEF Places
  <2>3. PICK e : e = <<>> /\ e \in Seq(T) /\ Places(e, e, e, F, 0)
    BY <2>1, <2>2
  <2>4. 0 \in 0..n /\ f[0] = e
    BY <2>3
  <2> QED BY <2>3, <2>4
<1>2. ASSUME NEW k \in 1..n, k - 1 \in U PROVE k \in U
  <2>1. PICK of, at : Places(of, at, f[k - 1], F, k - 1)
    BY <1>2
  <2>2. k \in Nat \ {0} /\ k \in 0..n /\ F[k] \in Seq(T) /\ f[k - 1] \in Seq(T)
    BY <1>2
  <2>3. PICK t : t = f[k - 1]
    OBVIOUS
  <2>4. t \in Seq(T) /\ Places(of, at, t, F, k - 1)
    BY <2>1, <2>2, <2>3
  <2>5. \E of2, at2 : Places(of2, at2, t \o F[k], F, k)
    BY <2>2, <2>4, OneListMore
  <2>6. t \o F[k] \in Seq(T) /\ f[k] = t \o F[k]
    BY <2>2, <2>3, <2>4, ConcatProperties
  <2> QED BY <2>2, <2>5, <2>6
<1>3. n \in U
  <2>1. 0..n \subseteq U
    <3> HIDE DEF U
    <3> QED BY <1>1, <1>2, UpTo
  <2> HIDE DEF U
  <2> QED BY <2>1
<1> QED BY <1>3

-----------------------------------------------------------------------------
(* The class keys.                                                         *)

\* The subjects of the class records, in record order, and their keys.
SubjectsOf(rs) == [k \in DOMAIN rs |-> rs[k].subject]
Own     == Kept(SubjectsOf(records), ClassName)
OwnKeys == {<<c, c>> : c \in ClassName}

\* The aliases that a record is keyed under.
Stated(s) == IF Signature(s) = 0 THEN <<>> ELSE mounted[Signature(s)].entry.aliases

\* The aliases to key are those of the class records: the p-th is the at[p]-th
\* of the of[p]-th record, and none is listed twice or left out.
AliasesAre(of, at) ==
  /\ \A p \in 1..Len(aliases) :
       /\ of[p] \in 1..Len(Own) /\ at[p] \in 1..Len(Stated(Own[of[p]]))
       /\ aliases[p] = <<Stated(Own[of[p]])[at[p]], Own[of[p]]>>
  /\ \A p, q \in 1..Len(aliases) : of[p] = of[q] /\ at[p] = at[q] => p = q
  /\ \A k \in 1..Len(Own) : \A j \in 1..Len(Stated(Own[k])) :
       \E p \in 1..Len(aliases) : of[p] = k /\ at[p] = j

\* How many aliases are keyed.
Keyed == IF phase \in {"alias", "done"} THEN step - 1 ELSE 0

\* The keys of the class records themselves.
Pairs(own) == [k \in 1..Len(own) |-> <<own[k], own[k]>>]

\* cs are the keys of the subjects own, then the first n of the aliases as.
ClassesAre(own, cs, as, n) ==
  /\ n \in 0..Len(as) /\ Len(cs) = Len(own) + n
  /\ \A k \in 1..Len(own) : cs[k] = <<own[k], own[k]>>
  /\ \A p \in 1..n : cs[Len(own) + p] = as[p]
  /\ Kept(cs, OwnKeys) = Pairs(own)

\* The class keys are those of the records, then the aliases keyed so far.
ClassesInv ==
  /\ IsSeq(classes) /\ IsSeq(aliases)
  /\ Folded => ClassesAre(Own, classes, aliases, Keyed)
  /\ phase \in {"alias", "done"} => \E of, at : AliasesAre(of, at)
  /\ phase = "done" => Keyed = Len(aliases)

\* The class records are those whose subject is a class.
LEMMA OwnFacts ==
  ASSUME RecordsInv
  PROVE  /\ IsSeq(SubjectsOf(records)) /\ IsSeq(Own) /\ Len(Own) \in Nat /\ DOMAIN Own = 1..Len(Own)
         /\ \A k \in 1..Len(Own) : Own[k] \in ClassName
                                   /\ \E l \in DOMAIN records : records[l].subject = Own[k]
         /\ \A l \in DOMAIN records : records[l].subject \in ClassName
                                      => \E k \in 1..Len(Own) : Own[k] = records[l].subject
<1>1. PICK rs, s : rs = records /\ s = SubjectsOf(records)
  OBVIOUS
<1>2. /\ Len(rs) \in Nat /\ DOMAIN rs = 1..Len(rs)
      /\ s = [k \in 1..Len(rs) |-> rs[k].subject]
  BY <1>1, Appended DEF RecordsInv, SubjectsOf
<1> DEFINE T == {rs[k].subject : k \in 1..Len(rs)}
<1>3. s \in Seq(T) /\ Len(s) = Len(rs)
  <2>1. s \in [1..Len(rs) -> T]
    BY <1>2
  <2> HIDE DEF T
  <2> QED BY <1>2, <2>1
<1>4. PICK own : own = Kept(s, ClassName) /\ own = Own
  BY <1>1 DEF Own
<1>5. own \in Seq(T) /\ KeptUpTo(s, ClassName, Len(s), own)
  <2> HIDE DEF T
  <2> QED BY <1>3, <1>4, KeptFacts
<1>6. ASSUME NEW k \in 1..Len(own)
      PROVE  own[k] \in ClassName /\ \E l \in DOMAIN rs : rs[l].subject = own[k]
  <2>1. PICK a \in 1..Len(s) : own[k] = s[a] /\ s[a] \in ClassName
    BY <1>5 DEF KeptUpTo
  <2>2. a \in DOMAIN rs /\ s[a] = rs[a].subject
    BY <1>2, <1>3
  <2> QED BY <2>1, <2>2
<1>7. \A l \in DOMAIN rs : rs[l].subject \in ClassName => \E k \in 1..Len(own) : own[k] = rs[l].subject
  BY <1>2, <1>3, <1>5 DEF KeptUpTo
<1>8. IsSeq(s) /\ IsSeq(own) /\ Len(own) \in Nat /\ DOMAIN own = 1..Len(own)
  <2> HIDE DEF T
  <2> QED BY <1>3, <1>5, LenProperties DEF IsSeq
<1> QED BY <1>1, <1>4, <1>6, <1>7, <1>8

\* A record more is a subject more.
LEMMA SubjectsAppend ==
  ASSUME NEW rs, IsSeq(rs), NEW x
  PROVE  SubjectsOf(Append(rs, x)) = Append(SubjectsOf(rs), x.subject)
<1> DEFINE more == Append(rs, x)
           T == {rs[k].subject : k \in 1..Len(rs)} \cup {x.subject}
           s == SubjectsOf(rs)
           t == SubjectsOf(more)
<1>1. /\ IsSeq(more) /\ Len(rs) \in Nat /\ Len(more) = Len(rs) + 1 /\ DOMAIN rs = 1..Len(rs)
      /\ \A k \in 1..Len(rs) : more[k] = rs[k]
      /\ more[Len(rs) + 1] = x
  BY Appended
<1>2. DOMAIN more = 1..(Len(rs) + 1)
  <2> HIDE DEF more
  <2> QED BY <1>1, Appended
<1> HIDE DEF more
<1>3. s = [k \in 1..Len(rs) |-> rs[k].subject] /\ t = [k \in 1..(Len(rs) + 1) |-> more[k].subject]
  BY <1>1, <1>2 DEF SubjectsOf
<1>4. \A k \in 1..(Len(rs) + 1) : k \in 1..Len(rs) \/ k = Len(rs) + 1
  BY <1>1
<1>5. s \in [1..Len(rs) -> T] /\ t \in [1..(Len(rs) + 1) -> T]
  BY <1>1, <1>3, <1>4
<1>6. (\A k \in 1..Len(rs) : s[k] = t[k]) /\ t[Len(rs) + 1] = x.subject /\ x.subject \in T
  BY <1>1, <1>3
<1> HIDE DEF T, s, t
<1>7. s \in Seq(T) /\ t \in Seq(T) /\ Len(s) = Len(rs) /\ Len(t) = Len(rs) + 1
  BY <1>1, <1>5
<1>8. PICK y \in T : y = x.subject
  BY <1>6
<1>9. /\ Append(s, y) \in Seq(T) /\ Len(Append(s, y)) = Len(s) + 1
      /\ \A k \in 1..(Len(s) + 1) : Append(s, y)[k] = t[k]
  BY <1>1, <1>4, <1>6, <1>7, <1>8, AppendProperties
<1>10. Append(s, y) = t
  BY <1>7, <1>9, SeqEqual
<1> QED BY <1>8, <1>10 DEF s, t, more

\* A subject is signed by the strongest of its signatures, if it has one.
LEMMA SignatureFacts ==
  ASSUME MergeInv, Folded, NEW s
  PROVE  \/ Signature(s) = 0 /\ \A i \in Items : ~States(i, <<s, Always>>, "signature")
         \/ /\ Signature(s) \in Items /\ Signature(s) # 0
            /\ Strongest(Signature(s), <<s, Always>>, "signature")
<1> DEFINE key == <<s, Always>>
<1>1. written = Items /\ "signature" \in Unit
  <2>1. Units[1] = "signature" /\ 1 \in 1..6
    BY DEF Units
  <2> QED BY <2>1 DEF MergeInv, AllWritten, Unit
<1>2. \A i \in Items : Key(i) \in DOMAIN inForce
  BY DEF MergeInv, Slotted
<1>3. CASE key \notin DOMAIN inForce
  BY <1>2, <1>3 DEF Signature, States
<1>4. CASE key \in DOMAIN inForce /\ "signature" \notin DOMAIN inForce[key]
  BY <1>1, <1>4 DEF Signature, MergeInv, WrittenInOrder
<1>5. CASE key \in DOMAIN inForce /\ "signature" \in DOMAIN inForce[key]
  <2>1. Signature(s) = inForce[key]["signature"]
    BY <1>5 DEF Signature
  <2>2. Strongest(inForce[key]["signature"], key, "signature")
    BY <1>1, <1>5, StrongestIn DEF InForceIsStrongest
  <2>3. \A i \in Items : i # 0
    BY DEF Items
  <2> QED BY <2>1, <2>2, <2>3 DEF Strongest
<1> QED BY <1>3, <1>4, <1>5

\* Two entries are not both the strongest of one key.
LEMMA OneStrongest ==
  ASSUME MergeInv, NEW key, NEW u, NEW i, Strongest(i, key, u), NEW j, Strongest(j, key, u)
  PROVE  i = j
<1>1. /\ i \in Items /\ j \in Items /\ i \in Nat /\ j \in Nat
      /\ mounted[i].rank \in Nat /\ mounted[j].rank \in Nat
  <2>1. i \in Items /\ j \in Items /\ mounted \in Seq(Item)
    BY DEF Strongest, MergeInv, Collected
  <2> QED BY <2>1, ItemFacts
<1>2. \/ mounted[i].rank < mounted[j].rank
      \/ mounted[i].rank = mounted[j].rank /\ j <= i
  BY DEF Strongest
<1>3. \/ mounted[j].rank < mounted[i].rank
      \/ mounted[j].rank = mounted[i].rank /\ i <= j
  BY DEF Strongest
<1> QED BY <1>1, <1>2, <1>3

\* The aliases a record is keyed under are a sequence of class names.
LEMMA StatedFacts ==
  ASSUME MergeInv, Folded, NEW s
  PROVE  Stated(s) \in Seq(ClassName) /\ Len(Stated(s)) \in Nat /\ DOMAIN Stated(s) = 1..Len(Stated(s))
<1>1. Stated(s) \in Seq(ClassName)
  <2>1. CASE Signature(s) = 0
    BY <2>1, EmptySeq DEF Stated
  <2>2. CASE Signature(s) # 0
    <3>1. Signature(s) \in Items /\ mounted \in Seq(Item)
      BY <2>2, SignatureFacts DEF MergeInv, Collected
    <3>2. mounted[Signature(s)] \in Item
      BY <3>1, ElementOfSeq DEF Items
    <3> QED BY <2>2, <3>2 DEF Stated, Item, Entry
  <2> QED BY <2>1, <2>2
<1> QED BY <1>1, LenProperties

\* The aliases that one class key contributes.
LEMMA AliasesAtFacts ==
  ASSUME MergeInv, Folded, NEW k, NEW s, s = classes[k][2]
  PROVE  /\ AliasesAt(k) \in Seq(ClassName \X {s}) /\ Len(AliasesAt(k)) = Len(Stated(s))
         /\ \A j \in 1..Len(Stated(s)) : AliasesAt(k)[j] = <<Stated(s)[j], s>>
<1>1. CASE Signature(s) = 0
  <2>1. AliasesAt(k) = <<>> /\ Stated(s) = <<>>
    BY <1>1 DEF AliasesAt, Stated
  <2> QED BY <2>1, EmptySeq
<1>2. CASE Signature(s) # 0
  <2>1. PICK as : as = Stated(s) /\ as \in Seq(ClassName) /\ Len(as) \in Nat
    BY StatedFacts
  <2>2. AliasesAt(k) = [j \in 1..Len(as) |-> <<as[j], s>>]
    BY <1>2, <2>1 DEF AliasesAt, Stated
  <2>3. \A j \in 1..Len(as) : as[j] \in ClassName
    BY <2>1, ElementOfSeq
  <2>4. AliasesAt(k) \in [1..Len(as) -> ClassName \X {s}]
    <3>1. \A j \in 1..Len(as) : <<as[j], s>> \in ClassName \X {s}
      BY <2>3
    <3> QED BY <2>2, <3>1
  <2> QED BY <2>1, <2>2, <2>4
<1> QED BY <1>1, <1>2

\* The list of all aliases is built record by record.
LEMMA ListedAlong ==
  ASSUME MergeInv, ListAliases, NEW T, NEW n \in Nat, n = Len(classes),
         \A k \in 1..n : AliasesAt(k) \in Seq(T)
  PROVE  \E f : /\ f[0] = <<>> /\ aliases' = f[n]
                /\ \A k \in 1..n : f[k] = f[k - 1] \o AliasesAt(k)
<1> DEFINE G(f) == [k \in 0..n |-> IF k = 0 THEN <<>> ELSE f[k - 1] \o AliasesAt(k)]
           upTo == CHOOSE f : f = G(f)
<1>1. aliases' = upTo[n]
  BY DEF ListAliases
<1>2. \E f : f = G(f)
  <2>1. PICK next : next = [x \in Seq(T) \X (1..n) |-> x[1] \o AliasesAt(x[2])]
    OBVIOUS
  <2>2. \A t \in Seq(T), k \in 1..n : /\ <<t, k>> \in Seq(T) \X (1..n)
                                      /\ next[<<t, k>>] = t \o AliasesAt(k)
    BY <2>1
  <2>3. next \in [Seq(T) \X (1..n) -> Seq(T)]
    <3>1. ASSUME NEW x \in Seq(T) \X (1..n) PROVE x[1] \o AliasesAt(x[2]) \in Seq(T)
      <4>1. x[1] \in Seq(T) /\ AliasesAt(x[2]) \in Seq(T)
        OBVIOUS
      <4> QED BY <4>1, ConcatProperties
    <3> QED BY <2>1, <3>1
  <2>4. PICK f \in [0..n -> Seq(T)] : Follows(f, <<>>, next, n)
    <3>1. <<>> \in Seq(T)
      BY EmptySeq
    <3> QED BY <2>3, <3>1, Recursion
  <2>5. \A k \in 0..n : f[k] = IF k = 0 THEN <<>> ELSE f[k - 1] \o AliasesAt(k)
    <3> SUFFICES ASSUME NEW k \in 0..n, k # 0 PROVE f[k] = f[k - 1] \o AliasesAt(k)
      BY <2>4 DEF Follows
    <3>1. k \in 1..n /\ k - 1 \in 0..n
      OBVIOUS
    <3>2. f[k - 1] \in Seq(T)
      BY <3>1
    <3> QED BY <2>2, <2>4, <3>1, <3>2 DEF Follows
  <2>6. f = [k \in 0..n |-> f[k]]
    OBVIOUS
  <2> QED BY <2>5, <2>6
<1>3. upTo = G(upTo)
  <2> HIDE DEF G
  <2> QED BY <1>2
<1> HIDE DEF upTo
<1>4. PICK f : f = upTo
  OBVIOUS
<1>5. f[0] = <<>> /\ \A k \in 1..n : f[k] = f[k - 1] \o AliasesAt(k)
  <2>1. \A k \in 0..n : f[k] = G(f)[k]
    <3> HIDE DEF G
    <3> QED BY <1>3, <1>4
  <2>2. \A k \in 0..n : G(f)[k] = IF k = 0 THEN <<>> ELSE f[k - 1] \o AliasesAt(k)
    OBVIOUS
  <2>3. 0 \in 0..n /\ \A k \in 1..n : k \in 0..n /\ k # 0
    OBVIOUS
  <2> HIDE DEF G
  <2> QED BY <2>1, <2>2, <2>3
<1> QED BY <1>1, <1>4, <1>5

\* The aliases are listed record by record, each one once.
LEMMA ListAliasesClasses ==
  ASSUME ClassesInv, RecordsInv, MergeInv, ListAliases
  PROVE  IsSeq(aliases') /\ \E of, at : AliasesAre(of, at)'
<1>1. PICK own, n, T :
        own = Own /\ n = Len(classes) /\ T = ClassName \X {classes[k][2] : k \in 1..Len(classes)}
  OBVIOUS
<1>2. /\ n \in Nat /\ n = Len(own) /\ Folded
      /\ \A k \in 1..n : classes[k] = <<own[k], own[k]>> /\ classes[k][2] = own[k]
  <2>1. Keyed = 0 /\ Folded
    BY DEF ListAliases, Keyed, Folded
  <2> QED BY <1>1, <2>1, OwnFacts DEF ClassesInv, ClassesAre
<1>3. PICK F : F = [k \in 1..n |-> AliasesAt(k)]
  OBVIOUS
<1>4. ASSUME NEW k \in 1..n
      PROVE  /\ AliasesAt(k) \in Seq(T) /\ F[k] = AliasesAt(k) /\ Len(F[k]) = Len(Stated(own[k]))
             /\ \A j \in 1..Len(F[k]) : F[k][j] = <<Stated(own[k])[j], own[k]>>
  <2>1. PICK s : s = own[k] /\ s = classes[k][2]
    BY <1>2
  <2>2. /\ AliasesAt(k) \in Seq(ClassName \X {s}) /\ Len(AliasesAt(k)) = Len(Stated(s))
         /\ \A j \in 1..Len(Stated(s)) : AliasesAt(k)[j] = <<Stated(s)[j], s>>
    BY <1>2, <2>1, AliasesAtFacts
  <2>3. ClassName \X {s} \subseteq T
    BY <1>1, <2>1
  <2>4. AliasesAt(k) \in Seq(T)
    <3>1. \A j \in 1..Len(AliasesAt(k)) : AliasesAt(k)[j] \in T
      BY <2>2, <2>3, ElementOfSeq
    <3> QED BY <2>2, <3>1
  <2> QED BY <1>3, <2>1, <2>2, <2>4
<1>5. PICK f : /\ f[0] = <<>> /\ aliases' = f[n]
               /\ \A k \in 1..n : f[k] = f[k - 1] \o AliasesAt(k)
  BY <1>1, <1>2, <1>4, ListedAlong
<1>6. /\ \A k \in 1..n : F[k] \in Seq(T)
      /\ \A k \in 1..n : f[k] = f[k - 1] \o F[k]
  BY <1>4, <1>5
<1>7. f[n] \in Seq(T) /\ \E of, at : Places(of, at, f[n], F, n)
  BY <1>2, <1>5, <1>6, Flattened
<1>8. PICK of, at : Places(of, at, aliases', F, n)
  BY <1>5, <1>7
<1>9. Own' = own /\ \A s : Stated(s)' = Stated(s)
  <2>1. records' = records /\ mounted' = mounted /\ inForce' = inForce
    BY DEF ListAliases, slots
  <2> QED BY <1>1, <2>1 DEF Own, SubjectsOf, Stated, Signature
<1>10. AliasesAre(of, at)'
  <2>1. \A p \in 1..Len(aliases') :
       /\ of[p] \in 1..Len(own) /\ at[p] \in 1..Len(Stated(own[of[p]]))
       /\ aliases'[p] = <<Stated(own[of[p]])[at[p]], own[of[p]]>>
    <3> SUFFICES ASSUME NEW p \in 1..Len(aliases')
                 PROVE  /\ of[p] \in 1..Len(own) /\ at[p] \in 1..Len(Stated(own[of[p]]))
                        /\ aliases'[p] = <<Stated(own[of[p]])[at[p]], own[of[p]]>>
      OBVIOUS
    <3>1. of[p] \in 1..n /\ at[p] \in 1..Len(F[of[p]]) /\ aliases'[p] = F[of[p]][at[p]]
      BY <1>8 DEF Places
    <3>2. PICK k, j : k = of[p] /\ j = at[p]
      OBVIOUS
    <3>3. k \in 1..n /\ j \in 1..Len(F[k]) /\ aliases'[p] = F[k][j]
      BY <3>1, <3>2
    <3>4. Len(F[k]) = Len(Stated(own[k])) /\ F[k][j] = <<Stated(own[k])[j], own[k]>>
      BY <1>4, <3>3
    <3> QED BY <1>2, <3>2, <3>3, <3>4
  <2>2. \A p, q \in 1..Len(aliases') : of[p] = of[q] /\ at[p] = at[q] => p = q
    BY <1>8 DEF Places
  <2>3. \A k \in 1..Len(own) : \A j \in 1..Len(Stated(own[k])) :
       \E p \in 1..Len(aliases') : of[p] = k /\ at[p] = j
    BY <1>2, <1>4, <1>8 DEF Places
  <2> QED BY <1>9, <2>1, <2>2, <2>3 DEF AliasesAre
<1> QED BY <1>5, <1>7, <1>10 DEF IsSeq

\* A step that leaves keys, aliases and records alone keeps the keys.
LEMMA ClassesUnchanged ==
  ASSUME ClassesInv, UNCHANGED <<classes, aliases, records, mounted, inForce>>,
         \/ ~Folded' /\ phase' # "done" /\ phase' # "alias"
         \/ /\ Folded /\ Folded' /\ Keyed' = Keyed
            /\ phase' \in {"alias", "done"} => phase \in {"alias", "done"}
            /\ phase' = "done" => Keyed = Len(aliases)
  PROVE  ClassesInv'
<1>1. Own' = Own /\ OwnKeys' = OwnKeys /\ \A s : Stated(s)' = Stated(s)
  BY DEF Own, OwnKeys, SubjectsOf, Stated, Signature
<1>2. \A of, at : AliasesAre(of, at)' <=> AliasesAre(of, at)
  BY <1>1 DEF AliasesAre
<1>3. CASE ~Folded' /\ phase' # "done" /\ phase' # "alias"
  BY <1>3 DEF ClassesInv
<1>4. CASE /\ Folded /\ Folded' /\ Keyed' = Keyed
           /\ phase' \in {"alias", "done"} => phase \in {"alias", "done"}
           /\ phase' = "done" => Keyed = Len(aliases)
  BY <1>1, <1>2, <1>4 DEF ClassesInv
<1> QED BY <1>3, <1>4

\* Before the first record there is no class key.
LEMMA WrittenClasses == ASSUME ClassesInv, RecordsInv, KeysInv, Written PROVE ClassesInv'
<1>1. /\ records' = <<>> /\ classes' = <<>> /\ IsSeq(aliases') /\ aliases' = aliases
      /\ phase' = "assemble" /\ Keyed' = 0 /\ Len(aliases) \in Nat
  <2>1. Len(aliases) \in Nat
    BY Appended DEF ClassesInv
  <2> QED BY <2>1 DEF Written, RecordsInv, KeysInv, ClassesInv, result, Keyed
<1>2. SubjectsOf(records') = <<>>
  <2>1. DOMAIN <<>> = {}
    BY EmptyIsSeq
  <2> QED BY <1>1, <2>1 DEF SubjectsOf
<1>3. Own' = <<>>
  <2>1. Kept(<<>>, ClassName) = <<>>
    BY KeptEmpty
  <2> QED BY <1>2, <2>1 DEF Own
<1>4. ASSUME NEW as, Len(as) \in Nat PROVE ClassesAre(<<>>, <<>>, as, 0)
  <2>1. Kept(<<>>, OwnKeys) = <<>> /\ Len(<<>>) = 0
    BY KeptEmpty, EmptyIsSeq
  <2>2. Pairs(<<>>) = <<>>
    BY <2>1 DEF Pairs
  <2>3. 1..0 = {} /\ 0 = 0 + 0 /\ \A n \in Nat : 0 \in 0..n
    OBVIOUS
  <2> QED BY <1>4, <2>1, <2>2, <2>3 DEF ClassesAre
<1>5. PICK as : as = aliases
  OBVIOUS
<1>6. ClassesAre(Own', classes', aliases', Keyed') /\ IsSeq(classes')
  BY <1>1, <1>3, <1>4, <1>5, EmptyIsSeq
<1> QED BY <1>1, <1>6 DEF ClassesInv

\* A class record adds its subject to both lists.
LEMMA PairsAppend ==
  ASSUME NEW own, IsSeq(own), NEW s
  PROVE  Pairs(Append(own, s)) = Append(Pairs(own), <<s, s>>)
<1> DEFINE more == Append(own, s)
           n == Len(own)
           pairs == [k \in 1..n |-> <<own[k], own[k]>>]
           longer == [k \in 1..(n + 1) |-> <<more[k], more[k]>>]
           T == {longer[k] : k \in 1..(n + 1)}
<1>1. /\ n \in Nat /\ Len(more) = n + 1 /\ \A k \in 1..n : more[k] = own[k]
      /\ more[n + 1] = s
  BY Appended
<1> HIDE DEF more, n
<1>2. (\A k \in 1..n : pairs[k] = longer[k]) /\ longer[n + 1] = <<s, s>>
  BY <1>1
<1>3. \A k \in 1..n : k \in 1..(n + 1)
  BY <1>1
<1>4. pairs = [k \in 1..n |-> pairs[k]] /\ longer = [k \in 1..(n + 1) |-> longer[k]]
  OBVIOUS
<1> HIDE DEF pairs, longer
<1>5. pairs \in [1..n -> T] /\ longer \in [1..(n + 1) -> T]
  <2>1. \A k \in 1..n : pairs[k] \in T
    BY <1>2, <1>3
  <2> QED BY <1>4, <2>1
<1>6. n + 1 \in 1..(n + 1) /\ \A k \in 1..(n + 1) : k \in 1..n \/ k = n + 1
  BY <1>1
<1>7. PICK x \in T : x = <<s, s>>
  BY <1>2, <1>6
<1> HIDE DEF T
<1>8. pairs \in Seq(T) /\ longer \in Seq(T) /\ Len(pairs) = n /\ Len(longer) = n + 1
  BY <1>1, <1>5
<1>9. /\ Append(pairs, x) \in Seq(T) /\ Len(Append(pairs, x)) = n + 1
      /\ \A k \in 1..n : Append(pairs, x)[k] = pairs[k]
      /\ Append(pairs, x)[n + 1] = x
  BY <1>8, AppendProperties
<1>10. \A k \in 1..(n + 1) : Append(pairs, x)[k] = longer[k]
  BY <1>2, <1>6, <1>7, <1>9
<1>11. Append(pairs, x) = longer
  BY <1>8, <1>9, <1>10, SeqEqual
<1>12. Pairs(Append(own, s)) = longer
  BY <1>1 DEF Pairs, longer, more
<1>13. Pairs(own) = pairs
  BY DEF Pairs, pairs, n
<1> QED BY <1>7, <1>11, <1>12, <1>13

\* A class record keys its subject, any other record nothing.
LEMMA AddRecordClasses ==
  ASSUME ClassesInv, RecordsInv, KeysInv, AddRecord
  PROVE  ClassesInv'
<1>1. PICK s, rs, own, cs, x :
        /\ s = subjects[step] /\ rs = records /\ own = Own /\ cs = classes /\ x = Record(s)
  OBVIOUS
<1>2. /\ phase = "assemble" /\ phase' = "assemble" /\ aliases' = aliases
      /\ records' = Append(rs, x) /\ classes' = IF s \in ClassName THEN Append(cs, <<s, s>>) ELSE cs
      /\ IsSeq(rs) /\ IsSeq(cs) /\ IsSeq(aliases) /\ x.subject = s
  <2>1. IsSeq(records) /\ IsSeq(classes) /\ IsSeq(aliases)
    BY DEF RecordsInv, ClassesInv
  <2>2. Record(s).subject = s
    BY DEF Record
  <2> QED BY <1>1, <2>1, <2>2 DEF AddRecord
<1>3. /\ IsSeq(SubjectsOf(rs)) /\ IsSeq(own) /\ Len(own) \in Nat /\ own = Kept(SubjectsOf(rs), ClassName)
  BY <1>1, OwnFacts DEF Own
<1>4. Own' = IF s \in ClassName THEN Append(own, s) ELSE own
  <2>1. SubjectsOf(Append(rs, x)) = Append(SubjectsOf(rs), s)
    BY <1>2, SubjectsAppend
  <2>2. PICK t : t = SubjectsOf(rs)
    OBVIOUS
  <2>3. Kept(Append(t, s), ClassName) = IF s \in ClassName THEN Append(Kept(t, ClassName), s) ELSE Kept(t, ClassName)
    BY <1>3, <2>2, KeptOneMore
  <2> QED BY <1>2, <1>3, <2>1, <2>2, <2>3 DEF Own
<1>5. ClassesAre(own, cs, aliases, 0) /\ Keyed' = 0 /\ Len(aliases) \in Nat /\ Folded /\ Folded'
  <2>1. Folded /\ Folded' /\ Keyed = 0 /\ Keyed' = 0 /\ Len(aliases) \in Nat
    BY <1>2, Appended DEF Folded, Keyed
  <2> QED BY <1>1, <2>1 DEF ClassesInv
<1>6. /\ Len(cs) = Len(own) /\ (\A k \in 1..Len(own) : cs[k] = <<own[k], own[k]>>)
      /\ Kept(cs, OwnKeys) = Pairs(own)
  BY <1>3, <1>5 DEF ClassesAre
<1>7. CASE s \notin ClassName
  <2>1. classes' = cs /\ Own' = own
    BY <1>2, <1>4, <1>7
  <2> QED BY <1>2, <1>5, <2>1 DEF ClassesInv
<1>8. CASE s \in ClassName
  <2>1. PICK y, more, longer : y = <<s, s>> /\ more = Append(cs, y) /\ longer = Append(own, s)
    OBVIOUS
  <2>2. /\ IsSeq(more) /\ Len(more) = Len(cs) + 1 /\ more[Len(cs) + 1] = y
        /\ \A k \in 1..Len(cs) : more[k] = cs[k]
    BY <1>2, <2>1, Appended
  <2>0. <<s, s>> \in OwnKeys
    BY <1>8 DEF OwnKeys
  <2>3. /\ Len(longer) = Len(own) + 1 /\ longer[Len(own) + 1] = s
        /\ \A k \in 1..Len(own) : longer[k] = own[k]
    BY <1>3, <2>1, Appended
  <2>4. ASSUME NEW k \in 1..Len(longer) PROVE more[k] = <<longer[k], longer[k]>>
    <3>1. k \in 1..Len(own) \/ k = Len(own) + 1
      BY <1>3, <2>3
    <3> QED BY <1>6, <2>1, <2>2, <2>3, <3>1
  <2>5. Kept(more, OwnKeys) = Pairs(longer)
    <3>1. Kept(more, OwnKeys) = Append(Kept(cs, OwnKeys), y)
      <4>1. IsSeq(cs) /\ y \in OwnKeys
        BY <1>2, <2>0, <2>1
      <4>2. Kept(Append(cs, y), OwnKeys) = IF y \in OwnKeys THEN Append(Kept(cs, OwnKeys), y) ELSE Kept(cs, OwnKeys)
        BY <4>1, KeptOneMore
      <4> QED BY <2>1, <4>1, <4>2
    <3>2. Pairs(longer) = Append(Pairs(own), <<s, s>>)
      BY <1>3, <2>1, PairsAppend
    <3> QED BY <1>6, <2>1, <3>1, <3>2
  <2>6. classes' = more /\ Own' = longer
    BY <1>2, <1>4, <1>8, <2>1
  <2>7. PICK as : as = aliases
    OBVIOUS
  <2>8. Len(more) = Len(longer) + 0 /\ 0 \in 0..Len(as) /\ 1..0 = {}
    BY <1>3, <1>5, <1>6, <2>2, <2>3, <2>7
  <2>9. ClassesAre(longer, more, as, 0)
    BY <2>4, <2>5, <2>8 DEF ClassesAre
  <2> QED BY <1>2, <1>5, <2>2, <2>6, <2>7, <2>9 DEF ClassesInv
<1> QED BY <1>7, <1>8

\* Arithmetic of the position of the next alias.
LEMMA OneLess ==
  /\ \A p, n \in Nat : p - 1 \in 0..n /\ p <= n => p \in 1..n /\ p \in 0..n /\ (p + 1) - 1 = p
  /\ \A a, p \in Nat : (a + (p - 1)) + 1 = a + p
OBVIOUS

\* An alias is keyed where no key is, so it is not the key of its own record.
LEMMA KeyAliasClasses ==
  ASSUME ClassesInv, RecordsInv, KeysInv, KeyAlias
  PROVE  ClassesInv'
<1>1. CASE aliases[step][1] \in Keys
  <2>1. phase' = "failed"
    BY <1>1 DEF KeyAlias
  <2> QED BY <2>1, ClassesUnchanged DEF KeyAlias, slots, Folded
<1>2. CASE aliases[step][1] \notin Keys
  <2>1. PICK own, cs, x, p, as :
          own = Own /\ cs = classes /\ x = aliases[step] /\ p = step /\ as = aliases
    OBVIOUS
  <2>2. /\ phase = "alias" /\ phase' = "alias" /\ Folded /\ Folded' /\ aliases' = as
        /\ classes' = Append(cs, x) /\ step' = p + 1 /\ p <= Len(as)
        /\ UNCHANGED <<records, mounted, inForce>>
    BY <1>2, <2>1 DEF KeyAlias, slots, Folded
  <2>3. /\ Keyed = p - 1 /\ Keyed' = p /\ p \in 1..Len(as) /\ p \in 0..Len(as) /\ Len(as) \in Nat
    <3>1. p \in Nat /\ Len(as) \in Nat /\ Keyed \in 0..Len(as)
      BY <2>1, <2>2, Appended DEF KeysInv, ClassesInv, ClassesAre
    <3>2. Keyed = p - 1 /\ Keyed' = (p + 1) - 1
      BY <2>1, <2>2 DEF Keyed
    <3> QED BY <2>2, <3>1, <3>2, OneLess
  <2>4. /\ IsSeq(cs) /\ IsSeq(as) /\ Len(cs) = Len(own) + (p - 1) /\ Len(own) \in Nat
        /\ \A k \in 1..Len(own) : cs[k] = <<own[k], own[k]>>
        /\ \A q \in 1..(p - 1) : cs[Len(own) + q] = as[q]
        /\ Kept(cs, OwnKeys) = Pairs(own)
    BY <2>1, <2>2, <2>3, OwnFacts DEF ClassesInv, ClassesAre
  <2>5. Own' = own /\ OwnKeys' = OwnKeys /\ \A s : Stated(s)' = Stated(s)
    BY <2>1, <2>2 DEF Own, OwnKeys, SubjectsOf, Stated, Signature
  <2>6. PICK of, at : AliasesAre(of, at)
    BY <2>2 DEF ClassesInv
  <2>7. AliasesAre(of, at)'
    BY <2>1, <2>2, <2>5, <2>6 DEF AliasesAre
  <2>8. x \notin OwnKeys
    <3>1. PICK k \in 1..Len(own) : \E a : x = <<a, own[k]>>
      <4>1. of[p] \in 1..Len(own) /\ aliases[p] = <<Stated(own[of[p]])[at[p]], own[of[p]]>>
        BY <2>1, <2>3, <2>6 DEF AliasesAre
      <4> QED BY <2>1, <4>1
    <3>2. own[k] \in Keys
      <4>1. k \in DOMAIN cs /\ cs[k][1] = own[k]
        <5>1. DOMAIN cs = 1..Len(cs) /\ Len(cs) \in Nat
          BY <2>4, Appended
        <5>2. Len(own) <= Len(cs)
          BY <2>3, <2>4, <5>1
        <5> QED BY <2>4, <5>1, <5>2
      <4> QED BY <2>1, <4>1 DEF Keys
    <3>3. x[1] # x[2]
      BY <1>2, <2>1, <3>1, <3>2
    <3> QED BY <3>3 DEF OwnKeys
  <2>9. PICK more : more = Append(cs, x)
    OBVIOUS
  <2>10. /\ IsSeq(more) /\ Len(more) = Len(cs) + 1 /\ more[Len(cs) + 1] = x /\ Len(cs) \in Nat
         /\ \A k \in 1..Len(cs) : more[k] = cs[k]
    BY <2>4, <2>9, Appended
  <2>11. Kept(more, OwnKeys) = Pairs(own)
    BY <2>4, <2>8, <2>9, KeptOneMore
  <2>12. \A k \in 1..Len(own) : more[k] = <<own[k], own[k]>>
    <3> SUFFICES ASSUME NEW k \in 1..Len(own) PROVE more[k] = <<own[k], own[k]>>
      OBVIOUS
    <3>1. PICK c, n, q : c = Len(cs) /\ n = Len(own) /\ q = p /\ c = n + (q - 1)
      BY <2>4
    <3>2. n \in Nat /\ q \in Nat \ {0} /\ k \in 1..n
      BY <2>3, <2>4, <3>1
    <3>3. k \in 1..c
      BY ONLY <3>1, <3>2
    <3>4. k \in 1..Len(cs)
      BY <3>1, <3>3
    <3> QED BY <2>4, <2>10, <3>4
  <2>13. Len(more) = Len(own) + p /\ Len(cs) + 1 = Len(own) + p
    BY <2>3, <2>4, <2>10, OneLess
  <2>14. ASSUME NEW q \in 1..p PROVE more[Len(own) + q] = as[q]
    <3>1. CASE q = p
      BY <2>1, <2>10, <2>13, <3>1
    <3>2. CASE q # p
      <4>1. q \in 1..(p - 1) /\ Len(own) + q \in 1..Len(cs)
        BY <2>3, <2>4, <2>10, <3>2
      <4> QED BY <2>4, <2>10, <4>1
    <3> QED BY <3>1, <3>2
  <2>15. p \in 0..Len(as)
    BY <2>3
  <2>16. ClassesAre(own, more, as, p)
    BY <2>11, <2>12, <2>13, <2>14, <2>15 DEF ClassesAre
  <2>17. classes' = more /\ Keyed' = p /\ Own' = own /\ aliases' = as /\ phase' # "done"
    BY <2>2, <2>3, <2>5, <2>9
  <2> QED BY <2>4, <2>7, <2>10, <2>16, <2>17 DEF ClassesInv
<1> QED BY <1>1, <1>2

\* Every step keeps the class keys.
LEMMA NextClasses == ClassesInv /\ RecordsInv /\ KeysInv /\ MergeInv /\ [Next]_vars => ClassesInv'
<1> SUFFICES ASSUME ClassesInv, RecordsInv, KeysInv, MergeInv, [Next]_vars PROVE ClassesInv'
  OBVIOUS
<1>1. CASE Collect \/ AddSlot \/ SlotsAdded \/ WriteNext
  <2>1. /\ IsSeq(classes') /\ IsSeq(aliases')
    BY <1>1 DEF Collect, AddSlot, SlotsAdded, WriteNext, result, ClassesInv
  <2>2. phase' \in {"collect", "slots", "write", "failed"}
    BY <1>1 DEF Collect, AddSlot, SlotsAdded, WriteNext
  <2> QED BY <2>1, <2>2 DEF ClassesInv, Folded
<1>2. CASE UNCHANGED vars
  <2>1. Folded' = Folded /\ Keyed' = Keyed /\ UNCHANGED <<phase, classes, aliases, records, mounted, inForce>>
    BY <1>2 DEF vars, Folded, Keyed
  <2>2. phase = "done" => Keyed = Len(aliases)
    BY DEF ClassesInv
  <2> QED BY <2>1, <2>2, ClassesUnchanged DEF Folded
<1>3. CASE ListAliases
  <2>1. IsSeq(aliases') /\ \E of, at : AliasesAre(of, at)'
    BY <1>3, ListAliasesClasses
  <2>2. /\ phase = "assemble" /\ phase' = "alias" /\ step' = 1 /\ Folded /\ Folded' /\ Keyed = 0 /\ Keyed' = 0
        /\ UNCHANGED <<classes, records>>
    BY <1>3 DEF ListAliases, Folded, Keyed
  <2>3. Own' = Own /\ OwnKeys' = OwnKeys
    BY <2>2 DEF Own, OwnKeys, SubjectsOf
  <2>4. PICK own, cs : own = Own /\ cs = classes
    OBVIOUS
  <2>5. /\ IsSeq(cs) /\ Len(cs) = Len(own) + 0 /\ (\A k \in 1..Len(own) : cs[k] = <<own[k], own[k]>>)
        /\ Kept(cs, OwnKeys) = Pairs(own)
    BY <2>2, <2>4 DEF ClassesInv, ClassesAre
  <2>6. PICK as : as = aliases'
    OBVIOUS
  <2>7. 0 \in 0..Len(as) /\ 1..0 = {}
    BY <2>1, <2>6, Appended
  <2>8. ClassesAre(own, cs, as, 0)
    BY <2>5, <2>7 DEF ClassesAre
  <2>9. ClassesAre(Own', classes', aliases', Keyed') /\ IsSeq(classes') /\ phase' # "done"
    BY <2>2, <2>3, <2>4, <2>5, <2>6, <2>8
  <2> QED BY <2>1, <2>9 DEF ClassesInv
<1>4. CASE Merged
  <2>1. /\ phase = "alias" /\ phase' = "done" /\ Folded /\ Folded' /\ Keyed' = Keyed /\ step > Len(aliases)
        /\ UNCHANGED <<classes, aliases, records, mounted, inForce>>
    BY <1>4 DEF Merged, slots, result, Folded, Keyed
  <2>2. Keyed = Len(aliases)
    <3>1. step \in Nat /\ Len(aliases) \in Nat /\ Keyed \in 0..Len(aliases) /\ Keyed = step - 1
      BY <2>1, Appended DEF KeysInv, ClassesInv, ClassesAre, Keyed
    <3> QED BY <2>1, <3>1
  <2> QED BY <2>1, <2>2, ClassesUnchanged
<1>5. CASE \E ms \in Inputs : Begin(ms)
  BY <1>5, EmptyIsSeq DEF Begin, ClassesInv, Folded
<1> QED BY <1>1, <1>2, <1>3, <1>4, <1>5, WrittenClasses, AddRecordClasses, KeyAliasClasses DEF Next, Merge

\* The subjects of the records are those of the entries, and the class
\* subjects among them are keyed.
LEMMA RecordSubjects ==
  ASSUME OrderInv, RecordsInv, phase \in {"alias", "done"}
  PROVE  /\ DOMAIN records = 1..Len(subjects)
         /\ \A l \in DOMAIN records : /\ records[l].subject = subjects[l]
                                      /\ records[l].signature = Signature(subjects[l])
                                      /\ \E i \in Items : mounted[i].entry.subject = subjects[l]
         /\ \A i \in Items : \E l \in DOMAIN records : records[l].subject = mounted[i].entry.subject
<1>1. Folded /\ Folding /\ Reached = Len(mounted)
  BY DEF Folded, Folding, Reached
<1>2. InFirstOrder(subjects, SubjectAt, Items, Len(mounted)) /\ \A i \in Items : i <= Len(mounted)
  BY <1>1 DEF OrderInv, Items
<1>3. DOMAIN records = 1..Len(subjects)
  <2>1. DOMAIN records = 1..Len(records) /\ Len(records) = Len(subjects)
    BY Appended DEF RecordsInv
  <2> QED BY <2>1
<1>4. \A l \in 1..Len(subjects) : records[l] = Record(subjects[l])
  <2>1. Len(records) = Len(subjects)
    BY DEF RecordsInv
  <2> QED BY <1>1, <2>1 DEF RecordsInv
<1>5. \A s : Record(s).subject = s /\ Record(s).signature = Signature(s)
  BY DEF Record
<1>6. ASSUME NEW l \in 1..Len(subjects) PROVE \E i \in Items : mounted[i].entry.subject = subjects[l]
  <2>1. PICK i \in Items : IsFirstOf(i, SubjectAt, Items, subjects[l])
    BY <1>2 DEF InFirstOrder
  <2> QED BY <2>1 DEF IsFirstOf, SubjectAt
<1>7. \A i \in Items : \E l \in 1..Len(subjects) : subjects[l] = mounted[i].entry.subject
  BY <1>2 DEF InFirstOrder, SubjectAt
<1>8. \A l \in 1..Len(subjects) : records[l].subject = subjects[l] /\ records[l].signature = Signature(subjects[l])
  BY <1>4, <1>5
<1>9. \A i \in Items : \E l \in 1..Len(subjects) : records[l].subject = mounted[i].entry.subject
  BY <1>7, <1>8
<1> QED BY <1>3, <1>6, <1>8, <1>9

\* No two class records have one subject.
LEMMA OwnOnce ==
  ASSUME ClassesInv, RecordsInv, KeysInv, Folded, NEW k \in 1..Len(Own), NEW l \in 1..Len(Own),
         Own[k] = Own[l]
  PROVE  k = l
<1>1. PICK own, cs : own = Own /\ cs = classes
  OBVIOUS
<1>2. /\ Len(own) \in Nat /\ Len(cs) \in Nat /\ Len(own) <= Len(cs)
      /\ \A m \in 1..Len(own) : cs[m] = <<own[m], own[m]>>
  <2>1. Len(own) \in Nat /\ Len(cs) \in Nat
    BY <1>1, OwnFacts, Appended DEF ClassesInv
  <2>2. Keyed \in Nat /\ Len(cs) = Len(own) + Keyed
    BY <1>1, Appended DEF ClassesInv, ClassesAre
  <2>3. \A m \in 1..Len(own) : cs[m] = <<own[m], own[m]>>
    BY <1>1 DEF ClassesInv, ClassesAre
  <2> QED BY <2>1, <2>2, <2>3
<1>3. k \in 1..Len(cs) /\ l \in 1..Len(cs) /\ cs[k][1] = own[k] /\ cs[l][1] = own[l]
  BY <1>1, <1>2
<1> QED BY <1>1, <1>3 DEF KeysInv

\* The positions of a list of n elements with r behind it.
LEMMA Behind ==
  ASSUME NEW n \in Nat, NEW r \in Nat
  PROVE  /\ \A k \in 1..n : k \in 1..(n + r)
         /\ \A p \in 1..r : n + p \in 1..(n + r)
         /\ \A m \in 1..(n + r) : m \in 1..n \/ \E p \in 1..r : m = n + p
<1>1. ASSUME NEW m \in 1..(n + r), m \notin 1..n PROVE \E p \in 1..r : m = n + p
  <2>1. m - n \in 1..r /\ m = n + (m - n)
    BY <1>1
  <2> QED BY <2>1
<1> QED BY <1>1

-----------------------------------------------------------------------------
\* A finished merge has keyed what its records declare and state.
LEMMA KeysOfClasses ==
  ASSUME MergeInv, OrderInv, RecordsInv, KeysInv, ClassesInv, phase = "done"
  PROVE  ClassKeys
<1>1. PICK own, cs, as, of, at :
        /\ own = Own /\ cs = classes /\ as = aliases /\ AliasesAre(of, at)
        /\ ClassesAre(own, cs, as, Len(as))
  BY DEF ClassesInv, Folded
<1>2. /\ IsSeq(own) /\ Len(own) \in Nat /\ Len(as) \in Nat /\ Len(cs) = Len(own) + Len(as)
      /\ DOMAIN cs = 1..Len(cs)
      /\ Kept(cs, OwnKeys) = Pairs(own)
      /\ \A k \in 1..Len(own) : cs[k] = <<own[k], own[k]>>
      /\ \A p \in 1..Len(as) : cs[Len(own) + p] = as[p]
  BY <1>1, OwnFacts, Appended DEF ClassesAre, ClassesInv
<1>3. [k \in DOMAIN Pairs(own) |-> Pairs(own)[k][1]] = own
  <2>1. own = [k \in 1..Len(own) |-> own[k]]
    BY <1>2 DEF IsSeq
  <2>2. DOMAIN Pairs(own) = 1..Len(own) /\ \A k \in 1..Len(own) : Pairs(own)[k][1] = own[k]
    BY DEF Pairs
  <2> QED BY <2>1, <2>2
<1>4. OneRecordPerKey
  BY Appended DEF KeysInv, OneRecordPerKey
<1> DEFINE stated(r) == IF r.signature = 0 THEN {}
                        ELSE {mounted[r.signature].entry.aliases[j] :
                                j \in DOMAIN mounted[r.signature].entry.aliases}
           Class == {l \in DOMAIN records : records[l].subject \in ClassName}
           keys(l) == {<<a, records[l].subject>> : a \in {records[l].subject} \cup stated(records[l])}
<1>5. ASSUME NEW l \in Class
      PROVE  stated(records[l]) = {Stated(records[l].subject)[j] : j \in 1..Len(Stated(records[l].subject))}
  <2>1. PICK s : s = records[l].subject /\ records[l].signature = Signature(s)
    BY RecordSubjects
  <2>2. DOMAIN Stated(s) = 1..Len(Stated(s)) /\ Len(Stated(s)) \in Nat
    BY StatedFacts DEF Folded
  <2>3. CASE Signature(s) = 0
    <3>1. Stated(s) = <<>> /\ 1..0 = {}
      BY <2>3 DEF Stated
    <3> QED BY <2>1, <2>3, <3>1, EmptyIsSeq
  <2>4. CASE Signature(s) # 0
    BY <2>1, <2>2, <2>4 DEF Stated
  <2> QED BY <2>3, <2>4
<1>6. ASSUME NEW k \in 1..Len(own) PROVE \E l \in Class : records[l].subject = own[k]
  BY <1>1, OwnFacts
<1>7. ASSUME NEW l \in Class PROVE \E k \in 1..Len(own) : own[k] = records[l].subject
  BY <1>1, OwnFacts
<1>8. /\ \A k \in 1..Len(own) : k \in 1..Len(cs)
      /\ \A p \in 1..Len(as) : Len(own) + p \in 1..Len(cs)
      /\ \A m \in 1..Len(cs) : m \in 1..Len(own) \/ \E p \in 1..Len(as) : m = Len(own) + p
  <2>1. PICK n \in Nat, r \in Nat : n = Len(own) /\ r = Len(as) /\ n + r = Len(cs)
    BY <1>2
  <2>2. /\ \A k \in 1..n : k \in 1..(n + r)
        /\ \A p \in 1..r : n + p \in 1..(n + r)
        /\ \A m \in 1..(n + r) : m \in 1..n \/ \E p \in 1..r : m = n + p
    BY ONLY n \in Nat, r \in Nat, Behind
  <2>3. /\ 1..n = 1..Len(own) /\ 1..r = 1..Len(as) /\ 1..(n + r) = 1..Len(cs)
        /\ \A p : n + p = Len(own) + p
    BY ONLY <2>1, Zenon
  <2> QED BY ONLY <2>2, <2>3, Zenon
<1>9. /\ \A p \in 1..Len(as) : /\ of[p] \in 1..Len(own) /\ at[p] \in 1..Len(Stated(own[of[p]]))
                               /\ as[p] = <<Stated(own[of[p]])[at[p]], own[of[p]]>>
      /\ \A k \in 1..Len(own) : \A j \in 1..Len(Stated(own[k])) :
           \E p \in 1..Len(as) : of[p] = k /\ at[p] = j
  BY <1>1 DEF AliasesAre
<1>9a. \A l \in Class : \A x : x \in keys(l) <=>
         \/ x = <<records[l].subject, records[l].subject>>
         \/ \E a \in stated(records[l]) : x = <<a, records[l].subject>>
  <2> HIDE DEF stated, Class
  <2> QED OBVIOUS
<1> HIDE DEF stated, keys, Class
<1>10. ASSUME NEW m \in 1..Len(cs) PROVE \E l \in Class : cs[m] \in keys(l)
  <2>1. CASE m \in 1..Len(own)
    <3>1. PICK l \in Class : records[l].subject = own[m]
      BY <1>6, <2>1
    <3> QED BY <1>2, <1>9a, <2>1, <3>1
  <2>2. CASE \E p \in 1..Len(as) : m = Len(own) + p
    <3>1. PICK p \in 1..Len(as) : m = Len(own) + p
      BY <2>2
    <3>2. PICK k, j, s : k = of[p] /\ j = at[p] /\ s = own[k]
      OBVIOUS
    <3>3. j \in 1..Len(Stated(s)) /\ k \in 1..Len(own) /\ as[p] = <<Stated(s)[j], s>>
      BY <1>9, <3>2
    <3>4. cs[m] = as[p]
      BY <1>2, <3>1
    <3>5. PICK l \in Class : records[l].subject = s
      BY <1>6, <3>2, <3>3
    <3>6. Stated(s)[j] \in stated(records[l])
      BY <1>5, <3>3, <3>5
    <3> QED BY <1>9a, <3>3, <3>4, <3>5, <3>6
  <2> QED BY <1>8, <2>1, <2>2
<1>11. ASSUME NEW l \in Class, NEW x \in keys(l) PROVE \E m \in 1..Len(cs) : cs[m] = x
  <2>0. PICK k \in 1..Len(own) : own[k] = records[l].subject
    BY <1>7
  <2>1. PICK s : own[k] = s /\ s = records[l].subject
    BY <2>0
  <2>2. CASE x = <<s, s>>
    <3>1. k \in 1..Len(cs) /\ cs[k] = x
      BY <1>2, <1>8, <2>1, <2>2
    <3> QED BY <3>1
  <2>3. CASE \E a \in stated(records[l]) : x = <<a, s>>
    <3>1. PICK a \in stated(records[l]) : x = <<a, s>>
      BY <2>3
    <3>2. PICK j \in 1..Len(Stated(s)) : a = Stated(s)[j]
      <4>1. stated(records[l]) = {Stated(s)[j] : j \in 1..Len(Stated(s))}
        BY <1>5, <2>1
      <4> QED BY <3>1, <4>1
    <3>3. PICK p \in 1..Len(as) : of[p] = k /\ at[p] = j
      BY <1>9, <2>1
    <3>4. Len(own) + p \in 1..Len(cs) /\ cs[Len(own) + p] = as[p]
      BY <1>2, <1>8
    <3>5. as[p] = x
      BY <1>9, <2>1, <3>1, <3>2, <3>3
    <3> QED BY <3>4, <3>5
  <2> QED BY <1>9a, <2>1, <2>2, <2>3
<1>12. {cs[m] : m \in DOMAIN cs} = UNION {keys(l) : l \in Class}
  <2>1. ASSUME NEW x \in {cs[m] : m \in DOMAIN cs} PROVE x \in UNION {keys(l) : l \in Class}
    <3>1. PICK m \in 1..Len(cs) : x = cs[m]
      BY <1>2
    <3>2. PICK l \in Class : x \in keys(l)
      BY <1>10, <3>1
    <3> QED BY <3>2
  <2>2. \A x \in UNION {keys(l) : l \in Class} : x \in {cs[m] : m \in DOMAIN cs}
    BY <1>2, <1>11, ZenonT(60)
  <2> QED BY <2>1, <2>2
<1>13. PICK declared, listed : /\ declared = Kept([k \in DOMAIN records |-> records[k].subject], ClassName)
                               /\ listed = Kept(classes, {<<c, c>> : c \in ClassName})
                               /\ [k \in DOMAIN listed |-> listed[k][1]] = declared
  BY <1>1, <1>2, <1>3 DEF Own, SubjectsOf, OwnKeys
<1> QED BY <1>1, <1>4, <1>12, <1>13 DEF ClassKeys, stated, keys, Class

\* For every mount sequence, a class key reads the record that declares it, as
\* its subject or as an alias of its signature in force, no two records share
\* one, and without the aliases the keys list the class records in order.
THEOREM ClassKeysAreDeclared == Spec => []ClassKeys
<1>1. Init => KeysInv /\ ClassesInv
  BY EmptyIsSeq DEF Init, KeysInv, ClassesInv, Folded
<1>2. MergeInv /\ OrderInv /\ RecordsInv /\ KeysInv /\ ClassesInv => ClassKeys
  <2>1. phase # "done" => ClassKeys
    BY DEF ClassKeys
  <2> QED BY <2>1, KeysOfClasses
<1> QED BY <1>1, <1>2, InitMerge, InitOrder, NextMerge, NextOrder, NextRecords, NextKeys, NextClasses, PTL DEF Spec

-----------------------------------------------------------------------------
(* Why a merge is refused.                                                 *)

\* A merge that was refused has a reason.
RefusalInv == phase = "failed" => SignedConditionally \/ ClaimedTwice

\* Arithmetic of the aliases keyed before the next one.
LEMMA Below ==
  \A n, p \in Nat :
    p - 1 \in 0..n /\ p <= n => p \in 1..n /\ p - 1 \in Nat /\ \A q \in 1..(p - 1) : q \in 1..n /\ q # p
OBVIOUS

\* What claims a class key.
LEMMA ClaimsAre ==
  ASSUME NEW a, NEW x
  PROVE  x \in Claims(a) <=>
           \/ x = <<a, 0>> /\ \E i \in Items : mounted[i].entry.subject = a
           \/ \E i \in Items : /\ Strongest(i, <<mounted[i].entry.subject, Always>>, "signature")
                               /\ \E j \in DOMAIN mounted[i].entry.aliases :
                                    /\ mounted[i].entry.aliases[j] = a
                                    /\ x = <<mounted[i].entry.subject, j>>
BY DEF Claims

\* An alias of a signature in force is a claim of its record.
LEMMA AliasClaim ==
  ASSUME MergeInv, Folded, NEW s, NEW j \in 1..Len(Stated(s)), NEW a, a = Stated(s)[j]
  PROVE  <<s, j>> \in Claims(a) /\ a \in ClassName /\ j # 0
<1>1. PICK i : i = Signature(s)
  OBVIOUS
<1>2. i # 0
  <2> SUFFICES ASSUME i = 0 PROVE FALSE
    OBVIOUS
  <2>1. Stated(s) = <<>> /\ Len(<<>>) = 0 /\ 1..0 = {}
    BY <1>1, EmptyIsSeq DEF Stated
  <2> QED BY <2>1
<1>3. i \in Items /\ Strongest(i, <<s, Always>>, "signature")
  BY <1>1, <1>2, SignatureFacts
<1>4. mounted[i].entry.subject = s
  BY <1>3 DEF Strongest, States, Key
<1>5. Stated(s) = mounted[i].entry.aliases
  BY <1>1, <1>2 DEF Stated
<1>6. j \in DOMAIN mounted[i].entry.aliases /\ mounted[i].entry.aliases[j] = a
  BY <1>5, StatedFacts
<1>7. a \in ClassName
  BY StatedFacts, ElementOfSeq
<1>8. <<s, j>> \in Claims(a)
  BY <1>3, <1>4, <1>6, ClaimsAre
<1> QED BY <1>7, <1>8

\* A class record claims its own subject.
LEMMA OwnClaim ==
  ASSUME OrderInv, RecordsInv, phase \in {"alias", "done"}, NEW k \in 1..Len(Own), NEW a, a = Own[k]
  PROVE  <<a, 0>> \in Claims(a)
<1>1. \E i \in Items : mounted[i].entry.subject = a
  <2>1. PICK l \in DOMAIN records : records[l].subject = a
    BY OwnFacts
  <2>2. \E i \in Items : mounted[i].entry.subject = records[l].subject
    BY <2>1, RecordSubjects
  <2> QED BY <2>1, <2>2
<1> QED BY <1>1, ClaimsAre

\* A key that is taken is claimed by its record and by the alias.
LEMMA TakenIsClaimedTwice ==
  ASSUME MergeInv, OrderInv, RecordsInv, KeysInv, ClassesInv, KeyAlias, aliases[step][1] \in Keys
  PROVE  ClaimedTwice
<1>1. PICK own, cs, as, p, n, of, at :
        /\ own = Own /\ cs = classes /\ as = aliases /\ p = step /\ n = Len(own)
        /\ AliasesAre(of, at)
  BY DEF ClassesInv, KeyAlias
<1>2. phase = "alias" /\ Folded /\ p <= Len(as)
  BY <1>1 DEF KeyAlias, Folded
<1>3. /\ p \in 1..Len(as) /\ p \in Nat /\ p - 1 \in Nat /\ n \in Nat /\ Len(as) \in Nat
      /\ \A q \in 1..(p - 1) : q \in 1..Len(as) /\ q # p
      /\ Len(cs) = n + (p - 1) /\ DOMAIN cs = 1..Len(cs)
      /\ \A k \in 1..n : cs[k] = <<own[k], own[k]>>
      /\ \A q \in 1..(p - 1) : cs[n + q] = as[q]
  <2>1. p \in Nat /\ Len(as) \in Nat /\ n \in Nat /\ Keyed = p - 1 /\ DOMAIN cs = 1..Len(cs)
    BY <1>1, <1>2, OwnFacts, Appended DEF KeysInv, ClassesInv, Keyed
  <2>2. ClassesAre(own, cs, as, p - 1)
    BY <1>1, <1>2, <2>1 DEF ClassesInv
  <2>3. p - 1 \in 0..Len(as)
    BY <2>2 DEF ClassesAre
  <2>4. p \in 1..Len(as) /\ p - 1 \in Nat /\ \A q \in 1..(p - 1) : q \in 1..Len(as) /\ q # p
    BY <1>2, <2>1, <2>3, Below
  <2> QED BY <1>1, <2>1, <2>2, <2>4 DEF ClassesAre
<1>4. ASSUME NEW q \in 1..Len(as)
      PROVE  /\ of[q] \in 1..n /\ at[q] # 0 /\ as[q][1] \in ClassName
             /\ <<own[of[q]], at[q]>> \in Claims(as[q][1])
  <2>1. PICK s, j, a : s = own[of[q]] /\ j = at[q] /\ a = as[q][1]
    OBVIOUS
  <2>2. of[q] \in 1..n /\ j \in 1..Len(Stated(s)) /\ a = Stated(s)[j]
    BY <1>1, <2>1 DEF AliasesAre
  <2>3. <<s, j>> \in Claims(a) /\ a \in ClassName /\ j # 0
    BY <1>2, <2>2, AliasClaim
  <2> QED BY <2>1, <2>2, <2>3
<1>5. PICK a : a = as[p][1]
  OBVIOUS
<1>6. PICK m \in 1..Len(cs) : cs[m][1] = a
  BY <1>1, <1>3, <1>5 DEF Keys
<1>7. m \in 1..n \/ \E q \in 1..(p - 1) : m = n + q
  <2>1. PICK r \in Nat : r = p - 1
    BY <1>3
  <2>2. m \in 1..(n + r)
    BY <1>3, <2>1
  <2>3. \A k \in 1..(n + r) : k \in 1..n \/ \E q \in 1..r : k = n + q
    BY <1>3, Behind
  <2> QED BY <2>1, <2>2, <2>3
<1>8. a \in ClassName /\ at[p] # 0 /\ <<own[of[p]], at[p]>> \in Claims(a)
  BY <1>3, <1>4, <1>5
<1>9. CASE m \in 1..n
  <2>1. own[m] = a
    BY <1>3, <1>6, <1>9
  <2>2. <<a, 0>> \in Claims(a)
    BY <1>1, <1>2, <1>9, <2>1, OwnClaim
  <2> QED BY <1>8, <2>2 DEF ClaimedTwice
<1>10. CASE \E q \in 1..(p - 1) : m = n + q
  <2>1. PICK q \in 1..(p - 1) : m = n + q
    BY <1>10
  <2>2. q \in 1..Len(as) /\ q # p
    BY <1>3, <2>1
  <2>3. as[q][1] = a
    BY <1>3, <1>6, <2>1
  <2>4. <<own[of[q]], at[q]>> \in Claims(a)
    BY <1>4, <2>2, <2>3
  <2>5. <<own[of[q]], at[q]>> # <<own[of[p]], at[p]>>
    <3> SUFFICES ASSUME own[of[q]] = own[of[p]], at[q] = at[p] PROVE FALSE
      OBVIOUS
    <3>1. PICK k, l : k = of[q] /\ l = of[p]
      OBVIOUS
    <3>2. k \in 1..Len(Own) /\ l \in 1..Len(Own) /\ Own[k] = Own[l]
      BY <1>1, <1>3, <1>4, <2>2, <3>1
    <3>3. k = l
      BY <1>2, <3>2, OwnOnce
    <3>4. of[q] = of[p] /\ at[q] = at[p]
      BY <3>1, <3>3
    <3>5. \A e, f \in 1..Len(as) : of[e] = of[f] /\ at[e] = at[f] => e = f
      BY <1>1 DEF AliasesAre
    <3> QED BY <1>3, <2>2, <3>4, <3>5
  <2> QED BY <1>8, <2>4, <2>5 DEF ClaimedTwice
<1> QED BY <1>7, <1>9, <1>10

\* In a finished merge, a claim has a position of its own among the keys.
LEMMA DoneIsClaimedOnce ==
  ASSUME MergeInv, OrderInv, RecordsInv, KeysInv, ClassesInv, phase = "done"
  PROVE  ~ClaimedTwice
<1>1. PICK own, cs, as, n, r, of, at :
        /\ own = Own /\ cs = classes /\ as = aliases /\ n = Len(own) /\ r = Len(as)
        /\ AliasesAre(of, at) /\ ClassesAre(own, cs, as, r)
  BY DEF ClassesInv, Folded
<1>2. /\ n \in Nat /\ r \in Nat /\ Len(cs) = n + r
      /\ \A k \in 1..n : cs[k] = <<own[k], own[k]>>
      /\ \A p \in 1..r : cs[n + p] = as[p]
  BY <1>1, OwnFacts, Appended DEF ClassesAre, ClassesInv
<1>3. /\ \A k \in 1..n : k \in 1..Len(cs)
      /\ \A p \in 1..r : n + p \in 1..Len(cs)
  <2>1. (\A k \in 1..n : k \in 1..(n + r)) /\ \A p \in 1..r : n + p \in 1..(n + r)
    BY <1>2, Behind
  <2> QED BY <1>2, <2>1
<1> DEFINE At(m, x) == \/ m \in 1..n /\ x = <<own[m], 0>>
                       \/ \E p \in 1..r : m = n + p /\ x = <<own[of[p]], at[p]>>
<1>4. ASSUME NEW a \in ClassName, NEW x \in Claims(a)
      PROVE  \E m \in 1..Len(cs) : cs[m][1] = a /\ At(m, x)
  <2>1. CASE x = <<a, 0>> /\ \E i \in Items : mounted[i].entry.subject = a
    <3>1. PICK l \in DOMAIN records : records[l].subject = a
      BY <2>1, RecordSubjects
    <3>2. PICK k \in 1..n : own[k] = a
      BY <1>1, <3>1, OwnFacts
    <3> QED BY <1>2, <1>3, <2>1, <3>2
  <2>2. CASE \E i \in Items : /\ Strongest(i, <<mounted[i].entry.subject, Always>>, "signature")
                              /\ \E j \in DOMAIN mounted[i].entry.aliases :
                                   /\ mounted[i].entry.aliases[j] = a
                                   /\ x = <<mounted[i].entry.subject, j>>
    <3>0. PICK i \in Items :
            /\ Strongest(i, <<mounted[i].entry.subject, Always>>, "signature")
            /\ \E j \in DOMAIN mounted[i].entry.aliases :
                 mounted[i].entry.aliases[j] = a /\ x = <<mounted[i].entry.subject, j>>
      BY <2>2
    <3>1. PICK s, j :
            /\ s = mounted[i].entry.subject /\ Strongest(i, <<s, Always>>, "signature")
            /\ j \in DOMAIN mounted[i].entry.aliases
            /\ mounted[i].entry.aliases[j] = a /\ x = <<s, j>>
      BY <3>0
    <3>2. Folded /\ States(i, <<s, Always>>, "signature")
      BY <3>1 DEF Strongest, Folded
    <3>3. Signature(s) = i /\ i # 0
      <4>1. PICK g : g = Signature(s)
        OBVIOUS
      <4>2. g # 0 /\ Strongest(g, <<s, Always>>, "signature")
        BY <3>2, <4>1, SignatureFacts
      <4> QED BY <3>1, <4>1, <4>2, OneStrongest
    <3>4. Stated(s) = mounted[i].entry.aliases
      BY <3>3 DEF Stated
    <3>5. j \in 1..Len(Stated(s)) /\ Stated(s)[j] = a
      BY <3>1, <3>2, <3>4, StatedFacts
    <3>6. s \in ClassName
      <4>1. mounted[i].entry \in Entry
        <5>1. mounted \in Seq(Item)
          BY DEF MergeInv, Collected
        <5>2. mounted[i] \in Item
          BY <5>1, ElementOfSeq DEF Items
        <5> QED BY <5>2 DEF Item
      <4>2. mounted[i].entry.aliases # <<>>
        <5> SUFFICES ASSUME Stated(s) = <<>> PROVE FALSE
          BY <3>4
        <5>1. Len(<<>>) = 0 /\ 1..0 = {}
          BY EmptyIsSeq
        <5> QED BY <3>5, <5>1
      <4> QED BY <3>1, <4>1, <4>2 DEF Entry
    <3>7. PICK l \in DOMAIN records : records[l].subject = s
      BY <3>1, RecordSubjects
    <3>8. PICK k \in 1..n : own[k] = s
      BY <1>1, <3>6, <3>7, OwnFacts
    <3>9. PICK p \in 1..r : of[p] = k /\ at[p] = j
      BY <1>1, <3>5, <3>8 DEF AliasesAre
    <3>10. as[p][1] = Stated(own[of[p]])[at[p]]
      BY <1>1 DEF AliasesAre
    <3>11. cs[n + p][1] = a
      BY <1>2, <3>5, <3>8, <3>9, <3>10
    <3> QED BY <1>3, <3>1, <3>8, <3>9, <3>11
  <2> QED BY <2>1, <2>2, ClaimsAre
<1>5. ASSUME NEW m, NEW x, NEW y, At(m, x), At(m, y) PROVE x = y
  <2>1. \A k \in 1..n : \A p \in 1..r : k # n + p
    BY <1>2
  <2>2. \A p, q \in 1..r : n + p = n + q => p = q
    BY <1>2
  <2> QED BY <1>5, <2>1, <2>2
<1> HIDE DEF At
<1>6. ASSUME NEW a \in ClassName, NEW x \in Claims(a), NEW y \in Claims(a) PROVE x = y
  <2>1. PICK m \in 1..Len(cs) : cs[m][1] = a /\ At(m, x)
    BY <1>4
  <2>2. PICK l \in 1..Len(cs) : cs[l][1] = a /\ At(l, y)
    BY <1>4
  <2>3. m = l
    BY <1>1, <2>1, <2>2 DEF KeysInv
  <2> QED BY <1>5, <2>1, <2>2, <2>3
<1> QED BY <1>6 DEF ClaimedTwice

\* The reasons read only the mounted entries.
LEMMA ReasonKept ==
  ASSUME mounted' = mounted
  PROVE  SignedConditionally' = SignedConditionally /\ ClaimedTwice' = ClaimedTwice
<1>1. Items' = Items /\ \A i, key, u : Strongest(i, key, u)' = Strongest(i, key, u)
  BY DEF Items, Strongest, States, Key
<1>2. \A a : Claims(a)' = Claims(a)
  BY <1>1 DEF Claims
<1> QED BY <1>1, <1>2 DEF SignedConditionally, ClaimedTwice

\* Every step that refuses has a reason.
LEMMA NextRefusal ==
  RefusalInv /\ MergeInv /\ OrderInv /\ RecordsInv /\ KeysInv /\ ClassesInv /\ [Next]_vars => RefusalInv'
<1> SUFFICES ASSUME RefusalInv, MergeInv, OrderInv, RecordsInv, KeysInv, ClassesInv, [Next]_vars,
                    phase' = "failed"
             PROVE  SignedConditionally' \/ ClaimedTwice'
  BY DEF RefusalInv
<1>1. CASE AddSlot
  <2>1. /\ mounted' = mounted /\ step <= Len(mounted) /\ phase # phase'
    BY <1>1 DEF AddSlot
  <2>2. ConditionalSignature(mounted[step].entry)
    BY <1>1, <2>1 DEF AddSlot
  <2>3. step \in Items
    BY <1>1, <2>1, LenProperties DEF AddSlot, MergeInv, Collected, Items
  <2>4. SignedConditionally
    BY <2>2, <2>3 DEF SignedConditionally
  <2> QED BY <2>1, <2>4, ReasonKept
<1>2. CASE KeyAlias
  <2>1. mounted' = mounted /\ aliases[step][1] \in Keys
    BY <1>2 DEF KeyAlias
  <2> QED BY <1>2, <2>1, TakenIsClaimedTwice, ReasonKept
<1>3. CASE UNCHANGED vars
  <2>1. mounted' = mounted /\ phase = "failed"
    BY <1>3 DEF vars
  <2> QED BY <2>1, ReasonKept DEF RefusalInv
<1>4. ~(Collect \/ SlotsAdded \/ WriteNext \/ Written \/ AddRecord \/ ListAliases \/ Merged)
  BY DEF Collect, SlotsAdded, WriteNext, Written, AddRecord, ListAliases, Merged
<1>5. ~\E ms \in Inputs : Begin(ms)
  BY DEF Begin
<1> QED BY <1>1, <1>2, <1>3, <1>4, <1>5 DEF Next, Merge

-----------------------------------------------------------------------------
(* A merge from its beginning, wherever it is made.                        *)

\* What every step of a merge keeps.
ResultInv == MergeInv /\ OrderInv /\ RecordsInv /\ KeysInv /\ ClassesInv /\ RefusalInv

LEMMA InitResult == Init => ResultInv
<1> SUFFICES ASSUME Init PROVE ResultInv
  OBVIOUS
<1>1. KeysInv /\ ClassesInv /\ RefusalInv
  BY EmptyIsSeq DEF Init, KeysInv, ClassesInv, Folded, RefusalInv
<1> QED BY <1>1, InitMerge, InitOrder DEF ResultInv

LEMMA BeginResult == ASSUME NEW ms \in Seq(Mount), Begin(ms) PROVE ResultInv'
<1>1. OrderInv'
  BY DEF Begin, OrderInv, Folding, Folded
<1>2. RecordsInv' /\ KeysInv' /\ ClassesInv'
  BY EmptyIsSeq DEF Begin, RecordsInv, KeysInv, ClassesInv, Folded
<1>3. RefusalInv'
  BY DEF Begin, RefusalInv
<1> QED BY <1>1, <1>2, <1>3, BeginMerge DEF ResultInv

LEMMA NextResult == ResultInv /\ [Next]_vars => ResultInv'
BY NextMerge, NextOrder, NextRecords, NextKeys, NextClasses, NextRefusal DEF ResultInv

\* What the invariants say of the merge: all that it promises.
LEMMA ResultPromises ==
  ASSUME ResultInv
  PROVE  InForceIsStrongest /\ MountOrder /\ OneRecordPerKey /\ ClassKeys /\ RefusedForAReason
<1>1. InForceIsStrongest
  BY StrongestIn DEF ResultInv
<1>2. MountOrder
  <2>1. phase # "done" => MountOrder
    BY DEF MountOrder
  <2> QED BY <2>1, OrderedRecords DEF ResultInv
<1>3. OneRecordPerKey
  BY Appended DEF ResultInv, KeysInv, OneRecordPerKey
<1>4. ClassKeys
  <2>1. phase # "done" => ClassKeys
    BY DEF ClassKeys
  <2> QED BY <2>1, KeysOfClasses DEF ResultInv
<1>5. phase = "done" => ~SignedConditionally
  <2> SUFFICES ASSUME phase = "done" PROVE ~SignedConditionally
    OBVIOUS
  <2>1. Folding /\ Reached = Len(mounted)
    BY DEF Folding, Folded, Reached
  <2> QED BY <2>1 DEF ResultInv, OrderInv, SignedConditionally, Items
<1>6. phase = "done" => ~ClaimedTwice
  BY DoneIsClaimedOnce DEF ResultInv
<1>7. RefusedForAReason
  BY <1>5, <1>6 DEF RefusedForAReason, ResultInv, RefusalInv
<1> QED BY <1>1, <1>2, <1>3, <1>4, <1>7

\* For every mount sequence, a merge is refused exactly if an entry states a
\* signature under a condition, or two records or aliases in force claim one
\* class key.
THEOREM RefusalsAreReasoned == Spec => []RefusedForAReason
BY InitResult, NextResult, ResultPromises, PTL DEF Spec
=============================================================================
