---------------------- MODULE ProcedureSummariesProofs ----------------------
(***************************************************************************)
(* For every domain (any deterministic Step, any join that absorbs a value *)
(* joined twice), every call graph and every sequence of requests,         *)
(* interruptions and aborts: the driver of php_src_c/definitions.py keeps  *)
(* its inductive invariant IInv, so a summary it has made final is         *)
(* confirmed by its own evaluation over final summaries.                   *)
(***************************************************************************)
EXTENDS ProcedureSummaries, SequenceTheorems, TLAPS

-----------------------------------------------------------------------------
(* Evaluations as sequences of reads.                                      *)

\* A history is a short enough sequence of values.
LEMMA HistoryIsSeq ==
  \A h : h \in History <=> h \in Seq(Value) /\ Len(h) <= MaxReads
<1>1. ASSUME NEW h, h \in History PROVE h \in Seq(Value) /\ Len(h) <= MaxReads
  <2>1. PICK k \in 0..MaxReads : h \in [1..k -> Value]
    BY <1>1 DEF History
  <2>2. k \in Nat
    BY <2>1, DomainAssumption
  <2> QED BY <2>1, <2>2
<1>2. ASSUME NEW h, h \in Seq(Value), Len(h) <= MaxReads PROVE h \in History
  <2>1. h \in [1..Len(h) -> Value] /\ Len(h) \in 0..MaxReads
    BY <1>2, DomainAssumption
  <2> QED BY <2>1 DEF History
<1> QED BY <1>1, <1>2

\* One more read changes no earlier step, and comes after the step that made it.
LEMMA StepAtAppend ==
  ASSUME NEW n, NEW h \in Seq(Value), NEW x \in Value
  PROVE  /\ \A k \in 1..Len(h) : StepAt(n, Append(h, x), k) = StepAt(n, h, k)
         /\ StepAt(n, Append(h, x), Len(h) + 1) = Step(n, h)
<1>1. ASSUME NEW k \in 1..Len(h) + 1
      PROVE SubSeq(Append(h, x), 1, k - 1) = SubSeq(h, 1, k - 1)
  OBVIOUS
<1>2. SubSeq(h, 1, (Len(h) + 1) - 1) = h
  OBVIOUS
<1>3. ASSUME NEW k \in 1..Len(h) PROVE StepAt(n, Append(h, x), k) = StepAt(n, h, k)
  <2>1. k \in 1..Len(h) + 1
    OBVIOUS
  <2> QED BY <1>1, <2>1, Zenon DEF StepAt
<1>4. StepAt(n, Append(h, x), Len(h) + 1) = Step(n, h)
  <2>1. Len(h) + 1 \in 1..Len(h) + 1
    OBVIOUS
  <2> QED BY <1>1, <1>2, <2>1, Zenon DEF StepAt
<1> QED BY <1>3, <1>4

\* Neither does forgetting later reads.
LEMMA StepAtPrefix ==
  ASSUME NEW n, NEW h \in Seq(Value), NEW m \in 0..Len(h)
  PROVE  \A k \in 1..m : StepAt(n, SubSeq(h, 1, m), k) = StepAt(n, h, k)
<1>1. ASSUME NEW k \in 1..m PROVE SubSeq(SubSeq(h, 1, m), 1, k - 1) = SubSeq(h, 1, k - 1)
  OBVIOUS
<1> QED BY <1>1 DEF StepAt

\* A prefix of a sequence.
LEMMA SeqPrefix ==
  ASSUME NEW S, NEW s \in Seq(S), NEW m \in 0..Len(s)
  PROVE  /\ SubSeq(s, 1, m) \in Seq(S) /\ Len(SubSeq(s, 1, m)) = m
         /\ \A i \in 1..m : SubSeq(s, 1, m)[i] = s[i]
<1>1. Len(s) \in Nat /\ m \in Int /\ \A i \in 1..m : s[i] \in S
  BY LenProperties, ElementOfSeq
<1>2. /\ SubSeq(s, 1, m) \in Seq(S)
      /\ Len(SubSeq(s, 1, m)) = IF 1 <= m THEN m - 1 + 1 ELSE 0
      /\ \A i \in 1..(m - 1 + 1) : SubSeq(s, 1, m)[i] = s[1 + i - 1]
  BY <1>1, SubSeqProperties
<1> QED BY <1>1, <1>2

\* The last element of a sequence and the sequence before it.
LEMMA SeqLast ==
  ASSUME NEW S, NEW s \in Seq(S), s # <<>>
  PROVE  /\ Len(s) \in Nat \ {0} /\ Len(s) \in DOMAIN s /\ s[Len(s)] \in S
         /\ SubSeq(s, 1, Len(s) - 1) \in Seq(S)
         /\ Len(SubSeq(s, 1, Len(s) - 1)) = Len(s) - 1
         /\ \A i \in 1..(Len(s) - 1) : SubSeq(s, 1, Len(s) - 1)[i] = s[i]
<1>1. Len(s) \in Nat \ {0}
  BY EmptySeq
<1>2. Len(s) \in DOMAIN s /\ s[Len(s)] \in S
  BY <1>1, LenProperties, ElementOfSeq
<1>3. Len(s) - 1 \in 0..Len(s)
  BY <1>1
<1> QED BY <1>1, <1>2, <1>3, SeqPrefix

-----------------------------------------------------------------------------
(* What survives a change of the table.                                    *)

\* An evaluation stays confirmed while its own summary and its callees' stand.
LEMMA ConfirmsStable ==
  ASSUME NEW n, NEW h \in History, Confirms(n, h),
         summaries'[n] = summaries[n], edges[n] \subseteq edges'[n],
         \A c \in edges[n] : summaries'[c] = summaries[c]
  PROVE  Confirms(n, h)'
<1>1. Reads(n, h)'
  BY Zenon DEF Confirms, Reads
<1> QED BY <1>1, Zenon DEF Confirms

LEMMA FreshStable ==
  ASSUME NEW n, Fresh(n),
         summaries'[n] = summaries[n], edges[n] \subseteq edges'[n],
         \A c \in edges[n] : summaries'[c] = summaries[c]
  PROVE  Fresh(n)'
<1>1. CASE Closed(summaries[n])
  BY <1>1, Zenon DEF Fresh
<1>2. CASE Justified(n)
  <2>1. PICK h \in History : Confirms(n, h)
    BY <1>2, Zenon DEF Justified
  <2>2. Confirms(n, h)'
    BY <2>1, ConfirmsStable, Zenon
  <2> QED BY <2>2, Zenon DEF Fresh, Justified
<1> QED BY <1>1, <1>2, Zenon DEF Fresh

\* Final summaries keep their promises when a step leaves their part of the
\* table alone and makes nothing else final.
LEMMA SettledStable ==
  ASSUME SettledJustified, SettledRestsOnSettled,
         Settled' = Settled, completed' = completed,
         \A n \in Settled : summaries'[n] = summaries[n] /\ edges'[n] = edges[n]
  PROVE  SettledJustified' /\ SettledRestsOnSettled'
<1>1. ASSUME NEW n \in Settled, n \notin completed PROVE Fresh(n)'
  <2>1. Fresh(n)
    BY <1>1, Zenon DEF SettledJustified, Fresh
  <2>2. \A c \in edges[n] : summaries'[c] = summaries[c]
    BY Zenon DEF SettledRestsOnSettled
  <2> QED BY <2>1, <2>2, FreshStable, Zenon
<1>2. SettledJustified'
  BY <1>1, Zenon DEF SettledJustified, Fresh
<1>3. SettledRestsOnSettled'
  BY Zenon DEF SettledRestsOnSettled
<1> QED BY <1>2, <1>3

\* Nothing changes for the promises when no variable they read does.
LEMMA TableUnchanged ==
  ASSUME UNCHANGED <<table, completed>>, SettledJustified, SettledRestsOnSettled
  PROVE  SettledJustified' /\ SettledRestsOnSettled'
<1>1. Settled' = Settled
  BY DEF table, Settled, Known
<1>2. \A n \in Settled : summaries'[n] = summaries[n] /\ edges'[n] = edges[n]
  BY DEF table
<1> QED BY <1>1, <1>2, SettledStable DEF table

-----------------------------------------------------------------------------
(* Every action preserves the invariant: solve() and its rounds.           *)

LEMMA InitHolds == Init => IInv
<1> SUFFICES ASSUME Init PROVE IInv
  OBVIOUS
<1> USE DEF Init
<1>1. Known = {} /\ Settled = {}
  BY DEF Known, Settled
<1>2. summaries \in [Known -> Value] /\ edges \in [Known -> SUBSET Known]
  BY DEF Known
<1>3. stack \in Seq(Frames)
  BY EmptySeq
<1>4. TypeOK
  BY <1>1, <1>2, <1>3, Zenon DEF TypeOK
<1> QED BY <1>1, <1>4 DEF IInv, SettledJustified, SettledRestsOnSettled, FramesRead,
                          FramesNest, FrameBase, RoundHolds, OutsideRounds

LEMMA SolveHolds == ASSUME NEW R \in Requests, IInv, Solve(R) PROVE IInv'
<1> USE DEF Solve, IInv, round
<1>1. Known' = Known \cup R /\ R \subseteq Node
  BY DomainAssumption DEF Known, Admitted
<1>2. pending = {} /\ Settled = Known /\ stack = <<>>
  BY DEF OutsideRounds, FrameBase, Settled
<1>3. Settled' = Settled
  BY <1>1, <1>2 DEF Settled
<1>4. \A n \in Known : summaries'[n] = summaries[n] /\ edges'[n] = edges[n]
  BY DEF Known, Admitted, TypeOK
<1>5. TypeOK'
  <2>1. summaries' \in [Known' -> Value] /\ edges' \in [Known' -> SUBSET Known']
    BY <1>1, DomainAssumption DEF TypeOK, Admitted, Known
  <2>2. pending' \subseteq Known' /\ completed' \subseteq Settled'
    BY <1>1, <1>2, <1>3 DEF TypeOK
  <2>3. stack' \in Seq(Frames')
    BY <1>2, EmptySeq
  <2> QED BY <1>1, <2>1, <2>2, <2>3 DEF TypeOK
<1>6. SettledJustified' /\ SettledRestsOnSettled'
  BY <1>2, <1>3, <1>4, SettledStable
<1> QED BY <1>2, <1>5, <1>6 DEF FramesRead, FramesNest, FrameBase, RoundHolds, OutsideRounds

LEMMA SolveDeclaredHolds == ASSUME NEW R \in Requests, IInv, SolveDeclared(R) PROVE IInv'
<1> USE DEF SolveDeclared, IInv, round
<1>1. Known' = R /\ R \subseteq Node /\ Settled' = {} /\ completed = {}
  BY DomainAssumption DEF Known, Settled, TypeOK
<1>2. stack = <<>>
  BY DEF FrameBase
<1>3. TypeOK'
  <2>1. summaries' \in [Known' -> Value] /\ edges' \in [Known' -> SUBSET Known']
    BY <1>1, DomainAssumption
  <2>2. stack' \in Seq(Frames')
    BY <1>2, EmptySeq
  <2> QED BY <1>1, <1>2, <2>1, <2>2 DEF TypeOK, OutsideRounds
<1> QED BY <1>1, <1>2, <1>3 DEF SettledJustified, SettledRestsOnSettled, FramesRead, FramesNest,
                                FrameBase, RoundHolds, OutsideRounds

\* What a pruned round keeps is closed under the recorded reads.
LEMMA ReachableCloses ==
  ASSUME NEW n \in Reachable \cap Known, NEW c \in edges[n], TypeOK
  PROVE  c \in Reachable
<1>1. c \in Known
  BY DEF TypeOK
<1>2. ASSUME NEW S \in SUBSET (Known \cup roots), roots \subseteq S,
             \A m \in S \cap Known : edges[m] \subseteq S
      PROVE  c \in S
  <2>1. n \in S
    BY <1>2 DEF Reachable
  <2> QED BY <1>2, <2>1
<1> QED BY <1>1, <1>2 DEF Reachable

LEMMA StartRoundHolds == IInv /\ StartRound => IInv'
<1> SUFFICES ASSUME IInv, StartRound PROVE IInv'
  OBVIOUS
<1> USE DEF StartRound, IInv
<1> DEFINE dropped == pending \ Reachable
<1>1. Known' = Known \ dropped /\ stack = <<>> /\ nodes = {} /\ left = {} /\ component = {} /\ todo = {}
  BY DEF Known, Without, FrameBase, OutsideRounds, TypeOK
<1>2. Settled' = Settled
  BY <1>1 DEF Settled, TypeOK
<1>3. \A n \in Known' : summaries'[n] = summaries[n] /\ edges'[n] = edges[n]
  BY DEF Known, Without, TypeOK
<1>4. SettledJustified' /\ SettledRestsOnSettled'
  <2>1. \A n \in Settled : summaries'[n] = summaries[n] /\ edges'[n] = edges[n]
    BY <1>1, <1>2, <1>3 DEF Settled
  <2> QED BY <1>2, <2>1, SettledStable
<1>5. \A n \in Known' : edges[n] \subseteq Known'
  <2> SUFFICES ASSUME NEW n \in Known', NEW c \in edges[n] PROVE c \in Known'
    OBVIOUS
  <2>1. c \in Known
    BY <1>1 DEF TypeOK
  <2>2. CASE n \in pending
    <3>1. c \in Reachable
      BY <1>1, <2>2, ReachableCloses
    <3> QED BY <1>1, <2>1, <3>1
  <2>3. CASE n \notin pending
    BY <1>1, <2>3 DEF SettledRestsOnSettled, Settled
  <2> QED BY <2>2, <2>3
<1>6. roots \subseteq Known'
  BY <1>1 DEF Reachable, TypeOK
<1>7. TypeOK'
  <2>1. summaries' \in [Known' -> Value]
    BY <1>1, <1>3 DEF TypeOK, Without, Known
  <2>2. edges' \in [Known' -> SUBSET Known']
    BY <1>1, <1>3, <1>5 DEF TypeOK, Without, Known
  <2>3. pending' \subseteq Known' /\ completed' \subseteq Settled'
    BY <1>1, <1>2 DEF TypeOK
  <2>4. stack' \in Seq(Frames')
    BY <1>1, EmptySeq
  <2> QED BY <1>1, <1>6, <2>1, <2>2, <2>3, <2>4 DEF TypeOK
<1>8. nodes' \cap completed' = {}
  BY DEF TypeOK, Settled
<1> QED BY <1>1, <1>4, <1>7, <1>8 DEF FramesRead, FramesNest, FrameBase, RoundHolds, OutsideRounds

LEMMA SolveReturnsHolds == IInv /\ SolveReturns => IInv'
<1> SUFFICES ASSUME IInv, SolveReturns PROVE IInv'
  OBVIOUS
<1> USE DEF SolveReturns, IInv, table, round
<1>1. SettledJustified' /\ SettledRestsOnSettled'
  BY TableUnchanged
<1>2. stack = <<>> /\ nodes = {}
  BY DEF FrameBase, OutsideRounds
<1>3. TypeOK'
  BY DEF TypeOK, Settled, Known, Frames
<1> QED BY <1>1, <1>2, <1>3 DEF FramesRead, FramesNest, FrameBase, RoundHolds, OutsideRounds

\* A step that leaves the table, the revision and the stack alone.
LEMMA RoundStep ==
  ASSUME IInv, UNCHANGED <<table, completed, moved, stack, phase, roots, nodes>>,
         stack = <<>>, phase = "components",
         left' \subseteq nodes, component' \subseteq nodes, todo' \subseteq component',
         changed' \in BOOLEAN, RoundHolds'
  PROVE  IInv'
<1> USE DEF IInv, table
<1>1. SettledJustified' /\ SettledRestsOnSettled'
  BY TableUnchanged
<1>2. TypeOK'
  BY DEF TypeOK, Settled, Known
<1> QED BY <1>1, <1>2 DEF FramesRead, FramesNest, FrameBase, OutsideRounds

LEMMA FreshUnchanged == ASSUME UNCHANGED <<summaries, edges>>, NEW n PROVE Fresh(n)' = Fresh(n)
BY DEF Fresh, Justified, Confirms, Reads

LEMMA StartComponentHolds == IInv /\ StartComponent => IInv'
<1> SUFFICES ASSUME IInv, StartComponent PROVE IInv'
  OBVIOUS
<1> USE DEF StartComponent, IInv, table
<1>1. PICK C \in NextComponents : component' = C /\ todo' = C /\ left' = left \ C
  OBVIOUS
<1>2. C \subseteq left /\ \A n \in C : edges[n] \cap left \subseteq C
  BY DEF NextComponents, CalleesIn
<1>3. stack = <<>>
  BY DEF FrameBase, TypeOK
<1>4. \A n : Fresh(n)' = Fresh(n)
  BY FreshUnchanged
<1>5. RoundHolds'
  BY <1>1, <1>2, <1>4 DEF RoundHolds, TypeOK
<1> QED BY <1>1, <1>2, <1>3, <1>5, RoundStep DEF TypeOK

LEMMA RepeatPassHolds == IInv /\ RepeatPass => IInv'
<1> SUFFICES ASSUME IInv, RepeatPass PROVE IInv'
  OBVIOUS
<1> USE DEF RepeatPass, PassRepeats, PassEnds, IInv, table
<1>1. \A n : Fresh(n)' = Fresh(n)
  BY FreshUnchanged
<1>2. RoundHolds'
  BY <1>1 DEF RoundHolds
<1> QED BY <1>2, RoundStep DEF TypeOK

LEMMA FinishComponentHolds == IInv /\ FinishComponent => IInv'
<1> SUFFICES ASSUME IInv, FinishComponent PROVE IInv'
  OBVIOUS
<1> USE DEF FinishComponent, PassRepeats, PassEnds, IInv, table
<1>1. \A n : Fresh(n)' = Fresh(n)
  BY FreshUnchanged
<1>2. RoundHolds'
  BY <1>1 DEF RoundHolds
<1> QED BY <1>2, RoundStep DEF TypeOK

\* The snapshot settles as a whole: every pending procedure is in a finished
\* component, so its summary agrees with its callees, which settle with it.
LEMMA EndRoundHolds == IInv /\ EndRound => IInv'
<1> SUFFICES ASSUME IInv, EndRound PROVE IInv'
  OBVIOUS
<1> USE DEF EndRound, IInv
<1>1. stack = <<>> /\ todo = {}
  BY DEF FrameBase, TypeOK
<1>2. Known' = Known /\ \A n : Fresh(n)' = Fresh(n)
  BY FreshUnchanged DEF Known
<1>3. TypeOK'
  BY <1>1 DEF TypeOK, Settled, Known, Frames
<1>4. SettledJustified' /\ SettledRestsOnSettled'
  <2>1. CASE moved
    BY <2>1, TableUnchanged DEF table
  <2>2. CASE ~moved
    <3>1. pending \subseteq nodes /\ \A n \in nodes : Fresh(n)
      BY <2>2 DEF RoundHolds
    <3>2. Settled' = Known
      BY <2>2, <3>1, <1>2 DEF Settled
    <3>3. \A n \in Settled' : Fresh(n)' \/ n \in completed
      BY <1>2, <3>1, <3>2 DEF SettledJustified, Settled, Fresh
    <3>4. SettledJustified'
      BY <3>3 DEF SettledJustified, Fresh
    <3> QED BY <3>2, <3>4 DEF SettledRestsOnSettled, TypeOK
  <2> QED BY <2>1, <2>2 DEF TypeOK
<1> QED BY <1>1, <1>3, <1>4 DEF FramesRead, FramesNest, FrameBase, RoundHolds, OutsideRounds

-----------------------------------------------------------------------------
(* Every action preserves the invariant: update() and its evaluations.     *)

LEMMA SkipClosedHolds == ASSUME NEW n \in Node, IInv, SkipClosed(n) PROVE IInv'
<1> USE DEF SkipClosed, IInv, table
<1>1. \A m : Fresh(m)' = Fresh(m)
  BY FreshUnchanged
<1>2. Fresh(n)
  BY DEF Fresh
<1>3. RoundHolds'
  BY <1>1, <1>2 DEF RoundHolds
<1> QED BY <1>3, RoundStep DEF TypeOK

LEMMA StartUpdateHolds == ASSUME NEW n \in Node, IInv, StartUpdate(n) PROVE IInv'
<1> USE DEF StartUpdate, IInv, table, Frame
<1>1. Known' = Known /\ Settled' = Settled /\ n \in component /\ n \in Known
  BY DEF Known, Settled, TypeOK
<1>2. SettledJustified' /\ SettledRestsOnSettled'
  BY TableUnchanged
<1>3. <<>> \in History
  <2>1. <<>> \in Seq(Value) /\ Len(<<>>) <= MaxReads
    BY DomainAssumption
  <2> QED BY <2>1, HistoryIsSeq
<1>4. TypeOK'
  <2>1. [node |-> n, reads |-> <<>>] \in Frames' /\ Frames' = Frames
    BY <1>1, <1>3 DEF Frames
  <2>2. stack' \in Seq(Frames')
    BY <2>1
  <2> QED BY <1>1, <2>1, <2>2 DEF TypeOK
<1>5. Len(stack') = 1 /\ stack'[1].node = n /\ stack'[1].reads = <<>> /\ DOMAIN stack' = {1}
  OBVIOUS
<1>6. FramesRead' /\ FramesNest'
  BY <1>5 DEF FramesRead, FramesNest
<1>7. FrameBase'
  <2>1. ASSUME n \notin pending
        PROVE  \E h \in History : Confirms(n, h)' /\ 0 <= Len(h) /\ <<>> = SubSeq(h, 1, 0)
    <3>1. n \in Settled /\ n \notin completed
      BY <1>1, <2>1 DEF Settled, RoundHolds, TypeOK
    <3>2. PICK h \in History : Confirms(n, h)
      BY <3>1 DEF SettledJustified, Justified
    <3>3. Confirms(n, h)'
      BY <3>2, ConfirmsStable
    <3>4. h \in Seq(Value)
      BY HistoryIsSeq
    <3> QED BY <3>3, <3>4
  <2> QED BY <1>1, <1>5, <2>1 DEF FrameBase
<1>8. RoundHolds'
  <2>1. \A m : Fresh(m)' = Fresh(m)
    BY FreshUnchanged
  <2> QED BY <1>5, <2>1 DEF RoundHolds
<1> QED BY <1>2, <1>4, <1>6, <1>7, <1>8 DEF OutsideRounds

\* The running evaluation, its reads and its callees so far.
LEMMA TopFacts ==
  ASSUME TypeOK, stack # <<>>
  PROVE  /\ Len(stack) \in Nat \ {0} /\ Len(stack) \in DOMAIN stack
         /\ Top.node \in Known /\ Top.node \in Node
         /\ Top.reads \in History /\ Top.reads \in Seq(Value)
         /\ Below \in Seq(Frames) /\ Len(Below) = Len(stack) - 1
         /\ \A i \in 1..Len(Below) : Below[i] = stack[i]
<1>1. stack \in Seq(Frames)
  BY DEF TypeOK
<1>2. /\ Len(stack) \in Nat \ {0} /\ Len(stack) \in DOMAIN stack /\ stack[Len(stack)] \in Frames
      /\ SubSeq(stack, 1, Len(stack) - 1) \in Seq(Frames)
      /\ Len(SubSeq(stack, 1, Len(stack) - 1)) = Len(stack) - 1
      /\ \A i \in 1..(Len(stack) - 1) : SubSeq(stack, 1, Len(stack) - 1)[i] = stack[i]
  BY <1>1, SeqLast
<1>3. Top.node \in Known /\ Top.reads \in History
  BY <1>2 DEF Top, Frames
<1>4. Top.node \in Node /\ Top.reads \in Seq(Value)
  BY <1>3, HistoryIsSeq DEF TypeOK
<1> QED BY <1>2, <1>3, <1>4 DEF Below

\* An evaluation of a settled member makes the reads that settled it, in the
\* same order, and then returns the same summary: it discovers nothing.
LEMMA SettledRetraces ==
  ASSUME IInv, stack # <<>>, Top.node \notin pending
  PROVE  /\ Len(stack) = 1
         /\ \E h \in History :
              /\ Confirms(Top.node, h) /\ Len(Top.reads) <= Len(h)
              /\ Top.reads = SubSeq(h, 1, Len(Top.reads))
              /\ Len(Top.reads) < Len(h) =>
                   LET s == Step(Top.node, Top.reads)
                   IN s.op = "read" /\ s.callee \in edges[Top.node]
                      /\ h[Len(Top.reads) + 1] = summaries[s.callee]
              /\ Len(Top.reads) = Len(h) => Top.reads = h
<1> USE DEF IInv
<1>1. Len(stack) = 1
  <2>1. ASSUME Len(stack) # 1 PROVE FALSE
    BY <2>1, TopFacts DEF FramesNest, Top
  <2> QED BY <2>1
<1>2. PICK h \in History :
        /\ Confirms(Top.node, h) /\ Len(Top.reads) <= Len(h)
        /\ Top.reads = SubSeq(h, 1, Len(Top.reads))
  BY <1>1 DEF FrameBase, Top
<1>3. h \in Seq(Value) /\ Top.reads \in Seq(Value)
  BY HistoryIsSeq, TopFacts
<1>4. ASSUME Len(Top.reads) < Len(h)
      PROVE  LET s == Step(Top.node, Top.reads)
             IN s.op = "read" /\ s.callee \in edges[Top.node]
                /\ h[Len(Top.reads) + 1] = summaries[s.callee]
  <2>1. Len(Top.reads) + 1 \in 1..Len(h) /\ (Len(Top.reads) + 1) - 1 = Len(Top.reads)
    BY <1>3, <1>4
  <2>2. StepAt(Top.node, h, Len(Top.reads) + 1) = Step(Top.node, Top.reads)
    BY <1>2, <2>1 DEF StepAt
  <2> QED BY <1>2, <2>1, <2>2 DEF Confirms, Reads
<1>5. Len(Top.reads) = Len(h) => Top.reads = h
  BY <1>2, <1>3
<1> QED BY <1>1, <1>2, <1>4, <1>5

\* A step that changes neither the frames' set nor the stack keeps its type.
LEMMA FramesKnown ==
  ASSUME TypeOK, NEW i \in DOMAIN stack
  PROVE  /\ i \in 1..Len(stack) /\ Len(stack) \in Nat
         /\ stack[i].node \in Known /\ stack[i].node \in Node
         /\ stack[i].reads \in History /\ stack[i].reads \in Seq(Value)
<1>1. stack \in Seq(Frames)
  BY DEF TypeOK
<1>2. i \in 1..Len(stack) /\ stack[i] \in Frames /\ Len(stack) \in Nat
  BY <1>1, LenProperties, ElementOfSeq
<1> QED BY <1>2, HistoryIsSeq DEF Frames, TypeOK

\* The stack after the running evaluation has moved on.
LEMMA TopMoves ==
  ASSUME TypeOK, stack # <<>>, NEW S, NEW f \in S, Frames \subseteq S
  PROVE  /\ Append(Below, f) \in Seq(S) /\ Len(Append(Below, f)) = Len(stack)
         /\ DOMAIN Append(Below, f) = 1..Len(stack) /\ DOMAIN stack = 1..Len(stack)
         /\ \A i \in 1..(Len(stack) - 1) : Append(Below, f)[i] = stack[i]
         /\ Append(Below, f)[Len(stack)] = f
<1>1. Below \in Seq(Frames) /\ Len(Below) = Len(stack) - 1 /\ Len(stack) \in Nat \ {0}
      /\ \A i \in 1..Len(Below) : Below[i] = stack[i]
  BY TopFacts
<1>2. stack \in Seq(Frames)
  BY DEF TypeOK
<1>3. Below \in Seq(S)
  BY <1>1, SeqMonotonic
<1>4. Append(Below, f) \in Seq(S) /\ Len(Append(Below, f)) = Len(Below) + 1
      /\ (\A i \in 1..Len(Below) : Append(Below, f)[i] = Below[i])
      /\ Append(Below, f)[Len(Below) + 1] = f
  BY <1>3, AppendProperties
<1>5. DOMAIN Append(Below, f) = 1..Len(Append(Below, f)) /\ DOMAIN stack = 1..Len(stack)
  BY <1>2, <1>4, LenProperties
<1> QED BY <1>1, <1>4, <1>5

LEMMA ReadKnownHolds == IInv /\ ReadKnown => IInv'
<1> SUFFICES ASSUME IInv, ReadKnown PROVE IInv'
  OBVIOUS
<1> USE DEF IInv
<1>1. /\ stack # <<>> /\ Step(Top.node, Top.reads).op = "read"
      /\ Step(Top.node, Top.reads).callee \in Known
      /\ UNCHANGED <<summaries, pending, roots, phase, nodes, left, component, todo, changed, completed>>
  BY DEF ReadKnown, Admits, NewDependency, Does, round
<1>2. PICK n \in Node, h \in History, c \in Known, x \in Value, d \in Nat \ {0}, f \in Frames :
        /\ n = Top.node /\ h = Top.reads /\ d = Len(stack) /\ f = Frame(n, Append(h, x))
        /\ c = Step(n, h).callee /\ x = summaries[c]
        /\ n \in Known /\ stack[d] = Top /\ h \in Seq(Value)
        /\ Append(h, x) \in Seq(Value) /\ Len(Append(h, x)) = Len(h) + 1 /\ Len(h) \in Nat
        /\ \A k \in 1..Len(h) : Append(h, x)[k] = h[k]
        /\ Append(h, x)[Len(h) + 1] = x
        /\ f.node = n /\ f.reads = Append(h, x)
  <2> DEFINE n == Top.node
             h == Top.reads
             c == Step(n, h).callee
             x == summaries[c]
             f == Frame(n, Append(h, x))
             d == Len(stack)
  <2>1. /\ d \in Nat \ {0} /\ stack[d] = Top
        /\ n \in Known /\ n \in Node /\ h \in History /\ h \in Seq(Value)
    BY <1>1, TopFacts DEF Top
  <2>2. x \in Value /\ c \in Known
    BY <1>1 DEF TypeOK
  <2>3. Step(n, h).op = "read"
    BY <1>1
  <2> HIDE DEF n, h, c, x, d
  <2>4. /\ Append(h, x) \in Seq(Value) /\ Len(Append(h, x)) = Len(h) + 1 /\ Len(h) \in Nat
        /\ \A k \in 1..Len(h) : Append(h, x)[k] = h[k]
        /\ Append(h, x)[Len(h) + 1] = x
    BY <2>1, <2>2, AppendProperties, LenProperties
  <2>5. Len(h) # MaxReads /\ Len(h) <= MaxReads
    BY <2>1, <2>3, StepAssumption, HistoryIsSeq
  <2>6. Append(h, x) \in History
    <3>1. Len(h) + 1 <= MaxReads
      BY <2>4, <2>5, DomainAssumption
    <3> QED BY <2>4, <3>1, HistoryIsSeq
  <2>7. f \in Frames /\ f.node = n /\ f.reads = Append(h, x)
    BY <2>1, <2>6 DEF Frame, Frames
  <2> QED BY <2>1, <2>2, <2>4, <2>7, SMTT(60) DEF n, h, c, x, d
<1>3. /\ Step(n, h).op = "read"
      /\ edges' = [edges EXCEPT ![n] = @ \cup {c}]
      /\ moved' = (moved \/ c \notin edges[n])
      /\ stack' = Append(Below, f)
  BY <1>1, <1>2 DEF ReadKnown, Admits, NewDependency
<1>4. /\ stack' \in Seq(Frames) /\ Len(stack') = d /\ stack' # <<>>
      /\ DOMAIN stack' = 1..d /\ DOMAIN stack = 1..d
      /\ \A i \in 1..(d - 1) : stack'[i] = stack[i]
      /\ stack'[d] = f
  BY <1>1, <1>2, <1>3, TopMoves, SMTT(60)
<1>5. Known' = Known /\ Settled' = Settled /\ Frames' = Frames
  BY <1>1 DEF Known, Settled, Frames
<1>6. /\ \A m \in Known : edges[m] \subseteq edges'[m] /\ (m # n => edges'[m] = edges[m])
      /\ edges'[n] = edges[n] \cup {c} /\ edges' \in [Known -> SUBSET Known]
  <2>1. edges \in [Known -> SUBSET Known] /\ n \in Known /\ c \in Known
    BY <1>2 DEF TypeOK
  <2>2. edges' = [edges EXCEPT ![n] = @ \cup {c}]
    BY <1>3
  <2> HIDE DEF IInv
  <2> QED BY <2>1, <2>2
<1>7. n \notin pending =>
        /\ c \in edges[n] /\ d = 1
        /\ \E g \in History :
             /\ Confirms(n, g) /\ h = SubSeq(g, 1, Len(h)) /\ g[Len(h) + 1] = x
             /\ g \in Seq(Value) /\ Len(h) < Len(g)
  <2> SUFFICES ASSUME n \notin pending
               PROVE  /\ c \in edges[n] /\ d = 1
                      /\ \E g \in History :
                           /\ Confirms(n, g) /\ h = SubSeq(g, 1, Len(h)) /\ g[Len(h) + 1] = x
                           /\ g \in Seq(Value) /\ Len(h) < Len(g)
    OBVIOUS
  <2>1. PICK g \in History :
          /\ Confirms(n, g) /\ Len(h) <= Len(g) /\ h = SubSeq(g, 1, Len(h))
          /\ Len(h) < Len(g) => c \in edges[n] /\ g[Len(h) + 1] = x
          /\ Len(h) = Len(g) => h = g
    BY <1>1, <1>2, SettledRetraces
  <2>2. d = 1
    BY <1>1, <1>2, SettledRetraces
  <2>3. h # g
    BY <1>3, <2>1 DEF Confirms
  <2>4. g \in Seq(Value) /\ Len(g) \in Nat
    BY HistoryIsSeq, LenProperties
  <2>5. Len(h) < Len(g)
    BY <1>2, <2>1, <2>3, <2>4, SMTT(60)
  <2> QED BY <2>1, <2>2, <2>4, <2>5
<1>8. SettledJustified' /\ SettledRestsOnSettled'
  <2>1. ASSUME NEW m \in Settled PROVE edges'[m] = edges[m]
    <3>1. CASE m # n
      BY <1>6, <3>1 DEF Settled
    <3>2. CASE m = n
      <4>1. c \in edges[n]
        BY <1>7, <3>2 DEF Settled
      <4> QED BY <1>6, <3>2, <4>1
    <3> QED BY <3>1, <3>2
  <2> QED BY <1>1, <1>5, <2>1, SettledStable
<1>9. TypeOK'
  BY <1>1, <1>3, <1>4, <1>5, <1>6 DEF TypeOK
<1>10. FramesRead'
  <2> SUFFICES ASSUME NEW i \in 1..d, NEW k \in 1..Len(stack'[i].reads)
               PROVE  LET m == stack'[i].node
                          s == StepAt(m, stack'[i].reads, k)
                      IN /\ s.op = "read" /\ s.callee \in edges'[m]
                         /\ s.callee \notin pending \/ ~moved' => stack'[i].reads[k] = summaries[s.callee]
    BY <1>1, <1>4 DEF FramesRead
  <2>1. CASE i # d
    <3>1. stack'[i] = stack[i] /\ i \in DOMAIN stack
      BY <1>4, <2>1
    <3>2. stack[i].node \in Known
      BY <3>1, FramesKnown
    <3>3. LET m == stack[i].node
              s == StepAt(m, stack[i].reads, k)
          IN /\ s.op = "read" /\ s.callee \in edges[m]
             /\ s.callee \notin pending \/ ~moved => stack[i].reads[k] = summaries[s.callee]
      BY <3>1 DEF FramesRead
    <3> QED BY <1>3, <1>6, <3>1, <3>2, <3>3
  <2>2. CASE i = d /\ k \in 1..Len(h)
    <3>1. StepAt(n, Append(h, x), k) = StepAt(n, h, k)
      BY <1>2, <2>2, StepAtAppend, SMTT(60)
    <3>2. d \in DOMAIN stack /\ stack[d].node = n /\ stack[d].reads = h
      BY <1>2, <1>4, SMTT(60)
    <3>3. LET s == StepAt(n, h, k)
          IN /\ s.op = "read" /\ s.callee \in edges[n]
             /\ s.callee \notin pending \/ ~moved => h[k] = summaries[s.callee]
      BY <2>2, <3>2 DEF FramesRead
    <3>4. Append(h, x)[k] = h[k]
      BY <1>2, <2>2
    <3>5. stack'[i].node = n /\ stack'[i].reads = Append(h, x)
      BY <1>2, <1>4, <2>2
    <3>6. edges[n] \subseteq edges'[n] /\ (~moved' => ~moved)
      BY <1>3, <1>6
    <3> HIDE DEF IInv
    <3> QED BY <3>1, <3>3, <3>4, <3>5, <3>6
  <2>3. CASE i = d /\ k = Len(h) + 1
    <3>1. StepAt(n, Append(h, x), k) = Step(n, h) /\ Append(h, x)[k] = x
      BY <1>2, <2>3, StepAtAppend, SMTT(60)
    <3>2. stack'[i].node = n /\ stack'[i].reads = Append(h, x)
      BY <1>2, <1>4, <2>3
    <3>3. c = Step(n, h).callee /\ x = summaries[c] /\ c \in edges'[n] /\ Step(n, h).op = "read"
      BY <1>2, <1>3, <1>6
    <3> HIDE DEF IInv
    <3> QED BY <2>3, <3>1, <3>2, <3>3
  <2> QED BY <1>2, <1>4, <2>1, <2>2, <2>3, SMTT(60)
<1>11. FramesNest'
  <2> SUFFICES ASSUME NEW i \in 1..d, NEW j \in 1..d, i < j
               PROVE  /\ moved' /\ stack'[j].node \in pending /\ stack'[i].node # stack'[j].node
                      /\ \A k \in 1..Len(stack'[i].reads) :
                           StepAt(stack'[i].node, stack'[i].reads, k).callee # stack'[j].node
    BY <1>1, <1>4 DEF FramesNest
  <2>1. stack'[i] = stack[i] /\ stack'[j].node = stack[j].node /\ i \in DOMAIN stack /\ j \in DOMAIN stack
    BY <1>2, <1>4, SMTT(60)
  <2> QED BY <1>3, <2>1 DEF FramesNest
<1>12. FrameBase'
  <2>1. stack'[1].node = stack[1].node /\ (d = 1 => stack'[1] = f /\ stack[1].node = n)
    BY <1>2, <1>4, SMTT(60)
  <2>2. ASSUME stack[1].node \notin pending
        PROVE  /\ d = 1
               /\ \E g \in History :
                    /\ Confirms(n, g)' /\ Len(Append(h, x)) <= Len(g)
                    /\ Append(h, x) = SubSeq(g, 1, Len(Append(h, x)))
    <3>1. d = 1 /\ n \notin pending
      BY <1>1, <1>2, <2>1, <2>2 DEF FrameBase
    <3>2. PICK g \in History :
            /\ Confirms(n, g) /\ h = SubSeq(g, 1, Len(h)) /\ g[Len(h) + 1] = x
            /\ g \in Seq(Value) /\ Len(h) < Len(g)
      BY <1>7, <3>1
    <3>3. Confirms(n, g)'
      BY <1>1, <1>2, <1>6, <3>2, ConfirmsStable
    <3>4. Len(h) + 1 \in 0..Len(g) /\ Len(h) \in 0..Len(g)
      BY <1>2, <3>2, LenProperties, SMTT(60)
    <3>5. /\ SubSeq(g, 1, Len(h) + 1) \in Seq(Value) /\ Len(SubSeq(g, 1, Len(h) + 1)) = Len(h) + 1
          /\ \A k \in 1..(Len(h) + 1) : SubSeq(g, 1, Len(h) + 1)[k] = g[k]
      BY <3>2, <3>4, SeqPrefix
    <3>6. \A k \in 1..Len(h) : h[k] = g[k]
      BY <3>2, <3>4, SeqPrefix
    <3>7. \A k \in 1..(Len(h) + 1) : Append(h, x)[k] = g[k]
      BY <1>2, <3>2, <3>6, SMTT(60)
    <3>8. Append(h, x) = SubSeq(g, 1, Len(h) + 1)
      BY <1>2, <3>5, <3>7, SeqEqual, SMTT(60)
    <3> QED BY <1>2, <3>1, <3>2, <3>3, <3>4, <3>8
  <2>3. ~Closed(summaries[stack[1].node]) /\ stack[1].node \in component \ todo /\ phase = "components"
    BY <1>1 DEF FrameBase
  <2>4. stack[1].node \notin pending => stack'[1].node = n /\ stack'[1].reads = Append(h, x)
    BY <1>2, <2>1, <2>2
  <2> HIDE DEF IInv
  <2> QED BY <1>1, <1>4, <2>1, <2>2, <2>3, <2>4 DEF FrameBase
<1>13. RoundHolds'
  <2>1. CASE moved'
    BY <1>1, <2>1 DEF RoundHolds
  <2>2. CASE ~moved'
    <3>1. edges' = edges
      <4>1. c \in edges[n] /\ edges \in [Known -> SUBSET Known]
        BY <1>3, <2>2 DEF TypeOK
      <4>2. \A m \in Known : edges'[m] = edges[m]
        BY <1>6, <4>1
      <4> HIDE DEF IInv
      <4> QED BY <1>6, <4>1, <4>2
    <3>2. \A m : Fresh(m)' = Fresh(m)
      BY <1>1, <3>1, FreshUnchanged
    <3>3. stack'[1].node = stack[1].node
      BY <1>2, <1>4, SMTT(60)
    <3> QED BY <1>1, <1>3, <1>4, <2>2, <3>1, <3>2, <3>3 DEF RoundHolds
  <2> QED BY <2>1, <2>2
<1> QED BY <1>1, <1>8, <1>9, <1>10, <1>11, <1>12, <1>13 DEF OutsideRounds

\* The evaluations of a procedure still pending are all that admits anything.
LEMMA ReadNewHolds == IInv /\ ReadNew => IInv'
<1> SUFFICES ASSUME IInv, ReadNew PROVE IInv'
  OBVIOUS
<1> USE DEF IInv
<1>1. /\ stack # <<>> /\ Step(Top.node, Top.reads).op = "read"
      /\ Step(Top.node, Top.reads).callee \notin Known /\ moved' = TRUE
      /\ UNCHANGED <<roots, phase, nodes, left, component, todo, changed, completed>>
  BY DEF ReadNew, Admits, Does, round
<1>2. PICK n \in Known, h \in History, c \in Node \ Known, d \in Nat \ {0} :
        /\ n = Top.node /\ h = Top.reads /\ d = Len(stack) /\ n \in Node
        /\ c = Step(n, h).callee /\ stack[d] = Top /\ h \in Seq(Value) /\ Len(h) \in Nat
  <2>1. Top.node \in Known /\ Top.node \in Node /\ Top.reads \in History /\ Top.reads \in Seq(Value)
        /\ Len(stack) \in Nat \ {0} /\ stack[Len(stack)] = Top
    BY <1>1, TopFacts DEF Top
  <2>2. Step(Top.node, Top.reads).callee \in Node
    BY <1>1, <2>1, StepAssumption DEF Reading, Ending
  <2> QED BY <1>1, <2>1, <2>2, LenProperties
<1>3. n \in pending
  <2>1. ASSUME n \notin pending PROVE FALSE
    <3>1. PICK g \in History :
            /\ Confirms(n, g) /\ Len(h) <= Len(g)
            /\ Len(h) < Len(g) => c \in edges[n]
            /\ Len(h) = Len(g) => h = g
      BY <1>1, <1>2, <2>1, SettledRetraces
    <3>2. h # g
      BY <1>1, <1>2, <3>1 DEF Confirms
    <3>3. Len(g) \in Nat
      BY HistoryIsSeq, LenProperties
    <3>4. c \in edges[n] /\ edges[n] \subseteq Known
      BY <1>2, <3>1, <3>2, <3>3 DEF TypeOK
    <3> QED BY <1>2, <3>4
  <2> QED BY <2>1
<1>4. /\ summaries' = Admitted(summaries, {c}, Empty)
      /\ edges' = [Admitted(edges, {c}, {}) EXCEPT ![n] = @ \cup {c}]
      /\ pending' = pending \cup {c}
  BY <1>2 DEF ReadNew, Admits
<1>5. /\ Known' = Known \cup {c} /\ Settled' = Settled
      /\ summaries' \in [Known' -> Value]
      /\ \A m \in Known : summaries'[m] = summaries[m]
  <2>1. summaries \in [Known -> Value]
    BY DEF TypeOK
  <2>2. Known' = Known \cup {c}
    BY <1>4 DEF Known, Admitted
  <2>3. summaries' \in [Known' -> Value] /\ \A m \in Known : summaries'[m] = summaries[m]
    BY <1>4, <2>1, <2>2, DomainAssumption DEF Known, Admitted
  <2> QED BY <1>2, <1>4, <2>2, <2>3 DEF Settled
<1>6. /\ edges' \in [Known' -> SUBSET Known']
      /\ \A m \in Known : edges[m] \subseteq edges'[m] /\ (m # n => edges'[m] = edges[m])
      /\ c \in edges'[n]
  <2>1. edges \in [Known -> SUBSET Known]
    BY DEF TypeOK
  <2>2. Admitted(edges, {c}, {}) \in [Known' -> SUBSET Known]
    BY <1>5, <2>1 DEF Admitted
  <2>3. \A m \in Known : Admitted(edges, {c}, {})[m] = edges[m]
    BY <2>1 DEF Admitted
  <2> DEFINE e == Admitted(edges, {c}, {})
  <2>4. edges' = [e EXCEPT ![n] = @ \cup {c}]
    BY <1>4
  <2> HIDE DEF e, IInv
  <2>5. e \in [Known' -> SUBSET Known] /\ \A m \in Known : e[m] = edges[m]
    BY <2>2, <2>3 DEF e
  <2> QED BY <1>2, <1>5, <2>4, <2>5
<1>7. SettledJustified' /\ SettledRestsOnSettled'
  <2>1. \A m \in Settled : summaries'[m] = summaries[m] /\ edges'[m] = edges[m]
    BY <1>3, <1>5, <1>6 DEF Settled
  <2> QED BY <1>1, <1>5, <2>1, SettledStable
<1>8. Frames \subseteq Frames' /\ <<>> \in History
  <2>1. <<>> \in Seq(Value) /\ Len(<<>>) <= MaxReads
    BY DomainAssumption, EmptySeq
  <2> QED BY <1>5, <2>1, HistoryIsSeq DEF Frames
\* The reader's frame r, keeping a prefix of its reads or having read Empty.
<1>9. PICK r \in Frames', q \in Nat :
        /\ r.node = n /\ q <= Len(h) + 1 /\ Len(r.reads) = q
        /\ \A k \in 1..q : k <= Len(h) => r.reads[k] = h[k]
                                          /\ StepAt(n, r.reads, k) = StepAt(n, h, k)
        /\ q = Len(h) + 1 => StepAt(n, r.reads, q) = Step(n, h)
        /\ \/ stack' = Append(Append(Below, r), Frame(c, <<>>)) /\ q <= Len(h)
           \/ stack' = Append(Below, r)
  <2>1. CASE Step(n, h).eager
    <3> DEFINE q == Resume(n, h)
               r == Frame(n, SubSeq(h, 1, q))
    <3>1. q \in 0..Len(h)
      BY <1>2, StepAssumption
    <3>2. stack' = Append(Append(Below, r), Frame(c, <<>>))
      BY <1>2, <2>1 DEF ReadNew, Admits
    <3>3. /\ SubSeq(h, 1, q) \in Seq(Value) /\ Len(SubSeq(h, 1, q)) = q
          /\ \A k \in 1..q : SubSeq(h, 1, q)[k] = h[k]
          /\ \A k \in 1..q : StepAt(n, SubSeq(h, 1, q), k) = StepAt(n, h, k)
      BY <1>2, <3>1, SeqPrefix, StepAtPrefix
    <3>4. q <= MaxReads
      BY <1>2, <3>1, HistoryIsSeq, DomainAssumption
    <3>5. r \in Frames' /\ r.node = n /\ r.reads = SubSeq(h, 1, q)
      BY <1>2, <1>5, <3>3, <3>4, HistoryIsSeq, ZenonT(60) DEF Frame, Frames
    <3>6. q \in Nat /\ q <= Len(h)
      BY <1>2, <3>1
    <3> HIDE DEF q, r, IInv
    <3>7. r.node = n /\ q <= Len(h) + 1 /\ Len(r.reads) = q /\ q # Len(h) + 1
      BY <1>2, <3>3, <3>5, <3>6
    <3>8. \A k \in 1..q : r.reads[k] = h[k] /\ StepAt(n, r.reads, k) = StepAt(n, h, k)
      BY <3>3, <3>5
    <3> QED BY <3>2, <3>5, <3>6, <3>7, <3>8
  <2>2. CASE ~Step(n, h).eager
    <3> DEFINE r == Frame(n, Append(h, Empty))
    <3>1. stack' = Append(Below, r)
      BY <1>2, <2>2 DEF ReadNew, Admits
    <3>2. /\ Append(h, Empty) \in Seq(Value) /\ Len(Append(h, Empty)) = Len(h) + 1
          /\ \A k \in 1..Len(h) : Append(h, Empty)[k] = h[k]
          /\ \A k \in 1..Len(h) : StepAt(n, Append(h, Empty), k) = StepAt(n, h, k)
          /\ StepAt(n, Append(h, Empty), Len(h) + 1) = Step(n, h)
      BY <1>2, DomainAssumption, AppendProperties, StepAtAppend
    <3>3. Len(h) # MaxReads /\ Len(h) <= MaxReads
      BY <1>1, <1>2, StepAssumption, HistoryIsSeq
    <3>4. Len(h) + 1 <= MaxReads
      BY <1>2, <3>3, DomainAssumption
    <3>5. r \in Frames' /\ r.node = n /\ r.reads = Append(h, Empty)
      BY <1>2, <1>5, <3>2, <3>4, HistoryIsSeq, ZenonT(60) DEF Frame, Frames
    <3>6. Len(h) + 1 \in Nat
      BY <1>2
    <3> HIDE DEF r, IInv
    <3>7. r.node = n /\ Len(r.reads) = Len(h) + 1 /\ StepAt(n, r.reads, Len(h) + 1) = Step(n, h)
      BY <3>2, <3>5
    <3>8. ASSUME NEW k \in 1..(Len(h) + 1), k <= Len(h)
          PROVE  r.reads[k] = h[k] /\ StepAt(n, r.reads, k) = StepAt(n, h, k)
      BY <1>2, <3>2, <3>5, <3>8
    <3>9. \A k \in 1..(Len(h) + 1) : k <= Len(h) =>
            r.reads[k] = h[k] /\ StepAt(n, r.reads, k) = StepAt(n, h, k)
      BY <3>8
    <3>10. r \in Frames'
      BY <3>5
    <3> WITNESS r \in Frames', Len(h) + 1 \in Nat
    <3> QED BY <1>2, <3>1, <3>7, <3>9
  <2> QED BY <2>1, <2>2
<1>10. PICK b \in Seq(Frames') :
         /\ b = Append(Below, r) /\ Len(b) = d /\ DOMAIN b = 1..d /\ DOMAIN stack = 1..d
         /\ \A i \in 1..(d - 1) : b[i] = stack[i]
         /\ b[d] = r
  BY <1>1, <1>2, <1>8, <1>9, TopMoves
<1>11. Frame(c, <<>>) \in Frames' /\ Frame(c, <<>>).node = c /\ Frame(c, <<>>).reads = <<>>
  BY <1>5, <1>8 DEF Frame, Frames
\* The frames of the new stack: those below, the reader's, perhaps the callee's.
<1>12. /\ stack' \in Seq(Frames') /\ d \in DOMAIN stack' /\ stack' # <<>>
       /\ \A i \in DOMAIN stack' :
            \/ i \in 1..(d - 1) /\ i \in DOMAIN stack /\ stack'[i] = stack[i]
            \/ i = d /\ stack'[i] = r
            \/ i = d + 1 /\ stack'[i] = Frame(c, <<>>) /\ q <= Len(h)
  <2>1. CASE stack' = Append(b, Frame(c, <<>>)) /\ q <= Len(h)
    <3>1. /\ stack' \in Seq(Frames') /\ Len(stack') = d + 1
          /\ \A i \in 1..d : stack'[i] = b[i]
          /\ stack'[d + 1] = Frame(c, <<>>)
      BY <1>10, <1>11, <2>1, AppendProperties
    <3>2. DOMAIN stack' = 1..(d + 1)
      BY <3>1, LenProperties
    <3>3. stack' # <<>>
      BY <3>1, <1>2, EmptySeq
    <3> HIDE DEF IInv
    <3> QED BY <1>2, <1>10, <2>1, <3>1, <3>2, <3>3, SMTT(60)
  <2>2. CASE stack' = b
    BY <1>2, <1>10, <2>2, EmptySeq
  <2> QED BY <1>9, <1>10, <2>1, <2>2
<1>13. TypeOK'
  <2>1. pending' \subseteq Known' /\ completed' \subseteq Settled' /\ roots' \subseteq Known'
        /\ nodes' \subseteq Known' /\ Known' \subseteq Node
    BY <1>1, <1>2, <1>4, <1>5 DEF TypeOK
  <2>2. /\ phase' \in {"idle", "round", "components", "failed"} /\ left' \subseteq nodes'
        /\ component' \subseteq nodes' /\ todo' \subseteq component'
        /\ changed' \in BOOLEAN /\ moved' \in BOOLEAN
    BY <1>1 DEF TypeOK
  <2> QED BY <1>5, <1>6, <1>12, <2>1, <2>2 DEF TypeOK
<1>14. FramesRead'
  <2> SUFFICES ASSUME NEW i \in DOMAIN stack', NEW k \in 1..Len(stack'[i].reads)
               PROVE  LET m == stack'[i].node
                          s == StepAt(m, stack'[i].reads, k)
                      IN /\ s.op = "read" /\ s.callee \in edges'[m]
                         /\ s.callee \notin pending' => stack'[i].reads[k] = summaries'[s.callee]
    BY <1>1 DEF FramesRead
  <2>1. ASSUME NEW j \in DOMAIN stack, NEW l \in 1..Len(stack[j].reads)
        PROVE  LET m == stack[j].node
                   s == StepAt(m, stack[j].reads, l)
               IN /\ s.op = "read" /\ s.callee \in edges'[m]
                  /\ s.callee \notin pending' => stack[j].reads[l] = summaries'[s.callee]
    <3>1. stack[j].node \in Known /\ edges[stack[j].node] \subseteq Known
      BY FramesKnown DEF TypeOK
    <3>2. LET m == stack[j].node
              s == StepAt(m, stack[j].reads, l)
          IN /\ s.op = "read" /\ s.callee \in edges[m]
             /\ s.callee \notin pending => stack[j].reads[l] = summaries[s.callee]
      BY <2>1 DEF FramesRead
    <3>3. /\ \A m \in Known : summaries'[m] = summaries[m] /\ edges[m] \subseteq edges'[m]
          /\ pending \subseteq pending'
      BY <1>4, <1>5, <1>6
    <3> HIDE DEF IInv
    <3> QED BY <3>1, <3>2, <3>3
  <2>2. CASE i \in 1..(d - 1) /\ i \in DOMAIN stack /\ stack'[i] = stack[i]
    BY <2>1, <2>2
  <2>3. CASE i = d /\ stack'[i] = r
    <3>1. k \in 1..q /\ d \in DOMAIN stack /\ stack[d].node = n /\ stack[d].reads = h
      BY <1>2, <1>9, <1>10, <2>3
    <3>2. CASE k <= Len(h)
      <4>1. k \in 1..Len(h)
        BY <1>2, <3>1, <3>2
      <4>2. LET s == StepAt(n, h, k)
            IN /\ s.op = "read" /\ s.callee \in edges'[n]
               /\ s.callee \notin pending' => h[k] = summaries'[s.callee]
        BY <2>1, <3>1, <4>1
      <4> HIDE DEF IInv
      <4> QED BY <1>9, <2>3, <3>1, <3>2, <4>2
    <3>3. CASE k > Len(h)
      <4>1. k = q /\ q = Len(h) + 1
        BY <1>2, <1>9, <3>1, <3>3
      <4>2. StepAt(n, r.reads, k) = Step(n, h)
        BY <1>9, <4>1
      <4> HIDE DEF IInv
      <4> QED BY <1>1, <1>2, <1>4, <1>6, <1>9, <2>3, <4>2
    <3> QED BY <1>2, <3>1, <3>2, <3>3
  <2>4. CASE stack'[i] = Frame(c, <<>>)
    BY <1>11, <2>4
  <2> QED BY <1>12, <2>2, <2>3, <2>4
<1>15. FramesNest'
  <2> SUFFICES ASSUME NEW i \in DOMAIN stack', NEW j \in DOMAIN stack', i < j
               PROVE  /\ stack'[j].node \in pending' /\ stack'[i].node # stack'[j].node
                      /\ \A k \in 1..Len(stack'[i].reads) :
                           StepAt(stack'[i].node, stack'[i].reads, k).callee # stack'[j].node
    BY <1>1 DEF FramesNest
  <2>1. i \in 1..d /\ i \in DOMAIN stack /\ stack'[i].node = stack[i].node /\ stack[i].node \in Known
        /\ (i # d => stack'[i] = stack[i]) /\ (i = d => stack'[i] = r /\ stack[d].reads = h)
    <3>1. i \in 1..d /\ i \in DOMAIN stack /\ stack'[i].node = stack[i].node
          /\ (i # d => stack'[i] = stack[i]) /\ (i = d => stack'[i] = r /\ stack[d].reads = h)
      BY <1>2, <1>9, <1>10, <1>12, SMTT(60)
    <3> QED BY <3>1, FramesKnown
  <2>2. ASSUME j = d + 1, stack'[j] = Frame(c, <<>>), q <= Len(h), NEW k \in 1..Len(stack'[i].reads)
        PROVE  StepAt(stack'[i].node, stack'[i].reads, k).callee # c
    <3>1. edges[stack[i].node] \subseteq Known
      BY <2>1 DEF TypeOK
    <3>2. \E l \in 1..Len(stack[i].reads) :
            StepAt(stack'[i].node, stack'[i].reads, k) = StepAt(stack[i].node, stack[i].reads, l)
      <4>1. CASE i # d
        BY <2>1, <2>2, <4>1
      <4>2. CASE i = d
        <5>1. k \in 1..q /\ k \in 1..Len(h) /\ k <= Len(h)
          BY <1>2, <1>9, <2>1, <2>2, <4>2
        <5>2. StepAt(n, r.reads, k) = StepAt(n, h, k)
          BY <1>9, <5>1
        <5> HIDE DEF IInv
        <5> QED BY <1>9, <2>1, <4>2, <5>1, <5>2
      <4> QED BY <4>1, <4>2
    <3> QED BY <2>1, <3>1, <3>2 DEF FramesRead
  <2>3. CASE j = d + 1 /\ stack'[j] = Frame(c, <<>>) /\ q <= Len(h)
    BY <1>4, <1>11, <2>1, <2>2, <2>3
  <2>4. CASE j \in 1..d
    <3>1. j \in DOMAIN stack /\ stack'[j].node = stack[j].node /\ i # d /\ stack'[i] = stack[i]
      BY <1>2, <1>9, <1>10, <1>12, <2>1, <2>4
    <3> QED BY <1>4, <3>1, <2>1 DEF FramesNest
  <2> QED BY <1>12, <2>3, <2>4
<1>16. FrameBase'
  <2>1. stack'[1].node = stack[1].node /\ stack[1].node \in Known /\ stack[1].node \in pending
    <3>1. 1 \in DOMAIN stack /\ 1 \in DOMAIN stack'
      <4>1. 1 \in 1..Len(stack')
        BY <1>12, EmptySeq
      <4>2. DOMAIN stack' = 1..Len(stack')
        BY <1>12, LenProperties
      <4> QED BY <1>2, <1>10, <4>1, <4>2
    <3>2. stack'[1].node = stack[1].node
      BY <1>2, <1>9, <1>10, <1>12, <3>1
    <3>3. d = 1 => stack[1].node \in pending
      BY <1>2, <1>3
    <3>4. d # 1 => stack[1].node \in pending
      BY <1>1, <1>2 DEF FrameBase
    <3> QED BY <3>1, <3>2, <3>3, <3>4, FramesKnown
  <2>2. phase = "components" /\ stack[1].node \in component \ todo /\ ~Closed(summaries[stack[1].node])
    BY <1>1 DEF FrameBase
  <2> QED BY <1>1, <1>4, <1>5, <2>1, <2>2 DEF FrameBase
<1>17. RoundHolds'
  BY <1>1 DEF RoundHolds
<1> QED BY <1>1, <1>7, <1>13, <1>14, <1>15, <1>16, <1>17, <1>2 DEF OutsideRounds, FrameBase

\* Storing the summary of a pending procedure, by its own return or because
\* its slice of the budget ran out.
LEMMA StoreHolds ==
  ASSUME IInv, NEW k \in DOMAIN stack, NEW fresh \in Value, Store(k, fresh),
         stack[k].node \in pending,
         \/ Closed(Join(summaries[stack[k].node], fresh))
         \/ /\ k = Len(stack) /\ Step(stack[k].node, stack[k].reads).op = "return"
            /\ fresh = Step(stack[k].node, stack[k].reads).value
  PROVE  IInv'
<1> USE DEF IInv
<1>1. PICK n \in Known, h \in History, new \in Value, mine \in SUBSET Known :
        /\ n = stack[k].node /\ h = stack[k].reads /\ n \in Node /\ n \in pending
        /\ new = Join(summaries[n], fresh) /\ mine = (IF Closed(new) THEN {} ELSE edges[n])
        /\ k \in Nat \ {0} /\ k <= Len(stack) /\ Len(stack) \in Nat
        /\ \/ Closed(new)
           \/ k = Len(stack) /\ Step(n, h).op = "return" /\ fresh = Step(n, h).value
  <2>1. stack[k].node \in Known /\ stack[k].node \in Node /\ stack[k].reads \in History
        /\ k \in 1..Len(stack) /\ Len(stack) \in Nat
    BY FramesKnown
  <2>2. Join(summaries[stack[k].node], fresh) \in Value
    BY <2>1, JoinAssumption DEF TypeOK
  <2> DEFINE n == stack[k].node
             new == Join(summaries[n], fresh)
             mine == IF Closed(new) THEN {} ELSE edges[n]
  <2>3. mine \in SUBSET Known
    BY <2>1 DEF TypeOK
  <2>4. k \in Nat \ {0} /\ k <= Len(stack)
    BY <2>1
  <2>5. n \in Known /\ stack[k].reads \in History /\ new \in Value /\ mine \in SUBSET Known
    BY <2>1, <2>2, <2>3
  <2>6. \/ Closed(new)
        \/ /\ k = Len(stack) /\ Step(n, stack[k].reads).op = "return"
           /\ fresh = Step(n, stack[k].reads).value
    OBVIOUS
  <2>7. n \in Node /\ n \in pending
    BY <2>1
  <2> HIDE DEF IInv, n, new, mine
  <2>8. /\ n = stack[k].node /\ new = Join(summaries[n], fresh)
        /\ mine = (IF Closed(new) THEN {} ELSE edges[n])
    BY DEF n, new, mine
  <2> QED BY <2>1, <2>4, <2>5, <2>6, <2>7, <2>8
<1>2. /\ summaries' = [summaries EXCEPT ![n] = new] /\ edges' = [edges EXCEPT ![n] = mine]
      /\ moved' = (moved \/ mine # edges[n])
      /\ pending' = (IF mine \cap pending = {} THEN pending \ {n} ELSE pending)
      /\ stack' = SubSeq(stack, 1, k - 1)
      /\ changed' = (changed \/ (k = 1 /\ new # summaries[n]))
      /\ UNCHANGED <<roots, phase, nodes, left, component, todo, completed>>
  BY <1>1 DEF Store, Final
<1>3. /\ summaries \in [Known -> Value] /\ edges \in [Known -> SUBSET Known]
      /\ \A m \in Known : edges[m] \subseteq Known
  BY DEF TypeOK
<1>4. /\ Known' = Known /\ Frames' = Frames
      /\ summaries' \in [Known -> Value] /\ edges' \in [Known -> SUBSET Known]
      /\ summaries'[n] = new /\ edges'[n] = mine
      /\ \A m \in Known : m # n => summaries'[m] = summaries[m] /\ edges'[m] = edges[m]
  <2> HIDE DEF IInv
  <2>1. Known' = Known
    BY <1>2, <1>3 DEF Known
  <2> QED BY <1>1, <1>2, <1>3, <2>1 DEF Frames
<1>5. /\ stack' \in Seq(Frames) /\ Len(stack') = k - 1 /\ DOMAIN stack' = 1..(k - 1)
      /\ \A i \in 1..(k - 1) : i \in DOMAIN stack /\ stack'[i] = stack[i]
  <2>1. k - 1 \in 0..Len(stack) /\ stack \in Seq(Frames) /\ DOMAIN stack = 1..Len(stack)
    BY <1>1, LenProperties DEF TypeOK
  <2>2. /\ stack' \in Seq(Frames) /\ Len(stack') = k - 1
        /\ \A i \in 1..(k - 1) : stack'[i] = stack[i]
    BY <1>2, <2>1, SeqPrefix
  <2> HIDE DEF IInv
  <2> QED BY <1>1, <2>1, <2>2, LenProperties
<1>6. stack # <<>>
  BY <1>1 DEF TypeOK
\* The stored procedure is nobody's settled callee, nor one read by a frame below.
<1>7. \A m \in Settled : m # n /\ n \notin edges[m]
  BY <1>1 DEF SettledRestsOnSettled, Settled
<1>8. \A i \in 1..(k - 1) : /\ moved /\ stack[i].node # n /\ stack[i].node \in Known
                            /\ \A l \in 1..Len(stack[i].reads) :
                                 StepAt(stack[i].node, stack[i].reads, l).callee # n
  <2> SUFFICES ASSUME NEW i \in 1..(k - 1)
               PROVE /\ moved /\ stack[i].node # n /\ stack[i].node \in Known
                     /\ \A l \in 1..Len(stack[i].reads) :
                          StepAt(stack[i].node, stack[i].reads, l).callee # n
    OBVIOUS
  <2>1. i \in DOMAIN stack /\ i < k
    BY <1>1, <1>5
  <2> QED BY <1>1, <2>1, FramesKnown DEF FramesNest
<1>9. Settled \subseteq Settled' /\ Settled' \subseteq Settled \cup {n}
      /\ pending' \subseteq pending
  BY <1>1, <1>2, <1>4 DEF Settled
<1>10. \A m \in Settled : Fresh(m) => Fresh(m)'
  <2> SUFFICES ASSUME NEW m \in Settled, Fresh(m) PROVE Fresh(m)'
    OBVIOUS
  <2>1. m \in Known /\ m # n /\ n \notin edges[m]
    BY <1>7 DEF Settled
  <2>2. \A c \in edges[m] : summaries'[c] = summaries[c]
    BY <1>3, <1>4, <2>1
  <2> QED BY <1>4, <2>1, <2>2, FreshStable
\* If it settles, it is closed or has read final summaries only.
<1>11. n \in Settled' => Fresh(n)' /\ mine \subseteq Settled'
  <2> SUFFICES ASSUME n \in Settled' PROVE Fresh(n)' /\ mine \subseteq Settled'
    OBVIOUS
  <2>1. mine \cap pending = {}
    BY <1>1, <1>2 DEF Settled
  <2>2. mine \subseteq Settled'
    BY <1>1, <1>4, <1>9, <2>1 DEF Settled
  <2>3. CASE Closed(new)
    BY <1>4, <2>2, <2>3 DEF Fresh
  <2>4. CASE ~Closed(new)
    <3>1. k = Len(stack) /\ Step(n, h).op = "return" /\ fresh = Step(n, h).value /\ mine = edges[n]
      BY <1>1, <2>4
    <3>2. \A l \in 1..Len(h) :
            LET s == StepAt(n, h, l)
            IN s.op = "read" /\ s.callee \in edges[n] /\ h[l] = summaries[s.callee]
      BY <1>1, <2>1, <3>1 DEF FramesRead
    <3>3. \A c \in edges[n] : summaries'[c] = summaries[c]
      BY <1>1, <1>3, <1>4, <2>1, <3>1
    <3>4. Reads(n, h)'
      BY <1>4, <3>1, <3>2, <3>3 DEF Reads
    <3>5. Join(new, fresh) = new
      BY <1>1, <1>3, JoinAssumption
    <3>6. Confirms(n, h)'
      BY <1>4, <3>1, <3>4, <3>5 DEF Confirms
    <3> QED BY <1>1, <2>2, <3>6 DEF Fresh, Justified
  <2> QED BY <2>3, <2>4
<1>12. SettledJustified' /\ SettledRestsOnSettled'
  <2>1. ASSUME NEW m \in Settled', m \notin completed PROVE Fresh(m)'
    <3>1. CASE m = n
      BY <1>11, <2>1, <3>1
    <3>2. CASE m # n
      <4>1. m \in Settled
        BY <1>9, <3>2
      <4>2. Fresh(m)
        BY <2>1, <4>1 DEF SettledJustified, Fresh
      <4> QED BY <1>10, <4>1, <4>2
    <3> QED BY <3>1, <3>2
  <2>2. ASSUME NEW m \in Settled' PROVE edges'[m] \subseteq Settled'
    <3>1. CASE m = n
      BY <1>4, <1>11, <3>1
    <3>2. CASE m # n
      BY <1>4, <1>9, <3>2 DEF SettledRestsOnSettled, Settled
    <3> QED BY <3>1, <3>2
  <2>3. SettledRestsOnSettled'
    BY <2>2 DEF SettledRestsOnSettled
  <2>4. SettledJustified'
    BY <1>2, <2>1 DEF SettledJustified, Fresh
  <2> QED BY <2>3, <2>4
<1>13. TypeOK'
  <2>1. /\ pending' \subseteq Known' /\ completed' \subseteq Settled'
        /\ changed' \in BOOLEAN /\ moved' \in BOOLEAN
    BY <1>2, <1>4, <1>9 DEF TypeOK
  <2>2. /\ Known \subseteq Node /\ phase' \in {"idle", "round", "components", "failed"}
        /\ roots' \subseteq Known /\ nodes' \subseteq Known /\ left' \subseteq nodes'
        /\ component' \subseteq nodes' /\ todo' \subseteq component'
    BY <1>2 DEF TypeOK
  <2> QED BY <1>4, <1>5, <2>1, <2>2 DEF TypeOK
<1>14. FramesRead'
  <2> SUFFICES ASSUME NEW i \in 1..(k - 1), NEW l \in 1..Len(stack[i].reads)
               PROVE  LET m == stack[i].node
                          s == StepAt(m, stack[i].reads, l)
                      IN /\ s.op = "read" /\ s.callee \in edges'[m]
                         /\ s.callee \notin pending' \/ ~moved' => stack[i].reads[l] = summaries'[s.callee]
    BY <1>5 DEF FramesRead
  <2> DEFINE m == stack[i].node
             s == StepAt(m, stack[i].reads, l)
  <2>1. i \in DOMAIN stack /\ moved /\ moved' /\ m # n /\ m \in Known /\ s.callee # n
    BY <1>2, <1>5, <1>8
  <2>2. /\ s.op = "read" /\ s.callee \in edges[m]
        /\ s.callee \notin pending \/ ~moved => stack[i].reads[l] = summaries[s.callee]
    BY <2>1 DEF FramesRead
  <2>3. s.callee \in Known /\ (s.callee \notin pending' => s.callee \notin pending)
    BY <1>2, <1>3, <2>1, <2>2
  <2> HIDE DEF m, s, IInv
  <2>4. edges'[m] = edges[m] /\ summaries'[s.callee] = summaries[s.callee]
    BY <1>4, <2>1, <2>3
  <2>5. /\ s.op = "read" /\ s.callee \in edges'[m]
        /\ s.callee \notin pending' \/ ~moved' => stack[i].reads[l] = summaries'[s.callee]
    BY <2>1, <2>2, <2>3, <2>4
  <2> QED BY <2>5 DEF m, s
<1>15. FramesNest'
  <2> SUFFICES ASSUME NEW i \in 1..(k - 1), NEW j \in 1..(k - 1), i < j
               PROVE  /\ moved' /\ stack[j].node \in pending' /\ stack[i].node # stack[j].node
                      /\ \A l \in 1..Len(stack[i].reads) :
                           StepAt(stack[i].node, stack[i].reads, l).callee # stack[j].node
    BY <1>5 DEF FramesNest
  <2>1. i \in DOMAIN stack /\ j \in DOMAIN stack /\ stack[j].node # n /\ moved'
    BY <1>2, <1>5, <1>8
  <2>2. /\ stack[j].node \in pending /\ stack[i].node # stack[j].node
        /\ \A l \in 1..Len(stack[i].reads) :
             StepAt(stack[i].node, stack[i].reads, l).callee # stack[j].node
    BY <2>1 DEF FramesNest
  <2> QED BY <1>2, <2>1, <2>2
<1>16. FrameBase'
  <2> SUFFICES ASSUME stack' # <<>> PROVE FrameBase'
    BY DEF FrameBase
  <2>1. 1 \in 1..(k - 1)
    BY <1>1, <1>5, EmptySeq
  <2>2. stack'[1] = stack[1] /\ stack[1].node # n /\ stack[1].node \in Known /\ Len(stack) # 1
    BY <1>1, <1>5, <1>8, <2>1
  <2>3. /\ phase = "components" /\ stack[1].node \in component \ todo
        /\ ~Closed(summaries[stack[1].node]) /\ stack[1].node \in pending
    BY <1>6, <2>2 DEF FrameBase
  <2>4. stack'[1].node \in pending' /\ summaries'[stack[1].node] = summaries[stack[1].node]
    BY <1>2, <1>4, <2>2, <2>3
  <2> QED BY <1>2, <2>2, <2>3, <2>4 DEF FrameBase
<1>17. RoundHolds'
  <2>1. CASE moved'
    BY <1>2, <2>1 DEF RoundHolds
  <2>2. CASE ~moved'
    <3>1. ~moved /\ mine = edges[n] /\ edges' = edges
      <4>1. ~moved /\ mine = edges[n]
        BY <1>2, <2>2
      <4> HIDE DEF IInv
      <4> QED BY <1>2, <1>3, <1>1, <4>1
    <3>2. k = 1 /\ Len(stack) = 1 /\ stack' = <<>>
      <4>1. k = 1
        <5>1. ASSUME k # 1 PROVE FALSE
          <6>1. 1 \in 1..(k - 1)
            BY <1>1, <5>1
          <6> QED BY <1>8, <3>1, <6>1
        <5> QED BY <5>1
      <4>2. Len(stack) = 1
        <5>1. ASSUME Len(stack) # 1 PROVE FALSE
          <6>1. 1 \in DOMAIN stack /\ Len(stack) \in DOMAIN stack /\ 1 < Len(stack)
            BY <1>1, <4>1, <5>1, TopFacts, <1>6
          <6> QED BY <3>1, <6>1 DEF FramesNest
        <5> QED BY <5>1
      <4>3. stack' = <<>>
        BY <1>5, <4>1, EmptySeq
      <4> QED BY <4>1, <4>2, <4>3
    <3>3. /\ phase = "components" /\ n \in component \ todo /\ ~Closed(summaries[n])
      BY <1>1, <1>6, <3>2 DEF FrameBase
    <3>4. \A m \in Known : n \notin edges[m] /\ m # n /\ Fresh(m) => Fresh(m)'
      <4> SUFFICES ASSUME NEW m \in Known, n \notin edges[m], m # n, Fresh(m) PROVE Fresh(m)'
        OBVIOUS
      <4>1. \A c \in edges[m] : summaries'[c] = summaries[c]
        BY <1>3, <1>4
      <4> QED BY <1>4, <4>1, FreshStable
    <3>5. \A m \in nodes \ (left \cup component) : Fresh(m)'
      BY <3>1, <3>3, <3>4 DEF RoundHolds, TypeOK
    <3>6. ASSUME ~changed' PROVE summaries' = summaries /\ Fresh(n)'
      <4>1. new = summaries[n]
        BY <1>2, <3>2, <3>6
      <4>2. summaries' = summaries
        <5> HIDE DEF IInv
        <5> QED BY <1>1, <1>2, <1>3, <4>1
      <4>3. Step(n, h).op = "return" /\ fresh = Step(n, h).value
        BY <1>1, <3>3, <4>1
      <4>4. Reads(n, h)
        BY <1>1, <3>1 DEF FramesRead, Reads
      <4>5. Confirms(n, h)
        BY <1>1, <4>1, <4>3, <4>4 DEF Confirms
      <4>6. Fresh(n)
        BY <4>5 DEF Fresh, Justified
      <4> QED BY <3>1, <4>2, <4>6, FreshUnchanged
    <3>7. ASSUME ~changed', NEW m \in component \ todo PROVE Fresh(m)'
      <4>1. CASE m = n
        BY <3>6, <3>7, <4>1
      <4>2. CASE m # n
        <5>1. Fresh(m)
          BY <1>1, <1>2, <3>1, <3>2, <3>3, <3>7, <4>2 DEF RoundHolds
        <5> QED BY <3>1, <3>6, <3>7, <5>1, FreshUnchanged
      <4> QED BY <4>1, <4>2
    <3> QED BY <1>2, <3>1, <3>2, <3>3, <3>5, <3>7 DEF RoundHolds
  <2> QED BY <2>1, <2>2
<1>18. OutsideRounds'
  BY <1>2, <1>6 DEF OutsideRounds, FrameBase
<1> QED BY <1>12, <1>13, <1>14, <1>15, <1>16, <1>17, <1>18

\* Storing again what a settled procedure already holds changes nothing.
LEMMA SettledReturn ==
  ASSUME IInv, Return, Top.node \notin pending
  PROVE  IInv'
<1> USE DEF IInv
<1>1. PICK n \in Known, h \in History, v \in Value :
        /\ n = Top.node /\ h = Top.reads /\ v = Step(n, h).value
        /\ Step(n, h).op = "return" /\ n \in Node /\ stack # <<>> /\ n \notin pending
  <2>1. stack # <<>> /\ Step(Top.node, Top.reads).op = "return"
    BY DEF Return, Does
  <2>2. Top.node \in Known /\ Top.node \in Node /\ Top.reads \in History
    BY <2>1, TopFacts
  <2>3. Step(Top.node, Top.reads).value \in Value
    BY <2>1, <2>2, StepAssumption DEF Reading, Ending
  <2> QED BY <2>1, <2>2, <2>3
<1>2. Len(stack) = 1 /\ stack[1] = Top
  BY <1>1, SettledRetraces DEF Top
<1>3. Confirms(n, h)
  <2>1. PICK g \in History :
          /\ Confirms(n, g) /\ Len(h) <= Len(g)
          /\ Len(h) < Len(g) => Step(n, h).op = "read"
          /\ Len(h) = Len(g) => h = g
    BY <1>1, SettledRetraces
  <2>2. Len(h) = Len(g)
    BY <1>1, <2>1, HistoryIsSeq, LenProperties
  <2> QED BY <2>1, <2>2
<1>4. Join(summaries[n], v) = summaries[n] /\ ~Closed(summaries[n])
  BY <1>1, <1>2, <1>3 DEF Confirms, FrameBase
<1>5. /\ summaries' = [summaries EXCEPT ![n] = summaries[n]]
      /\ edges' = [edges EXCEPT ![n] = edges[n]] /\ moved' = moved
      /\ pending' = (IF edges[n] \cap pending = {} THEN pending \ {n} ELSE pending)
      /\ stack' = SubSeq(stack, 1, 0) /\ changed' = changed
      /\ UNCHANGED <<roots, phase, nodes, left, component, todo, completed>>
  <2> HIDE DEF IInv
  <2>1. Store(1, v)
    BY <1>1, <1>2 DEF Return
  <2>2. stack[1].node = n
    BY <1>1, <1>2
  <2>3. 1 - 1 = 0
    OBVIOUS
  <2>4. Join(summaries[stack[1].node], v) = summaries[n] /\ ~Closed(summaries[n])
    BY <1>4, <2>2
  <2>5. /\ summaries' = [summaries EXCEPT ![n] = Join(summaries[n], v)]
        /\ edges' = [edges EXCEPT ![n] = IF Closed(Join(summaries[n], v)) THEN {} ELSE edges[n]]
        /\ moved' = (moved \/ (IF Closed(Join(summaries[n], v)) THEN {} ELSE edges[n]) # edges[n])
        /\ pending' = (IF (IF Closed(Join(summaries[n], v)) THEN {} ELSE edges[n]) \cap pending = {}
                       THEN pending \ {n} ELSE pending)
        /\ stack' = SubSeq(stack, 1, 1 - 1)
        /\ changed' = (changed \/ (1 = 1 /\ Join(summaries[n], v) # summaries[n]))
        /\ UNCHANGED <<roots, phase, nodes, left, component, todo, completed>>
    BY <2>1, <2>2 DEF Store, Final
  <2>6. moved \in BOOLEAN /\ changed \in BOOLEAN
    BY DEF IInv, TypeOK
  <2>7. Join(summaries[n], v) = summaries[n] /\ ~Closed(Join(summaries[n], v))
    BY <2>2, <2>4
  <2>8. stack' = SubSeq(stack, 1, 0)
    BY <2>3, <2>5
  <2> QED BY <2>5, <2>6, <2>7, <2>8
<1>6. /\ summaries' = summaries /\ edges' = edges /\ pending' = pending /\ stack' = <<>>
  <2>1. summaries \in [Known -> Value] /\ edges \in [Known -> SUBSET Known]
    BY DEF TypeOK
  <2> HIDE DEF IInv
  <2> QED BY <1>1, <1>5, <2>1, SubSeqEmpty
<1>7. SettledJustified' /\ SettledRestsOnSettled'
  BY <1>5, <1>6, TableUnchanged DEF table
<1>8. TypeOK'
  BY <1>5, <1>6, EmptySeq DEF TypeOK, Settled, Known
<1>9. Fresh(n)
  BY <1>3 DEF Fresh, Justified
<1>10. RoundHolds'
  <2>1. \A m : Fresh(m)' = Fresh(m)
    BY <1>6, FreshUnchanged
  <2> QED BY <1>1, <1>2, <1>5, <1>6, <1>9, <2>1 DEF RoundHolds
<1> QED BY <1>5, <1>6, <1>7, <1>8, <1>10
        DEF FramesRead, FramesNest, FrameBase, OutsideRounds

LEMMA ReturnHolds == IInv /\ Return => IInv'
<1> SUFFICES ASSUME IInv, Return PROVE IInv'
  OBVIOUS
<1>1. stack # <<>> /\ Step(Top.node, Top.reads).op = "return" /\ TypeOK
  BY DEF Return, Does, IInv
<1>2. Len(stack) \in DOMAIN stack /\ Top.node \in Node /\ Top.reads \in History
  BY <1>1, TopFacts
<1>3. Step(Top.node, Top.reads).value \in Value
  BY <1>1, <1>2, StepAssumption DEF Reading, Ending
<1>4. CASE Top.node \in pending
  BY <1>1, <1>2, <1>3, <1>4, StoreHolds DEF Return, Top
<1>5. CASE Top.node \notin pending
  BY <1>5, SettledReturn
<1> QED BY <1>4, <1>5

LEMMA ExhaustSliceHolds == ASSUME NEW k \in 1..Len(stack), IInv, ExhaustSlice(k) PROVE IInv'
<1>1. k \in DOMAIN stack /\ stack[k].node \in pending /\ Store(k, Exhausted) /\ TypeOK
  BY DEF ExhaustSlice, IInv
<1>2. Closed(Join(summaries[stack[k].node], Exhausted))
  <2>1. stack[k].node \in Known
    BY <1>1, FramesKnown
  <2> QED BY <1>1, <2>1, JoinAssumption DEF TypeOK
<1> QED BY <1>1, <1>2, StoreHolds, DomainAssumption

\* An aborted solve leaves the final summaries, and the one it closed.
LEMMA AbortHolds ==
  ASSUME IInv, NEW t \in Value, NEW closing \in SUBSET pending, Abort(t, closing)
  PROVE  IInv'
<1> USE DEF IInv
<1>1. /\ summaries \in [Known -> Value] /\ edges \in [Known -> SUBSET Known]
      /\ closing \subseteq Known /\ Known \subseteq Node /\ completed \subseteq Settled
      /\ Settled \subseteq Known /\ Settled \cap closing = {}
  BY DEF TypeOK, Settled
<1>2. /\ Known' = Settled \cup closing /\ Settled' = Settled \cup closing
      /\ pending' = {} /\ completed' = completed \cup closing
      /\ phase' = "idle" /\ roots' = {} /\ stack' = <<>>
      /\ nodes' = {} /\ left' = {} /\ component' = {} /\ todo' = {}
      /\ changed' = FALSE /\ moved' = FALSE
  BY DEF Abort, Survives, KeptEdges, Known, Settled
<1>3. \A n \in Settled : edges[n] \subseteq Settled /\ edges[n] \ pending = edges[n]
  BY DEF SettledRestsOnSettled, Settled
<1>4. /\ \A n \in Settled : summaries'[n] = summaries[n] /\ edges'[n] = edges[n]
      /\ \A n \in closing : summaries'[n] = t /\ edges'[n] = {}
  BY <1>1, <1>3 DEF Abort, Survives, KeptEdges
<1>5. TypeOK'
  <2>1. summaries' \in [Known' -> Value]
    BY <1>1, <1>2 DEF Abort, Survives, KeptEdges
  <2>2. edges' \in [Known' -> SUBSET Known']
    <3>1. \A n \in Known' : edges'[n] \subseteq Known'
      BY <1>2, <1>3, <1>4
    <3> QED BY <1>2, <3>1 DEF Abort, Survives, KeptEdges
  <2>3. stack' \in Seq(Frames')
    BY <1>2, EmptySeq
  <2> QED BY <1>1, <1>2, <2>1, <2>2, <2>3 DEF TypeOK
<1>6. SettledJustified'
  <2> SUFFICES ASSUME NEW n \in Settled, n \notin completed PROVE Fresh(n)'
    BY <1>2 DEF SettledJustified, Fresh
  <2>1. Fresh(n)
    BY DEF SettledJustified, Fresh
  <2>2. \A c \in edges[n] : summaries'[c] = summaries[c]
    BY <1>3, <1>4
  <2> QED BY <1>4, <2>1, <2>2, FreshStable
<1>7. SettledRestsOnSettled'
  BY <1>2, <1>3, <1>4 DEF SettledRestsOnSettled
<1> QED BY <1>2, <1>5, <1>6, <1>7 DEF FramesRead, FramesNest, FrameBase, RoundHolds, OutsideRounds

LEMMA CompleteHolds == IInv /\ Complete => IInv'
<1> SUFFICES ASSUME IInv, Complete PROVE IInv'
  OBVIOUS
<1> USE DEF IInv
<1>1. stack # <<>> /\ Step(Top.node, Top.reads).op = "complete"
      /\ Abort(Step(Top.node, Top.reads).value, {Top.node})
  BY DEF Complete, Does
<1>2. Top.node \in Node /\ Top.reads \in History
  BY <1>1, TopFacts
<1>3. Step(Top.node, Top.reads).value \in Value
  BY <1>1, <1>2, StepAssumption DEF Reading, Ending
<1>4. ASSUME Top.node \notin pending PROVE FALSE
  <2>1. PICK g \in History :
          /\ Confirms(Top.node, g) /\ Len(Top.reads) <= Len(g)
          /\ Len(Top.reads) < Len(g) => Step(Top.node, Top.reads).op = "read"
          /\ Len(Top.reads) = Len(g) => Top.reads = g
    BY <1>1, <1>4, SettledRetraces
  <2>2. Len(Top.reads) = Len(g)
    BY <1>1, <1>2, <2>1, HistoryIsSeq, LenProperties
  <2> QED BY <1>1, <2>1, <2>2 DEF Confirms
<1> QED BY <1>1, <1>3, <1>4, AbortHolds

LEMMA OtherStepsHold == IInv /\ (CompleteFails \/ ExhaustRequest \/ UNCHANGED vars) => IInv'
<1> SUFFICES ASSUME IInv, CompleteFails \/ ExhaustRequest \/ UNCHANGED vars PROVE IInv'
  OBVIOUS
<1>1. CASE CompleteFails
  <2> USE DEF IInv, CompleteFails, table, round
  <2>1. SettledJustified' /\ SettledRestsOnSettled'
    BY <1>1, TableUnchanged
  <2>2. TypeOK'
    BY <1>1, EmptySeq DEF TypeOK, Settled, Known
  <2> QED BY <1>1, <2>1, <2>2 DEF FramesRead, FramesNest, FrameBase, RoundHolds, OutsideRounds
<1>2. CASE ExhaustRequest
  <2>1. Abort(Empty, {})
    BY <1>2 DEF ExhaustRequest
  <2> QED BY <2>1, AbortHolds, DomainAssumption
<1>3. CASE UNCHANGED vars
  <2> USE DEF IInv, vars
  <2>1. SettledJustified' /\ SettledRestsOnSettled'
    BY <1>3, TableUnchanged DEF table
  <2>2. TypeOK' /\ OutsideRounds'
    BY <1>3 DEF TypeOK, Settled, Known, Frames, OutsideRounds
  <2>3. \A m, h : Confirms(m, h)' = Confirms(m, h)
    BY <1>3 DEF Confirms, Reads
  <2>4. FramesRead' /\ FramesNest'
    BY <1>3 DEF FramesRead, FramesNest
  <2>5. FrameBase'
    BY <1>3, <2>3 DEF FrameBase
  <2>6. RoundHolds'
    BY <1>3, FreshUnchanged DEF RoundHolds
  <2> QED BY <2>1, <2>2, <2>4, <2>5, <2>6
<1> QED BY <1>1, <1>2, <1>3

-----------------------------------------------------------------------------
(* The theorems.                                                           *)

LEMMA NextHolds == IInv /\ [Next]_vars => IInv'
<1> SUFFICES ASSUME IInv, [Next]_vars PROVE IInv'
  OBVIOUS
<1>1. CASE Request
  BY <1>1, SolveHolds, SolveDeclaredHolds DEF Request
<1>2. CASE Driver
  <2>1. CASE StartRound \/ SolveReturns \/ StartComponent \/ RepeatPass \/ FinishComponent \/ EndRound
    BY <2>1, StartRoundHolds, SolveReturnsHolds, StartComponentHolds, RepeatPassHolds,
       FinishComponentHolds, EndRoundHolds
  <2>2. ASSUME NEW n \in Node, SkipClosed(n) \/ StartUpdate(n) PROVE IInv'
    BY <2>2, SkipClosedHolds, StartUpdateHolds
  <2>3. CASE ReadKnown \/ ReadNew \/ Return \/ Complete \/ CompleteFails \/ ExhaustRequest
    BY <2>3, ReadKnownHolds, ReadNewHolds, ReturnHolds, CompleteHolds, OtherStepsHold
  <2>4. ASSUME NEW k \in 1..Len(stack), ExhaustSlice(k) PROVE IInv'
    BY <2>4, ExhaustSliceHolds
  <2> QED BY <1>2, <2>1, <2>2, <2>3, <2>4 DEF Driver
<1>3. CASE UNCHANGED vars
  BY <1>3, OtherStepsHold
<1> QED BY <1>1, <1>2, <1>3 DEF Next

THEOREM Invariance == Spec => []IInv
<1>1. Init => IInv
  BY InitHolds
<1>2. IInv /\ [Next]_vars => IInv'
  BY NextHolds
<1> QED BY <1>1, <1>2, PTL DEF Spec

\* The table, the round and the stack keep their shape.
THEOREM TypeCorrect == Spec => []TypeOK
<1>1. IInv => TypeOK
  BY DEF IInv
<1> QED BY <1>1, Invariance, PTL

\* No final summary was computed from a partial one: whatever interrupts,
\* restarts or aborts a solve, a final summary is closed or its own evaluation
\* over the table confirms it.
THEOREM NoPartialSummary == Spec => []SettledJustified
<1>1. IInv => SettledJustified
  BY DEF IInv
<1> QED BY <1>1, Invariance, PTL

\* A final summary's recorded callees are final, so abort() and _prune() can
\* drop every pending procedure without leaving a dangling callee.
THEOREM FinalRestsOnFinal == Spec => []SettledRestsOnSettled
<1>1. IInv => SettledRestsOnSettled
  BY DEF IInv
<1> QED BY <1>1, Invariance, PTL

\* An eager read never descends into an evaluation that is already suspended.
THEOREM NoReentry == Spec => []OneEvaluationPerInput
<1>1. IInv => OneEvaluationPerInput
  <2> SUFFICES ASSUME IInv, NEW i \in DOMAIN stack, NEW j \in DOMAIN stack,
                      stack[i].node = stack[j].node
               PROVE  i = j
    BY DEF OneEvaluationPerInput
  <2>1. i \in 1..Len(stack) /\ j \in 1..Len(stack) /\ Len(stack) \in Nat
    BY FramesKnown DEF IInv
  <2>2. ~(i < j) /\ ~(j < i)
    BY DEF IInv, FramesNest
  <2> QED BY <2>1, <2>2
<1> QED BY <1>1, Invariance, PTL

-----------------------------------------------------------------------------
(* ProcedureSummaries implements SummaryTable: whatever the driver's       *)
(* rounds, interruptions and aborts do to the pending part of its table,   *)
(* the final part is a cache of answers that only grows.                   *)

\* What a step may do to the final part of the table.
Kept ==
  /\ \A n \in Settled : n \in Settled' /\ summaries'[n] = summaries[n]
  /\ completed \subseteq completed'
  /\ completed' \cap Settled = completed

-----------------------------------------------------------------------------
(* Every action keeps what is final.                                       *)

LEMMA TableKept ==
  ASSUME IInv, UNCHANGED <<table, completed>>
  PROVE  Kept
BY DEF IInv, TypeOK, table, Settled, Known, Kept

LEMMA SolveKeeps == ASSUME NEW R \in Requests, IInv, Solve(R) \/ SolveDeclared(R) PROVE Kept
<1>1. completed' = completed /\ completed \subseteq Settled
  BY DEF Solve, SolveDeclared, IInv, TypeOK
<1>2. CASE Solve(R)
  <2>1. pending = {} /\ Settled = Known
    BY <1>2 DEF IInv, OutsideRounds, Solve, Settled
  <2>2. \A n \in Known : n \in Known' /\ n \notin pending' /\ summaries'[n] = summaries[n]
    BY <1>2, <2>1 DEF Solve, Admitted, Known
  <2> QED BY <1>1, <2>1, <2>2 DEF Kept, Settled
<1>3. CASE SolveDeclared(R)
  BY <1>1, <1>3 DEF SolveDeclared, Kept, Settled
<1> QED BY <1>2, <1>3

LEMMA RoundKeeps ==
  ASSUME IInv, \/ StartRound \/ SolveReturns \/ StartComponent
               \/ RepeatPass \/ FinishComponent \/ EndRound
  PROVE  Kept
<1>1. completed \subseteq Settled
  BY DEF IInv, TypeOK
<1>2. CASE StartRound
  BY <1>1, <1>2 DEF StartRound, Without, Kept, Settled, Known
<1>3. CASE EndRound
  BY <1>1, <1>3 DEF EndRound, Kept, Settled, Known
<1>4. CASE SolveReturns \/ StartComponent \/ RepeatPass \/ FinishComponent
  BY <1>4, TableKept DEF SolveReturns, StartComponent, RepeatPass, PassRepeats, FinishComponent, PassRepeats, table
<1> QED BY <1>2, <1>3, <1>4

LEMMA ReadsKeep == ASSUME IInv, ReadKnown \/ ReadNew PROVE Kept
<1>1. completed \subseteq Settled /\ completed' = completed
  BY DEF IInv, TypeOK, ReadKnown, Admits, NewDependency, ReadNew, Admits
<1>2. CASE ReadKnown
  BY <1>1, <1>2 DEF ReadKnown, Admits, NewDependency, Kept, Settled, Known
<1>3. CASE ReadNew
  <2>1. PICK c : /\ c \notin Known
                 /\ summaries' = Admitted(summaries, {c}, Empty)
                 /\ pending' = pending \cup {c}
    BY <1>3 DEF ReadNew, Admits
  <2>2. \A n \in Known : n \in Known' /\ summaries'[n] = summaries[n]
    BY <2>1 DEF Admitted, Known
  <2> QED BY <1>1, <2>1, <2>2 DEF Kept, Settled
<1> QED BY <1>2, <1>3

\* A store writes a pending procedure, or what its settled one already holds.
LEMMA StoreKeeps ==
  ASSUME IInv, NEW k \in DOMAIN stack, NEW fresh, Store(k, fresh),
         \/ stack[k].node \in pending
         \/ Join(summaries[stack[k].node], fresh) = summaries[stack[k].node]
  PROVE  Kept
<1>1. completed \subseteq Settled /\ completed' = completed
  BY DEF IInv, TypeOK, Store, Final
<1>2. /\ summaries \in [Known -> Value] /\ stack[k].node \in Known
  BY FramesKnown DEF IInv, TypeOK
<1>3. summaries' = [summaries EXCEPT ![stack[k].node] = Join(summaries[stack[k].node], fresh)]
      /\ pending' \subseteq pending
  BY DEF Store, Final
<1>4. \A n \in Settled : n \in Known' /\ n \notin pending' /\ summaries'[n] = summaries[n]
  BY <1>2, <1>3 DEF Settled, Known
<1> QED BY <1>1, <1>4 DEF Kept, Settled

LEMMA ReturnKeeps == ASSUME IInv, Return PROVE Kept
<1>1. stack # <<>> /\ Step(Top.node, Top.reads).op = "return" /\ TypeOK
      /\ Store(Len(stack), Step(Top.node, Top.reads).value)
  BY DEF Return, Does, IInv
<1>2. Len(stack) \in DOMAIN stack /\ Top.reads \in History /\ Top = stack[Len(stack)]
  BY <1>1, TopFacts DEF Top
<1>3. CASE Top.node \in pending
  BY <1>1, <1>2, <1>3, StoreKeeps
<1>4. CASE Top.node \notin pending
  <2>1. PICK h \in History :
          /\ Confirms(Top.node, h) /\ Len(Top.reads) <= Len(h)
          /\ Len(Top.reads) < Len(h) => Step(Top.node, Top.reads).op = "read"
          /\ Len(Top.reads) = Len(h) => Top.reads = h
    BY <1>1, <1>4, SettledRetraces
  <2>2. Len(Top.reads) = Len(h)
    BY <1>1, <1>2, <2>1, HistoryIsSeq, LenProperties
  <2>3. Join(summaries[Top.node], Step(Top.node, Top.reads).value) = summaries[Top.node]
    BY <2>1, <2>2 DEF Confirms
  <2> QED BY <1>1, <1>2, <2>3, StoreKeeps
<1> QED BY <1>3, <1>4

LEMMA AbortKeeps ==
  ASSUME IInv, NEW t, NEW closing \in SUBSET pending, Abort(t, closing)
  PROVE  Kept
<1>1. completed \subseteq Settled /\ Settled \cap closing = {} /\ Settled \subseteq Known
  BY DEF IInv, TypeOK, Settled
<1>2. /\ \A n \in Settled : n \in Known' /\ n \notin pending' /\ summaries'[n] = summaries[n]
      /\ completed' = completed \cup closing
  BY <1>1 DEF Abort, Survives, KeptEdges, Known
<1> QED BY <1>1, <1>2 DEF Kept, Settled

LEMMA CompleteKeeps == ASSUME IInv, Complete PROVE Kept
<1>1. /\ stack # <<>> /\ Step(Top.node, Top.reads).op = "complete" /\ TypeOK
      /\ Abort(Step(Top.node, Top.reads).value, {Top.node})
  BY DEF Complete, Does, IInv
<1>2. Top.reads \in History
  BY <1>1, TopFacts
<1>3. ASSUME Top.node \notin pending PROVE FALSE
  <2>1. PICK h \in History :
          /\ Confirms(Top.node, h) /\ Len(Top.reads) <= Len(h)
          /\ Len(Top.reads) < Len(h) => Step(Top.node, Top.reads).op = "read"
          /\ Len(Top.reads) = Len(h) => Top.reads = h
    BY <1>1, <1>3, SettledRetraces
  <2>2. Len(Top.reads) = Len(h)
    BY <1>1, <1>2, <2>1, HistoryIsSeq, LenProperties
  <2> QED BY <1>1, <2>1, <2>2 DEF Confirms
<1> QED BY <1>1, <1>3, AbortKeeps

LEMMA NextKeeps == IInv /\ [Next]_vars => Kept
<1> SUFFICES ASSUME IInv, [Next]_vars PROVE Kept
  OBVIOUS
<1>1. CASE Request
  BY <1>1, SolveKeeps DEF Request
<1>2. CASE Driver
  <2>1. CASE StartRound \/ SolveReturns \/ StartComponent \/ RepeatPass \/ FinishComponent \/ EndRound
    BY <2>1, RoundKeeps
  <2>2. ASSUME NEW n \in Node, SkipClosed(n) \/ StartUpdate(n) PROVE Kept
    BY <2>2, TableKept DEF SkipClosed, StartUpdate, table
  <2>3. CASE ReadKnown \/ ReadNew
    BY <2>3, ReadsKeep
  <2>4. CASE CompleteFails
    BY <2>4, TableKept DEF CompleteFails, table
  <2>5. CASE ExhaustRequest
    BY <2>5, AbortKeeps DEF ExhaustRequest
  <2>6. ASSUME NEW k \in 1..Len(stack), ExhaustSlice(k) PROVE Kept
    BY <2>6, StoreKeeps DEF ExhaustSlice
  <2> QED BY <1>2, <2>1, <2>2, <2>3, <2>4, <2>5, <2>6, ReturnKeeps, CompleteKeeps DEF Driver
<1>3. CASE UNCHANGED vars
  BY <1>3, TableKept DEF vars, table
<1> QED BY <1>1, <1>2, <1>3 DEF Next

-----------------------------------------------------------------------------
(* The refinement.                                                         *)

\* After a step, a confirmed final summary is confirmed over the answers alone.
LEMMA JustifiedIsConfirmed ==
  ASSUME SettledRestsOnSettled', NEW n \in Settled', Justified(n)'
  PROVE  Table!Confirmed(n, Answers')
<1>1. PICK h \in History : Confirms(n, h)'
  BY DEF Justified
<1>2. DOMAIN Answers' = Settled' /\ \A c \in Settled' : Answers'[c] = summaries'[c]
  BY DEF Answers
<1>3. \A k \in 1..Len(h) :
        /\ Step(n, SubSeq(h, 1, k - 1)).op = "read"
        /\ Step(n, SubSeq(h, 1, k - 1)).callee \in Settled'
        /\ h[k] = Answers'[Step(n, SubSeq(h, 1, k - 1)).callee]
  BY <1>1, <1>2 DEF Confirms, Reads, StepAt, SettledRestsOnSettled
<1>4. Step(n, h).op = "return" /\ Join(Answers'[n], Step(n, h).value) = Answers'[n]
  BY <1>1, <1>2 DEF Confirms
<1> QED BY <1>2, <1>3, <1>4 DEF Table!Confirmed

LEMMA InitImplements == Init => Table!Init
BY DEF Init, Table!Init, Answers, Settled, Known

LEMMA StepImplements ==
  IInv /\ IInv' /\ [Next]_vars => [Table!Answer]_<<Answers, completed>>
<1> SUFFICES ASSUME IInv, IInv', [Next]_vars PROVE Table!Answer
  OBVIOUS
<1>1. Kept
  BY NextKeeps
<1>2. /\ DOMAIN Answers = Settled /\ (DOMAIN Answers)' = Settled'
      /\ \A n \in Settled : Answers[n] = summaries[n]
      /\ \A n \in Settled' : Answers'[n] = summaries'[n]
  BY DEF Answers
<1>3. completed' \subseteq Settled' /\ Settled' \subseteq Known' /\ summaries' \in [Known' -> Value]
  BY DEF IInv, TypeOK, Settled
<1>4. ASSUME NEW n \in Settled'
      PROVE  /\ Answers'[n] \in Value
             /\ Closed(Answers'[n]) \/ n \in completed' \/ Table!Confirmed(n, Answers')
  <2>1. Closed(summaries'[n]) \/ n \in completed' \/ Justified(n)'
    BY <1>4 DEF IInv, SettledJustified
  <2>2. Justified(n)' => Table!Confirmed(n, Answers')
    BY <1>4, JustifiedIsConfirmed DEF IInv
  <2> QED BY <1>2, <1>3, <1>4, <2>1, <2>2
<1> QED BY <1>1, <1>2, <1>3, <1>4 DEF Table!Answer, Kept

\* The final part of the table is a cache: an answer is given once, confirmed
\* over the answers it rests on, and no round, abort or later request changes
\* it or takes it back.
THEOREM Implementation == Spec => ImplementsTable
<1>1. Init => Table!Init
  BY InitImplements
<1>2. IInv /\ IInv' /\ [Next]_vars => [Table!Answer]_<<Answers, completed>>
  BY StepImplements
<1> QED BY <1>1, <1>2, Invariance, PTL DEF Spec, ImplementsTable, Table!Spec
=============================================================================
