------------------------ MODULE CallGraphSolverProofs ------------------------
(***************************************************************************)
(* For all programs, every evaluation and every order in which components  *)
(* and their members are taken: what summarize() returns is a solution.    *)
(* Nothing is assumed of the evaluation but that it reads the summaries of *)
(* the callees of its body.                                                *)
(***************************************************************************)
EXTENDS CallGraphSolver, SequenceTheorems, FiniteSetTheorems, TLAPS

\* The definitions of the components that are finished.
Finished == Reached \ (left \cup Elements(component))

\* A summary is what its evaluation has over those of its callees.
Agrees(d) == summaries[d] = Evaluated(d)

\* Finished components rest on finished ones and agree with them; the callees
\* of the running one are finished or its own members, and while a pass has
\* changed nothing, the members it has evaluated agree.
IInv ==
  /\ program \in Programs /\ DOMAIN summaries = Definition
  /\ left \subseteq Reached
  /\ component \in Seq(Reached \ left) /\ todo \in Seq(Elements(component)) /\ changed \in BOOLEAN
  /\ component = <<>> => ~changed
  /\ \A d \in Finished : CalledBy(d) \subseteq Finished /\ Agrees(d)
  /\ \A d \in Elements(component) : CalledBy(d) \cap left = {}
  /\ ~changed => \A d \in Elements(component) \ Elements(todo) : Agrees(d)
  /\ phase = "done" => left = {} /\ component = <<>>

-----------------------------------------------------------------------------

LEMMA NoElements == Elements(<<>>) = {}
BY DEF Elements

\* The callees of a reached definition are reached.
LEMMA ReachedIsClosed ==
  ASSUME program \in Programs, NEW d \in Reached
  PROVE  CalledBy(d) \subseteq Reached
<1> SUFFICES ASSUME NEW c \in CalledBy(d) PROVE c \in Reached
  OBVIOUS
<1>1. d \in Definition /\ c \in Definition
  BY ProgramAssumption DEF Reached, CalledBy, Body
<1>2. ASSUME NEW R \in SUBSET Definition, Handler \in R, \A e \in R : CalledBy(e) \subseteq R
      PROVE  c \in R
  BY <1>2 DEF Reached
<1> QED BY <1>1, <1>2 DEF Reached

\* The orders of a component list its members.
LEMMA OrdersListMembers ==
  ASSUME NEW C, IsFiniteSet(C), NEW s \in Orders(C)
  PROVE  s \in Seq(C) /\ Elements(s) = C
<1>1. PICK t \in Visits(C) : s = [k \in DOMAIN t |-> t[Len(t) + 1 - k]]
  BY DEF Orders
<1>2. Cardinality(C) \in Nat /\ t \in [1..Cardinality(C) -> C] /\ Elements(t) = C
  BY FS_CardinalityType DEF Visits
<1> DEFINE n == Cardinality(C)
<1>3. t \in Seq(C) /\ Len(t) = n /\ DOMAIN t = 1..n
  BY <1>2
<1>4. s \in [1..n -> C] /\ \A k \in 1..n : s[k] = t[n + 1 - k]
  BY <1>1, <1>2, <1>3
<1> HIDE DEF n
<1>5. n \in Nat
  BY <1>2 DEF n
<1>6. Elements(s) = Elements(t)
  <2>1. \A k \in 1..n : n + 1 - k \in 1..n /\ n + 1 - (n + 1 - k) = k
    BY <1>5
  <2>2. \A k \in 1..n : s[n + 1 - k] = t[k]
    BY <1>4, <2>1
  <2>3. DOMAIN s = 1..n /\ DOMAIN t = 1..n
    BY <1>3, <1>4
  <2> QED BY <1>4, <2>1, <2>2, <2>3 DEF Elements
<1>7. s \in Seq(C)
  BY <1>4, <1>5
<1> QED BY <1>2, <1>6, <1>7

\* A component of definitions still left is finite, and its callees are its
\* own members or no longer left.
LEMMA ComponentsAreClosed ==
  ASSUME left \subseteq Reached, NEW C \in NextComponents
  PROVE  IsFiniteSet(C) /\ C \subseteq left /\ \A d \in C : CalledBy(d) \cap (left \ C) = {}
<1>1. C \subseteq left /\ \A d \in C : CalledBy(d) \cap left \subseteq C
  BY DEF NextComponents
<1>2. IsFiniteSet(C)
  <2>1. C \subseteq Definition
    BY <1>1 DEF Reached
  <2> QED BY <2>1, ProgramAssumption, FS_Subset
<1> QED BY <1>1, <1>2

-----------------------------------------------------------------------------
(* The invariant.                                                          *)

LEMMA InitInv == Init => IInv
<1> SUFFICES ASSUME Init PROVE IInv
  OBVIOUS
<1>1. /\ component = <<>> /\ todo = <<>> /\ left = Reached /\ ~changed /\ changed \in BOOLEAN
      /\ phase # "done" /\ program \in Programs /\ DOMAIN summaries = Definition
  BY DEF Init
<1>2. Elements(component) = {} /\ Finished = {}
  BY <1>1, NoElements DEF Finished
<1>3. component \in Seq(Reached \ left) /\ todo \in Seq(Elements(component))
  BY <1>1, EmptySeq
<1> QED BY <1>1, <1>2, <1>3 DEF IInv

\* What is reached and called does not change, and no summary does but one
\* that is evaluated.
LEMMA SameProgram ==
  ASSUME program' = program
  PROVE  Reached' = Reached /\ \A d : CalledBy(d)' = CalledBy(d)
BY DEF Reached, CalledBy, Body

LEMMA SameAgreement ==
  ASSUME program' = program, NEW d, Agrees(d), \A c \in CalledBy(d) \cup {d} : summaries'[c] = summaries[c]
  PROVE  Agrees(d)'
BY DEF Agrees, Evaluated, CalledBy, Body

LEMMA StartKeeps == IInv /\ StartComponent => IInv'
<1> SUFFICES ASSUME IInv, StartComponent PROVE IInv'
  OBVIOUS
<1>1. PICK C \in NextComponents : left' = left \ C /\ \E s \in Orders(C) : component' = s /\ todo' = s
  BY DEF StartComponent
<1>2. /\ component = <<>> /\ ~changed /\ phase # "done"
      /\ UNCHANGED <<program, phase, summaries, changed>>
  BY DEF StartComponent, IInv
<1>3. IsFiniteSet(C) /\ C \subseteq left /\ \A d \in C : CalledBy(d) \cap (left \ C) = {}
  BY ComponentsAreClosed DEF IInv
<1>4. /\ component' \in Seq(C) /\ todo' = component' /\ Elements(component)' = C
      /\ Elements(todo)' = C
  BY <1>1, <1>3, OrdersListMembers DEF Elements
<1>5. Reached' = Reached /\ \A d : CalledBy(d)' = CalledBy(d)
  BY <1>2, SameProgram
<1>6. Finished' = Finished
  BY <1>1, <1>2, <1>3, <1>4, <1>5, NoElements DEF Finished, IInv
<1>7. component' \in Seq(Reached' \ left') /\ todo' \in Seq(Elements(component)')
  <2>1. C \subseteq Reached' \ left'
    BY <1>1, <1>3, <1>5 DEF IInv
  <2> QED BY <1>4, <2>1
<1>8. \A d \in Finished : Agrees(d)'
  BY <1>2, SameAgreement DEF IInv
<1> QED BY <1>1, <1>2, <1>3, <1>4, <1>5, <1>6, <1>7, <1>8 DEF IInv

LEMMA UpdateKeeps == IInv /\ Update => IInv'
<1> SUFFICES ASSUME IInv, Update PROVE IInv'
  OBVIOUS
<1> DEFINE h == Head(todo)
<1>1. /\ todo # <<>> /\ todo \in Seq(Elements(component))
      /\ summaries' = [summaries EXCEPT ![h] = Evaluated(h)]
      /\ changed' = (changed \/ summaries' # summaries) /\ todo' = Tail(todo)
      /\ UNCHANGED <<program, phase, left, component>>
  BY DEF Update, IInv
<1>2. /\ h \in Elements(component) /\ todo' \in Seq(Elements(component))
      /\ Elements(todo) \subseteq Elements(todo)' \cup {h}
  <2>1. /\ h \in Elements(component) /\ todo' \in Seq(Elements(component))
        /\ h = todo[1] /\ Len(todo') = Len(todo) - 1 /\ Len(todo) \in Nat \ {0}
        /\ \A i \in 1..(Len(todo) - 1) : todo'[i] = todo[i + 1]
    BY <1>1, HeadTailProperties, EmptySeq, LenProperties
  <2>2. DOMAIN todo = 1..Len(todo) /\ DOMAIN todo' = 1..(Len(todo) - 1)
    BY <1>1, <2>1, LenProperties
  <2> HIDE DEF h
  <2>3. ASSUME NEW i \in 1..Len(todo), i # 1 PROVE todo[i] \in Elements(todo)'
    <3>1. i - 1 \in 1..(Len(todo) - 1) /\ todo'[i - 1] = todo[(i - 1) + 1] /\ (i - 1) + 1 = i
      BY <2>1, <2>3
    <3> QED BY <2>2, <3>1 DEF Elements
  <2>4. Elements(todo) \subseteq Elements(todo)' \cup {h}
    BY <2>1, <2>2, <2>3 DEF Elements
  <2> QED BY <2>1, <2>4
<1> HIDE DEF h
<1>3. h \in Definition /\ h \notin Finished /\ h \notin left
  <2>1. Elements(component) \subseteq Reached \ left
    BY DEF IInv, Elements
  <2> QED BY <1>2, <2>1 DEF Finished, Reached
<1>4. /\ DOMAIN summaries' = Definition /\ summaries'[h] = Evaluated(h)
      /\ \A d \in Definition \ {h} : summaries'[d] = summaries[d]
  BY <1>1, <1>3 DEF IInv
<1>5. Reached' = Reached /\ (\A d : CalledBy(d)' = CalledBy(d)) /\ Elements(component)' = Elements(component)
  BY <1>1, SameProgram DEF Elements
<1>6. Finished' = Finished /\ Finished \subseteq Definition
  BY <1>1, <1>5 DEF Finished, Reached
<1>7. \A d \in Finished : Agrees(d)'
  <2> SUFFICES ASSUME NEW d \in Finished PROVE Agrees(d)'
    OBVIOUS
  <2>1. \A c \in CalledBy(d) \cup {d} : summaries'[c] = summaries[c]
    BY <1>3, <1>4, <1>6 DEF IInv
  <2> QED BY <1>1, <2>1, SameAgreement DEF IInv
<1>8. ASSUME ~changed', NEW d \in Elements(component), d \notin Elements(todo)' PROVE Agrees(d)'
  <2>1. ~changed /\ summaries' = summaries
    BY <1>1, <1>8 DEF IInv
  <2>2. CASE d = h
    BY <1>1, <1>4, <2>1, <2>2 DEF Agrees, Evaluated, CalledBy, Body
  <2>3. CASE d # h
    <3>1. Agrees(d)
      BY <1>2, <1>8, <2>1, <2>3 DEF IInv
    <3> QED BY <1>1, <2>1, <3>1, SameAgreement
  <2> QED BY <2>2, <2>3
<1>9. changed' \in BOOLEAN /\ component # <<>>
  <2>1. Elements(component) # {}
    BY <1>2
  <2> QED BY <1>1, <2>1, NoElements DEF IInv
<1> QED BY <1>1, <1>2, <1>4, <1>5, <1>6, <1>7, <1>8, <1>9 DEF IInv

LEMMA RepeatKeeps == IInv /\ RepeatPass => IInv'
<1> SUFFICES ASSUME IInv, RepeatPass PROVE IInv'
  OBVIOUS
<1>1. /\ todo' = component /\ ~changed' /\ changed' \in BOOLEAN
      /\ UNCHANGED <<program, phase, summaries, left, component>>
  BY DEF RepeatPass
<1>2. /\ Reached' = Reached /\ (\A d : CalledBy(d)' = CalledBy(d))
      /\ Elements(component)' = Elements(component) /\ Elements(todo)' = Elements(component)
  BY <1>1, SameProgram DEF Elements
<1>3. Finished' = Finished
  BY <1>1, <1>2 DEF Finished
<1>4. \A d \in Finished : Agrees(d)'
  BY <1>1, SameAgreement DEF IInv
<1>5. component \in Seq(Elements(component))
  <2>1. component \in Seq(Reached \ left)
    BY DEF IInv
  <2>2. Len(component) \in Nat /\ component \in [1..Len(component) -> Elements(component)]
    BY <2>1 DEF Elements
  <2> QED BY <2>2
<1> QED BY <1>1, <1>2, <1>3, <1>4, <1>5 DEF IInv

LEMMA FinishKeeps == IInv /\ FinishComponent => IInv'
<1> SUFFICES ASSUME IInv, FinishComponent PROVE IInv'
  OBVIOUS
<1>1. /\ todo = <<>> /\ ~changed /\ component' = <<>> /\ ~changed' /\ changed' \in BOOLEAN
      /\ UNCHANGED <<program, phase, summaries, left, todo>>
  BY DEF FinishComponent, PassRepeats
<1>2. /\ Reached' = Reached /\ (\A d : CalledBy(d)' = CalledBy(d))
      /\ Elements(component)' = {} /\ Elements(todo) = {}
  BY <1>1, SameProgram, NoElements
<1>3. Elements(component) \subseteq Reached \ left
  BY DEF IInv, Elements
<1>4. Finished' = Finished \cup Elements(component)
  BY <1>1, <1>2, <1>3 DEF Finished
<1>5. \A d \in Finished' : CalledBy(d) \subseteq Finished' /\ Agrees(d)
  <2>1. \A d \in Elements(component) : CalledBy(d) \subseteq Reached \ left
    BY <1>3, ReachedIsClosed DEF IInv
  <2>2. Reached \ left \subseteq Finished'
    BY <1>4 DEF Finished
  <2> QED BY <1>1, <1>2, <1>4, <2>1, <2>2 DEF IInv
<1>6. \A d \in Finished' : Agrees(d)'
  BY <1>1, <1>5, SameAgreement
<1>7. component' \in Seq((Reached \ left)') /\ todo' \in Seq(Elements(component)')
  BY <1>1, EmptySeq
<1> QED BY <1>1, <1>2, <1>5, <1>6, <1>7 DEF IInv

LEMMA ReportKeeps == IInv /\ Report => IInv'
<1> SUFFICES ASSUME IInv, Report PROVE IInv'
  OBVIOUS
<1>1. left = {} /\ component = <<>> /\ UNCHANGED <<program, summaries, left, component, todo, changed>>
  BY DEF Report
<1>2. /\ Reached' = Reached /\ (\A d : CalledBy(d)' = CalledBy(d))
      /\ Elements(component)' = Elements(component) /\ Elements(todo)' = Elements(todo)
  BY <1>1, SameProgram DEF Elements
<1>3. Finished' = Finished /\ \A d \in Definition : Agrees(d) => Agrees(d)'
  BY <1>1, <1>2, SameAgreement DEF Finished
<1>4. Finished \subseteq Definition /\ Elements(component) = {}
  BY <1>1, NoElements DEF Finished, Reached
<1> QED BY <1>1, <1>2, <1>3, <1>4 DEF IInv

LEMMA NextInv == IInv /\ [Next]_vars => IInv'
<1> SUFFICES ASSUME IInv, [Next]_vars PROVE IInv'
  OBVIOUS
<1>1. CASE Next
  BY <1>1, StartKeeps, UpdateKeeps, RepeatKeeps, FinishKeeps, ReportKeeps DEF Next
<1>2. CASE UNCHANGED vars
  <2>1. /\ UNCHANGED <<program, phase, summaries, left, component, todo, changed>>
    BY <1>2 DEF vars
  <2>2. /\ Reached' = Reached /\ (\A d : CalledBy(d)' = CalledBy(d) /\ Agrees(d)' = Agrees(d))
        /\ Elements(component)' = Elements(component) /\ Elements(todo)' = Elements(todo)
    BY <2>1 DEF Elements, Reached, CalledBy, Body, Agrees, Evaluated
  <2>3. Finished' = Finished
    BY <2>1, <2>2 DEF Finished
  <2> QED BY <2>1, <2>2, <2>3 DEF IInv
<1> QED BY <1>1, <1>2

-----------------------------------------------------------------------------

\* For every program, every evaluation and every order of components and
\* members: when summarize() returns, the summary of each definition the
\* Handler reaches is what its evaluation has over those of its callees.
THEOREM SummariesAreSolution == Spec => []Solved
<1>1. IInv => Solved
  <2> SUFFICES ASSUME IInv, phase = "done" PROVE \A d \in Reached : summaries[d] = Evaluated(d)
    BY DEF Solved
  <2>1. left = {} /\ Elements(component) = {}
    BY NoElements DEF IInv
  <2>2. Finished = Reached
    BY <2>1 DEF Finished
  <2> QED BY <2>2 DEF IInv, Agrees
<1> QED BY <1>1, InitInv, NextInv, PTL DEF Spec
=============================================================================
