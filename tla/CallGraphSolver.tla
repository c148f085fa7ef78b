--------------------------- MODULE CallGraphSolver ---------------------------
(***************************************************************************)
(* summarize() of extract_throws.py: the summary of every definition a     *)
(* Handler reaches, component by component of the call graph, each         *)
(* iterated until a pass over it changes nothing.  What an evaluation      *)
(* makes of a body and of the summaries of its callees is a parameter,     *)
(* given by ThrowsEvaluation.                                              *)
(*                                                                         *)
(* All callees are declared before the first evaluation, so one round of   *)
(* the driver (module ProcedureSummaries) solves the program: components,  *)
(* callees first.  The driver holds the definitions, by their addresses,   *)
(* in sets: the search for components starts anywhere and takes callees in *)
(* any order.                                                              *)
(***************************************************************************)
EXTENDS Naturals, Sequences, FiniteSets

CONSTANTS
  Definition,     \* the C functions
  Handler,        \* the definition that implements the entry
  Bodies,         \* definition -> the bodies it may have
  Programs,       \* the checkouts: for every definition, which of its bodies
  Callees(_),     \* the definitions the calls of a body resolve to
  Empty,          \* the summary of a definition not evaluated yet
  Evaluate(_, _), \* the summary of a body over those of its callees
  Reported(_)     \* what a Handler's summary says of its entry

ASSUME ProgramAssumption ==
  /\ IsFiniteSet(Definition) /\ Handler \in Definition /\ DOMAIN Bodies = Definition
  /\ \A p \in Programs, d \in Definition :
       p[d] \in DOMAIN Bodies[d] /\ Callees(Bodies[d][p[d]]) \subseteq Definition

VARIABLES
  program,    \* the checkout
  phase,      \* "solve", then "done"
  summaries,  \* definition -> what it throws, creates and returns
  left,       \* the definitions in components not reached yet
  component,  \* the component being iterated, in strongly_connected's order
  todo,       \* its members still to evaluate in this pass
  changed,    \* this pass changed a summary
  result      \* what is reported of the entry, "none" before that

vars == <<program, phase, summaries, left, component, todo, changed, result>>

Elements(s) == {s[i] : i \in DOMAIN s}
Body(d) == Bodies[d][program[d]]
CalledBy(d) == Callees(Body(d))

\* The definitions the Handler reaches: those in every set that holds it and
\* the callees of its elements.
Reached ==
  {d \in Definition : \A R \in SUBSET Definition :
     Handler \in R /\ (\A c \in R : CalledBy(c) \subseteq R) => d \in R}

Init ==
  /\ program \in Programs
  /\ phase = "solve" /\ summaries = [d \in Definition |-> Empty]
  /\ left = Reached /\ component = <<>> /\ todo = <<>> /\ changed = FALSE
  /\ result = "none"

\* Components ordered callers first.
CallersFirst ==
  {C \in SUBSET left : C # {} /\ (\A d \in left \ C : CalledBy(d) \cap C = {})
     /\ \A D \in SUBSET C : D # {} /\ (\A d \in left \ D : CalledBy(d) \cap D = {}) => D = C}

\* A component of strongly_connected whose callees are done.
NextComponents ==
  {C \in SUBSET left : C # {} /\ (\A d \in C : CalledBy(d) \cap left \subseteq C)
     /\ \A D \in SUBSET C : D # {} /\ (\A d \in D : CalledBy(d) \cap left \subseteq D) => D = C}

\* The orders in which a depth-first search may find the members of C: the next
\* one is a callee of the last member found whose callees are not all found.
Visits(C) ==
  {s \in [1..Cardinality(C) -> C] :
     /\ Elements(s) = C
     /\ \A n \in 2..Cardinality(C) :
          LET found == {s[m] : m \in 1..(n - 1)}
          IN \E k \in 1..(n - 1) : /\ s[n] \in CalledBy(s[k])
                                   /\ \A m \in (k + 1)..(n - 1) : CalledBy(s[m]) \cap C \subseteq found}

\* strongly_connected pops the members of a component off its stack.
Orders(C) == {[k \in DOMAIN s |-> s[Len(s) + 1 - k]] : s \in Visits(C)}

StartComponent ==
  /\ phase = "solve" /\ component = <<>> /\ left # {}
  /\ \E C \in NextComponents : left' = left \ C /\ \E s \in Orders(C) : component' = s /\ todo' = s
  /\ UNCHANGED <<program, phase, summaries, changed, result>>

\* An evaluation reads the summaries of the callees.
Evaluated(d) == Evaluate(Body(d), [c \in CalledBy(d) |-> summaries[c]])

\* update: the fresh summary replaces the stored one.
Update ==
  /\ todo # <<>>
  /\ summaries' = [summaries EXCEPT ![Head(todo)] = Evaluated(Head(todo))]
  /\ changed' = (changed \/ summaries' # summaries)
  /\ todo' = Tail(todo)
  /\ UNCHANGED <<program, phase, left, component, result>>


\* component(): passes in the same order until one changes nothing.
PassRepeats == changed

RepeatPass ==
  /\ component # <<>> /\ todo = <<>> /\ PassRepeats
  /\ todo' = component /\ changed' = FALSE
  /\ UNCHANGED <<program, phase, summaries, left, component, result>>

FinishComponent ==
  /\ component # <<>> /\ todo = <<>> /\ ~PassRepeats
  /\ component' = <<>> /\ changed' = FALSE
  /\ UNCHANGED <<program, phase, summaries, left, todo, result>>

Report ==
  /\ phase = "solve" /\ component = <<>> /\ left = {}
  /\ result' = Reported(summaries[Handler])
  /\ phase' = "done"
  /\ UNCHANGED <<program, summaries, left, component, todo, changed>>

Next == StartComponent \/ Update \/ RepeatPass \/ FinishComponent \/ Report

\* summarize runs to its end.
Spec == Init /\ [][Next]_vars /\ WF_vars(Next)

-----------------------------------------------------------------------------
(* What the iteration promises.                                            *)

\* Callees are final before their callers: every summary the Handler rests on
\* is what its evaluation has over the others.
Solved == phase = "done" => \A d \in Reached : summaries[d] = Evaluated(d)

\* The analysis ends: "A component's summaries grow monotonically within that
\* finite set, so each fixpoint iteration ends" (spec-throws.md, Termination).
AnalysisEnds == <>(phase = "done")
=============================================================================
