------------------------- MODULE ProcedureSummaries -------------------------
(***************************************************************************)
(* The shared callee-first fixpoint driver of the extraction tools,        *)
(* tools/php_src_c/definitions.py (class ProcedureSummaries): a table of   *)
(* procedure summaries that extract_throws.py and the handler machine      *)
(* (handler_summary.py) fill by evaluating procedures over the summaries   *)
(* of their callees until nothing changes.                                 *)
(*                                                                         *)
(* The driver is sequential, but its evaluations are not: a read of a      *)
(* procedure nobody has asked for yet suspends the reader, an interruption *)
(* unwinds the suspended evaluations to the one whose budget ran out, and  *)
(* every new dependency makes the component order of the round stale.  A   *)
(* step of this module is what runs between two such points.               *)
(*                                                                         *)
(* The domain is a parameter.  A deterministic evaluation is the function  *)
(* Step: from the procedure and the summaries it has read so far, in       *)
(* order, to what it does next.                                            *)
(***************************************************************************)
EXTENDS Naturals, Sequences

CONSTANTS
  Node,           \* the procedures (definitions, or handler inputs)
  Value,          \* the summaries
  Empty,          \* the domain's bottom
  Exhausted,      \* the summary an evaluation returns when its own budget ran out
  Join(_, _),     \* the domain's join of the stored and the fresh summary
  Closed(_),      \* the domain's closed summaries
  Step(_, _),     \* Step(n, reads): what the evaluation of n does after these reads
  Resume(_, _),   \* Resume(n, reads): the reads an evaluation suspended here keeps
  MaxReads,       \* bound on the reads of one evaluation
  Given,          \* Given[n]: the callees a caller of solve() may declare for n
  Requests,       \* the sets of roots solve() may be called with
  Budgeted        \* the procedures evaluated on a budget that may be exhausted

\* The values an evaluation may have read before its next step.
History == UNION {[1..k -> Value] : k \in 0..MaxReads}

Reading == [op : {"read"}, callee : Node, eager : BOOLEAN]
Ending  == [op : {"return", "complete"}, value : Value]

ASSUME DomainAssumption ==
  /\ MaxReads \in Nat
  /\ Empty \in Value /\ Exhausted \in Value
  /\ Budgeted \subseteq Node
  /\ Given \in [Node -> SUBSET Node]
  /\ Requests \subseteq SUBSET Node

\* A domain evaluates by bounded straight-line work between its reads.
ASSUME StepAssumption ==
  \A n \in Node, h \in History :
    /\ Step(n, h) \in Reading \cup Ending
    /\ Len(h) = MaxReads => Step(n, h).op # "read"
    /\ Resume(n, h) \in 0..Len(h)

\* Joining the same fresh summary twice is joining it once, and a closed
\* summary absorbs: the default join (replace) and join_outcomes both do.
ASSUME JoinAssumption ==
  /\ \A x, y \in Value : Join(x, y) \in Value /\ Join(Join(x, y), y) = Join(x, y)
  /\ \A x \in Value : Closed(x) \in BOOLEAN
  /\ \A x \in Value : Closed(Join(x, Exhausted))

VARIABLES
  summaries,   \* the table: a function from the admitted procedures to Value
  edges,       \* the callees each admitted procedure has read
  pending,     \* the admitted procedures whose summary is not final
  roots,       \* the procedures the running solve() was asked for
  phase,       \* where solve() stands: "idle", "round", "components" or "failed"
  nodes,       \* the pending procedures when the round began
  left,        \* those of them in components the round has not reached
  component,   \* the component being iterated
  todo,        \* its members still to update in this pass
  changed,     \* this pass changed a summary
  moved,       \* the revision is no longer the one the round began with
  stack,       \* suspended evaluations, the running one last
  completed    \* history: the procedures a CompleteSummary closed

vars == <<summaries, edges, pending, roots, phase, nodes, left, component,
          todo, changed, moved, stack, completed>>
table == <<summaries, edges, pending>>
round == <<nodes, left, component, todo, changed>>

Known   == DOMAIN summaries
Settled == Known \ pending

Admitted(f, S, v) == [n \in DOMAIN f \cup S |-> IF n \in DOMAIN f THEN f[n] ELSE v]
Without(f, S)     == [n \in DOMAIN f \ S |-> f[n]]

Frame(n, h) == [node |-> n, reads |-> h]
Top         == stack[Len(stack)]
Below       == SubSeq(stack, 1, Len(stack) - 1)

Init ==
  /\ summaries = [n \in {} |-> Empty] /\ edges = [n \in {} |-> {}]
  /\ pending = {} /\ roots = {} /\ phase = "idle"
  /\ nodes = {} /\ left = {} /\ component = {} /\ todo = {}
  /\ changed = FALSE /\ moved = FALSE
  /\ stack = <<>> /\ completed = {}

-----------------------------------------------------------------------------
(* solve() and its rounds.                                                 *)

\* solve(roots): every root is admitted before the first round.
Solve(R) ==
  /\ phase = "idle" /\ R # {}
  /\ summaries' = Admitted(summaries, R, Empty)
  /\ edges' = Admitted(edges, R, {})
  /\ pending' = pending \cup (R \ Known)
  /\ roots' = R /\ phase' = "round"
  /\ UNCHANGED <<round, moved, stack, completed>>

\* solve(roots, edges) as extract_throws.summarize calls it: once, on a fresh
\* table, for a set of definitions closed under the callees it declares.
SolveDeclared(R) ==
  /\ phase = "idle" /\ R # {} /\ Known = {}
  /\ \A n \in R : Given[n] \subseteq R
  /\ summaries' = [n \in R |-> Empty]
  /\ edges' = [n \in R |-> Given[n]]
  /\ pending' = R
  /\ roots' = R /\ phase' = "round"
  /\ UNCHANGED <<round, moved, stack, completed>>

\* A frontier that is not extended (_prune without its frontier.extend).
ReachableAtOnce == roots \cup UNION {edges[m] : m \in roots}

\* The procedures some root reaches along the recorded reads.
Reachable ==
  {n \in Known \cup roots : \A S \in SUBSET (Known \cup roots) :
     (roots \subseteq S /\ \A m \in S \cap Known : edges[m] \subseteq S) => n \in S}

\* _solve_pending: prune what no root reaches any more, then snapshot the rest.
StartRound ==
  /\ phase = "round" /\ pending # {}
  /\ summaries' = Without(summaries, pending \ Reachable)
  /\ edges' = Without(edges, pending \ Reachable)
  /\ pending' = pending \cap Reachable
  /\ nodes' = pending' /\ left' = pending'
  /\ phase' = "components" /\ moved' = FALSE
  /\ UNCHANGED <<roots, component, todo, changed, stack, completed>>

SolveReturns ==
  /\ phase = "round" /\ pending = {}
  /\ phase' = "idle" /\ roots' = {}
  /\ UNCHANGED <<table, round, moved, stack, completed>>

CalleesIn(C, S) == \A n \in C : edges[n] \cap S \subseteq C

\* Components ordered callers first: Tarjan's order read backwards.
NextCallers ==
  {C \in SUBSET left : /\ C # {} /\ \A n \in left \ C : edges[n] \cap C = {}
                       /\ \A D \in SUBSET C :
                            D # {} /\ (\A n \in left \ D : edges[n] \cap D = {}) => D = C}

\* The components that strongly_connected may order next: callees first.
NextComponents ==
  {C \in SUBSET left : /\ C # {} /\ CalleesIn(C, left)
                       /\ \A D \in SUBSET C : D # {} /\ CalleesIn(D, left) => D = C}

StartComponent ==
  /\ phase = "components" /\ component = {} /\ left # {} /\ ~moved
  /\ \E C \in NextComponents : component' = C /\ todo' = C /\ left' = left \ C
  /\ UNCHANGED <<table, roots, phase, nodes, changed, moved, stack, completed>>

\* component(): a pass that changed a summary is repeated, unless the revision moved.
PassEnds == phase = "components" /\ component # {} /\ todo = {} /\ stack = <<>>

\* A component that is iterated once, as if it were never recursive.
NeverRepeats == FALSE

PassRepeats == changed /\ ~moved

\* A pass that starts with the changes of the one before it.
RepeatPassStillChanged ==
  /\ PassEnds /\ PassRepeats
  /\ todo' = component
  /\ UNCHANGED <<table, roots, phase, nodes, left, component, changed, moved, stack, completed>>

RepeatPass ==
  /\ PassEnds /\ PassRepeats
  /\ todo' = component /\ changed' = FALSE
  /\ UNCHANGED <<table, roots, phase, nodes, left, component, moved, stack, completed>>

FinishComponent ==
  /\ PassEnds /\ ~PassRepeats
  /\ component' = {} /\ changed' = FALSE
  /\ UNCHANGED <<table, roots, phase, nodes, left, todo, moved, stack, completed>>

\* The round settles its snapshot only when no read moved the revision.
EndRound ==
  /\ phase = "components" /\ component = {} /\ (left = {} \/ moved)
  /\ pending' = IF moved THEN pending ELSE pending \ nodes
  /\ phase' = "round" /\ nodes' = {} /\ left' = {} /\ moved' = FALSE
  /\ UNCHANGED <<summaries, edges, roots, component, todo, changed, stack, completed>>

-----------------------------------------------------------------------------
(* update(): one evaluation and the evaluations it suspends on.            *)

SkipClosed(n) ==
  /\ phase = "components" /\ stack = <<>> /\ n \in todo /\ Closed(summaries[n])
  /\ todo' = todo \ {n}
  /\ UNCHANGED <<table, roots, phase, nodes, left, component, changed, moved, stack, completed>>

StartUpdate(n) ==
  /\ phase = "components" /\ stack = <<>> /\ n \in todo /\ ~Closed(summaries[n])
  /\ stack' = <<Frame(n, <<>>)>> /\ todo' = todo \ {n}
  /\ UNCHANGED <<table, roots, phase, nodes, left, component, changed, moved, completed>>

Does(op) == stack # <<>> /\ Step(Top.node, Top.reads).op = op

\* read() raising SummaryDependency for every callee that is not final yet.
AdmitsPending(c) == c \notin Settled

\* read() admits a procedure that is not in the table.
Admits(c) == c \notin Known

\* A revision that counts reads, not new dependencies.
EveryRead(n, c) == TRUE

NewDependency(n, c) == c \notin edges[n]

\* read() of an admitted procedure: the current value, settled or not.
ReadKnown ==
  /\ Does("read")
  /\ LET n == Top.node
         c == Step(n, Top.reads).callee
     IN /\ ~Admits(c)
        /\ edges' = [edges EXCEPT ![n] = @ \cup {c}]
        /\ moved' = (moved \/ NewDependency(n, c))
        /\ stack' = Append(Below, Frame(n, Append(Top.reads, summaries[c])))
  /\ UNCHANGED <<summaries, pending, roots, phase, round, completed>>

\* read() that admits its callee; an eager one suspends the reader on it.
ReadNew ==
  /\ Does("read")
  /\ LET n == Top.node
         s == Step(n, Top.reads)
         c == s.callee
     IN /\ Admits(c)
        /\ summaries' = Admitted(summaries, {c}, Empty)
        /\ edges' = [Admitted(edges, {c}, {}) EXCEPT ![n] = @ \cup {c}]
        /\ pending' = pending \cup {c}
        /\ stack' = IF s.eager
                    THEN Append(Append(Below, Frame(n, SubSeq(Top.reads, 1, Resume(n, Top.reads)))),
                                Frame(c, <<>>))
                    ELSE Append(Below, Frame(n, Append(Top.reads, Empty)))
  /\ moved' = TRUE
  /\ UNCHANGED <<roots, phase, round, completed>>

\* A store that settles whatever the stored summary was computed from.
FinalAnyway(callees) == TRUE

\* A summary is final once every callee it was computed from is.
Final(callees) == callees \cap pending = {}

\* _store of the frame at depth k, which leaves the stack with those above it.
\* update() compares the updated procedure's summary with the one it began
\* with; only this store writes it (OneEvaluationPerInput).
Store(k, fresh) ==
  LET n    == stack[k].node
      new  == Join(summaries[n], fresh)
      mine == IF Closed(new) THEN {} ELSE edges[n]
  IN /\ summaries' = [summaries EXCEPT ![n] = new]
     /\ edges' = [edges EXCEPT ![n] = mine]
     /\ moved' = (moved \/ mine # edges[n])
     /\ pending' = IF Final(mine) THEN pending \ {n} ELSE pending
     /\ stack' = SubSeq(stack, 1, k - 1)
     /\ changed' = (changed \/ (k = 1 /\ new # summaries[n]))
     /\ UNCHANGED <<roots, phase, nodes, left, component, todo, completed>>

Return == Does("return") /\ Store(Len(stack), Step(Top.node, Top.reads).value)

\* A handler input below the request runs on its own slice of the budget: the
\* evaluation at depth k exhausted it, those above k are unwound, and k
\* returns an incomplete outcome.  A settled input is evaluated again only on
\* the final summaries its settling evaluation read, within the same slice.
ExhaustSlice(k) ==
  /\ k \in DOMAIN stack
  /\ stack[k].node \in Budgeted /\ stack[k].node \in pending \ roots
  /\ Store(k, Exhausted)

\* An abort that keeps the partial summaries it interrupts.
SurvivesAnyway(closing) == Known

\* The procedures an aborted solve leaves in the table.
Survives(closing) == Settled \cup closing

\* A closed request that keeps the dependencies of the evaluation it closed.
KeepsDependencies(n, closing) == edges[n]

\* The dependencies they keep.
KeptEdges(n, closing) == IF n \in closing THEN {} ELSE edges[n] \ pending

\* abort() with the summary t the requested procedure closed with, if any.
Abort(t, closing) ==
  /\ summaries' = [n \in Survives(closing) |-> IF n \in closing THEN t ELSE summaries[n]]
  /\ edges' = [n \in Survives(closing) |-> KeptEdges(n, closing)]
  /\ pending' = {} /\ completed' = completed \cup closing
  /\ phase' = "idle" /\ roots' = {} /\ stack' = <<>>
  /\ nodes' = {} /\ left' = {} /\ component' = {} /\ todo' = {}
  /\ changed' = FALSE /\ moved' = FALSE

\* The request's own budget ran out: Machine.call aborts the whole solve.
ExhaustRequest == stack # <<>> /\ stack[1].node \in Budgeted /\ Abort(Empty, {})

\* The domain closes the one requested summary (HandlerProcedures.close).
Complete ==
  /\ Does("complete") /\ roots = {Top.node}
  /\ Abort(Step(Top.node, Top.reads).value, {Top.node})

\* A summary completed for any other request is an error of the domain.
CompleteFails ==
  /\ Does("complete") /\ roots # {Top.node}
  /\ phase' = "failed" /\ stack' = <<>>
  /\ UNCHANGED <<table, roots, round, moved, completed>>

-----------------------------------------------------------------------------
Driver ==
  \/ StartRound \/ SolveReturns \/ StartComponent \/ RepeatPass \/ FinishComponent \/ EndRound
  \/ \E n \in Node : SkipClosed(n) \/ StartUpdate(n)
  \/ ReadKnown \/ ReadNew \/ Return \/ Complete \/ CompleteFails
  \/ \E k \in 1..Len(stack) : ExhaustSlice(k)
  \/ ExhaustRequest

Request == \E R \in Requests : Solve(R) \/ SolveDeclared(R)

Next == Request \/ Driver

\* The driver runs to its end once called; nobody has to call it again.
Spec == Init /\ [][Next]_vars /\ WF_vars(Driver)
-----------------------------------------------------------------------------
(* What the table promises.                                                *)

Frames == [node : Known, reads : History]

\* The shape of the table and of one solve().
TypeOK ==
  /\ Known \subseteq Node
  /\ summaries \in [Known -> Value] /\ edges \in [Known -> SUBSET Known]
  /\ pending \subseteq Known /\ completed \subseteq Settled
  /\ phase \in {"idle", "round", "components", "failed"}
  /\ roots \subseteq Known
  /\ nodes \subseteq Known /\ left \subseteq nodes
  /\ component \subseteq nodes /\ todo \subseteq component
  /\ changed \in BOOLEAN /\ moved \in BOOLEAN
  /\ stack \in Seq(Frames)

\* The k-th step of an evaluation of n that reads h.
StepAt(n, h, k) == Step(n, SubSeq(h, 1, k - 1))

\* h is what an evaluation of n reads from the table as it stands, and every
\* callee it reads is among n's edges.
Reads(n, h) ==
  \A k \in 1..Len(h) :
    /\ StepAt(n, h, k).op = "read" /\ StepAt(n, h, k).callee \in edges[n]
    /\ h[k] = summaries[StepAt(n, h, k).callee]

\* Evaluating n over the table as it stands would leave its summary unchanged.
Confirms(n, h) ==
  /\ Reads(n, h)
  /\ Step(n, h).op = "return"
  /\ Join(summaries[n], Step(n, h).value) = summaries[n]

Justified(n) == \E h \in History : Confirms(n, h)

\* A final summary is the one its evaluation has over the table: it is the
\* domain's closed summary, the value of a closed request, or a fixpoint.  No
\* summary computed from a partial callee is ever cached
\* (test_php_src_c.py: test_closed_projection_does_not_cache_partial_callees,
\* test_closed_callee_does_not_cache_partial_dependencies).
SettledJustified ==
  \A n \in Settled : Closed(summaries[n]) \/ n \in completed \/ Justified(n)

\* A final summary rests on final summaries only, also after an abort or a
\* pruned round (test_aborted_procedure_inputs_do_not_poison_later_roots).
SettledRestsOnSettled == \A n \in Settled : edges[n] \subseteq Settled

\* No procedure has two evaluations suspended at once, so a recursive read
\* takes the current value instead of descending again, and only update()'s
\* own frame writes the summary it compares.
OneEvaluationPerInput ==
  \A i, j \in DOMAIN stack : stack[i].node = stack[j].node => i = j

\* The final part of the table is the cache its callers rely on: once a
\* procedure has a final summary, no later request, interruption or abort
\* takes it back or changes it, and it was confirmed when it became final.
Answers == [n \in Settled |-> summaries[n]]
Table == INSTANCE SummaryTable WITH answers <- Answers, closing <- completed
ImplementsTable == Table!Spec

\* Every call of solve() comes to an end: rounds restarted by new
\* dependencies and passes repeated for changes are finitely many.
SolveEnds == phase # "idle" ~> phase \in {"idle", "failed"}

-----------------------------------------------------------------------------
(* The inductive invariant behind those promises.                          *)

\* A suspended evaluation has read only recorded callees; those that are
\* final, and all of them while the revision stands, have still that value.
FramesRead ==
  \A i \in DOMAIN stack : \A k \in 1..Len(stack[i].reads) :
    LET n == stack[i].node
        s == StepAt(n, stack[i].reads, k)
    IN /\ s.op = "read" /\ s.callee \in edges[n]
       /\ s.callee \notin pending \/ ~moved => stack[i].reads[k] = summaries[s.callee]

\* An evaluation suspends on a procedure that nobody below it knew of.
FramesNest ==
  \A i, j \in DOMAIN stack : i < j =>
    /\ moved /\ stack[j].node \in pending /\ stack[i].node # stack[j].node
    /\ \A k \in 1..Len(stack[i].reads) :
         StepAt(stack[i].node, stack[i].reads, k).callee # stack[j].node

\* The outermost evaluation is the updated member of the component; one of a
\* settled member retraces the evaluation that settled it.
FrameBase ==
  stack # <<>> =>
    /\ phase = "components" /\ stack[1].node \in component \ todo
    /\ ~Closed(summaries[stack[1].node])
    /\ stack[1].node \notin pending =>
         /\ Len(stack) = 1
         /\ \E h \in History :
              /\ Confirms(stack[1].node, h) /\ Len(stack[1].reads) <= Len(h)
              /\ stack[1].reads = SubSeq(h, 1, Len(stack[1].reads))

Fresh(n) == Closed(summaries[n]) \/ Justified(n)

\* While the revision stands, the finished components agree with their
\* callees, and so do the members an unchanged pass has visited.
RoundHolds ==
  phase = "components" =>
    /\ nodes \cap completed = {} /\ left \cap component = {}
    /\ ~moved =>
         /\ pending \subseteq nodes
         /\ \A n \in nodes \ (left \cup component) :
              edges[n] \cap (left \cup component) = {} /\ Fresh(n)
         /\ \A n \in component : edges[n] \cap left = {}
         /\ ~changed =>
              \A n \in component \ todo : (stack = <<>> \/ n # stack[1].node) => Fresh(n)

OutsideRounds ==
  /\ phase \in {"idle", "round"} => nodes = {}
  /\ phase = "idle" => pending = {}

IInv == /\ TypeOK /\ SettledJustified /\ SettledRestsOnSettled
        /\ FramesRead /\ FramesNest /\ FrameBase /\ RoundHolds /\ OutsideRounds
=============================================================================
