--------------------------- MODULE HandlerMachine ---------------------------
(***************************************************************************)
(* The abstract machine of the handler extraction (tools/                  *)
(* handler_machine.py) running one request of one handler: it executes the *)
(* compiled body of a function on sets of abstract states waiting at its   *)
(* instructions, joins them at join points, and suspends an instruction    *)
(* that calls an input no summary is known for until the callee has run.   *)
(*                                                                         *)
(* The driver the machine runs under (ProcedureSummaries) appears as its   *)
(* effect: the summary table, the inputs still pending, and those whose    *)
(* summary may still change (stale), evaluated in any order; an input none *)
(* of whose possible callees is pending is final when it is stored.        *)
(***************************************************************************)
EXTENDS HandlerExpr

CONSTANTS
  Programs,    \* the programs to run: the Index, its bodies compiled, and the request
  JoinBatch,   \* JOIN_BATCH: the states that wait unjoined at a join point
  VisitCap,    \* VISIT_CAP: the states one join point admits
  ExitBatch,   \* EXIT_BATCH: the exits kept unjoined
  PendingCap,  \* PENDING_CAP: the states waiting in one activation
  Slice,       \* CALL_SLICE: the steps of one callee's run
  Budget       \* SUMMARY_BUDGET: the steps of the request

VARIABLES
  request,     \* the request that runs: its program, root input and renaming
  work,        \* the activations of the inputs being evaluated, outermost first
  summaries,   \* the outcome of every input read so far
  pending,     \* the inputs whose outcome is not final
  stale,       \* the pending inputs to evaluate again
  steps,       \* the instructions executed, less those of cut callees
  result       \* what the request's call returned, <<>> before
vars == <<request, work, summaries, pending, stale, steps, result>>

-----------------------------------------------------------------------------
(* The request (Summarizer.setup and arguments).                           *)

Out     == <<"o", "out">>
Method  == Fn("__toString")
Marker(p) == IF p.method THEN Method ELSE None

\* A program p names its request: p.slot, the tag or opcode p.code, p.method.
Setup(p) ==
  LET flag == IF p.method THEN Method ELSE Nul IN
  [NewState EXCEPT
     !.watch = IF p.slot = "cast" /\ p.code = Tags["IS_STRING"] /\ p.method THEN {Out} ELSE {},
     !.mem = (<<"o", "self">> :> Region(Symbolic, <<Field("ce")>> :> Ptr(<<"o", "ce">>, <<>>)))
          @@ (<<"o", "ce">>   :> Region(Symbolic, <<Field("__tostring")>> :> flag))
          @@ (Out             :> Region(AnyV, TypeInfo :> Nul))
          @@ (<<"o", "op1">>  :> Region(Symbolic, NoCells))
          @@ (<<"o", "op2">>  :> Region(Symbolic, NoCells))]

Arguments(p) ==
  LET self == Ptr(<<"o", "self">>, <<>>)   out == Ptr(Out, <<>>)
      first == Ptr(<<"o", "op1">>, <<>>)   second == Ptr(<<"o", "op2">>, <<>>)
  IN CASE p.slot = "compare" -> <<first, second>>
       [] p.slot = "cast"    -> <<self, out, Num(p.code)>>
       [] OTHER              -> <<Num(p.code), out, first, second>>

-----------------------------------------------------------------------------
(* Activations.                                                            *)

\* The root input, captured like any other.
RootInput(p, input) ==
  [program |-> p, names |-> input.names,
   key |-> [fn |-> p.root, def |-> 1, args |-> input.args, state |-> input.state, compare |-> p.slot = "compare"]]

Program == request.program
Root    == request.key

Definition(key) == Program.functions[key.fn][key.def]
Code(key)       == Definition(key).code

ParameterRegions(d) == {<<"l", 0, x>> : x \in Range(d.params)}

Bind(s, rid, v) == Write(Put(s, rid, Unwritten), rid, <<>>, v)
Entered(d, key) ==
  FoldLeft(LAMBDA s, i : Bind(s, <<"l", 0, d.params[i]>>, key.args[i]),
           [key.state EXCEPT !.tags = @ \cup d.conditions],
           [i \in 1..Min({Len(d.params), Len(key.args)}) |-> i])

\* Frame and the queues of execute_steps for one input.
Activation(key, start, limit, owner) ==
  [key |-> key, pc |-> 0, batch |-> {}, memo |-> <<>>, visits |-> <<>>, exits |-> {},
   start |-> start, limit |-> limit, owner |-> owner, complete |-> ~Code(key).failed,
   waiting |-> IF Code(key).failed \/ Definition(key).noreturn THEN <<>>
               ELSE 1 :> {Entered(Definition(key), key)}]

Top   == Last(work)
Instruction(a) == Code(a.key).ins[a.pc]
Doing(a) == Instruction(a).do
Kind(a) == Doing(a)[1]

\* Locals whose scope does not hold the instruction leave the state.
Release(s, live) == Drop(s, {r \in DOMAIN s.mem : r[1] \in {"l", "k"} /\ r \notin live})

\* The source choice recorded in a state, made now when it is not known.
ConfigurationStates(config, numbers, s) ==
  LET rid == ConfigRegion(config)
      Selected(v) == IF IsNum(v) THEN {v[2]} ELSE numbers
  IN UNION {{<<n, Write(c[2], rid, <<>>, Num(n))>> : n \in Selected(c[1])} : c \in Alts(Read(s, rid, <<>>), s)}

RECURSIVE BindingValues(_, _)
BindingValues(b, s) ==
  LET explicit == {c[1] : c \in b[3]}
      numbers  == IF b[2][3] THEN explicit ELSE explicit \cup {ImplicitBranch}
      Chosen(n) == IF n = ImplicitBranch THEN b[4] ELSE (CHOOSE c \in b[3] : c[1] = n)[2]
  IN IF ~IsConditional(b) THEN {<<b, s>>}
     ELSE UNION {BindingValues(Chosen(c[1]), c[2]) : c \in ConfigurationStates(b[2], numbers, s)}

\* The bindings a state sees at an instruction, one state per source choice.
BindingStates(i, S) ==
  FoldLeft(LAMBDA acc, x : UNION {{<<[o[1] EXCEPT ![x] = v[1]], v[2]>> : v \in BindingValues(o[1][x], o[2])} : o \in acc},
           {<<i.bindings, s>> : s \in S}, SetToSeq(i.asks))

Frame(a, bindings) ==
  LET d      == Definition(a.key)
      locals == {x \in DOMAIN bindings : IsLocal(bindings[x])}
  IN [vars   |-> [x \in locals |-> LocalRegion(bindings[x])] @@ [x \in Range(d.params) |-> <<"l", 0, x>>],
      arrays |-> {x \in locals : bindings[x][4]},
      functions |-> Program.functions, known |-> summaries, marker |-> Marker(Program)]

-----------------------------------------------------------------------------
(* Instructions.  The effect of one on one state: where states go, the     *)
(* exits, the machine's memory of a join point, and whether the run still  *)
(* saw only code it could read.                                            *)

Effect(a, to, exits) ==
  [to |-> to, exits |-> exits, memo |-> a.memo, visits |-> a.visits, complete |-> a.complete]

\* admit: a loop head keeps the join of its states and goes on while that
\* grows; any other join point lets a state through once.
Passed(a, id, merged, stops) ==
  IF stops THEN Effect(a, {}, {}) ELSE [Effect(a, {<<a.pc + 1, merged>>}, {}) EXCEPT !.memo = (id :> merged) @@ @]

\* A loop head that lets states through once, like any join point.
MetOnce(a, s, id, isHead) == Passed(a, id, s, id \in DOMAIN a.memo)

Met(a, s, id, isHead) ==
  IF id \notin DOMAIN a.memo THEN Passed(a, id, s, FALSE)
  ELSE IF isHead THEN LET old == a.memo[id]  merged == JoinStates({old, s}) IN Passed(a, id, merged, Key(merged) = Key(old))
  ELSE Passed(a, id, s, TRUE)

VisitCount(a) == (IF a.pc \in DOMAIN a.visits THEN a.visits[a.pc] ELSE 0) + 1

Admitted(a, s) ==
  LET isHead  == a.pc \in Code(a.key).heads
      id      == <<a.pc, IF isHead THEN <<s.events, ConfigurationKey(s)>> ELSE <<Key(s)>>>>
      counted == (a.pc :> VisitCount(a)) @@ a.visits
  IN IF VisitCount(a) > VisitCap THEN [Effect(a, {}, {}) EXCEPT !.visits = counted, !.complete = FALSE]
     ELSE [Met(a, s, id, isHead) EXCEPT !.visits = counted]

To(pc, S) == {<<pc, s>> : s \in S}
States(E) == {e[2] : e \in E}

Declared(a, do, s, f) ==
  LET rid   == f.vars[do[2][1]]
      fresh == Put(s, rid, Unwritten)
  IN Effect(a, To(a.pc + 1, IF Len(do) < 3 THEN {fresh}
       ELSE JoinByEvents(States(Then(Ev(do[3], fresh, f), LAMBDA v, t : {<<v, Write(t, rid, <<>>, v)>>})))), {})

Tested(a, do, s, f) ==
  Effect(a, {<<IF e[1] = Nul THEN do[2][2] ELSE do[2][1], e[2]>> : e \in Branch(do[3], s, f)}, {})

\* dispatch: the case a known value selects, every case an unknown one may
\* equal, and the default for what none of them takes.
Dispatch(v, pcs, after, constants, s) ==
  LET cases    == {i \in DOMAIN pcs : IsNum(constants[i])}
      Equal(i) == Assume(v, constants[i][2], s)
      taken    == {i \in cases : Equal(i) # {}}
  IN IF IsNum(Resolve(v, s)) /\ taken # {} THEN To(pcs[Min(taken)], Equal(Min(taken)))
     ELSE UNION {To(pcs[i], Equal(i)) : i \in taken}
          \cup To(after, Exclude(v, {constants[i][2] : i \in cases}, s))

CaseConstants(do, s, f) ==
  [i \in DOMAIN do[2][1] |-> Resolve((CHOOSE e \in Ev(do[i + 3], s, f) : TRUE)[1], s)]

Switched(a, do, s, f) ==
  LET after == IF do[2][2] = 0 THEN do[2][3] ELSE do[2][2]
  IN Effect(a, Then(EvAlts(do[3], s, f), LAMBDA v, t : Dispatch(v, do[2][1], after, CaseConstants(do, t, f), t)), {})

\* A source group forks over its branches; where a later name depends on the
\* branch, the choice is recorded in the state.
Grouped(a, do, s) ==
  LET group == do[2][1]  exhaustive == do[2][2]  starts == do[2][3]  end == do[2][4]  config == do[2][5]
      Tagged(n, t) == [t EXCEPT !.tags = @ \cup Program.conditions[<<group, n>>]]
      numbers == {b[1] : b \in starts} \cup IF exhaustive THEN {} ELSE {ImplicitBranch}
      StartOf(n) == (CHOOSE b \in starts : b[1] = n)[2]
      Enter(n, t) == IF n = ImplicitBranch THEN <<end, t>> ELSE <<StartOf(n), Tagged(n, t)>>
  IN Effect(a, IF config = None THEN {Enter(n, s) : n \in numbers}
               ELSE {Enter(c[1], c[2]) : c \in ConfigurationStates(config, numbers, s)}, {})

Returned(a, do, s, f) == Effect(a, {}, IF Len(do) < 3 THEN {<<AnyV, s>>} ELSE Ev(do[3], s, f))

-----------------------------------------------------------------------------
(* The queues of one activation.                                           *)

\* States waiting at a join point are joined once they exceed the batch.
Pushed(a, to) ==
  LET Queue(pc) == (IF pc \in DOMAIN a.waiting THEN a.waiting[pc] ELSE {}) \cup {t[2] : t \in {u \in to : u[1] = pc}}
      Bounded(pc) == IF Cardinality(Queue(pc)) > JoinBatch /\ Code(a.key).ins[pc].do[1] = "n"
                     THEN JoinByEvents(Queue(pc)) ELSE Queue(pc)
  IN [pc \in DOMAIN a.waiting \cup {t[1] : t \in to} |-> Bounded(pc)]

Waiting(w) == MapThenSumSet(LAMBDA pc : Cardinality(w[pc]), DOMAIN w)

\* The activation after an instruction's effect on one member of its batch.
Advanced(a, member, e) ==
  [a EXCEPT !.batch = @ \ {member}, !.waiting = Pushed(a, e.to), !.memo = e.memo, !.visits = e.visits,
            !.complete = e.complete, !.exits = @ \cup e.exits]

\* Too many exits are joined.
Batched(a) == IF Cardinality(a.exits) > ExitBatch THEN [a EXCEPT !.exits = JoinExits(@)] ELSE a

Needs(e) == {t[2].need : t \in e.to \cup e.exits} \ {<<>>}

-----------------------------------------------------------------------------
(* The summary table (HandlerProcedures and the driver).                   *)

Calls(k, callee) ==
  \E i \in Range(Code(k).ins) : <<"name", callee.fn>> \in Nodes(i.do)

Exits(o) == {<<e[1], Key(e[2]), e[2].tags>> : e \in o.exits}
Same(o, p) == o.complete = p.complete /\ Exits(o) = Exits(p)

\* A change that makes the input itself stale, final or not.
StoredStale(key, fresh) ==
  LET joined == JoinOutcomes(summaries[key], fresh)
      left   == IF ~joined.complete \/ ~\E p \in pending : Calls(key, p) THEN pending \ {key} ELSE pending
  IN /\ summaries' = [summaries EXCEPT ![key] = joined]
     /\ pending' = left
     /\ stale' = IF Same(joined, summaries[key]) THEN stale \ {key} ELSE pending

\* _store: the outcome joins the input's summary; an input that waits for no
\* other, or whose outcome will not change, is final.
Stored(key, fresh) ==
  LET joined == JoinOutcomes(summaries[key], fresh)
      final  == ~joined.complete \/ ~\E p \in pending : Calls(key, p)
      left   == IF final THEN pending \ {key} ELSE pending
  IN /\ summaries' = [summaries EXCEPT ![key] = joined]
     /\ pending' = left
     /\ stale' = IF Same(joined, summaries[key]) THEN stale \ {key} ELSE left

\* An abort that clears the table.
KeptNothing == {}

\* The summaries an abort keeps.
Kept == DOMAIN summaries \ pending

ReleasedExits(exits) == {<<e[1], Release(e[2], {})>> : e \in exits}

\* A comparison's run closes as soon as some exit may return without an exception.
EarlyExits(a) == {e \in a.exits : MayBeClear(e[2])}
Closes(a) ==
  /\ a.key.compare /\ a.complete /\ ~Code(a.key).opaque /\ Len(work) = 1
  /\ EarlyExits(a) # {}

-----------------------------------------------------------------------------
(* Actions.                                                                *)

Init ==
  /\ \E p \in Programs : request = RootInput(p, Capture(Arguments(p), Setup(p)))
  /\ work = <<>> /\ steps = 0 /\ result = <<>>
  /\ summaries = (Root :> Bottom)
  /\ pending = {Root} /\ stale = {Root}

\* _run_steps: a callee's run gets a slice of the steps left, when that is less;
\* owner is the depth of the activation whose limit it is, 0 for the request.
Started(key, start, limit, owner) ==
  LET cut == key # Root /\ start + Slice < limit
  IN Append(work, IF cut THEN Activation(key, start, start + Slice, Len(work) + 1)
                  ELSE Activation(key, start, limit, owner))

\* The driver updates an input at the bottom of its stack.
Evaluate ==
  /\ work = <<>>
  /\ \E key \in stale : work' = Started(key, steps, Budget, 0)
  /\ UNCHANGED <<request, summaries, pending, stale, steps, result>>

\* The states waiting at the lowest instruction are taken, at a join point joined.
Fetch ==
  /\ work # <<>> /\ Top.batch = {} /\ Top.waiting # <<>>
  /\ LET pc == Min(DOMAIN Top.waiting)
         i  == Code(Top.key).ins[pc]
         S  == IF i.do[1] = "n" THEN JoinByEvents(Top.waiting[pc]) ELSE Top.waiting[pc]
     IN work' = [work EXCEPT ![Len(work)].pc = pc, ![Len(work)].batch = BindingStates(i, S),
                             ![Len(work)].waiting = [q \in DOMAIN @ \ {pc} |-> @[q]]]
  /\ UNCHANGED <<request, summaries, pending, stale, steps, result>>

\* A member m of the batch: its frame, and its state without the locals of
\* scopes that do not hold the instruction.
Current(m) == Release(m[2], Instruction(Top).live \cup ParameterRegions(Definition(Top.key)))
Visible(m) == Frame(Top, m[1])

\* An instruction that needs an unknown input suspends: the input's run goes
\* on the stack, and the instruction starts again from its own state.
Suspend(e) ==
  \E need \in Needs(e) :
    /\ summaries' = (need[1] :> Bottom) @@ summaries
    /\ pending' = pending \cup {need[1]} /\ stale' = stale \cup {need[1]}
    /\ steps' = steps + 1
    /\ work' = Started(need[1], steps + 1, Top.limit, Top.owner)
    /\ UNCHANGED <<request, result>>

\* The instruction's effect; the first normal exit of a comparison ends its run
\* and forgets the inputs it left pending.
Onward(a) ==
  IF Closes(a)
  THEN /\ work' = <<>> /\ pending' = {} /\ stale' = {}
       /\ summaries' = (a.key :> Outcome(ReleasedExits(EarlyExits(a)), TRUE)) @@ [k \in Kept |-> summaries[k]]
  ELSE work' = [work EXCEPT ![Len(work)] = Batched(a)] /\ UNCHANGED <<summaries, pending, stale>>

Advance(m, e) ==
  /\ steps' = steps + 1
  /\ Onward(Advanced(Top, m, e))
  /\ UNCHANGED <<request, result>>

Overflows(e) == Needs(e) = {} /\ Waiting(Pushed(Top, e.to)) > PendingCap

\* A request out of steps that is started over.
CutAndRetry ==
  IF Top.owner = 0 THEN work' = <<>> /\ UNCHANGED <<request, summaries, pending, stale, steps, result>>
  ELSE /\ Stored(work[Top.owner].key, Incomplete)
       /\ work' = SubSeq(work, 1, Top.owner - 1)
       /\ steps' = work[Top.owner].start
       /\ UNCHANGED <<request, result>>

\* Out of steps or of room: the call the budget belongs to is incomplete, and
\* what ran inside it is dropped; the request's own budget ends the request.
Cut ==
  IF Top.owner = 0
  THEN /\ summaries' = [k \in Kept |-> summaries[k]]
       /\ work' = <<>> /\ pending' = {} /\ stale' = {} /\ result' = <<Incomplete>>
       /\ UNCHANGED <<request, steps>>
  ELSE /\ Stored(work[Top.owner].key, Incomplete)
       /\ work' = SubSeq(work, 1, Top.owner - 1)
       /\ steps' = work[Top.owner].start
       /\ UNCHANGED <<request, result>>

\* An instruction of a kind runs on the member, with that effect.
Turn(kind) == work # <<>> /\ Top.batch # {} /\ Kind(Top) = kind /\ steps < Top.limit
Run(m, e) == IF Overflows(e) THEN Cut ELSE IF Needs(e) # {} THEN Suspend(e) ELSE Advance(m, e)

JoinPoint     == Turn("n") /\ \E m \in Top.batch : Run(m, Admitted(Top, Current(m)))
JumpTo        == Turn("j") /\ \E m \in Top.batch : Run(m, Effect(Top, {<<Doing(Top)[2], Current(m)>>}, {}))
Expression    == Turn("x") /\ \E m \in Top.batch :
                   Run(m, Effect(Top, To(Top.pc + 1, JoinByEvents(States(Ev(Doing(Top)[3], Current(m), Visible(m))))), {}))
OpaqueText    == Turn("o") /\ \E m \in Top.batch :
                   Run(m, [Effect(Top, {<<Top.pc + 1, Current(m)>>}, {}) EXCEPT !.complete = FALSE])
ReturnFrom    == Turn("r") /\ \E m \in Top.batch : Run(m, Returned(Top, Doing(Top), Current(m), Visible(m)))
TestCondition == Turn("b") /\ \E m \in Top.batch : Run(m, Tested(Top, Doing(Top), Current(m), Visible(m)))
Declaration   == Turn("d") /\ \E m \in Top.batch : Run(m, Declared(Top, Doing(Top), Current(m), Visible(m)))
ChooseBranch  == Turn("g") /\ \E m \in Top.batch : Run(m, Grouped(Top, Doing(Top), Current(m)))
SelectCase    == Turn("s") /\ \E m \in Top.batch : Run(m, Switched(Top, Doing(Top), Current(m), Visible(m)))

\* The run of an input is over: its exits join its summary.
Finish ==
  /\ work # <<>> /\ Top.batch = {} /\ Top.waiting = <<>>
  /\ Stored(Top.key, Outcome({Public(e) : e \in ReleasedExits(Top.exits)}, Top.complete))
  /\ work' = Front(work)
  /\ UNCHANGED <<request, steps, result>>

Exhaust == work # <<>> /\ Top.batch # {} /\ steps >= Top.limit /\ Cut

\* Nothing is left to evaluate: the request's exits come back to its caller.
Settle ==
  /\ work = <<>> /\ stale = {} /\ result = <<>>
  /\ LET o == summaries[Root] IN
     result' = <<Outcome(Restore(o, Root.state, request.names, Setup(Program)), o.complete)>>
  /\ pending' = {}
  /\ UNCHANGED <<request, work, summaries, stale, steps>>

\* The request is answered.
Over == result # <<>> /\ UNCHANGED vars

Next ==
  \/ Evaluate \/ Fetch \/ JoinPoint \/ JumpTo \/ Expression \/ OpaqueText \/ ReturnFrom
  \/ TestCondition \/ Declaration \/ ChooseBranch \/ SelectCase \/ Finish \/ Exhaust \/ Settle
  \/ Over

\* The machine is one thread and takes a step until it has answered: weak
\* fairness of its steps, which (as no deadlock shows) are enabled until then.
Progress == []<>(result # <<>>) \/ []<><<TRUE>>_vars

Spec == Init /\ [][Next]_vars /\ Progress

-----------------------------------------------------------------------------
(* Properties of the run.                                                  *)

\* The inputs still to be evaluated are pending ones, and every activation is
\* of an input that is not final and at an instruction of its body.
TypeOK ==
  /\ stale \subseteq pending /\ pending \subseteq DOMAIN summaries
  /\ steps \in 0..Budget
  /\ \A a \in Range(work) :
       /\ a.key \in pending /\ a.limit \in 0..Budget /\ a.owner \in 0..Len(work)
       /\ {a.pc} \cup DOMAIN a.waiting \subseteq 0..Len(Code(a.key).ins)
  /\ result # <<>> => work = <<>> /\ pending = {}

\* No input runs inside its own run: a recursive call reads what its input has
\* so far (ProcedureSummaries.read), so the stack of a request is bounded by
\* its inputs.
NoReentry == \A i, j \in DOMAIN work : work[i].key = work[j].key => i = j

\* A final summary is never changed or taken back, whatever runs, is cut, or
\* ends the request after it (ProcedureSummaries._store and abort).
FinalStays ==
  [][\A k \in DOMAIN summaries \ pending : k \in DOMAIN summaries' /\ summaries'[k] = summaries[k]]_vars

\* Every request ends: loops stop at joins that no longer grow or at the caps,
\* recursion at a stable table (execute_steps, admit, ProcedureSummaries.component).
Terminates == <>(result # <<>>)

-----------------------------------------------------------------------------
(* What the request establishes (Summarizer.classify).                     *)

\* An exit that may fail is no normal one.
NormalForSure(e) ==
  LET values == {Resolve(a[1], e[2]) : a \in Alternatives(e[1])}
  IN IF ~Settled(Flags(e[2])) THEN "unknown"
     ELSE IF Nul \notin Flags(e[2]) THEN "no"
     ELSE IF ~Settled(values) THEN "unknown"
     ELSE IF values = {Nul} THEN "yes" ELSE "no"

\* Whether some path of an exit returns success without an exception; "unknown"
\* when its value or the exception flag is.
Normal(e) ==
  LET values == {Resolve(a[1], e[2]) : a \in Alternatives(e[1])}
  IN IF ~Settled(Flags(e[2])) THEN "unknown"
     ELSE IF Nul \notin Flags(e[2]) THEN "no"
     ELSE IF ~Settled(values) THEN "unknown"
     ELSE IF Nul \in values THEN "yes" ELSE "no"

KindOf == [IS_STRING |-> "str", IS_LONG |-> "num", IS_TRUE |-> "bool", IS_FALSE |-> "bool"]

\* The kind one alternative of the output's type tag stands for.
AlternativeKind(v, s) ==
  LET tag  == Resolve(LowBits(v, 255), s)
      root == Source(tag[2])
  IN CASE IsNum(tag) -> IF \E t \in DOMAIN Tags : Tags[t] = tag[2]
                        THEN KindOf[CHOOSE t \in DOMAIN Tags : Tags[t] = tag[2]] ELSE "unknown"
       [] v[1] \in {"sym", "masked"} -> IF Operand(root) \/ User(root) THEN "any" ELSE "unknown"
       [] OTHER -> "unknown"

\* An unwritten alternative beside written ones belongs to a failure path.
Kinds(s) ==
  {AlternativeKind(a[1], s) : a \in {b \in Alternatives(Read(s, Out, TypeInfo)) : b[1] # Nul}}

\* The result kinds of a request, or "unknown" when the proof is incomplete.
Results(o) ==
  LET normal == {e \in o.exits : Normal(e) = "yes"}
      open   == {e \in o.exits : Normal(e) = "unknown"}
      kinds  == {Kinds(e[2]) : e \in normal}
  IN CASE ~o.complete -> {"unknown"}
       [] o.complete /\ Program.slot = "compare" ->
            IF \E e \in o.exits : ~Settled(Flags(e[2])) THEN {"unknown"}
            ELSE IF \E e \in o.exits : MayBeClear(e[2]) THEN {"num"} ELSE {}
       [] OTHER -> IF open # {} \/ {} \in kinds \/ "unknown" \in UNION kinds THEN {"unknown"} ELSE UNION kinds

\* The order of the user method (M) and native writes to the output (N).
Before(h, a, b) == \E i, j \in DOMAIN h : h[i] = a /\ h[j] = b /\ i < j /\ \A k \in 1..(j - 1) : h[k] # b
DispatchOrder(histories) ==
  CASE \E h \in histories : Before(h, "N", "M") -> "native_first"
    [] \E h \in histories : {"M", "N"} \subseteq Range(h) -> "method_first"
    [] \E h \in histories : "M" \in Range(h) -> "method_only"
    [] OTHER -> "none"
=============================================================================
