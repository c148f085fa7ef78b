-------------------------- MODULE ThrowsEvaluation --------------------------
(***************************************************************************)
(* The throws analysis (extract_throws.py): what one definition may throw, *)
(* creates into its parameters and returns, evaluated over the summaries   *)
(* of its callees.  CallGraphSolver iterates these evaluations until a     *)
(* component of the call graph is stable; its parameters are given here.   *)
(***************************************************************************)
EXTENDS CallGraphSolver

CONSTANTS
  Arity,       \* definition -> its parameters
  MaxDepth     \* bound on nested calls of the runs the analysis is compared with

\* A body: calls in text order, the class expressions it returns, and for each
\* class variable the expressions assigned to it.  A call: what it is, the
\* definitions it resolves to, its arguments, the (parameter, truth) guards of
\* the branches around it, and, for a throw primitive, the class of NULL.
CallKind == {"throw class", "throw object", "init", "specifier", "call", "reference"}

ASSUME BodyAssumption ==
  \A p \in Programs, d \in Definition :
    \A k \in DOMAIN Bodies[d][p[d]].calls : Bodies[d][p[d]].calls[k].kind \in CallKind

\* An element: a class, a class or an object the caller passes, an object no
\* analysis bounds, or a class expression no rule resolves.
NoClass == "none"
Element(kind, class, index) == [kind |-> kind, class |-> class, index |-> index, guards |-> {}]
Class(c)   == Element("class", c, 0)
Open       == Element("open", NoClass, 0)
Unresolved == Element("unresolved", NoClass, 0)

EmptySummary == [throws |-> {}, creates |-> [i \in {} |-> {}], returns |-> {}]

\* No parameter is tested both ways.
Consistent(guards) == \A g, h \in guards : g[1] = h[1] => g[2] = h[2]

\* record: a call under branches that exclude each other is left out.
Calls(body) ==
  LET possible(call) == Consistent(call.guards) IN SelectSeq(body.calls, possible)

CalleesOf(body) == UNION {Calls(body)[k].to : k \in DOMAIN Calls(body)}

-----------------------------------------------------------------------------
(* Expressions                                                             *)

Null    == [op |-> "null"]
Unknown == [op |-> "unknown"]

\* The argument at an index; absent if the call passes fewer, unknown if the
\* function is only named.
Argument(call, i, absent) ==
  CASE call.kind = "reference" -> Unknown
    [] call.kind # "reference" /\ i \in DOMAIN call.args -> call.args[i]
    [] OTHER -> absent

\* object_elements: made[v] are the class elements created into variable v.
ObjectElements(made, e) ==
  CASE e.op = "null" -> {}
    [] e.op = "object" -> IF e.var \in DOMAIN made THEN made[e.var] ELSE {Open}
    [] e.op = "param" -> {Element("object_param", NoClass, e.index)}
    [] OTHER -> {Open}

RECURSIVE ClassElements(_, _, _, _, _, _)

\* instantiate_class: what a class element of a callee is at a call.
InstantiateClass(S, body, made, t, call, seen) ==
  IF t.kind = "class_param"
  THEN ClassElements(S, body, made, Argument(call, t.index, Null), t.class, seen)
  ELSE {t}

\* class_elements: what a class expression of a body denotes over the summaries S;
\* default is the class of NULL, seen are the variables being resolved.
ClassElements(S, body, made, e, default, seen) ==
  CASE e.op = "null" -> IF default = NoClass THEN {} ELSE {Class(default)}
    [] e.op = "param" -> {Element("class_param", default, e.index)}
    [] e.op = "either" -> ClassElements(S, body, made, e.then, default, seen)
                            \cup ClassElements(S, body, made, e.else, default, seen)
    [] e.op = "class of" ->
         LET bounded == {t \in ObjectElements(made, e.object) : t.kind # "object_param"}
         IN IF bounded = {} THEN {Unresolved} ELSE bounded
    [] e.op = "local" ->
         IF e.var \in seen THEN {}
         ELSE UNION {ClassElements(S, body, made, body.assigns[e.var][k], default, seen \cup {e.var})
                       : k \in DOMAIN body.assigns[e.var]}
    [] e.op = "class" -> {Class(e.class)}
    [] e.op = "result" ->
         UNION {UNION {InstantiateClass(S, body, made, t, e.call, seen) : t \in S[c].returns}
                  : c \in e.call.to}
    [] OTHER -> {Unresolved}

-----------------------------------------------------------------------------
(* One evaluation                                                          *)

\* A creation joins those of the same variable.
Joins(f, k, es) ==
  [x \in DOMAIN f \cup {k} |-> IF x # k THEN f[x] ELSE es \cup (IF k \in DOMAIN f THEN f[k] ELSE {})]

\* created: into a parameter for the caller, or into a variable of the body.
Created(made, target, es) ==
  IF target.op = "param" THEN [made EXCEPT !.creates = Joins(@, target.index, es)]
  ELSE [made EXCEPT !.vars = Joins(@, target.var, es)]

\* create: the objects a call initialises, by the primitive or by a callee
\* creating into a parameter.  No call names the class of its own target.
Create(S, body, made, call) ==
  CASE call.kind = "init" ->
         Created(made, call.args[1], ClassElements(S, body, made.vars, call.args[2], NoClass, {}))
    [] call.kind = "call" ->
         LET filled == {i \in DOMAIN call.args : call.args[i].op \in {"param", "object"}
                          /\ \E c \in call.to : i \in DOMAIN S[c].creates}
             into(i) == UNION {UNION {InstantiateClass(S, body, made.vars, t, call, {}) :
                                        t \in S[c].creates[i]}
                                 : c \in {b \in call.to : i \in DOMAIN S[b].creates}}
             upTo[n \in 0..Len(call.args)] ==
               IF n = 0 THEN made
               ELSE IF n \in filled THEN Created(upTo[n - 1], call.args[n], into(n))
               ELSE upTo[n - 1]
         IN upTo[Len(call.args)]
    [] OTHER -> made

Guarded(t, guards) == [t EXCEPT !.guards = @ \cup guards]

Literal(e) == e.op \in {"true", "false", "null"}
Truth(e)   == e.op = "true"

\* A parameter's guard carried to the caller with the truth it had.
SameTruth(e, truth) == truth

\* A guard of a callee on an argument that is a parameter, or its negation.
CarriedTruth(e, truth) == IF e.op = "not param" THEN ~truth ELSE truth

\* instantiate_raise: what an element a callee throws is at a call.
InstantiateRaise(S, body, made, t, call) ==
  LET arg(g)  == Argument(call, g[1], Unknown)
      guards  == call.guards \cup
                   {<<arg(g).index, CarriedTruth(arg(g), g[2])>> :
                      g \in {h \in t.guards : arg(h).op \in {"param", "not param"}}}
      denied  == \E g \in t.guards : Literal(arg(g)) /\ Truth(arg(g)) # g[2]
      found   == CASE t.kind = "class_param" -> ClassElements(S, body, made, Argument(call, t.index, Null), t.class, {})
                   [] t.kind = "object_param" -> ObjectElements(made, Argument(call, t.index, Null))
                   [] OTHER -> {[t EXCEPT !.guards = {}]}
  IN IF denied \/ ~Consistent(guards) THEN {} ELSE {Guarded(u, guards) : u \in found}

\* throws: what a call raises; a primitive that only arms a mode it is not
\* given raises nothing.
Raises(S, body, made, call) ==
  CASE call.kind = "throw class" ->
         IF ~call.armed THEN {}
         ELSE {Guarded(t, call.guards) : t \in ClassElements(S, body, made, call.args[1], call.default, {})}
    [] call.kind = "throw object" -> {Guarded(t, call.guards) : t \in ObjectElements(made, call.args[1])}
    [] call.kind = "specifier" -> {Guarded(Class(c), call.guards) : c \in call.classes}
    [] call.kind = "init" -> {}
    [] OTHER -> UNION {UNION {InstantiateRaise(S, body, made, t, call) : t \in S[c].throws}
                         : c \in call.to}

\* run: every creation is recorded before the first throw is read.
EvaluateBody(body, S) ==
  LET calls == Calls(body)
      made[k \in 0..Len(calls)] ==
        IF k = 0 THEN [vars |-> [v \in {} |-> {}], creates |-> [i \in {} |-> {}]]
        ELSE Create(S, body, made[k - 1], calls[k])
      all == made[Len(calls)]
  IN [throws  |-> UNION {Raises(S, body, all.vars, calls[k]) : k \in DOMAIN calls},
      creates |-> all.creates,
      returns |-> UNION {ClassElements(S, body, all.vars, body.returns[k], NoClass, {})
                           : k \in DOMAIN body.returns}]

-----------------------------------------------------------------------------
(* throws_of()                                                             *)

\* What a Handler's summary says of its entry: no bounded set of classes, or
\* nothing if a class of it is left to a caller, or to no rule.
ThrowsOf(summary) ==
  LET found == summary.throws
  IN IF \E t \in found : t.kind \notin {"class", "open"} THEN [outcome |-> "failed", classes |-> {}]
     ELSE IF \E t \in found : t.kind = "open" THEN [outcome |-> "open", classes |-> {}]
     ELSE [outcome |-> "classes", classes |-> {t.class : t \in found}]

-----------------------------------------------------------------------------
(* What a body does when it runs: each call at most once, in text order,   *)
(* under its guards.  A value is the class it names or is an object of,    *)
(* and its truth; "any" is a class nothing bounds.                         *)

Value(c, truth) == [class |-> c, truth |-> truth]
Any == {Value("any", truth) : truth \in BOOLEAN}
NullValue == Value("null", FALSE)
\* A NULL that a callee returned: its default class is beyond the analysis.
Returned(v) == IF v = NullValue THEN Value("returned null", FALSE) ELSE v

Entered(actuals) == [params |-> actuals, vars |-> [v \in {} |-> NullValue]]

RECURSIVE Values(_, _, _, _), Runs(_, _, _)

\* A body fills the object variables it passes to an initialisation or a call;
\* any other one holds an object from elsewhere.
Filled(d, e) ==
  \E k \in DOMAIN Body(d).calls : LET call == Body(d).calls[k] IN
    call.kind \in {"init", "call"} /\ \E i \in DOMAIN call.args : call.args[i].op = "object" /\ call.args[i].var = e.var

\* The values an expression may have in env (parameters and object variables);
\* depth bounds the calls below it.
Values(d, env, e, depth) ==
  CASE e.op = "null" -> {NullValue}
    [] e.op \in {"true", "false"} -> {Value(NoClass, e.op = "true")}
    [] e.op = "class" -> {Value(e.class, TRUE)}
    [] e.op = "param" -> {env.params[e.index]}
    [] e.op = "not param" -> {Value(NoClass, ~env.params[e.index].truth)}
    [] e.op = "object" -> {IF e.var \in DOMAIN env.vars THEN env.vars[e.var]
                           ELSE IF Filled(d, e) THEN NullValue ELSE Value("any", TRUE)}
    [] e.op = "class of" -> {v \in Values(d, env, e.object, depth) : v.truth}
    [] e.op = "either" -> Values(d, env, e.then, depth) \cup Values(d, env, e.else, depth)
    [] e.op = "local" -> IF depth = 0 THEN {}
                         ELSE UNION {Values(d, env, Body(d).assigns[e.var][k], depth - 1)
                                       : k \in DOMAIN Body(d).assigns[e.var]}
    [] e.op = "result" ->
         LET actuals == {as \in [DOMAIN e.call.args ->
                                   UNION {Values(d, env, e.call.args[i], depth) : i \in DOMAIN e.call.args}] :
                           \A i \in DOMAIN as : as[i] \in Values(d, env, e.call.args[i], depth)}
         IN IF depth = 0 THEN {}
            ELSE UNION {UNION {UNION {{Returned(v) : v \in Values(c, Entered(as), Body(c).returns[k], depth - 1)}
                                   : k \in DOMAIN Body(c).returns}
                                 : as \in actuals} : c \in e.call.to}
    [] OTHER -> Any

\* The environment once target has become an object of class c.
Becomes(env, target, v) ==
  IF target.op = "param" THEN [env EXCEPT !.params[target.index] = v]
  ELSE [env EXCEPT !.vars = [x \in DOMAIN @ \cup {target.var} |-> IF x = target.var THEN v ELSE @[x]]]

\* The arguments a call may pass.
Passed(d, env, call, c, depth) ==
  LET choices(i) == IF call.kind = "reference" THEN Any ELSE Values(d, env, call.args[i], depth)
  IN {as \in [1..Arity[c] -> UNION {choices(i) : i \in 1..Arity[c]}] : \A i \in DOMAIN as : as[i] \in choices(i)}

NamedBy(v) == IF v.truth THEN {v.class} ELSE {}

\* Several ways to go on: what any of them throws, and the environments after.
OneOf(ways) == [thrown |-> UNION {w.thrown : w \in ways}, after |-> UNION {w.after : w \in ways}]

\* What a call may throw, and the environments it may leave.
Effect(d, env, call, depth) ==
  LET values(k) == Values(d, env, call.args[k], depth)
      returns(after) ==
        LET upTo[n \in 0..Len(call.args)] ==
              IF n = 0 THEN env
              ELSE IF call.args[n].op \in {"param", "object"}
              THEN Becomes(upTo[n - 1], call.args[n], after.params[n])
              ELSE upTo[n - 1]
        IN upTo[Len(call.args)]
      enters(c, as) == LET run == Runs(c, as, depth - 1)
                       IN [thrown |-> run.thrown,
                           after |-> IF call.kind = "reference" THEN {env} ELSE {returns(e) : e \in run.after}]
  IN CASE call.kind = "throw class" ->
            [thrown |-> IF ~call.armed THEN {}
                        ELSE UNION {IF v = NullValue THEN {call.default} ELSE NamedBy(v) : v \in values(1)},
             after |-> {env}]
       [] call.kind = "throw object" -> [thrown |-> UNION {NamedBy(v) : v \in values(1)}, after |-> {env}]
       [] call.kind = "specifier" -> [thrown |-> call.classes, after |-> {env}]
       [] call.kind = "init" -> [thrown |-> {}, after |-> {Becomes(env, call.args[1], v) : v \in values(2)}]
       [] OTHER -> IF depth = 0 THEN OneOf({})
                   ELSE OneOf(UNION {{enters(c, as) : as \in Passed(d, env, call, c, depth)} : c \in call.to})

\* What a body may throw on these arguments, and the environments it may leave.
Runs(d, actuals, depth) ==
  LET calls == Body(d).calls
      holds(env, call) == \A g \in call.guards : env.params[g[1]].truth = g[2]
      upTo[k \in 0..Len(calls)] ==
        IF k = 0 THEN [thrown |-> {}, after |-> {Entered(actuals)}]
        ELSE LET soFar == upTo[k - 1]
                 runs == {e \in soFar.after : holds(e, calls[k])}
             IN OneOf({soFar} \cup {Effect(d, e, calls[k], depth) : e \in runs})
  IN upTo[Len(calls)]

\* The classes the Handler may throw.
Thrown == Runs(Handler, <<>>, MaxDepth).thrown

-----------------------------------------------------------------------------
(* What the analysis promises.                                             *)

\* Every class a call chain from the Handler throws through a throwing
\* primitive is in the entry's line (throws_of; spec-throws.md, Correctness).
Sound == phase = "done" /\ result.outcome = "classes" => Thrown \subseteq result.classes
=============================================================================
