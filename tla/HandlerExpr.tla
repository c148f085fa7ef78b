---------------------------- MODULE HandlerExpr ----------------------------
(***************************************************************************)
(* Expression evaluation of the handler machine (tools/handler_expr.py),   *)
(* the functions it implements itself (handler_prims.py) and its calls     *)
(* (handler_machine.py).                                                   *)
(*                                                                         *)
(* Ev, Lv and Branch give every outcome of an expression, a location and a *)
(* condition: sets of <<value, state>>, <<location, state>> and <<0 or 1,   *)
(* state>>.  A frame f has the variables an instruction sees      *)
(* (vars, arrays), the program (functions), the summaries so far (known)   *)
(* and the marker of the user method.  A call of an input no summary is    *)
(* known for leaves that input in its state's need, and the state goes     *)
(* through the rest of the expression untouched: the machine drops the     *)
(* outcomes and evaluates the instruction again once the input is known.   *)
(***************************************************************************)
EXTENDS HandlerProcedures, HandlerCode

CONSTANT ForkCap   \* the call outcomes beyond which their exits are joined

Nul     == Num(0)
Zero    == Fill(Nul)
Field(x) == <<x>>
TypeInfo == <<Field("u1"), Field("type_info")>>

\* The cell a path denotes and the bits of it the path reads.
Alias(path) ==
  LET n == Len(path)
      payload == {i \in 1..n : path[i] = Field("value")}
  IN IF n >= 3 /\ SubSeq(path, n - 2, n) = <<Field("u1"), Field("v"), Field("type")>>
     THEN <<SubSeq(path, 1, n - 3) \o TypeInfo, 255>>
     ELSE IF payload # {} THEN <<SubSeq(path, 1, Min(payload)), Whole>> ELSE <<path, Whole>>

\* One outcome per alternative, under the alternative's conditions.
Under1(v, s, conditions) == <<v, [s EXCEPT !.tags = @ \cup conditions]>>
Alts(v, s) == {Under1(a[1], s, a[2]) : a \in Alternatives(v)}

Load(p0, s) ==
  LET p == Pointed(p0)
      at == Alias(p[3])
  IN IF ~IsPtr(p) THEN AnyV ELSE LowBits(Read(s, p[2], at[1]), at[2])

\* Writing part of a known word keeps its other bits.
Store(p0, v, s) ==
  LET p   == Pointed(p0)
      at  == Alias(p[3])
      old == Read(s, p[2], at[1])
      new == IF at[2] # Whole /\ IsNum(old) /\ IsNum(v)
             THEN Num(old[2] - (old[2] & at[2]) + (v[2] & at[2])) ELSE v
  IN IF ~IsPtr(p) THEN s ELSE Write(s, p[2], at[1], new)

\* Outcomes of equal states become one with the alternatives of their values.
Merged(E) ==
  LET Same(d, e) == d[2].tags = e[2].tags /\ Key(d[2]) = Key(e[2])
      One(G) == LET some == CHOOSE e \in G : TRUE IN
                IF \A e \in G : e[1] = some[1] THEN some
                ELSE <<JoinValues({<<e[1], {}>> : e \in G}), some[2]>>
  IN IF Cardinality(E) < 2 THEN E ELSE {One({e \in E : Same(d, e)}) : d \in E}

\* One outcome per result of an operator and source conditions of its operands.
ApplyBinary(op, left, right, s) ==
  {Under1(Binary(op, a[1], b[1], s), s, a[2] \cup b[2]) :
     a \in Alternatives(left), b \in Alternatives(right)}

Unary(op, v) ==
  CASE ~IsNum(v) -> AnyV
    [] op = "-" -> Num(-v[2])
    [] op = "~" -> Num(-v[2] - 1)
    [] OTHER -> v

\* A condition on a plain value: a test the path does not settle narrows it both ways.
ForkOn(v, s) ==
  IF Truth(v, s) # BOOLEAN THEN {<<Bool(t), s>> : t \in Truth(v, s)}
  ELSE {<<Bool(t), Narrow(v, t, s)>> : t \in BOOLEAN}

FieldOf(p0, field) ==
  LET p == Pointed(p0) IN IF IsPtr(p) THEN Ptr(p[2], Append(p[3], Field(field))) ELSE AnyV

Location(name, f) == IF name \in DOMAIN f.vars THEN Ptr(f.vars[name], <<>>) ELSE Ptr(<<"g", name>>, <<>>)

-----------------------------------------------------------------------------
(* Calls the machine does not read, and those it implements itself.        *)

\* Unread code may write all a pointer argument points to; its result is unknown.
UnknownCall(args, s) ==
  LET Lost(t, v) == IF IsPtr(v) /\ v[2][1] \in {"l", "h", "o", "y", "p", "op"}
                    THEN HavocAt(t, v[2], v[3]) ELSE t
  IN {<<AnyV, FoldLeft(Lost, s, args)>>}

Zeroed      == {"ecalloc", "pecalloc", "calloc"}
Allocators  == Zeroed \cup {"emalloc", "malloc", "zend_object_alloc"}
NoOps       == {"efree", "free", "zval_ptr_dtor", "zend_string_release"}
Transparent == {"EXPECTED", "UNEXPECTED"}
Assertions  == {"ZEND_ASSERT", "ZEND_ASSUME", "assert"}
Copies      == {"memcpy", "memmove"}
Throwers    == {"zend_throw_error", "zend_throw_exception", "zend_type_error"}
NoReturn    == {"zend_error_noreturn", "zend_bailout", "abort", "ZEND_UNREACHABLE"}
Methods     == {"zend_call_known_instance_method_with_0_params"}
\* The type tags of the engine's value header, and the in-place conversions.
Tags        == [IS_FALSE |-> 2, IS_TRUE |-> 3, IS_LONG |-> 4, IS_STRING |-> 6]
Conversions == [convert_to_long |-> {"IS_LONG"}, convert_to_boolean |-> {"IS_TRUE", "IS_FALSE"}]

Copy(args, s) ==
  LET to == args[1]  from == args[2]
  IN IF ~IsPtr(to) THEN s
     ELSE IF IsPtr(from) THEN WriteTree(s, to[2], to[3], Tree(s, from[2], from[3]))
     ELSE HavocAt(s, to[2], to[3])

SetBytes(args, s) ==
  IF ~IsPtr(args[1]) THEN s
  ELSE IF args[2] = Nul THEN Write(s, args[1][2], args[1][3], Zero)
  ELSE HavocAt(s, args[1][2], args[1][3])

Convert(name, zval, s) ==
  LET tags == {Num(Tags[t]) : t \in Conversions[name]}
      tag  == IF Cardinality(tags) = 1 THEN CHOOSE t \in tags : TRUE ELSE <<"alt", {<<t, {}>> : t \in tags}>>
  IN IF ~IsPtr(zval) THEN UnknownCall(<<zval>>, s)
     ELSE {<<AnyV, Write(Write(s, zval[2], zval[3], Fill(AnyV)), zval[2], zval[3] \o TypeInfo, tag)>>}

\* The user method was run, and left its result in the output.
CallMethod(args, s, f) ==
  IF args[1] # f.marker \/ Len(args) < 3 \/ ~IsPtr(args[3]) THEN UnknownCall(args, s)
  ELSE {<<AnyV, Write(s, args[3][2], args[3][3], Fill(Sym(MethodResult)))>>}

NoteMarker(args, s, f) ==
  IF f.marker \in Range(args) THEN [s EXCEPT !.events = Append(@, "M")] ELSE s

Raised(s, n) == Write(s, Exceptions, Pending, Num(n))

\* A recursive call that runs its callee again while that has no exits.
AnsweredWhenFilled(key, names, args, s, f) ==
  IF key \notin DOMAIN f.known \/ f.known[key] = Bottom THEN {<<AnyV, [s EXCEPT !.need = <<key>>]>>}
  ELSE IF ~f.known[key].complete THEN UnknownCall(args, s)
  ELSE Restore(f.known[key], key.state, names, s)

\* A callee is read through its summary; one that was cut short is an unread call.
Answered(key, names, args, s, f) ==
  IF key \notin DOMAIN f.known THEN {<<AnyV, [s EXCEPT !.need = <<key>>]>>}
  ELSE IF ~f.known[key].complete THEN UnknownCall(args, s)
  ELSE Restore(f.known[key], key.state, names, s)

ReadInput(fn, k, input, args, s, f) ==
  Answered([fn |-> fn, def |-> k, args |-> input.args, state |-> input.state, compare |-> FALSE],
           input.names, args, s, f)

ReadCallee(fn, k, args, s, f) == ReadInput(fn, k, Capture(args, s), args, s, f)

\* A function that does not return ends its callers' paths too.
Interpret(name, args, s, f) ==
  IF name \notin DOMAIN f.functions THEN UnknownCall(args, s)
  ELSE UNION {ReadCallee(name, k, args, s, f) : k \in DOMAIN f.functions[name]}

CallName(name, args, s0, f) ==
  LET s == NoteMarker(args, s0, f)
  IN CASE name \in Transparent -> {<<args[1], s>>}
       [] name \in Assertions  -> IF Truth(args[1], s) = {FALSE} THEN {}
                                  ELSE {<<AnyV, Narrow(args[1], TRUE, s)>>}
       [] name \in NoReturn    -> {}
       [] name \in Copies      -> {<<args[1], Copy(args, s)>>}
       [] name = "memset"      -> {<<args[1], SetBytes(args, s)>>}
       [] name \in Allocators  -> {<<Ptr(Heap(s.serial + 1), <<>>),
                                     Allocate(s, IF name \in Zeroed THEN Nul ELSE AnyV)>>}
       [] name \in NoOps       -> {<<AnyV, s>>}
       [] name \in DOMAIN Conversions -> Convert(name, args[1], s)
       [] name \in Methods     -> CallMethod(args, s, f)
       [] name \in Throwers    -> {<<AnyV, Raised(s, 1)>>}
       [] name = "zend_clear_exception" -> {<<AnyV, Raised(s, 0)>>}
       [] OTHER -> Interpret(name, args, s, f)

-----------------------------------------------------------------------------
(* Expressions.                                                            *)

RECURSIVE Evaluated(_, _, _, _)
Ev(node, s, f)     == Evaluated("value", node, s, f)
Lv(node, s, f)     == Evaluated("place", node, s, f)
Branch(node, s, f) == Evaluated("test", node, s, f)
CallNamed(name, args, s, f) == Evaluated("call", <<name, args>>, s, f)

\* The continuation of every outcome; a suspended one has none.
Then(E, Do(_, _)) ==
  UNION {IF e[2].need # <<>> THEN {<<AnyV, e[2]>>} ELSE Do(e[1], e[2]) : e \in E}

EvAlts(node, s, f) == Then(Ev(node, s, f), Alts)

\* Argument lists are evaluated left to right: <<<<"args", value, ...>>, state>>.
EvAll(nodes, s, f) ==
  FoldLeft(LAMBDA E, node : Then(E, LAMBDA args, t : Then(Ev(node, t, f), LAMBDA v, u : {<<Append(args, v), u>>})),
           {<<<<"args">>, s>>}, nodes)

IsAccessor(node) == node[1] = "call" /\ node[3] = <<"name", "EG">>

CallValue(target, args, s, f) ==
  CASE Is(target, "fn") -> CallNamed(target[2], args, s, f)
    [] target = Nul -> {}
    [] OTHER -> UnknownCall(args, s)

Call(node, s, f) ==
  LET callee == node[3]
      named  == callee[1] = "name" /\ callee[2] \notin DOMAIN f.vars
      Invoke(args, t) ==
        IF named THEN CallNamed(callee[2], Tail(args), t, f)
        ELSE Then(EvAlts(callee, t, f), LAMBDA v, u : CallValue(v, Tail(args), u, f))
      results == Then(EvAll(SubSeq(node, 4, Len(node)), s, f), Invoke)
  IN IF IsAccessor(node) THEN Then(Lv(node, s, f), LAMBDA p, t : {<<Load(p, t), t>>})
     ELSE IF Cardinality(results) > ForkCap THEN JoinExits(results) ELSE results

Name(x, s, f) ==
  CASE x \in DOMAIN f.vars -> IF x \in f.arrays THEN Ptr(f.vars[x], <<<<"i", 0>>>>) ELSE Read(s, f.vars[x], <<>>)
    [] x \notin DOMAIN f.vars /\ x = "NULL" -> Nul
    [] x \notin DOMAIN f.vars /\ x \in DOMAIN Tags -> Num(Tags[x])
    [] x \notin DOMAIN f.vars /\ x \in DOMAIN f.functions -> Fn(x)
    [] OTHER -> Load(Location(x, f), s)

Assign(node, s, f) ==
  Then(Ev(node[4], s, f), LAMBDA v, t :
    Then(Lv(node[3], t, f), LAMBDA p, u :
      LET new == IF node[2] = "=" THEN v ELSE Binary(node[2], Load(p, u), v, u)
      IN {<<new, Store(p, new, u)>>}))

Increment(node, s, f) ==
  Then(Lv(node[3], s, f), LAMBDA p, t :
    LET old == Load(p, t) IN {<<old, Store(p, Binary(node[2], old, Num(1), t), t)>>})

\* An initializer list: items in order over zero; a conditional item is an
\* alternative, beside what the location held before its source group unless
\* the group has an #else.  An item's place is <<path, group or 0, conditions,
\* exhaustive>>; of several groups at a location the last one decides.
Initializer(node, s, f) ==
  LET Item(i) == LET e == Ev(node[i + 2], s, f) IN IF e = {} THEN AnyV ELSE (CHOOSE x \in e : TRUE)[1]
      Held(acc, path) == IF path \in DOMAIN acc.cells THEN acc.cells[path] ELSE Nul
      Place(acc, i) ==
        LET place == node[2][i]
            same(g) == g.path = place[1] /\ g.group = place[2]
            new   == [path |-> place[1], group |-> place[2], items |-> {}, all |-> place[4],
                      base |-> Held(acc, place[1])]
            open  == IF SelectSeq(acc.groups, same) = <<>> THEN Append(acc.groups, new) ELSE acc.groups
        IN [cells  |-> (place[1] :> Item(i)) @@ acc.cells,
            groups |-> IF place[2] = 0 THEN SelectSeq(acc.groups, LAMBDA g : g.path # place[1])
                       ELSE [k \in DOMAIN open |-> IF same(open[k])
                               THEN [open[k] EXCEPT !.items = @ \cup {<<Item(i), place[3]>>}] ELSE open[k]]]
      done == FoldLeft(Place, [cells |-> <<>> :> Zero, groups |-> <<>>], [i \in DOMAIN node[2] |-> i])
      At1(p) == SelectSeq(done.groups, LAMBDA g : g.path = p)
      Choice(g) == <<"alt", g.items \cup IF g.all THEN {} ELSE {<<g.base, {}>>}>>
  IN Agg([p \in DOMAIN done.cells |-> IF At1(p) = <<>> THEN done.cells[p] ELSE Choice(Last(At1(p)))])

ValueOf(node, s, f) ==
  LET Loaded == Then(Lv(node, s, f), LAMBDA p, t : {<<Load(p, t), t>>})
  IN Merged(
     CASE node[1] = "num"    -> {<<Num(node[2]), s>>}
       [] node[1] = "name"   -> {<<Name(node[2], s, f), s>>}
       [] node[1] = "init"   -> {<<Initializer(node, s, f), s>>}
       [] node[1] = "cast"   -> Then(EvAlts(node[3], s, f), LAMBDA v, t : {<<Cast(node[2], v), t>>})
       [] node[1] = "call"   -> Call(node, s, f)
       [] node[1] = "comma"  -> Then(Ev(node[3], s, f), LAMBDA v, t : Ev(node[4], t, f))
       [] node[1] = "cond"   -> Then(Branch(node[3], s, f), LAMBDA taken, t : Ev(node[IF taken = Nul THEN 5 ELSE 4], t, f))
       [] node[1] = "assign" -> Assign(node, s, f)
       [] node[1] = "post"   -> Increment(node, s, f)
       [] node[1] \in {"member", "index"} -> Loaded
       [] node[1] = "un" /\ node[2] = "*" -> Loaded
       [] node[1] = "un" /\ node[2] = "&" -> Lv(node[3], s, f)
       [] node[1] = "un" /\ node[2] = "!" -> Branch(node, s, f)
       [] node[1] = "un" /\ node[2] \notin {"*", "&", "!"} ->
            Then(Ev(node[3], s, f), LAMBDA v, t : {<<Unary(node[2], Resolve(v, t)), t>>})
       [] node[1] = "bin" /\ node[2] \in {"&&", "||"} -> Branch(node, s, f)
       [] node[1] = "bin" /\ node[2] \notin {"&&", "||"} ->
            Then(Ev(node[3], s, f), LAMBDA a, t :
              Then(Ev(node[4], t, f), LAMBDA b, u : ApplyBinary(node[2], a, b, u)))
       [] OTHER -> {<<AnyV, s>>})

PlaceOf(node, s, f) ==
  CASE node[1] = "name" -> {<<Location(node[2], f), s>>}
    [] node[1] = "member" /\ ~node[2][2] ->
         Then(Lv(node[3], s, f), LAMBDA p, t :
           {<<IF IsPtr(p) THEN Ptr(p[2], Append(p[3], Field(node[2][1]))) ELSE AnyV, t>>})
    [] node[1] = "member" /\ node[2][2] ->
         Then(EvAlts(node[3], s, f), LAMBDA v, t : {<<FieldOf(v, node[2][1]), t>>})
    [] node[1] = "index" ->
         Then(Ev(node[3], s, f), LAMBDA base, t :
           Then(Ev(node[4], t, f), LAMBDA i, u :
             Then(Alts(base, u), LAMBDA a, w : {<<Binary("+", a, i, w), w>>})))
    [] node[1] = "un" /\ node[2] = "*" -> EvAlts(node[3], s, f)
    [] IsAccessor(node) -> {<<Ptr(Exceptions, <<Field(node[4][2])>>), s>>}
    [] OTHER -> Then(Ev(node, s, f), LAMBDA v, t : {<<AnyV, t>>})

TestOf(node, s, f) ==
  LET Logical(goes) ==
        Then(Branch(node[3], s, f), LAMBDA taken, t :
          IF taken # goes THEN {<<taken, t>>} ELSE Branch(node[4], t, f))
  IN CASE node[1] = "un" /\ node[2] = "!" ->
            Then(Branch(node[3], s, f), LAMBDA taken, t : {<<Bool(taken = Nul), t>>})
       [] node[1] = "bin" /\ node[2] \in {"&&", "||"} -> Logical(Bool(node[2] = "&&"))
       [] OTHER -> Then(EvAlts(node, s, f), ForkOn)

Evaluated(what, node, s, f) ==
  CASE what = "value" -> ValueOf(node, s, f)
    [] what = "place" -> PlaceOf(node, s, f)
    [] what = "test"  -> TestOf(node, s, f)
    [] what = "call"  -> CallName(node[1], node[2], s, f)
=============================================================================
