---------------------------- MODULE ConcreteRuns ----------------------------
(***************************************************************************)
(* What the C programs the machine reads really do: their runs on concrete *)
(* memory, by the structure of their statements and without the compiler,  *)
(* for one configuration of the source conditions.  The soundness of the   *)
(* abstract machine is stated against these runs.                          *)
(*                                                                         *)
(* A memory gives every region its cells.  An operation C does not define  *)
(* (an indeterminate value read, a location that does not exist) has no    *)
(* run; a call of a function the program does not define writes any        *)
(* integers of Dom where its pointer arguments lead and returns any.       *)
(***************************************************************************)
EXTENDS HandlerCode, HandlerMemory

CONSTANTS
  Dom,      \* the integers inputs and unread code can have
  Fuel      \* the calls, loop rounds and jumps of one run

Undefined == <<"undefined">>
Size(k)   == [i \in 1..k |-> <<<<"i", i - 1>>>>]
Fields(S) == {<<<<x>>>> : x \in S}
Members   == Fields({"f", "g"})

\* A program p under the truth of its source conditions: the branches chosen.
Selected(p, truth) == {g \in DOMAIN p.conditions : \A l \in p.conditions[g] : truth[l[1]] = l[2]}
Literals(p, truth) == {<<x, truth[x]>> : x \in DOMAIN truth}

RECURSIVE Preprocessed(_, _)
Preprocessed(node, on) ==
  LET Inside(n) == FlattenSeq([i \in 1..(Len(n) - 2) |-> Preprocessed(n[i + 2], on)])
      branches == SelectSeq(SubSeq(node, 3, Len(node)), LAMBDA b : <<node[2][1], b[2]>> \in on)
  IN IF Len(node) < 3 THEN <<node>>
     ELSE IF node[1] = "cgroup" THEN FlattenSeq([i \in DOMAIN branches |-> Inside(branches[i])])
     ELSE <<SubSeq(node, 1, 2) \o Inside(node)>>

-----------------------------------------------------------------------------
(* A concrete state: memory, events, and what is left of the fuel.         *)

Bound2(E, Do(_, _)) == UNION {Do(e[1], e[2]) : e \in E}

New(c, rid, cells, v) == [c EXCEPT !.mem = (rid :> [p \in cells |-> v]) @@ @]
Peek(c, rid, path) == IF rid \in DOMAIN c.mem /\ path \in DOMAIN c.mem[rid] THEN c.mem[rid][path] ELSE Undefined
Below(c, ptr) == IF ptr[2] \in DOMAIN c.mem THEN {p \in DOMAIN c.mem[ptr[2]] : IsPrefix(ptr[3], p)} ELSE {}

\* The cell of a path and the part of it: the type byte of a type word, the
\* payload union.
Word(path) ==
  IF Len(path) >= 3 /\ path[Len(path)] = <<"type">>
  THEN SubSeq(path, 1, Len(path) - 2) \o <<<<"type_info">>>>
  ELSE IF \E i \in DOMAIN path : path[i] = <<"value">>
       THEN SubSeq(path, 1, CHOOSE i \in DOMAIN path : path[i] = <<"value">>) ELSE path

Loads(ptr, c) ==
  LET v == IF IsPtr(ptr) THEN Peek(c, ptr[2], Word(ptr[3])) ELSE Undefined
  IN IF v = Undefined THEN {}
     ELSE IF Last(<<<<"x">>>> \o ptr[3]) = <<"type">> THEN {<<Num(v[2] % 256), c>>} ELSE {<<v, c>>}

Noted(c, rid, event) ==
  IF rid = <<"o", "out">> /\ (c.events = <<>> \/ Last(c.events) # event) THEN [c EXCEPT !.events = Append(@, event)] ELSE c

Stores(ptr, v, c) ==
  IF IsPtr(ptr) /\ Word(ptr[3]) \in Below(c, Ptr(ptr[2], <<>>))
  THEN {<<v, [Noted(c, ptr[2], "N") EXCEPT !.mem[ptr[2]][Word(ptr[3])] = v]>>} ELSE {}

\* Code nobody reads writes any integers below its pointer arguments.
Scribbled(ptr, c) ==
  IF ~IsPtr(ptr) \/ ptr[2] \notin DOMAIN c.mem THEN {c}
  ELSE {[Noted(c, ptr[2], "N") EXCEPT !.mem[ptr[2]] = w @@ @] : w \in [Below(c, ptr) -> {Num(d) : d \in Dom}]}

Calculated(op, a, b) ==
  CASE op = "+" -> a + b
    [] op = "-" -> a - b
    [] op = "&" -> IF b = 1 THEN a % 2 ELSE IF b = 255 THEN a % 256 ELSE a
    [] op = "==" -> IF a = b THEN 1 ELSE 0
    [] op = "!=" -> IF a # b THEN 1 ELSE 0
    [] op = "<"  -> IF a < b THEN 1 ELSE 0
    [] op = ">"  -> IF a > b THEN 1 ELSE 0

Operated(op, a, b) ==
  CASE IsNum(a) /\ IsNum(b) -> Num(Calculated(op, a[2], b[2]))
    [] IsPtr(a) /\ IsNum(b) /\ op = "+" ->
         IF b[2] = 0 THEN a
         ELSE IF a[3] # <<>> /\ Last(a[3])[1] = "i"
              THEN Ptr(a[2], Append(Front(a[3]), <<"i", Last(a[3])[2] + b[2]>>))
         ELSE Ptr(a[2], Append(a[3], <<"i", b[2]>>))
    [] OTHER -> IF op = "==" THEN Num(IF a = b THEN 1 ELSE 0) ELSE Num(IF a # b THEN 1 ELSE 0)

True(v) == v # Num(0)

-----------------------------------------------------------------------------
(* Expressions: <<value, state>> pairs.  x is the program, its preprocessed *)
(* bodies, the configuration and the variables in scope.                   *)

RECURSIVE Outcomes(_, _, _, _)
Value(node, x, c)        == Outcomes("value", node, x, c)
Place(node, x, c)        == Outcomes("place", node, x, c)
Invoked(name, args, x, c) == Outcomes("call", <<name, args>>, x, c)
Executed(body, i, x, c)  == Outcomes("body", <<body, i>>, x, c)
Loop2(node, x, c)        == Outcomes("loop", node, x, c)

Values(nodes, x, c) ==
  FoldLeft(LAMBDA E, node :
             Bound2(E, LAMBDA vs, d : Bound2(Value(node, x, d), LAMBDA v, e : {<<Append(vs, v), e>>})),
           {<<<<"args">>, c>>}, nodes)

ValueOutcomes(node, x, c) ==
  LET Loaded == Bound2(Place(node, x, c), Loads)
      kind == node[1]
  IN CASE kind = "num" -> {<<Num(node[2]), c>>}
       [] kind = "name" ->
            CASE node[2] \in DOMAIN x.vars ->
                   IF x.vars[node[2]][2] THEN {<<Ptr(x.vars[node[2]][1], <<<<"i", 0>>>>), c>>} ELSE Loaded
              [] node[2] \in DOMAIN x.tags -> {<<Num(x.tags[node[2]]), c>>}
              [] node[2] = "NULL" -> {<<Num(0), c>>}
              [] node[2] \in DOMAIN x.bodies -> {<<Fn(node[2]), c>>}
              [] OTHER -> Loaded
       [] kind \in {"member", "index"} -> Loaded
       [] kind = "cast" -> Bound2(Value(node[3], x, c), LAMBDA v, d :
                             {<<IF IsNum(v) THEN Num(Calculated("&", v[2], node[2])) ELSE v, d>>})
       [] kind = "comma" -> Bound2(Value(node[3], x, c), LAMBDA v, d : Value(node[4], x, d))
       [] kind = "cond" -> Bound2(Value(node[3], x, c), LAMBDA v, d : Value(IF True(v) THEN node[4] ELSE node[5], x, d))
       [] kind = "assign" -> Bound2(Value(node[4], x, c), LAMBDA v, d :
            Bound2(Place(node[3], x, d), LAMBDA p, e :
              IF node[2] = "=" THEN Stores(p, v, e)
              ELSE Bound2(Loads(p, e), LAMBDA old, g : Stores(p, Operated(node[2], old, v), g))))
       [] kind = "post" -> Bound2(Place(node[3], x, c), LAMBDA p, d :
            Bound2(Loads(p, d), LAMBDA old, e :
              {<<old, s[2]>> : s \in Stores(p, Operated(node[2], old, Num(1)), e)}))
       [] kind = "un" /\ node[2] = "&" -> Place(node[3], x, c)
       [] kind = "un" /\ node[2] = "*" -> Loaded
       [] kind = "un" /\ node[2] = "!" ->
            Bound2(Value(node[3], x, c), LAMBDA v, d : {<<Num(IF True(v) THEN 0 ELSE 1), d>>})
       [] kind = "bin" /\ node[2] \in {"&&", "||"} ->
            Bound2(Value(node[3], x, c), LAMBDA v, d :
              IF True(v) # (node[2] = "&&") THEN {<<Num(IF True(v) THEN 1 ELSE 0), d>>}
              ELSE Bound2(Value(node[4], x, d), LAMBDA w, e : {<<Num(IF True(w) THEN 1 ELSE 0), e>>}))
       [] kind = "bin" /\ node[2] \notin {"&&", "||"} ->
            Bound2(Value(node[3], x, c), LAMBDA a, d :
              Bound2(Value(node[4], x, d), LAMBDA b, e : {<<Operated(node[2], a, b), e>>}))
       [] kind = "call" /\ node[3] = <<"name", "EG">> -> Loaded
       [] kind = "call" /\ node[3] # <<"name", "EG">> ->
            LET direct == node[3][1] = "name" /\ node[3][2] \notin DOMAIN x.vars
                args(d) == Values(SubSeq(node, 4, Len(node)), x, d)
            IN IF direct THEN Bound2(args(c), LAMBDA vs, d : Invoked(node[3][2], Tail(vs), x, d))
               ELSE Bound2(Value(node[3], x, c), LAMBDA f, d :
                      IF Is(f, "fn") THEN Bound2(args(d), LAMBDA vs, e : Invoked(f[2], Tail(vs), x, e)) ELSE {})

PlaceOutcomes(node, x, c) ==
  CASE node[1] = "name" ->
         {<<Ptr(IF node[2] \in DOMAIN x.vars THEN x.vars[node[2]][1] ELSE <<"g", node[2]>>, <<>>), c>>}
    [] node[1] = "member" ->
         Bound2(IF node[2][2] THEN Value(node[3], x, c) ELSE Place(node[3], x, c), LAMBDA p, d :
           IF IsPtr(p) THEN {<<Ptr(p[2], Append(p[3], <<node[2][1]>>)), d>>} ELSE {})
    [] node[1] = "index" ->
         Bound2(Value(node[3], x, c), LAMBDA p, d :
           Bound2(Value(node[4], x, d), LAMBDA i, e : {<<Operated("+", p, i), e>>}))
    [] node[1] = "un" -> Value(node[3], x, c)
    [] OTHER -> {<<Ptr(Exceptions, <<<<node[4][2]>>>>), c>>}

-----------------------------------------------------------------------------
(* Calls.                                                                  *)

Heaped(c, v) == {<<Ptr(<<"h", c.next>>, <<>>), New([c EXCEPT !.next = @ + 1], <<"h", c.next>>, Members, v)>>}
Filled(ptr, v, c) == [Noted(c, ptr[2], "N") EXCEPT !.mem[ptr[2]] = [p \in Below(c, ptr) |-> v] @@ @]
Copied(to, from, c) ==
  LET Source2(p) == from[3] \o SubSeq(p, Len(to[3]) + 1, Len(p))
  IN [Noted(c, to[2], "N") EXCEPT !.mem[to[2]] = [p \in Below(c, to) |-> Peek(c, from[2], Source2(p))] @@ @]

\* The user method leaves a result of any type in the output.
MethodTags == {4, 6}
Method2(c, ptr) ==
  {[c EXCEPT !.events = Append(@, "M"), !.mem[ptr[2]] = [p \in Below(c, ptr) |-> Num(t)] @@ @] : t \in MethodTags}

Converted(name, ptr, c) ==
  {<<Undefined, d[2]>> : d \in UNION {Stores(Ptr(ptr[2], ptr[3] \o <<<<"u1">>, <<"type_info">>>>), Num(t), c)
                                   : t \in IF name = "convert_to_long" THEN {4} ELSE {2, 3}}}

CallOutcomes(name, args, x, c0) ==
  LET c == [c0 EXCEPT !.fuel = @ - 1]
      Body(b) ==
        LET params == DOMAIN b.params
            vars == [n \in Range(b.params) |-> <<<<"v", c.next + CHOOSE i \in params : b.params[i] = n>>, FALSE>>]
            d == [c EXCEPT !.next = @ + Len(b.params) + 1,
                           !.mem = [r \in {<<"v", c.next + i>> : i \in params} |-> (<<>> :> args[r[2] - c.next])] @@ @]
        IN {<<IF s[1][1] = "return" THEN s[1][2] ELSE Undefined, s[2]>> :
              s \in Executed(b.body, 1, [x EXCEPT !.vars = vars], d)}
  IN IF c.fuel < 0 THEN {}
     ELSE CASE name \in DOMAIN x.bodies -> UNION {Body(b) : b \in x.bodies[name]}
       [] name = "EXPECTED" -> {<<args[1], c>>}
       [] name = "ZEND_ASSERT" -> IF True(args[1]) THEN {<<Undefined, c>>} ELSE {}
       [] name = "abort" -> {}
       [] name = "ecalloc" -> Heaped(c, Num(0))
       [] name = "emalloc" -> Heaped(c, Undefined)
       [] name = "efree" -> {<<Undefined, c>>}
       [] name = "memset" -> {<<args[1], Filled(args[1], args[2], c)>>}
       [] name = "memcpy" -> {<<args[1], Copied(args[1], args[2], c)>>}
       [] name = "zend_throw_error" -> Stores(Ptr(Exceptions, Pending), Num(1), c)
       [] name = "zend_clear_exception" -> Stores(Ptr(Exceptions, Pending), Num(0), c)
       [] name = "zend_call_known_instance_method_with_0_params" -> {<<Undefined, d>> : d \in Method2(c, args[3])}
       [] name \in {"convert_to_long", "convert_to_boolean"} -> Converted(name, args[1], c)
       [] OTHER -> {<<Num(r), d>> : r \in Dom,
                     d \in FoldLeft(LAMBDA S, a : UNION {Scribbled(a, s) : s \in S}, {c}, args)}

-----------------------------------------------------------------------------
(* Statements: <<signal, state>> pairs; a signal is <<"next">>, <<"break">>, *)
(* <<"continue">>, <<"return", value>> or <<"goto", label>>.                *)

Next1 == <<"next">>

\* node is a while loop, or the rounds of a for loop.
LoopOutcomes(node, x, c) ==
  LET cond == IF node[1] = "rounds" THEN node[4] ELSE node[3]
      Again(d) == IF node[1] = "rounds" THEN Bound2(Value(node[5], x, d), LAMBDA v, e : Loop2(node, x, e)) ELSE Loop2(node, x, d)
      Round(d) == Bound2(Executed(<<IF node[1] = "rounds" THEN node[6] ELSE node[4]>>, 1, x, [d EXCEPT !.fuel = @ - 1]),
                         LAMBDA s, e : IF s[1] \in {"next", "continue"} THEN Again(e)
                                       ELSE IF s[1] = "break" THEN {<<Next1, e>>} ELSE {<<s, e>>})
  IN IF c.fuel <= 0 THEN {}
     ELSE Bound2(Value(cond, x, c), LAMBDA v, d : IF True(v) THEN Round(d) ELSE {<<Next1, d>>})

Switch2(node, x, c) ==
  LET body == SubSeq(node[4], 3, Len(node[4]))
      Matches(v, d) == {i \in DOMAIN body : body[i][1] = "case" /\ \E w \in Value(body[i][3], x, d) : w[1] = v}
      default == {i \in DOMAIN body : body[i][1] = "default"}
      From(v, d) == IF Matches(v, d) # {} THEN Matches(v, d) ELSE default
      Run(v, d) == IF From(v, d) = {} THEN {<<Next1, d>>} ELSE Executed(body, Min(From(v, d)), x, d)
  IN Bound2(Bound2(Value(node[3], x, c), Run), LAMBDA s, d : {<<IF s[1] = "break" THEN Next1 ELSE s, d>>})

Statement2(node, x, c) ==
  CASE node[1] = "block"  -> Executed(SubSeq(node, 3, Len(node)), 1, x, c)
    [] node[1] = "expr"   -> {<<Next1, e[2]>> : e \in Value(node[3], x, c)}
    [] node[1] = "if"     -> Bound2(Value(node[3], x, c), LAMBDA v, d : Executed(<<node[IF True(v) THEN 4 ELSE 5]>>, 1, x, d))
    [] node[1] \in {"while", "rounds"} -> Loop2(node, x, c)
    [] node[1] = "for"    -> Executed(<<node[3], [node EXCEPT ![1] = "rounds"]>>, 1, x, c)
    [] node[1] = "do"     -> Bound2(Executed(<<node[3]>>, 1, x, c), LAMBDA s, d :
                               IF s[1] \in {"next", "continue"} THEN Loop2(<<"while", "", node[4], node[3]>>, x, d)
                               ELSE {<<IF s[1] = "break" THEN Next1 ELSE s, d>>})
    [] node[1] = "switch" -> Switch2(node, x, c)
    [] node[1] = "return" -> IF Len(node) < 3 THEN {<<<<"return", Undefined>>, c>>}
                             ELSE {<<<<"return", e[1]>>, e[2]>> : e \in Value(node[3], x, c)}
    [] node[1] \in {"break", "continue"} -> {<<<<node[1]>>, c>>}
    [] node[1] = "goto"   -> {<<<<"goto", node[2]>>, [c EXCEPT !.fuel = @ - 1]>>}
    [] OTHER -> {<<Next1, c>>}

\* The items of an initializer list the configuration keeps, over zero.
Listed(node, rid, x, c) ==
  FoldLeft(LAMBDA S, i :
             IF ~(node[2][i][3] \subseteq x.literals) THEN S
             ELSE {s[2] : s \in Bound2(UNION {Value(node[i + 2], x, d) : d \in S}, LAMBDA v, d : Stores(Ptr(rid, node[2][i][1]), v, d))},
           {c}, [i \in DOMAIN node[2] |-> i])

\* The statements of a block from the i-th on; a declaration is in scope for
\* the rest of them, and a goto finds its label among them.
BodyOutcomes(body, i, x, c) ==
  LET node  == body[i]
      label(s) == {j \in DOMAIN body : s[1] = "goto" /\ body[j] = <<"label", s[2]>>}
      After(s, d) == IF s = Next1 THEN Executed(body, i + 1, x, d)
                     ELSE IF d.fuel >= 0 /\ label(s) # {} THEN Executed(body, Min(label(s)), x, d) ELSE {<<s, d>>}
      rid   == <<"v", c.next>>
      inner == [x EXCEPT !.vars = (node[2][1] :> <<rid, node[2][2]>>) @@ @]
      fresh == New([c EXCEPT !.next = @ + 1], rid, node[2][3], Undefined)
      ready == IF Len(node) < 3 THEN {fresh}
               ELSE IF node[3][1] = "init" THEN Listed(node[3], rid, inner, [fresh EXCEPT !.mem[rid] = [p \in DOMAIN @ |-> Num(0)]])
               ELSE {s[2] : s \in Bound2(Value(node[3], inner, fresh), LAMBDA v, d : Stores(Ptr(rid, <<>>), v, d))}
  IN IF i > Len(body) THEN {<<Next1, c>>}
     ELSE IF node[1] = "decl" THEN UNION {Executed(body, i + 1, inner, d) : d \in ready}
     ELSE Bound2(Statement2(node, x, c), After)

Outcomes(what, node, x, c) ==
  CASE what = "value" -> ValueOutcomes(node, x, c)
    [] what = "place" -> PlaceOutcomes(node, x, c)
    [] what = "call"  -> CallOutcomes(node[1], node[2], x, c)
    [] what = "body"  -> BodyOutcomes(node[1], node[2], x, c)
    [] what = "loop"  -> LoopOutcomes(node, x, c)

\* The runs of a program's root on some arguments and memory: <<value, state>>.
Runs(p, truth, tags, args, mem) ==
  LET on == Selected(p, truth)
      Read1(d) == [params |-> d.params, body |-> Preprocessed(d.body, on)]
      x == [vars |-> <<>>, tags |-> tags, literals |-> Literals(p, truth),
            bodies |-> [fn \in DOMAIN p.functions |->
                          {Read1(d) : d \in {e \in Range(p.functions[fn]) : e.conditions \subseteq Literals(p, truth)}}]]
  IN Invoked(p.root, args, x, [mem |-> mem, events |-> <<>>, fuel |-> Fuel, next |-> 1])
=============================================================================
