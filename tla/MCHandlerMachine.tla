-------------------------- MODULE MCHandlerMachine --------------------------
(***************************************************************************)
(* Programs for the handler machine, and what its answers promise about    *)
(* them, stated against their runs in C.                                   *)
(***************************************************************************)
EXTENDS HandlerMachine, ConcreteRuns

-----------------------------------------------------------------------------
(* Syntax.                                                                 *)

N(n)        == <<"num", n>>
X(name)     == <<"name", name>>
B(op, l, r) == <<"bin", op, l, r>>
U(op, e)    == <<"un", op, e>>
Eq(l, r)    == B("==", l, r)
Asg(l, r)   == <<"assign", "=", l, r>>
Arrow(e, m) == <<"member", <<m, TRUE>>, e>>
Dot(e, m)   == <<"member", <<m, FALSE>>, e>>
At2(e, i)   == <<"index", "", e, i>>
Invoke(fn, args) == <<"call", "", X(fn)>> \o args
Do(e)       == <<"expr", "", e>>
Set(name, e) == Do(Asg(X(name), e))
Run1(fn, args) == Do(Invoke(fn, args))
Block(body) == <<"block", "">> \o body
Skip        == Block(<<>>)
Either(c, s, t) == <<"if", "", c, s, t>>
IfOnly(c, s) == Either(c, s, Skip)
While(c, body) == <<"while", "", c, Block(body)>>
DoWhile(body, c) == <<"do", "", Block(body), c>>
For(i, c, e, body) == <<"for", "", i, c, e, Block(body)>>
Choose1(e, body) == <<"switch", "", e, Block(body)>>
CaseOf(n)   == <<"case", "", N(n)>>
Default     == <<"default", "">>
Break       == <<"break", "">>
Continue    == <<"continue", "">>
Return(e)   == <<"return", "", e>>
Goto(l)     == <<"goto", l>>
Label(l)    == <<"label", l>>
Opaque      == <<"opaque", "">>
Cell        == {<<>>}
Local1(name)   == <<"decl", <<name, FALSE, Cell>>>>
Init1(name, e) == Append(Local1(name), e)
Array(name, k) == <<"decl", <<name, TRUE, {<<<<"i", i>>>> : i \in 0..(k - 1)}>>>>
Struct(name) == <<"decl", <<name, FALSE, Members>>>>
\* #if and #if/#else groups.
Group1(g, body) == <<"cgroup", <<g, FALSE>>, <<"branch", 1>> \o body>>
Group2(g, body, other) == <<"cgroup", <<g, TRUE>>, <<"branch", 1>> \o body, <<"branch", 2>> \o other>>

One == (<<1, 1>> :> {<<"A", TRUE>>}) @@ (<<1, 2>> :> {<<"A", FALSE>>})
Two == One @@ (<<2, 1>> :> {<<"B", TRUE>>}) @@ (<<2, 2>> :> {<<"B", FALSE>>})

Def(params, body) ==
  [params |-> params, body |-> Block(body), code |-> Compile(Block(body)), conditions |-> {}, noreturn |-> FALSE]
When(d, condition) == [d EXCEPT !.conditions = {condition}]

TypeOf(x)   == Dot(Dot(U("*", X(x)), "u1"), "type_info")
TypeByte(x) == Dot(Dot(Dot(U("*", X(x)), "u1"), "v"), "type")
SetKind(t)  == Do(Asg(TypeOf("out"), X(t)))
F(x)        == Arrow(X(x), "f")
Add(name, e) == Set(name, B("+", X(name), e))
Inc(name)   == <<"post", "+", X(name)>>

-----------------------------------------------------------------------------
(* Functions the programs call.                                            *)

Helpers ==
  [bump  |-> <<Def(<<"p">>, <<Either(Eq(U("*", X("p")), N(0)), Do(Asg(U("*", X("p")), N(2))), Run1("unread", <<X("p")>>))>>)>>,
   clear |-> <<Def(<<"p">>, <<Do(Asg(U("*", X("p")), N(0))), Return(N(0))>>)>>,
   pick  |-> <<Def(<<"p", "n">>,
                 <<IfOnly(Eq(F("p"), N(0)), Return(X("n"))),
                   IfOnly(Invoke("unread", <<>>), Return(Invoke("pick", <<X("p"), N(1)>>))),
                   Return(N(2))>>)>>,
   even  |-> <<Def(<<"p", "n">>, <<IfOnly(Eq(X("n"), N(0)), Return(N(1))), Return(Invoke("odd", <<X("p"), B("-", X("n"), N(1))>>))>>)>>,
   odd   |-> <<Def(<<"p", "n">>, <<IfOnly(Eq(X("n"), N(0)), Return(N(2))), Return(Invoke("even", <<X("p"), Invoke("unread", <<>>)>>))>>)>>,
   mode  |-> <<When(Def(<<"n">>, <<Return(B("+", X("n"), N(1)))>>), <<"A", TRUE>>),
               When(Def(<<"n">>, <<Return(N(0))>>), <<"A", FALSE>>)>>,
   make  |-> <<Def(<<"n">>, <<Init1("s", Invoke("ecalloc", <<>>)), Do(Asg(Arrow(X("s"), "f"), X("n"))), Return(X("s"))>>)>>,
   fail  |-> <<Def(<<"n">>, <<IfOnly(X("n"), Run1("zend_throw_error", <<>>)), Return(X("n"))>>)>>,
   count |-> <<Def(<<"p">>,
                 <<Init1("i", N(0)),
                   While(B("<", X("i"), N(2)),
                     <<Do(Inc("i")), Do(Asg(U("*", X("p")), X("i"))), IfOnly(Invoke("unread", <<>>), Run1("clear", <<X("p")>>))>>)>>)>>]

\* Statements over the variables x and i and the operands a and b.
Pool == <<
  Either(Eq(F("a"), N(1)), Set("x", F("b")), Set("x", N(2))),
  Set("x", Invoke("unread", <<>>)),
  Run1("unread", <<U("&", X("x"))>>),
  Block(<<Group2(1, <<Init1("y", N(1))>>, <<Init1("y", N(2))>>), Set("x", X("y"))>>),
  While(B("<", X("x"), N(2)), <<Do(Inc("x"))>>),
  Run1("bump", <<U("&", X("x"))>>),
  IfOnly(B("&&", X("x"), F("b")), Run1("zend_throw_error", <<>>)),
  Set("x", Invoke("pick", <<X("a"), X("x")>>)),
  IfOnly(Eq(X("x"), N(0)), Goto("done")),
  Set("x", Invoke("mode", <<X("x")>>))
>>

\* Statements that are tried once each.
Extra == <<
  <<Set("x", F("b")), Run1("fail", <<X("x")>>), IfOnly(Invoke("EG", <<X("exception")>>), Set("x", N(1))), Run1("bump", <<U("&", X("x"))>>)>>,
  <<IfOnly(F("a"), Set("x", N(1))),
    For(Do(Asg(X("i"), N(0))), B("<", X("i"), N(2)), Inc("i"), <<IfOnly(F("b"), Continue), Set("x", X("i"))>>)>>,
  <<Group1(1, <<Set("x", N(1))>>),
    DoWhile(<<Do(Inc("x")), IfOnly(Eq(X("x"), N(2)), Break)>>, F("a"))>>,
  <<Choose1(F("a"), <<CaseOf(0), Set("x", N(1)), CaseOf(1), Add("x", N(1)), Break, Default, Set("x", N(0))>>),
    Set("x", <<"cond", "", U("!", F("b")), N(1), X("x")>>)>>,
  <<Set("x", B("&", F("a"), N(1))),
    Block(<<Init1("s", Invoke("make", <<X("x")>>)), Set("x", B("+", Arrow(X("s"), "f"), Arrow(X("s"), "g")))>>)>>,
  <<Block(<<Array("t", 2), Do(Asg(At2(X("t"), N(0)), X("x"))), Do(Asg(At2(X("t"), N(1)), N(1))),
                Set("x", B("-", At2(X("t"), N(0)), At2(X("t"), N(1))))>>),
    Group1(1, <<Set("x", N(1))>>)>>,
  <<Struct("s"), Struct("t"), Run1("memset", <<U("&", X("s")), N(0)>>), Do(Asg(Dot(X("s"), "f"), F("a"))),
    Run1("memcpy", <<U("&", X("t")), U("&", X("s"))>>), Set("x", Dot(X("t"), "f"))>>,
  <<Append(Struct("s"), <<"init", <<<<<<Field("f")>>, 0, {}, FALSE>>, <<<<Field("g")>>, 1, {<<"A", TRUE>>}, FALSE>>>>, N(1), F("a")>>),
    Set("x", B("-", Dot(X("s"), "f"), Dot(X("s"), "g")))>>,
  <<Do(Asg(F("a"), N(1))), Run1("bump", <<U("&", F("b"))>>), Set("x", F("b"))>>,
  <<Do(Asg(X("shared"), F("a"))), Run1("fail", <<X("shared")>>), Set("x", X("shared")), Run1("zend_clear_exception", <<>>)>>,
  <<Init1("h", <<"cond", "", F("a"), X("bump"), X("clear")>>), Do(<<"call", "", X("h"), U("&", X("x"))>>)>>,
  <<Run1("ZEND_ASSERT", <<F("a")>>), IfOnly(Invoke("EXPECTED", <<F("b")>>), Run1("abort", <<>>)), Set("x", F("a"))>>,
  <<Set("x", Invoke("odd", <<X("a"), F("b")>>))>>,
  <<Run1("count", <<U("&", X("x"))>>), Run1("efree", <<X("x")>>), IfOnly(Eq(X("x"), N(1)), Set("x", N(2)))>>,
  <<Run1("convert_to_long", <<X("out")>>), IfOnly(F("a"), Return(N(0))), Run1("convert_to_boolean", <<X("out")>>), Return(N(0))>>,
  <<Do(Asg(TypeByte("out"), X("IS_TRUE"))), IfOnly(Eq(TypeByte("out"), X("IS_TRUE")), Return(N(0)))>>,
  <<Init1("y", N(0)), Init1("z", N(0)), While(Invoke("unread", <<>>), <<Set("x", X("y")), Set("y", X("z")), Add("z", N(1))>>)>>,
  <<While(F("a"), <<While(F("b"), <<Do(Inc("x")), IfOnly(Invoke("unread", <<>>), Break)>>), IfOnly(Eq(X("x"), N(2)), Break), Continue>>)>>,
  <<Label("again"), Do(Inc("x")), IfOnly(B("||", Eq(X("x"), F("a")), Eq(X("x"), N(1))), Goto("again"))>>,
  <<IfOnly(F("a"), Opaque), Set("x", N(1))>>,
  <<IfOnly(F("a"), Goto("after")), Group2(1, <<Init1("y", N(1))>>, <<Init1("y", N(2))>>), Set("x", X("y")), Label("after"),
    IfOnly(U("!", F("a")), Add("x", X("y")))>>,
  <<For(Init1("k", N(0)), B("<", X("k"), N(2)), Inc("k"),
      <<Group1(1, <<Set("x", X("k"))>>), Group2(2, <<Init1("y", X("k"))>>, <<Init1("y", N(1))>>), Choose1(X("y"), <<CaseOf(1), Set("x", N(2)), Break, CaseOf(0), Continue>>)>>)>>
>>

Finale == <<
  Label("done"),
  Either(Eq(X("x"), N(1)), SetKind("IS_STRING"), SetKind("IS_LONG")),
  IfOnly(Eq(X("x"), N(2)), Return(N(1))),
  Return(N(0)) >>

Operates(body) == Def(<<"code", "out", "a", "b">>, <<Init1("x", N(0)), Local1("i")>> \o body \o Finale)

\* Comparisons and string conversions.
Compares == <<
  <<IfOnly(Eq(F("a"), F("b")), Return(N(0))), IfOnly(F("a"), Return(Invoke("pick", <<X("b"), N(1)>>))), Return(Invoke("odd", <<X("a"), N(2)>>))>>,
  <<Run1("zend_throw_error", <<>>), Return(Invoke("pick", <<X("a"), N(0)>>))>>,
  <<Run1("fail", <<F("a")>>), IfOnly(F("b"), Run1("zend_clear_exception", <<>>)), Return(N(0))>>
>>
Effective == Arrow(Arrow(X("self"), "ce"), "__tostring")
Converse  == Run1("zend_call_known_instance_method_with_0_params", <<Effective, X("self"), X("out")>>)
Native    == Do(Asg(TypeOf("out"), X("type")))
Casts == <<
  <<IfOnly(Eq(X("type"), X("IS_STRING")), Block(<<IfOnly(Effective, Block(<<Converse, Return(N(0))>>)), Native, Return(N(0))>>)), Return(N(1))>>,
  <<IfOnly(Invoke("unread", <<>>), Native), IfOnly(Effective, Converse), Return(N(0))>>,
  <<Converse, IfOnly(Invoke("unread", <<>>), Native), Return(N(0))>>,
  <<IfOnly(Invoke("unread", <<>>), Return(N(1))), Converse, Run1("unread", <<X("out")>>), Native, Return(N(0))>>
>>

Request(slot, code, method, helpers, def) ==
  [functions |-> ("root" :> <<def>>) @@ helpers, conditions |-> One,
   root |-> "root", slot |-> slot, code |-> code, method |-> method]

\* Every two statements of a pool, one after the other.
PairsOf(pool, helpers) ==
  {Request("operation", 1, FALSE, helpers, Operates(<<pool[i], pool[j]>>)) :
     <<i, j>> \in {pair \in (1..Len(pool)) \X (1..Len(pool)) : pair[1] # pair[2]}}

Others(helpers) ==
  [k \in DOMAIN Extra |-> [Request("operation", 1, FALSE, helpers, Operates(Extra[k])) EXCEPT
                             !.conditions = IF k = Len(Extra) THEN Two ELSE @]]
  \o [k \in DOMAIN Compares |-> Request("compare", 0, FALSE, helpers, Def(<<"a", "b">>, Compares[k]))]
  \o [k \in DOMAIN Casts |-> Request("cast", Tags["IS_STRING"], TRUE, helpers, Def(<<"self", "out", "type">>, Casts[k]))]
  \o <<Request("cast", Tags["IS_STRING"], FALSE, helpers, Def(<<"self", "out", "type">>, Casts[1])),
       Request("cast", Tags["IS_LONG"], TRUE, helpers, Def(<<"self", "out", "type">>, Casts[1]))>>

MCPrograms == PairsOf(Pool, Helpers) \cup Range(Others(Helpers))
NoFrozen == [r \in {} |-> NoCells]

\* An element chosen by a condition is written, another one read.
AlternativePrograms ==
  {Request("operation", 1, FALSE, Helpers, Operates(<<
     Block(<<Array("t", 2), Do(Asg(At2(X("t"), N(0)), N(0))), Do(Asg(At2(X("t"), N(1)), N(0))),
             Either(F("a"), Set("i", N(0)), Set("i", N(1))),
             Do(Asg(At2(X("t"), X("i")), N(1))), Set("x", At2(X("t"), N(0)))>>)>>))}

\* Zeroed memory is passed to unread code on one of two paths.
JoinPrograms ==
  {Request("operation", 1, FALSE, Helpers, Operates(<<
     Block(<<Init1("s", Invoke("ecalloc", <<>>)), IfOnly(F("a"), Run1("unread", <<X("s")>>)),
             Set("x", Arrow(X("s"), "f"))>>)>>))}

\* A callee passes to unread code what its caller passed to unread code before.
SerialPrograms ==
  {Request("operation", 1, FALSE, Helpers @@ ("again" :> <<Def(<<"p">>, <<Run1("unread", <<X("p")>>)>>)>>),
     Operates(<<
       Run1("unread", <<U("&", X("x"))>>),
       IfOnly(Eq(X("x"), N(1)),
              Block(<<Run1("again", <<U("&", X("x"))>>),
                      IfOnly(U("!", Eq(X("x"), N(1))), Block(<<SetKind("IS_TRUE"), Return(N(0))>>))>>))>>))}

-----------------------------------------------------------------------------
(* What an answer promises.                                                *)

Atoms  == {literal[1] : literal \in UNION {Program.conditions[g] : g \in DOMAIN Program.conditions}}
Truths == [Atoms -> BOOLEAN]
Inputs == [{"a", "b"} -> Dom]

Operands(v) ==
  (<<"o", "op1">> :> [p \in Fields({"f"}) |-> Num(v["a"])]) @@ (<<"o", "op2">> :> [p \in Fields({"f"}) |-> Num(v["b"])])
Initially(v) ==
  Operands(v) @@ (Exceptions :> (Pending :> Nul)) @@ (<<"g", "shared">> :> (<<>> :> Undefined))
  @@ (Out :> [p \in {TypeInfo, <<Field("value")>>} |-> IF p = TypeInfo THEN Nul ELSE Undefined])
  @@ (<<"o", "self">> :> (<<Field("ce")>> :> Ptr(<<"o", "ce">>, <<>>)))
  @@ (<<"o", "ce">> :> (<<Field("__tostring")>> :> IF Program.method THEN Method ELSE Nul))

Concrete(truth, v) == Runs(Program, truth, Tags, Arguments(Program), Initially(v))

\* The symbols of a value, and those a path says something of.
Symbols(v) == {a[1][2] : a \in {w \in Alternatives(v) : w[1][1] \in {"sym", "masked", "test"}}}
Known(sid) == sid[1] = "at" /\ sid[2] \in {<<"o", "op1">>, <<"o", "op2">>} /\ sid[3] = <<Field("f")>> /\ sid[4] = 0

Means(v, sigma, c) ==
  LET Has(sid) == sigma[sid] IN
  CASE c = Undefined -> TRUE
    [] Is(v, "sym") -> IsNum(c) => Has(v[2]) = c[2]
    [] Is(v, "masked") -> IsNum(c) => Bits(Has(v[2]), v[3]) = c[2]
    [] Is(v, "test") -> IsNum(c) /\ c[2] = (IF (Bits(Has(v[2]), v[3]) = v[5]) = v[4] THEN 1 ELSE 0)
    [] Is(v, "any") -> TRUE
    [] OTHER -> v = c

\* An abstract exit stands for a concrete one of an input.
Stands(e, truth, v, value, c) ==
  LET s == e[2]
      literals == Literals(Program, truth)
      Abstract(rid, path) == Read(s, rid, path)
      watched == {<<e[1], value>>, <<Abstract(Out, TypeInfo), Peek(c, Out, TypeInfo)>>,
                  <<PendingException(s), Peek(c, Exceptions, Pending)>>}
                 \cup {<<Abstract(rid, <<Field("f")>>), Peek(c, rid, <<Field("f")>>)>> : rid \in {<<"o", "op1">>, <<"o", "op2">>}}
      sids == UNION {Symbols(w[1]) : w \in watched} \cup {k[1] : k \in DOMAIN s.facts}
      fixed == [sid \in {x \in sids : Known(x)} |-> IF sid[2][2] = "op1" THEN v["a"] ELSE v["b"]]
      Holds(sigma) ==
        /\ \A k \in DOMAIN s.facts :
             LET fact == s.facts[k]  n == Bits(sigma[k[1]], k[2]) IN
             IF fact[1] = "eq" THEN n = fact[2] ELSE n \notin fact[2]
        /\ \A w \in watched : \E a \in Alternatives(w[1]) : a[2] \subseteq literals /\ Means(a[1], sigma, w[2])
  IN /\ s.tags \subseteq literals
     /\ s.watch # {} => s.events = Distinct(c.events)
     /\ \E free \in [sids \ DOMAIN fixed -> Dom \cup IF Program.method THEN MethodTags ELSE {}] : Holds(fixed @@ free)

\* A complete answer covers every run of the C program: under every
\* configuration and from every input, some exit has its value, its output
\* type, its exception flag, its operands and its order of events
\* (handler_machine.execute_function and everything below it).  A comparison
\* stops at its first normal exit.
ExitsCovered ==
  result # <<>> /\ result[1].complete /\ Program.slot # "compare" =>
    \A truth \in Truths, v \in Inputs : \A r \in Concrete(truth, v) :
      \E e \in result[1].exits : Stands(e, truth, v, r[1], r[2])

KindOfTag(tag) == KindOf[CHOOSE t \in DOMAIN Tags : Tags[t] = tag[2]]

\* Whether the kinds cover the result of a run, and the order its events.
KindHolds(kinds, r) ==
  LET tag == Peek(r[2], Out, TypeInfo)
      normal == Peek(r[2], Exceptions, Pending) = Nul /\ (Program.slot = "compare" \/ r[1] = Nul)
  IN normal /\ "unknown" \notin kinds =>
       IF Program.slot = "compare" THEN "num" \in kinds
       ELSE tag \in {Num(n) : n \in Range(Tags)} => kinds \cap {"any", KindOfTag(tag)} # {}

OrderHolds(order, events) ==
  /\ "M" \in Range(events) => order # "none"
  /\ {"M", "N"} \subseteq Range(events) => order \in {"native_first", "method_first"}
  /\ Before(events, "N", "M") => order = "native_first"

AnswerHolds(kinds, order) ==
  \A truth \in Truths, v \in Inputs : \A r \in Concrete(truth, v) :
    /\ KindHolds(kinds, r)
    /\ Program.method /\ Program.code = Tags["IS_STRING"] => OrderHolds(order, r[2].events)

\* The facts a complete answer emits hold of every run: the kind of a normal
\* result is among the kinds, and the dispatch order is that of no run
\* contradicted by it (Summarizer.classify).
AnswerCovered ==
  result # <<>> /\ result[1].complete =>
    AnswerHolds(Results(result[1]), DispatchOrder({e[2].events : e \in result[1].exits}))
=============================================================================
