------------------------- MODULE MCThrowsEvaluation -------------------------
(***************************************************************************)
(* A handler and three helpers: raise(ce, flag), which throws the class it *)
(* is passed, fill(object, ce), which creates into its parameter, and      *)
(* relay(), which calls raise, with bodies that call each other and the    *)
(* handler.                                                                *)
(***************************************************************************)
EXTENDS ThrowsEvaluation

P(i)     == [op |-> "param", index |-> i]
NotP(i)  == [op |-> "not param", index |-> i]
C(c)     == [op |-> "class", class |-> c]
V(v)     == [op |-> "local", var |-> v]
O(v)     == [op |-> "object", var |-> v]
Of(o)    == [op |-> "class of", object |-> o]
Or(x, y) == [op |-> "either", then |-> x, else |-> y]
True     == [op |-> "true"]
False    == [op |-> "false"]

K(kind, to, args, guards, classes) ==
  [kind |-> kind, to |-> to, args |-> args, guards |-> guards, default |-> "Error", armed |-> TRUE,
   classes |-> classes]
ThrowClass(e, g)  == K("throw class", {}, <<e>>, g, {})
ThrowObject(e, g) == K("throw object", {}, <<e>>, g, {})
InitObject(o, ce) == K("init", {}, <<o, ce>>, {}, {})
Specifier         == K("specifier", {}, <<>>, {}, {"ValueError"})
Raise(ce, f, g)   == K("call", {"raise"}, <<ce, f>>, g, {})
Fill(o, ce, g)    == K("call", {"fill"}, <<o, ce>>, g, {})
Main              == K("call", {"main"}, <<>>, {}, {})
Relay             == K("call", {"relay"}, <<>>, {}, {})
Result(call)      == [op |-> "result", call |-> call]
Disarmed          == [ThrowClass(C("A"), {}) EXCEPT !.armed = FALSE]
Named             == K("reference", {"raise"}, <<>>, {}, {})

B(calls, returns, assigned) == [calls |-> calls, returns |-> returns, assigns |-> [v \in {"v"} |-> assigned]]
On(i)  == <<i, TRUE>>
Off(i) == <<i, FALSE>>

\* A call whose result is an argument stands in the body behind the call it is passed to.
MainCalls ==
  <<<<Raise(C("A"), True, {})>>, <<Raise(Null, False, {})>>, <<Raise(V("v"), True, {})>>,
    <<Fill(O("o"), C("A"), {})>>, <<Fill(O("o"), V("v"), {})>>, <<ThrowObject(O("o"), {})>>,
    <<ThrowClass(Of(O("o")), {})>>, <<InitObject(O("o"), C("B"))>>, <<Named>>,
    <<ThrowClass(Result(Raise(C("A"), True, {})), {}), Raise(C("A"), True, {})>>, <<Specifier>>>>
RaiseBodies ==
  <<B(<<ThrowClass(P(1), {On(2)})>>, <<P(1)>>, <<>>),
    B(<<ThrowClass(Or(P(1), C("B")), {Off(2)}), Main>>, <<V("v")>>, <<P(1), Null>>),
    B(<<Raise(C("B"), NotP(2), {On(2)}), ThrowClass(P(1), {Off(2)})>>, <<C("B")>>, <<>>),
    B(<<Fill(O("o"), P(1), {}), ThrowObject(O("o"), {})>>, <<Null>>, <<>>),
    B(<<ThrowClass(P(1), {On(2), Off(2)}), Disarmed>>, <<>>, <<>>),
    B(<<Fill(O("o"), C("A"), {On(2)}), ThrowObject(O("o"), {On(2)})>>, <<>>, <<>>)>>
FillBodies ==
  <<B(<<InitObject(P(1), P(2))>>, <<>>, <<>>),
    B(<<InitObject(P(1), P(2)), Raise(C("A"), True, {})>>, <<>>, <<>>),
    B(<<Fill(P(1), C("A"), {}), ThrowObject(P(1), {}), InitObject(P(1), C("B"))>>, <<>>, <<>>),
    B(<<InitObject(P(1), C("A")), Main>>, <<>>, <<>>),
    B(<<ThrowClass(P(2), {On(2)}), InitObject(P(1), P(2))>>, <<>>, <<>>),
    B(<<ThrowClass(Of(P(1)), {})>>, <<>>, <<>>),
    B(<<InitObject(P(1), C("A")), Relay, Raise(C("A"), False, {})>>, <<>>, <<>>)>>

Defs  == {"main", "raise", "fill", "relay"}
Sizes == [d \in Defs |-> IF d \in {"raise", "fill"} THEN 2 ELSE 0]
AllBodies ==
  [d \in Defs |->
     CASE d = "main"  -> [k \in 1..121 |-> B(MainCalls[((k - 1) \div 11) + 1] \o MainCalls[((k - 1) % 11) + 1],
                                             <<>>, <<V("v"), C("B")>>)]
       [] d = "raise" -> RaiseBodies
       [] d = "fill"  -> FillBodies
       [] d = "relay" -> <<B(<<Raise(C("B"), True, {})>>, <<>>, <<>>)>>]
AllPrograms ==
  {[d \in Defs |-> CASE d = "main" -> t[1] [] d = "raise" -> t[2] [] d = "fill" -> t[3] [] OTHER -> 1] :
     t \in (1..121) \X (1..6) \X (1..7)}
=============================================================================
