----------------------- MODULE MCProcedureSummaries -----------------------
(***************************************************************************)
(* Small domains for ProcedureSummaries.  A procedure is a list of reads,  *)
(* some of them made only once an earlier read has returned a tag (a       *)
(* handler path that opens when its guard can hold); its summary is the    *)
(* set of tags it reaches.  The summary of an exhausted evaluation is the  *)
(* set with "unknown", which a reader turns into every tag, as the handler *)
(* machine does for a call it knows nothing of (unknown_call).             *)
(***************************************************************************)
EXTENDS ProcedureSummaries

Tags == {"num", "str"}
UnknownTags == Tags \cup {"unknown"}
Exceptions == {"thrown", "caught"}
TagSets == SUBSET Tags \cup {UnknownTags}
AllSets == SUBSET (Tags \cup Exceptions) \cup {UnknownTags}

\* Handler outcomes are joined, throws summaries replaced.
JoinTags(x, y) ==
  IF (x \cup y) \cap Exceptions # {} THEN y
  ELSE IF "unknown" \in x \cup y THEN UnknownTags ELSE x \cup y
Incomplete(x) == "unknown" \in x

\* A read: of whom, eagerly or not, and the tag that must have been seen.
Call(c, e, w) == [callee |-> c, eager |-> e, when |-> w]
Always == {}
Seen(x) == IF Incomplete(x) THEN Tags ELSE x

\* The evaluation of a body: <<reads made, tags seen>> after its first i items.
Walk(body, base, h) ==
  LET W[i \in 0..Len(body)] ==
        IF i = 0 THEN [used |-> 0, seen |-> base, next |-> 0]
        ELSE LET w == W[i - 1] IN
             CASE w.next # 0 \/ ~(body[i].when \subseteq w.seen) -> w
               [] w.used = Len(h) -> [w EXCEPT !.next = i]
               [] OTHER -> [w EXCEPT !.used = @ + 1,
                                     !.seen = @ \cup Seen(h[w.used + 1])]
  IN W[Len(body)]

BodyStep(body, base, closes, h) ==
  LET w == Walk(body, base, h) IN
  CASE closes /\ w.used > 0 /\ w.seen # {} -> [op |-> "complete", value |-> w.seen]
    [] w.next # 0 -> [op |-> "read", callee |-> body[w.next].callee,
                                     eager |-> body[w.next].eager]
    [] OTHER -> [op |-> "return", value |-> w.seen]

-----------------------------------------------------------------------------
(* Handler inputs: eager reads, evaluations resumed at the instruction     *)
(* that suspended them, outcomes joined.                                   *)

HandlerNodes == {"main", "left", "right", "late", "leaf"}
HandlerBase == [n \in HandlerNodes |-> CASE n = "left" -> {"num"} [] n = "late" -> {"str"}
                                          [] OTHER -> {}]
HandlerBody ==
  [n \in HandlerNodes |->
     CASE n = "main"  -> <<Call("left", TRUE, Always), Call("leaf", TRUE, {"str"})>>
       [] n = "left"  -> <<Call("right", TRUE, Always)>>
       [] n = "right" -> <<Call("leaf", TRUE, Always), Call("late", TRUE, {"num"})>>
       [] n = "late"  -> <<Call("leaf", FALSE, Always), Call("late", TRUE, Always)>>
       [] OTHER       -> <<Call("left", TRUE, Always)>>]
HandlerStep(n, h) == BodyStep(HandlerBody[n], HandlerBase[n], FALSE, h)
HandlerRequests == {{"main"}, {"right"}, {"late"}, {"left", "leaf"}}
NoGiven == [n \in Node |-> {}]
KeepReads(n, h) == Len(h)
DropReads(n, h) == 0

(* A compare request that closes, beside requests for the same callees.    *)
CompareNodes == {"request", "plain", "callee", "deep"}
CompareBase == [n \in CompareNodes |-> CASE n = "callee" -> {"num"} [] n = "deep" -> {"str"}
                                          [] OTHER -> {}]
CompareBody ==
  [n \in CompareNodes |->
     CASE n = "request" -> <<Call("deep", FALSE, Always), Call("callee", TRUE, Always)>>
       [] n = "plain"   -> <<Call("callee", TRUE, Always), Call("deep", FALSE, {"str"})>>
       [] n = "callee"  -> <<Call("deep", TRUE, Always)>>
       [] OTHER         -> <<Call("callee", TRUE, Always)>>]
CompareStep(n, h) == BodyStep(CompareBody[n], CompareBase[n], n = "request", h)
CompareRequests == {{"request"}, {"plain"}, {"deep"}, {"request", "plain"}}

(* Definitions with throws elements: plain reads of callees declared up    *)
(* front, summaries replaced by each evaluation.                           *)
ThrowNodes == {"entry", "check", "raise", "loop"}
ThrowBase == [n \in ThrowNodes |-> CASE n = "raise" -> {"thrown"} [] n = "loop" -> {"caught"}
                                      [] OTHER -> {}]
ThrowBody ==
  [n \in ThrowNodes |->
     CASE n = "entry" -> <<Call("check", FALSE, Always), Call("loop", FALSE, Always)>>
       [] n = "check" -> <<Call("raise", FALSE, Always), Call("check", FALSE, {"thrown"})>>
       [] n = "loop"  -> <<Call("check", FALSE, Always), Call("entry", FALSE, {"thrown"})>>
       [] OTHER       -> <<>>]
ThrowStep(n, h) == BodyStep(ThrowBody[n], ThrowBase[n], FALSE, h)
ThrowGiven == [n \in ThrowNodes |-> {ThrowBody[n][i].callee : i \in DOMAIN ThrowBody[n]}]
ThrowRequests == {ThrowNodes, {"raise", "check"}, {"loop"}}

(* One driver of each kind. *)
CompareAndThrowNodes == CompareNodes \cup ThrowNodes
CompareAndThrowStep(n, h) == IF n \in ThrowNodes THEN ThrowStep(n, h) ELSE CompareStep(n, h)
CompareAndThrowRequests == CompareRequests \cup ThrowRequests
CompareAndThrowGiven == [n \in CompareAndThrowNodes |-> IF n \in ThrowNodes THEN ThrowGiven[n] ELSE {}]

-----------------------------------------------------------------------------
\* What n's evaluation returns when its callees have the summaries t.
Evaluated(n, t) ==
  LET E[h \in History] == LET s == Step(n, h)
                          IN IF s.op = "read" THEN E[Append(h, t[s.callee])] ELSE s.value
  IN E[<<>>]

\* The least solution of the evaluations, the pinned summaries being given:
\* those closed, and those a request was completed with.
Least ==
  LET pinned == {n \in Known : Closed(summaries[n]) \/ n \in completed}
      L[k \in 0..4 * 3] ==
        [n \in Node |-> CASE n \in pinned -> summaries[n]
                          [] n \notin pinned /\ k = 0 -> {}
                          [] OTHER -> Evaluated(n, L[k - 1])]
  IN L[4 * 3]

\* The driver computes least fixpoints: a summary on its way never holds more
\* than the least solution does, and a final one holds all of it.
SummariesAreLeast ==
  \A n \in Known : /\ summaries[n] \subseteq Least[n]
                   /\ n \in Settled => summaries[n] = Least[n]
=============================================================================
