---------------------------- MODULE SummaryTable ----------------------------
(***************************************************************************)
(* What ProcedureSummaries promises to its callers (handler_summary.py and *)
(* extract_throws.py): a cache of final answers.  A procedure is answered  *)
(* at most once, with a value its own evaluation confirms over the answers *)
(* it reads, or with a value that needs no confirmation (a closed summary, *)
(* or the one a request was completed with).                               *)
(***************************************************************************)
EXTENDS Naturals, Sequences

CONSTANTS Value, History, Join(_, _), Closed(_), Step(_, _)

VARIABLES
  answers,   \* a function from the answered procedures to Value
  closing    \* those whose evaluation closed the request that asked for them

Init == answers = [n \in {} |-> {}] /\ closing = {}

\* An evaluation of n over the answers t reads answered procedures only and
\* returns nothing that its answer does not already hold.
Confirmed(n, t) ==
  \E h \in History :
    /\ \A k \in 1..Len(h) :
         LET s == Step(n, SubSeq(h, 1, k - 1))
         IN s.op = "read" /\ s.callee \in DOMAIN t /\ h[k] = t[s.callee]
    /\ Step(n, h).op = "return"
    /\ Join(t[n], Step(n, h).value) = t[n]

\* Procedures are answered together when they are recursive.
Answer ==
  /\ DOMAIN answers \subseteq DOMAIN answers'
  /\ \A n \in DOMAIN answers : answers'[n] = answers[n]
  /\ closing \subseteq closing' /\ closing' \subseteq DOMAIN answers'
  /\ closing' \cap DOMAIN answers = closing
  /\ \A n \in DOMAIN answers' \ DOMAIN answers :
       /\ answers'[n] \in Value
       /\ Closed(answers'[n]) \/ n \in closing' \/ Confirmed(n, answers')

Spec == Init /\ [][Answer]_<<answers, closing>>
=============================================================================
