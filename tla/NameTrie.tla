------------------------------ MODULE NameTrie ------------------------------
(***************************************************************************)
(* The canonical-name query (BuiltinNameTrie.kt, NamePattern.kt): names    *)
(* added to a trie, a pattern of literal characters and gaps, and a cursor *)
(* that searches the trie depth first as its consumer calls hasNext and    *)
(* next.  A node of the trie is the prefix it stands for, a state of the   *)
(* pattern the set of its active positions.                                *)
(***************************************************************************)
EXTENDS Naturals, Sequences, FiniteSets

CONSTANTS
  Char, Separator, \* the characters, and the root separator among them
  Gap,             \* the symbol of an unresolved part
  Name,            \* the canonical names that may be added
  Pattern,         \* the patterns that may be asked, over Char and Gap
  MaxNames         \* bound on the names of one trie

\* A subject has a name: the root of the trie stands for none, and the cursor
\* never tests it for a match.
ASSUME NameAssumption ==
  /\ Name \subseteq Seq(Char) \ {<<>>} /\ Separator \in Char /\ Gap \notin Char
  /\ Pattern \subseteq Seq(Char \cup {Gap}) /\ MaxNames \in Nat

VARIABLES
  names,        \* the names added, in order
  children,     \* node -> its outgoing characters, in insertion order
  pattern,      \* the cursor's pattern
  frames,       \* the cursor's stack: node, children read, active positions
  call,         \* "closed" before a query; "idle", "hasNext" or "next" after
  pending,      \* the match found and not delivered: a sequence of at most one
  delivered,    \* the names next() returned
  ended,        \* hasNext() has answered false, or next() has thrown
  visitedNodes  \* the cursor's counter

vars == <<names, children, pattern, frames, call, pending, delivered, ended, visitedNodes>>

Elements(s) == {s[i] : i \in DOMAIN s}
Prefix(w, n) == SubSeq(w, 1, n)

Init ==
  /\ names = <<>> /\ children = [node \in {<<>>} |-> <<>>]
  /\ pattern = <<>> /\ frames = <<>> /\ call = "closed" /\ pending = <<>>
  /\ delivered = <<>> /\ ended = FALSE /\ visitedNodes = 0

-----------------------------------------------------------------------------
(* The trie                                                                *)

\* A node that gains an outgoing edge for every name that passes through it.
AlwaysNew(cs, c) == Append(cs, c)

\* getOrPut keeps the edge that is there.
GetOrPut(cs, c) == IF c \in Elements(cs) THEN cs ELSE Append(cs, c)

\* add(): a canonical subject is inserted once.
Add(name) ==
  /\ call = "closed" /\ Len(names) < MaxNames /\ name \notin Elements(names)
  /\ names' = Append(names, name)
  /\ LET path == {Prefix(name, n) : n \in 0..Len(name)}
         edges(p) == IF p \in DOMAIN children THEN children[p] ELSE <<>>
     IN children' = [p \in DOMAIN children \cup path |->
          IF p \in path /\ p # name THEN GetOrPut(edges(p), name[Len(p) + 1]) ELSE edges(p)]
  /\ UNCHANGED <<pattern, frames, call, pending, delivered, ended, visitedNodes>>

-----------------------------------------------------------------------------
(* The pattern                                                             *)

\* A closure that follows one gap only.
CloseOnce(p, S) == S \cup {i + 1 : i \in {j \in S : j < Len(p) /\ p[j + 1] = Gap}}

\* A gap may be empty, and so may each gap of a run of gaps.
Close(p, S) == {j \in 0..Len(p) : \E i \in S : i <= j /\ \A k \in (i + 1)..j : p[k] = Gap}

Advance(p, S, c) ==
  Close(p, {i \in S : i < Len(p) /\ p[i + 1] = Gap}
           \cup {i + 1 : i \in {j \in S : j < Len(p) /\ p[j + 1] = c}})

\* The positions before any character.
Bare(p) == Close(p, {0})

\* A start that reads a pattern's root separator as part of the name.
NoRoot(p) == Bare(p)

\* A canonical name may have one leading root separator.
Initial(p) == Bare(p) \cup Advance(p, Bare(p), Separator)

Accepts(p, S) == Len(p) \in S

\* NamePattern.matches on one name.
MatchesName(p, w) ==
  LET after[n \in 0..Len(w)] == IF n = 0 THEN Initial(p) ELSE Advance(p, after[n - 1], w[n])
  IN Accepts(p, after[Len(w)])

-----------------------------------------------------------------------------
(* The cursor                                                              *)

Query(p) ==
  /\ call = "closed"
  /\ pattern' = p /\ call' = "idle"
  /\ frames' = <<[node |-> <<>>, next |-> 1, state |-> Initial(p)]>>
  /\ UNCHANGED <<names, children, pending, delivered, ended, visitedNodes>>

\* A hasNext that searches on although a match is waiting.
SearchesOn == pending' = <<>> /\ UNCHANGED <<delivered, ended>>

\* hasNext and next search only when no match is waiting.
KeepsPending == UNCHANGED <<pending, delivered, ended>>

Calls(method) ==
  /\ call = "idle" /\ ~ended
  /\ call' = method /\ KeepsPending
  /\ UNCHANGED <<names, children, pattern, frames, visitedNodes>>

Top == frames[Len(frames)]
Below == SubSeq(frames, 1, Len(frames) - 1)
Searching == call \in {"hasNext", "next"} /\ pending = <<>> /\ frames # <<>>

\* findNext: a frame whose children are read is left.
Leave ==
  /\ Searching /\ Top.next > Len(children[Top.node])
  /\ frames' = Below
  /\ UNCHANGED <<names, children, pattern, call, pending, delivered, ended, visitedNodes>>

\* visitChild: descend while a position is active, and stop at a match.
VisitChild ==
  /\ Searching /\ Top.next <= Len(children[Top.node])
  /\ LET c     == children[Top.node][Top.next]
         node  == Append(Top.node, c)
         state == Advance(pattern, Top.state, c)
         read  == Append(Below, [Top EXCEPT !.next = @ + 1])
     IN IF state = {}
        THEN frames' = read /\ pending' = <<>>
        ELSE /\ frames' = Append(read, [node |-> node, next |-> 1, state |-> state])
             /\ pending' = IF node \in Elements(names) /\ Accepts(pattern, state)
                           THEN <<node>> ELSE <<>>
  /\ visitedNodes' = visitedNodes + 1
  /\ UNCHANGED <<names, children, pattern, call, delivered, ended>>

Found == call \in {"hasNext", "next"} /\ (pending # <<>> \/ frames = <<>>)

HasNextReturns ==
  /\ Found /\ call = "hasNext"
  /\ call' = "idle" /\ ended' = (pending = <<>>)
  /\ UNCHANGED <<names, children, pattern, frames, pending, delivered, visitedNodes>>

\* next delivers the waiting match, or throws NoSuchElementException.
NextReturns ==
  /\ Found /\ call = "next"
  /\ call' = "idle" /\ ended' = (pending = <<>>)
  /\ delivered' = delivered \o pending /\ pending' = <<>>
  /\ UNCHANGED <<names, children, pattern, frames, visitedNodes>>

Next ==
  \/ \E n \in Name : Add(n)
  \/ \E p \in Pattern : Query(p)
  \/ Calls("hasNext") \/ Calls("next")
  \/ Leave \/ VisitChild \/ HasNextReturns \/ NextReturns

Spec == Init /\ [][Next]_vars

-----------------------------------------------------------------------------
(* What a query promises.                                                  *)

\* w can be cut into the pattern's symbols: one character for a literal, any
\* stretch for a gap.
Spells(p, w) ==
  \E cut \in [0..Len(p) -> 0..Len(w)] :
    /\ cut[0] = 0 /\ cut[Len(p)] = Len(w)
    /\ \A k \in 1..Len(p) :
         /\ cut[k - 1] <= cut[k]
         /\ p[k] # Gap => cut[k] = cut[k - 1] + 1 /\ w[cut[k]] = p[k]

Denotes(p, w) == Spells(p, w) \/ Spells(p, <<Separator>> \o w)

\* Whatever mix of hasNext and next the consumer calls, it is given names that
\* were added and that the pattern denotes, each once, and all of them by the
\* time the cursor says there is no more (BuiltinNameTrieTest.kt).
EveryMatchOnce ==
  call # "closed" =>
    LET matching == {n \in Elements(names) : Denotes(pattern, n)}
    IN /\ Elements(delivered \o pending) \subseteq matching
       /\ \A i, j \in 1..Len(delivered \o pending) :
            (delivered \o pending)[i] = (delivered \o pending)[j] => i = j
       /\ ended => Elements(delivered) = matching

\* Matching one name and querying the trie apply the same positions, and those
\* compute what the pattern denotes.
SingleNameAgrees ==
  call # "closed" =>
    \A n \in Elements(names) : MatchesName(pattern, n) <=> Denotes(pattern, n)

\* The cost spec-merge.md states for a query: no node is visited twice, and the
\* stack is no deeper than the longest name.
TraversalBounded ==
  /\ visitedNodes < Cardinality(DOMAIN children) \/ visitedNodes = 0
  /\ call # "closed" => \A k \in 1..Len(frames) :
       /\ frames[k].state # {}
       /\ \E n \in Elements(names) \cup {<<>>} : k <= Len(n) + 1
=============================================================================
