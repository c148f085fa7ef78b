--------------------------- MODULE HandlerMemory ---------------------------
(***************************************************************************)
(* The abstract memory of the handler machine (tools/handler_memory.py):   *)
(* the values an expression can have, regions of cells addressed by field  *)
(* paths, the states that own them, and the joins that make one state of   *)
(* several.                                                                *)
(*                                                                         *)
(* Values, symbols and regions' names are tuples whose first component     *)
(* says what they are.  An Alt keeps its (value, conditions) pairs as a    *)
(* set: the code's order of them decides nothing but their order.  A       *)
(* region nobody has put in a state is read where it is needed instead of  *)
(* being stored by the read, so two states that differ only in what they   *)
(* have looked at are equal here.                                          *)
(***************************************************************************)
EXTENDS Integers, Sequences, FiniteSets, FiniteSetsExt, SequencesExt, Functions

CONSTANTS
  AltCap,    \* the alternatives one value may have (ALT_CAP)
  Frozen     \* State.base: the regions of the frozen registration state

AnyV        == <<"any">>
Symbolic    == <<"symbolic">>
Num(n)      == <<"int", n>>
Sym(sid)    == <<"sym", sid>>
Masked(sid, mask)             == <<"masked", sid, mask>>
Test(sid, mask, equal, const) == <<"test", sid, mask, equal, const>>
Ptr(rid, path)                == <<"ptr", rid, path>>
Fn(name)    == <<"fn", name>>
Fill(v)     == <<"fill", v>>
Havoc(n)    == <<"havoc", n>>
Agg(cells)  == <<"agg", cells>>

Is(v, kind) == v[1] = kind
IsNum(v)    == Is(v, "int")
IsPtr(v)    == Is(v, "ptr")

\* The (value, conditions) pairs a value stands for.
Alternatives(v) == IF Is(v, "alt") THEN v[2] ELSE {<<v, {}>>}

\* The symbol of the memory at a path of a region, and the region it points to.
At(rid, path, serial) == <<"at", rid, path, serial>>
Deref(sid)            == <<"y", sid>>
Pointed(v)            == IF Is(v, "sym") THEN Ptr(Deref(v[2]), <<>>) ELSE v

-----------------------------------------------------------------------------
(* Regions.                                                                *)

Region(base, cells) == [base |-> base, cells |-> cells]
NoCells  == <<>>
Unwritten == Region(AnyV, NoCells)

Rest(p, path)  == SubSeq(p, Len(path) + 1, Len(p))
Under(r, path) == {p \in DOMAIN r.cells : IsPrefix(path, p)}

\* The nearest Fill at or above a path, and <<>> when a cell that is none hides it.
FillAbove(r, path) ==
  LET above == Prefixes(path) \cap DOMAIN r.cells
      cell  == r.cells[SubSeq(path, 1, Max({Len(p) : p \in above}))]
  IN IF above = {} THEN <<>>
     ELSE IF Is(cell, "fill") THEN cell
     ELSE IF cell = Num(0) THEN Fill(Num(0)) ELSE <<>>

\* The cells at or below a path, relative to it.
Relative(r, S, path) == [q \in {Rest(p, path) : p \in S} |-> r.cells[path \o q]]

Covered(fill, cells) == IF fill = <<>> THEN cells ELSE (<<>> :> fill) @@ cells

ReadRegion(r, path) ==
  LET fill  == FillAbove(r, path)
      below == Under(r, path) \ {path}
  IN IF path \in DOMAIN r.cells /\ ~Is(r.cells[path], "fill") THEN r.cells[path]
     ELSE IF below # {} THEN Agg(Covered(fill, Relative(r, below, path)))
     ELSE IF fill # <<>> THEN fill[2] ELSE r.base

\* Every cell below a path, with the Fill covering them.
TreeOf(r, path) ==
  LET fill == FillAbove(r, path)
      here == Under(r, path)
  IN IF here = {} /\ fill = <<>> THEN <<>> :> Fill(r.base)
     ELSE Covered(fill, Relative(r, here, path))

\* What a location of a region holds when other regions have a cell for it.
CellAt(r, path) ==
  IF path \in DOMAIN r.cells THEN r.cells[path]
  ELSE LET fill == FillAbove(r, path) IN IF fill # <<>> THEN fill[2] ELSE r.base

\* The alternatives of values, each under the conditions its state holds
\* alone: S is a set of <<value, conditions>> pairs.
JoinValues(S) ==
  LET items == UNION {{<<a[1], a[2] \cup p[2]>> : a \in Alternatives(p[1])} : p \in S}
  IN IF Cardinality(items) > AltCap THEN AnyV ELSE <<"alt", items>>

JoinCells(S) ==
  LET fills == {p \in S : Is(p[1], "fill")}
  IN IF \A p, q \in S : p[1] = q[1] THEN (CHOOSE p \in S : TRUE)[1]
     ELSE IF fills = S THEN Fill(JoinValues({<<p[1][2], p[2]>> : p \in S}))
     ELSE IF fills # {} THEN AnyV
     ELSE JoinValues(S)

\* One region of several: S is a set of <<region, conditions>> pairs.
JoinRegions(S) ==
  LET one   == (CHOOSE p \in S : TRUE)[1]
      paths == UNION {DOMAIN p[1].cells : p \in S}
  IN IF \A p \in S : p[1] = one THEN one
     ELSE Region(IF \A p \in S : p[1].base = one.base THEN one.base ELSE AnyV,
                 [q \in paths |-> JoinCells({<<CellAt(p[1], q), p[2]>> : p \in S})])

-----------------------------------------------------------------------------
(* States.                                                                 *)

\* The region of the exception flag.
Exceptions == <<"g", "executor_globals">>
Pending    == <<<<"exception">>>>

\* World.initial: what a region holds that nothing has written yet.
Symbolised(rid) == rid[1] \in {"g", "y"}
Initial(rid) == Region(Symbolic, IF rid = Exceptions THEN Pending :> Num(0) ELSE NoCells)

\* The regions a state can read: its own, the frozen ones and the world's.
Present(s, rid) == rid \in DOMAIN s.mem \cup DOMAIN Frozen \/ Symbolised(rid)
Original(rid)   == IF rid \in DOMAIN Frozen THEN Frozen[rid]
                   ELSE IF Symbolised(rid) THEN Initial(rid) ELSE Unwritten
RegionOf(s, rid) == IF rid \in DOMAIN s.mem THEN s.mem[rid] ELSE Original(rid)

\* need is the procedure input an evaluation suspends on, <<>> for none.
NewState == [mem |-> NoCells, facts |-> NoCells, tags |-> {}, events |-> <<>>,
             serial |-> 0, watch |-> {}, need |-> <<>>]

\* State.read: an unknown location reads as the symbol of that location.
Read(s, rid, path) ==
  LET v == ReadRegion(RegionOf(s, rid), path)
  IN IF v = Symbolic THEN Sym(At(rid, path, 0))
     ELSE IF Is(v, "havoc") THEN Sym(At(rid, path, v[2])) ELSE v

Tree(s, rid, path) == TreeOf(RegionOf(s, rid), path)

Put(s, rid, r) == [s EXCEPT !.mem = (rid :> r) @@ @]
Drop(s, rids)  == [s EXCEPT !.mem = [r \in DOMAIN @ \ rids |-> @[r]]]

\* The symbol a value derives from, through a fill, a mask and dereferences.
RECURSIVE Source(_)
Source(name) == IF name[1] = "y" THEN Source(name[2])
                ELSE IF name[1] = "at" THEN Source(name[2]) ELSE name

MethodResult == <<"m", "result">>

\* Symbols of the user method, and the names a callee's input gives them.
User(root) == root[1] \in {"m", "mp"}

MethodDerived(v) ==
  \A a \in Alternatives(IF Is(v, "fill") THEN v[2] ELSE v) :
    a[1][1] \in {"sym", "masked"} /\ User(Source(a[1][2]))

\* A watched region received a value the user method did not produce.
Note(s, rid, values) ==
  IF rid \in s.watch /\ (\E v \in values : ~MethodDerived(v))
     /\ (s.events = <<>> \/ Last(s.events) # "N")
  THEN [s EXCEPT !.events = Append(@, "N")] ELSE s

\* State.write_tree: the subtree at a path becomes this one.
WriteTree(s, rid, path, tree) ==
  LET r    == RegionOf(s, rid)
      kept == DOMAIN r.cells \ Under(r, path)
      new  == {path \o q : q \in DOMAIN tree}
  IN Put(Note(s, rid, {tree[q] : q \in DOMAIN tree}), rid,
         [r EXCEPT !.cells = [p \in kept \cup new |->
                                IF p \in new THEN tree[Rest(p, path)] ELSE @[p]]])

\* The aggregate of alternatives some of which are aggregates.
JoinedAggregate(v) ==
  JoinRegions({<<Region(AnyV, IF Is(a[1], "agg") THEN a[1][2] ELSE <<>> :> Fill(a[1])), a[2]>>
               : a \in Alternatives(v)})

Write(s, rid, path, v) ==
  IF Is(v, "agg") THEN WriteTree(s, rid, path, v[2])
  ELSE IF Is(v, "alt") /\ \E a \in v[2] : Is(a[1], "agg")
       THEN WriteTree(s, rid, path, TreeOf(JoinedAggregate(v), <<>>))
  ELSE WriteTree(s, rid, path, <<>> :> v)

\* Unread code wrote every location below a path.
HavocAt(s, rid, path) ==
  Write([s EXCEPT !.serial = @ + 1], rid, path, Fill(Havoc(s.serial + 1)))

Heap(n) == <<"h", n>>
Allocate(s, base) == Put([s EXCEPT !.serial = @ + 1], Heap(s.serial + 1), Region(base, NoCells))

\* What tells two states apart at a join point: not their conditions.
Key(s) == [mem |-> s.mem, events |-> s.events, facts |-> s.facts, need |-> s.need]

\* The live lexical choices that must agree before states can join.
ConfigurationKey(s) ==
  {<<rid, ReadRegion(s.mem[rid], <<>>)>> : rid \in {x \in DOMAIN s.mem : x[1] = "k"}}

Distinct(seq) == FoldLeft(LAMBDA acc, x : IF Contains(acc, x) THEN acc ELSE Append(acc, x), <<>>, seq)

\* One state of several with one event history.
JoinStates(S) ==
  LET one    == CHOOSE s \in S : TRUE
      common == {t \in one.tags : \A s \in S : t \in s.tags}
      rids   == UNION {DOMAIN s.mem : s \in S}
      Of(rid) == {<<RegionOf(s, rid), s.tags \ common>> : s \in {x \in S : Present(x, rid)}}
  IN IF Cardinality(S) = 1 THEN one
     ELSE [one EXCEPT
            !.mem    = [rid \in rids |-> JoinRegions(Of(rid))],
            !.facts  = [k \in {k \in DOMAIN one.facts :
                                 \A s \in S : k \in DOMAIN s.facts /\ s.facts[k] = one.facts[k]}
                          |-> one.facts[k]],
            !.tags   = common,
            !.events = Distinct(@),
            !.serial = Max({s.serial : s \in S})]

PendingException(s) == Read(s, Exceptions, Pending)
History(s) == <<s.events, PendingException(s), ConfigurationKey(s), s.need>>

\* States with one history become one; other histories stay apart.
JoinByEvents(S) ==
  {JoinStates({s \in S : History(s) = h}) : h \in {History(s) : s \in S}}

\* Exits, <<value, state>> pairs, are joined alike, their values too.
JoinedExit(E) ==
  LET states == {e[2] : e \in E}
      common == {t \in UNION {s.tags : s \in states} : \A s \in states : t \in s.tags}
      values == {e[1] : e \in E}
  IN <<IF Cardinality(values) = 1 THEN CHOOSE v \in values : TRUE
       ELSE JoinValues({<<e[1], e[2].tags \ common>> : e \in E}), JoinStates(states)>>

JoinExits(E) ==
  {JoinedExit({e \in E : History(e[2]) = h}) : h \in {History(e[2]) : e \in E}}
=============================================================================
