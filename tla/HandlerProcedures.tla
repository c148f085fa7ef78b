------------------------- MODULE HandlerProcedures -------------------------
(***************************************************************************)
(* Procedure inputs and outcomes of the handler domain                     *)
(* (tools/handler_summary.py): what of a caller's state a callee's run     *)
(* depends on, under names that do not depend on the caller, and what of a *)
(* finished run goes back to a caller.                                     *)
(*                                                                         *)
(* A region a caller passes is renamed to <<"p", i>>, a symbol to the      *)
(* symbol <<"p", i>>; those of an operand or of the user method keep their *)
(* origin in the name (<<"op", i>>, <<"mp", i>>).  i is the order in which *)
(* the region was reached; the code's order of a region's cells is the     *)
(* order of their creation, here any order.                                *)
(***************************************************************************)
EXTENDS HandlerValues

\* The regions a value's pointers and symbols lead to.
PointerRegions(v) ==
  LET One(w) == CASE IsPtr(w) -> {w[2]}
                  [] w[1] \in {"sym", "masked", "test"} -> {Deref(w[2])}
                  [] OTHER -> {}
      Plain1(w) == IF Is(w, "alt") THEN UNION {One(a[1]) : a \in w[2]} ELSE One(w)
  IN CASE Is(v, "fill") -> Plain1(v[2])
       [] Is(v, "agg")  -> UNION {Plain1(w) : w \in Range(v[2])}
       [] OTHER -> Plain1(v)

\* A symbol or region as its root and the steps from it; strings in the code.
RECURSIVE Flat(_)
Flat(x) == CASE x[1] = "y"  -> Flat(x[2])
             [] x[1] = "at" -> Append(Flat(x[2]), <<x[3], x[4]>>)
             [] OTHER -> <<x>>

Shared(rid)   == Source(rid)[1] \in {"g", "c"}
Operand(root) == root[1] = "op" \/ root \in {<<"o", "op1">>, <<"o", "op2">>}

ReachableSymbol(sid, rids) == Shared(sid) \/ \E r \in rids : IsPrefix(Flat(r), Flat(sid))

\* Renaming a symbol and a region along a mapping of regions.
RECURSIVE MappedSymbol(_, _), MappedRegion(_, _)
MappedSymbol(sid, m) ==
  CASE Deref(sid) \in DOMAIN m /\ m[Deref(sid)][1] = "y" -> m[Deref(sid)][2]
    [] sid \in DOMAIN m -> m[sid]
    [] sid[1] = "at" -> At(MappedRegion(sid[2], m), sid[3], sid[4])
    [] OTHER -> sid
MappedRegion(rid, m) ==
  IF rid \in DOMAIN m THEN m[rid]
  ELSE IF rid[1] = "y" THEN Deref(MappedSymbol(rid[2], m)) ELSE rid

RECURSIVE Mapped(_, _)
Mapped(v, m) ==
  CASE IsPtr(v) -> Ptr(MappedRegion(v[2], m), v[3])
    [] v[1] \in {"sym", "masked", "test"} -> [v EXCEPT ![2] = MappedSymbol(@, m)]
    [] Is(v, "fill") -> Fill(Mapped(v[2], m))
    [] Is(v, "alt")  -> <<"alt", {<<Mapped(a[1], m), a[2]>> : a \in v[2]}>>
    [] Is(v, "agg")  -> Agg([p \in DOMAIN v[2] |-> Mapped(v[2][p], m)])
    [] OTHER -> v

Renamed(r, m) == Region(Mapped(r.base, m), [p \in DOMAIN r.cells |-> Mapped(r.cells[p], m)])
RenamedFacts(facts, ks, m) ==
  [k \in {<<MappedSymbol(j[1], m), j[2]>> : j \in ks} |->
     facts[CHOOSE j \in ks : <<MappedSymbol(j[1], m), j[2]>> = k]]

\* A region that is not what the registration or the world left there.
Changed(rid, r) == ~(rid \in DOMAIN Frozen \/ Symbolised(rid)) \/ r # Original(rid)

-----------------------------------------------------------------------------
(* The input of a call.                                                    *)

Beyond(rid, s) ==
  IF ~Present(s, rid) THEN {}
  ELSE LET r == RegionOf(s, rid) IN
       UNION {PointerRegions(v) : v \in {r.base} \cup Range(r.cells)}
       \cup {y \in DOMAIN s.mem : y[1] = "y" /\ IsStrictPrefix(Flat(rid), Flat(y))}

\* The regions reached from a frontier, in the order they are reached.
RECURSIVE Reached(_, _, _)
Reached(frontier, seen, s) ==
  IF frontier = <<>> THEN seen
  ELSE IF Contains(seen, frontier[1]) THEN Reached(Tail(frontier), seen, s)
  ELSE Reached(Tail(frontier) \o SetToSeq(Beyond(frontier[1], s)), Append(seen, frontier[1]), s)

Retained(args, s) ==
  LET written == {rid \in DOMAIN s.mem : rid[1] \in {"g", "c"} /\ Changed(rid, s.mem[rid])}
      roots   == FlattenSeq([i \in DOMAIN args |-> SetToSeq(PointerRegions(args[i]))])
  IN Reached(roots \o SetToSeq(written), <<>>, s)

ArgumentRegion(rid, i) ==
  LET root == Source(rid)
      name == <<IF Operand(root) THEN "op" ELSE IF User(root) THEN "mp" ELSE "p", i>>
  IN IF rid[1] = "y" THEN Deref(name) ELSE name

Renaming(reached) ==
  LET local == SelectSeq(reached, LAMBDA r : r[1] \in {"l", "h", "p", "y", "op", "mp"}
                                              /\ r \notin DOMAIN Frozen)
  IN [r \in Range(local) |-> ArgumentRegion(r, CHOOSE i \in DOMAIN local : local[i] = r)]

\* A renamed symbol is put where a callee would otherwise read it by its path.
Materialized(mem, s, reached, m) ==
  LET Parent(rid) == rid[2][2]
      Path(rid)   == rid[2][3]
      known  == {rid \in DOMAIN m : rid[1] = "y" /\ rid[2][1] = "at"}
      placed == {rid \in known : /\ Contains(reached, Parent(rid)) \/ Parent(rid)[1] \in {"g", "c"}
                                 /\ Read(s, Parent(rid), Path(rid)) = Sym(rid[2])}
      Holder(rid) == MappedRegion(Parent(rid), m)
      In(t)   == {rid \in placed : Holder(rid) = t}
      Old(t)  == IF t \in DOMAIN mem THEN mem[t]
                 ELSE Renamed(RegionOf(s, Parent(CHOOSE rid \in In(t) : TRUE)), m)
      New(t)  == [p \in {Path(rid) : rid \in In(t)} |->
                    Mapped(Sym((CHOOSE rid \in In(t) : Path(rid) = p)[2]), m)]
  IN [t \in {Holder(rid) : rid \in placed} |-> [Old(t) EXCEPT !.cells = New(t) @@ @]] @@ mem

\* The arguments and state of a call under canonical names, and the renaming.
Capture(args0, s) ==
  LET args    == [i \in DOMAIN args0 |-> Resolve(args0[i], s)]
      reached == Retained(args, s)
      m       == Renaming(reached)
      kept    == {rid \in Range(reached) : Present(s, rid) /\ Changed(rid, RegionOf(s, rid))}
      Source1(t) == CHOOSE rid \in kept : MappedRegion(rid, m) = t
      mem     == [t \in {MappedRegion(rid, m) : rid \in kept} |-> Renamed(RegionOf(s, Source1(t)), m)]
  IN [args  |-> [i \in DOMAIN args |-> Mapped(args[i], m)],
      names |-> m,
      state |-> [NewState EXCEPT
        !.mem    = Materialized(mem, s, reached, m),
        !.facts  = RenamedFacts(s.facts, {k \in DOMAIN s.facts : ReachableSymbol(k[1], Range(reached))}, m),
        !.tags   = s.tags,
        !.events = Distinct(s.events),
        !.watch  = {MappedRegion(rid, m) : rid \in s.watch}]]

-----------------------------------------------------------------------------
(* The outcome of a run.                                                   *)

Outcome(exits, complete) == [exits |-> exits, complete |-> complete]
Bottom     == Outcome({}, TRUE)
Incomplete == Outcome({}, FALSE)

\* What of an exit's state a reader can see.
Public(exit) ==
  LET s == exit[2]
      rids == {rid \in DOMAIN s.mem : Changed(rid, s.mem[rid])}
  IN <<exit[1], [s EXCEPT !.events = Distinct(@), !.mem = [r \in rids |-> @[r]]]>>

JoinOutcomes(old, fresh) ==
  IF ~old.complete \/ ~fresh.complete THEN Incomplete
  ELSE LET Same(d, e) == d[1] = e[1] /\ Key(d[2]) = Key(e[2]) /\ d[2].tags = e[2].tags
       IN Outcome(fresh.exits \cup {e \in old.exits : ~\E d \in fresh.exits : Same(d, e)}, TRUE)

\* The caller's state after a callee's exit: new heap regions are allocated in
\* the caller, changed regions and facts come back under the caller's names.
RestoredExit(exit, before, names, caller) ==
  LET s     == exit[2]
      fresh == SetToSortSeq({r \in DOMAIN s.mem : r[1] = "h" /\ r \notin DOMAIN before.mem \cup DOMAIN Frozen},
                            LAMBDA a, b : a[2] < b[2])
      grown == FoldLeft(LAMBDA c, r : Allocate(c, s.mem[r].base), caller, fresh)
      m     == [r \in Range(fresh) |-> Heap(caller.serial + CHOOSE i \in DOMAIN fresh : fresh[i] = r)]
               @@ AntiFunction(names)
      Before(rid) == IF rid \in DOMAIN before.mem THEN before.mem[rid] ELSE Original(rid)
      Known(rid)  == rid \in DOMAIN before.mem \/ rid \in DOMAIN Frozen \/ Symbolised(rid)
      moved == {rid \in DOMAIN s.mem : ~Known(rid) \/ Before(rid) # s.mem[rid]}
      From(t) == CHOOSE rid \in moved : MappedRegion(rid, m) = t
  IN <<Mapped(exit[1], m),
       [grown EXCEPT
          !.mem    = [t \in {MappedRegion(rid, m) : rid \in moved} |-> Renamed(s.mem[From(t)], m)] @@ @,
          !.facts  = RenamedFacts(s.facts, DOMAIN s.facts, m) @@ @,
          !.tags   = s.tags,
          !.events = s.events,
          !.serial = Max({@, s.serial})]>>

Restore(outcome, before, names, caller) ==
  {RestoredExit(e, before, names, caller) : e \in outcome.exits}

-----------------------------------------------------------------------------
(* What a request's exits establish.                                       *)

\* The values the exception flag can have at an exit, and whether all are known.
Flags(s) == {Resolve(a[1], s) : a \in Alternatives(PendingException(s))}
Settled(values) == \A v \in values : IsNum(v)
MayBeClear(s) == Settled(Flags(s)) /\ Num(0) \in Flags(s)
=============================================================================
