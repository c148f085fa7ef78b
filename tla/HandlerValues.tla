--------------------------- MODULE HandlerValues ---------------------------
(***************************************************************************)
(* The value operations of the handler machine (tools/handler_values.py):  *)
(* constant folding, the facts a path establishes about unknown values,    *)
(* and pointer arithmetic.  A fact is kept per symbol and mask: <<"eq", n>> *)
(* or <<"ne", constants>>.  The mask -1 is the whole value.                *)
(***************************************************************************)
EXTENDS HandlerMemory, Bitwise

Whole == -1

Bool(b) == Num(IF b THEN 1 ELSE 0)
Bits(n, mask) == IF mask = Whole THEN n ELSE n & mask

\* The bits of mask are among those of wider.
Covers(wider, mask) == wider = Whole \/ (mask # Whole /\ wider & mask = mask)

\* The integer an operator gives on two integers; a division by zero has none.
Arithmetic(op, a, b) ==
  CASE op = "+"  -> Num(a + b)
    [] op = "-"  -> Num(a - b)
    [] op = "*"  -> Num(a * b)
    [] op = "/"  -> IF b = 0 THEN AnyV ELSE Num(a \div b)
    [] op = "%"  -> IF b = 0 THEN AnyV ELSE Num(a % b)
    [] op = "&"  -> Num(a & b)
    [] op = "==" -> Bool(a = b)
    [] op = "!=" -> Bool(a # b)
    [] op = "<"  -> Bool(a < b)
    [] op = ">"  -> Bool(a > b)
    [] op = "<=" -> Bool(a <= b)
    [] op = ">=" -> Bool(a >= b)
    [] OTHER     -> AnyV

Facts(s, sid) == {k \in DOMAIN s.facts : k[1] = sid}

Symbolical(v) == v[1] \in {"sym", "masked"}
MaskOf(v)     == IF Is(v, "masked") THEN v[3] ELSE Whole

\* The constant a symbol or masked symbol equals on this path, else the value.
Resolve(v, s) ==
  LET pins == {k \in Facts(s, v[2]) : s.facts[k][1] = "eq" /\ Covers(k[2], MaskOf(v))}
  IN IF Symbolical(v) /\ pins # {}
     THEN Num(Bits(s.facts[CHOOSE k \in pins : TRUE][2], MaskOf(v))) ELSE v

\* A symbol used as a condition tests its bits against zero.
IsTest(v) == Symbolical(v) \/ Is(v, "test")
AsTest(v) == IF Is(v, "test") THEN v ELSE Test(v[2], MaskOf(v), FALSE, 0)

\* The outcomes of a test the path leaves possible: one when it settles it.
Decide(t, s) ==
  LET sid == t[2]  mask == t[3]  equal == t[4]  const == t[5]
      Says(k) == LET fact == s.facts[k] IN
        IF fact[1] = "eq" THEN IF Covers(k[2], mask) THEN {(Bits(fact[2], mask) = const) = equal} ELSE {}
        ELSE IF k[2] = mask /\ const \in fact[2] THEN {~equal} ELSE {}
      said == UNION {Says(k) : k \in Facts(s, sid)}
  IN IF said = {} THEN BOOLEAN ELSE {CHOOSE b \in said : TRUE}

\* The truth values of a value the path leaves possible.
Truth(v0, s) ==
  LET v == Resolve(v0, s)
  IN CASE IsNum(v) -> {v[2] # 0}
       [] v[1] \in {"ptr", "fn"} -> {TRUE}
       [] IsTest(v) -> Decide(AsTest(v), s)
       [] OTHER -> BOOLEAN

Learn(s, sid, mask, fact) == [s EXCEPT !.facts = (<<sid, mask>> :> fact) @@ @]

\* What a path already excludes for a symbol under a mask.
Excluded(s, sid, mask) ==
  IF <<sid, mask>> \in DOMAIN s.facts /\ s.facts[<<sid, mask>>][1] = "ne"
  THEN s.facts[<<sid, mask>>][2] ELSE {}

\* What a taken or untaken test of a value establishes.
Narrow(v0, taken, s) ==
  LET v == Resolve(v0, s)
      t == AsTest(v)
  IN IF ~IsTest(v) \/ Decide(t, s) # BOOLEAN THEN s
     ELSE IF taken = t[4] THEN Learn(s, t[2], t[3], <<"eq", t[5]>>)
     ELSE Learn(s, t[2], t[3], <<"ne", Excluded(s, t[2], t[3]) \cup {t[5]}>>)

\* Two pointers into dereferenced unknowns may be equal whatever they say.
Vague(v) == IsPtr(v) /\ v[2][1] = "y"
Plain(v) == v[1] \in {"int", "ptr", "fn"}

Equality(op, a, b) ==
  LET same     == a = b /\ ~Vague(a)
      distinct == a # b /\ ~Vague(a) /\ ~Vague(b)
      sym      == IF Symbolical(a) THEN a ELSE b
      other    == IF Symbolical(a) THEN b ELSE a
  IN CASE Plain(a) /\ Plain(b) ->
            IF same \/ distinct THEN Bool(same = (op = "==")) ELSE AnyV
       [] Symbolical(sym) /\ IsNum(other) ->
            IF Bits(other[2], MaskOf(sym)) # other[2] THEN Bool(op = "!=")
            ELSE Test(sym[2], MaskOf(sym), op = "==", other[2])
       [] Is(a, "sym") /\ a = b -> Bool(op = "==")
       [] OTHER -> AnyV

MaskBits(op, a, b) ==
  LET sym  == IF Symbolical(a) THEN a ELSE b
      mask == IF Symbolical(a) THEN b ELSE a
  IN IF op # "&" \/ ~Symbolical(sym) \/ ~IsNum(mask) THEN AnyV
     ELSE Masked(sym[2], Bits(mask[2], MaskOf(sym)))

\* An index element of a path is <<"i", k>>; a size has no value but undoes a field.
PointerArithmetic(op, a, b) ==
  LET p      == IF IsPtr(a) THEN a ELSE b
      offset == IF IsPtr(a) THEN b ELSE a
      path   == p[3]
      step   == IF op = "+" THEN offset[2] ELSE -offset[2]
  IN IF op \notin {"+", "-"} THEN AnyV
     ELSE IF Is(offset, "size")
          THEN IF op = "-" /\ path # <<>> THEN Ptr(p[2], Front(path)) ELSE AnyV
     ELSE IF ~IsNum(offset) THEN AnyV
     ELSE IF step = 0 THEN p
     ELSE IF path # <<>> /\ Last(path)[1] = "i"
          THEN Ptr(p[2], Append(Front(path), <<"i", Last(path)[2] + step>>))
     ELSE Ptr(p[2], Append(path, <<"i", step>>))

\* The value of a binary operator on two plain values.
Binary(op, a0, b0, s) ==
  LET a == Resolve(a0, s)
      b == Resolve(b0, s)
  IN CASE IsNum(a) /\ IsNum(b)  -> Arithmetic(op, a[2], b[2])
       [] ~(IsNum(a) /\ IsNum(b)) /\ op \in {"==", "!="} -> Equality(op, a, b)
       [] ~(op \in {"==", "!="}) /\ (IsPtr(a) \/ IsPtr(b)) -> PointerArithmetic(op, a, b)
       [] OTHER -> MaskBits(op, a, b)

\* The low bits of a value: an integer cast, and the type byte of a type word.
LowBits(v, mask) ==
  CASE mask = Whole  -> v
    [] mask # Whole /\ IsNum(v) -> Num(Bits(v[2], mask))
    [] mask # Whole /\ Symbolical(v) -> Masked(v[2], IF Is(v, "sym") THEN mask ELSE v[3] & mask)
    [] mask # Whole /\ Is(v, "alt") -> <<"alt", {<<IF IsNum(a[1]) THEN Num(Bits(a[1][2], mask))
                                                  ELSE IF Symbolical(a[1]) THEN Masked(a[1][2], Bits(mask, MaskOf(a[1])))
                                                  ELSE AnyV, a[2]>> : a \in v[2]}>>
    [] OTHER -> AnyV

\* A C cast to an integer type truncates; any other type keeps the value.
Cast(mask, v) == IF v[1] \in {"ptr", "fn", "size", "test"} THEN v ELSE LowBits(v, mask)

\* The states in which a value equals a constant: none when the path excludes it.
Assume(v0, n, s) ==
  LET v == Resolve(v0, s)
      t == AsTest(v)
      same == Test(t[2], t[3], TRUE, n)
  IN IF ~IsTest(v) THEN IF IsNum(v) /\ v # Num(n) THEN {} ELSE {s}
     ELSE IF Decide(same, s) = BOOLEAN THEN {Learn(s, t[2], t[3], <<"eq", n>>)}
     ELSE IF TRUE \in Decide(same, s) THEN {s} ELSE {}

\* The states in which a value equals none of the constants.
Exclude(v0, ns, s) ==
  LET v == Resolve(v0, s)
      t == AsTest(v)
  IN IF IsNum(v) THEN IF v[2] \in ns THEN {} ELSE {s}
     ELSE IF ~IsTest(v) THEN {s}
     ELSE IF \E n \in ns : Decide(Test(t[2], t[3], TRUE, n), s) = {TRUE} THEN {}
     ELSE {Learn(s, t[2], t[3], <<"ne", Excluded(s, t[2], t[3]) \cup ns>>)}
=============================================================================
