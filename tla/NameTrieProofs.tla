--------------------------- MODULE NameTrieProofs ---------------------------
(***************************************************************************)
(* For all names and all patterns: the cursor delivers what the pattern    *)
(* denotes, each name once and all of them, within the cost bound.  First  *)
(* the positions of a pattern are given a meaning and shown to keep it     *)
(* under Advance, then a stack of frames is, as the part of the trie that  *)
(* is still ahead of the cursor.                                           *)
(***************************************************************************)
EXTENDS NameTrie, DataInduction, FiniteSetTheorems

-----------------------------------------------------------------------------
(* What a set of positions means                                           *)

\* cut divides w between the first j symbols of p.
IsCut(cut, p, j, w) ==
  /\ cut \in [0..j -> 0..Len(w)] /\ cut[0] = 0 /\ cut[j] = Len(w)
  /\ \A k \in 1..j : /\ cut[k - 1] <= cut[k]
                     /\ p[k] # Gap => cut[k] = cut[k - 1] + 1 /\ w[cut[k]] = p[k]

\* The first j symbols of p denote w.
Reaches(p, j, w) == \E cut : IsCut(cut, p, j, w)

\* What a set of positions means: the symbols before them denote w, or they do
\* with the gap behind them.
Active(p, w) ==
  {j \in 0..Len(p) : Reaches(p, j, w) \/ (j < Len(p) /\ p[j + 1] = Gap /\ Reaches(p, j + 1, w))}

\* x is w and one more character c.
Longer(w, x, c) ==
  /\ Len(w) \in Nat /\ Len(x) = Len(w) + 1 /\ x[Len(x)] = c
  /\ \A i \in 1..Len(w) : x[i] = w[i]

-----------------------------------------------------------------------------
\* A cut never goes back.
LEMMA CutMonotone ==
  ASSUME NEW cut, NEW p, NEW j \in Nat, NEW w, Len(w) \in Nat, IsCut(cut, p, j, w),
         NEW a \in 0..j, NEW b \in 0..j, a <= b
  PROVE  cut[a] <= cut[b]
<1> DEFINE T == {d \in 0..(j - a) : cut[a] <= cut[a + d]}
<1>1. \A k \in 0..j : cut[k] \in Nat
  BY DEF IsCut
<1>2. 0 \in T
  BY <1>1
<1>3. ASSUME NEW n \in 1..(j - a), n - 1 \in T PROVE n \in T
  <2>1. a + n \in 1..j /\ (a + n) - 1 = a + (n - 1) /\ a + (n - 1) \in 0..j
    OBVIOUS
  <2>2. cut[(a + n) - 1] <= cut[a + n]
    BY <2>1 DEF IsCut
  <2>3. cut[a] <= cut[a + (n - 1)]
    BY <1>3
  <2>4. cut[a] <= cut[a + n]
    BY <1>1, <2>1, <2>2, <2>3
  <2> QED BY <2>4
<1>4. j - a \in Nat
  OBVIOUS
<1>5. 0..(j - a) \subseteq T
  <2> HIDE DEF T
  <2> QED BY <1>2, <1>3, <1>4, UpTo
<1>6. b - a \in T /\ a + (b - a) = b
  <2>1. b - a \in 0..(j - a) /\ a + (b - a) = b
    OBVIOUS
  <2> HIDE DEF T
  <2> QED BY <1>5, <2>1
<1> QED BY <1>6

\* A gap may be empty.
LEMMA GapsReach ==
  ASSUME NEW p, NEW i \in Nat, NEW j \in Nat, i <= j, NEW w, Len(w) \in Nat, Reaches(p, i, w),
         \A k \in (i + 1)..j : p[k] = Gap
  PROVE  Reaches(p, j, w)
<1>1. PICK cut : IsCut(cut, p, i, w)
  BY DEF Reaches
<1> DEFINE new == [k \in 0..j |-> IF k <= i THEN cut[k] ELSE Len(w)]
<1>2. new \in [0..j -> 0..Len(w)] /\ new[0] = 0 /\ new[j] = Len(w)
  BY <1>1 DEF IsCut
<1>3. ASSUME NEW k \in 1..j
      PROVE  new[k - 1] <= new[k] /\ (p[k] # Gap => new[k] = new[k - 1] + 1 /\ w[new[k]] = p[k])
  <2>1. CASE k <= i
    <3>1. k \in 1..i /\ new[k] = cut[k] /\ new[k - 1] = cut[k - 1]
      BY <2>1
    <3> QED BY <1>1, <3>1 DEF IsCut
  <2>2. CASE k > i
    <3>1. p[k] = Gap /\ new[k] = Len(w) /\ new[k - 1] \in 0..Len(w)
      BY <1>2, <2>2
    <3> QED BY <3>1
  <2> QED BY <2>1, <2>2
<1> HIDE DEF new
<1> QED BY <1>2, <1>3 DEF IsCut, Reaches

\* A gap takes one more character.
LEMMA GapEats ==
  ASSUME NEW p, NEW i \in Nat, i > 0, p[i] = Gap, NEW w, NEW x, NEW c, Longer(w, x, c), Reaches(p, i, w)
  PROVE  Reaches(p, i, x)
<1>1. PICK cut : IsCut(cut, p, i, w)
  BY DEF Reaches
<1> DEFINE new == [k \in 0..i |-> IF k < i THEN cut[k] ELSE Len(x)]
<1>2. new \in [0..i -> 0..Len(x)] /\ new[0] = 0 /\ new[i] = Len(x)
  BY <1>1 DEF IsCut, Longer
<1>3. ASSUME NEW k \in 1..i
      PROVE  new[k - 1] <= new[k] /\ (p[k] # Gap => new[k] = new[k - 1] + 1 /\ x[new[k]] = p[k])
  <2>1. CASE k < i
    <3>1. new[k] = cut[k] /\ new[k - 1] = cut[k - 1] /\ cut[k] \in 0..Len(w) /\ cut[k - 1] \in 0..Len(w)
      BY <1>1, <2>1 DEF IsCut
    <3>2. cut[k - 1] <= cut[k] /\ (p[k] # Gap => cut[k] = cut[k - 1] + 1 /\ w[cut[k]] = p[k])
      BY <1>1 DEF IsCut
    <3>3. p[k] # Gap => cut[k] \in 1..Len(w)
      BY <3>1, <3>2
    <3> QED BY <3>1, <3>2, <3>3 DEF Longer
  <2>2. CASE k = i
    BY <1>2, <2>2
  <2> QED BY <2>1, <2>2
<1> HIDE DEF new
<1> QED BY <1>2, <1>3 DEF IsCut, Reaches

\* A literal takes the character it is.
LEMMA LiteralEats ==
  ASSUME NEW p, NEW i \in Nat, i > 0, NEW w, NEW x, NEW c, p[i] = c, Longer(w, x, c), Reaches(p, i - 1, w)
  PROVE  Reaches(p, i, x)
<1>1. PICK cut : IsCut(cut, p, i - 1, w)
  BY DEF Reaches
<1> DEFINE new == [k \in 0..i |-> IF k < i THEN cut[k] ELSE Len(x)]
<1>2. new \in [0..i -> 0..Len(x)] /\ new[0] = 0 /\ new[i] = Len(x) /\ new[i - 1] = Len(w)
  BY <1>1 DEF IsCut, Longer
<1>3. ASSUME NEW k \in 1..i
      PROVE  new[k - 1] <= new[k] /\ (p[k] # Gap => new[k] = new[k - 1] + 1 /\ x[new[k]] = p[k])
  <2>1. CASE k < i
    <3>1. new[k] = cut[k] /\ new[k - 1] = cut[k - 1] /\ cut[k] \in 0..Len(w) /\ cut[k - 1] \in 0..Len(w)
      BY <1>1, <2>1 DEF IsCut
    <3>2. cut[k - 1] <= cut[k] /\ (p[k] # Gap => cut[k] = cut[k - 1] + 1 /\ w[cut[k]] = p[k])
      BY <1>1, <2>1 DEF IsCut
    <3>3. p[k] # Gap => cut[k] \in 1..Len(w)
      BY <3>1, <3>2
    <3> QED BY <3>1, <3>2, <3>3 DEF Longer
  <2>2. CASE k = i
    BY <1>2, <2>2 DEF Longer
  <2> QED BY <2>1, <2>2
<1> HIDE DEF new
<1> QED BY <1>2, <1>3 DEF IsCut, Reaches

\* The symbol that took the last character: a gap that may have had the rest
\* before, or that character behind what had the rest; only gaps follow.
LEMMA LastCharacter ==
  ASSUME NEW p, NEW j \in Nat, NEW w, NEW x, NEW c, Longer(w, x, c), Reaches(p, j, x)
  PROVE  \E k \in 1..j : /\ \A l \in (k + 1)..j : p[l] = Gap
                         /\ \/ p[k] = Gap /\ Reaches(p, k, w)
                            \/ p[k] = c /\ Reaches(p, k - 1, w)
<1>1. PICK cut : IsCut(cut, p, j, x)
  BY DEF Reaches
<1>2. Len(x) \in Nat /\ Len(x) = Len(w) + 1 /\ Len(w) \in Nat
  BY DEF Longer
<1> DEFINE K == {k \in 0..j : \A l \in k..j : cut[l] = Len(x)}
<1>3. PICK k \in K : \A m \in K : k <= m
  <2>1. j \in K
    BY <1>1 DEF IsCut
  <2>2. K \subseteq Nat
    OBVIOUS
  <2> HIDE DEF K
  <2> QED BY <2>1, <2>2, LeastElement
<1>4. k \in 0..j /\ \A l \in k..j : cut[l] = Len(x)
  BY <1>3
<1>5. k # 0
  BY <1>1, <1>2, <1>4 DEF IsCut
<1>6. cut[k - 1] \in 0..Len(w)
  <2>1. k - 1 \in 0..j /\ k - 1 \notin K
    BY <1>3, <1>4, <1>5
  <2>2. PICK l \in (k - 1)..j : cut[l] # Len(x)
    BY <2>1
  <2>3. l = k - 1
    BY <1>4, <2>2
  <2>4. cut[k - 1] \in 0..Len(x)
    BY <1>1, <2>1 DEF IsCut
  <2> QED BY <1>2, <2>2, <2>3, <2>4
<1>7. ASSUME NEW l \in (k + 1)..j PROVE p[l] = Gap
  <2>1. l \in 1..j /\ cut[l] = Len(x) /\ cut[l - 1] = Len(x)
    BY <1>4
  <2> QED BY <1>1, <1>2, <2>1 DEF IsCut
<1>8. \A l \in 0..(k - 1) : cut[l] \in 0..Len(w)
  <2> SUFFICES ASSUME NEW l \in 0..(k - 1) PROVE cut[l] \in 0..Len(w)
    OBVIOUS
  <2>1. l \in 0..j /\ k - 1 \in 0..j /\ l <= k - 1
    BY <1>4, <1>5
  <2>2. cut[l] <= cut[k - 1]
    BY <1>1, <1>2, <2>1, CutMonotone
  <2>3. cut[l] \in 0..Len(x)
    BY <1>1, <2>1 DEF IsCut
  <2> QED BY <1>2, <1>6, <2>2, <2>3
<1>9. \A l \in 1..(k - 1) : /\ cut[l - 1] <= cut[l]
                            /\ p[l] # Gap => cut[l] = cut[l - 1] + 1 /\ w[cut[l]] = p[l]
  <2> SUFFICES ASSUME NEW l \in 1..(k - 1)
               PROVE  /\ cut[l - 1] <= cut[l]
                      /\ p[l] # Gap => cut[l] = cut[l - 1] + 1 /\ w[cut[l]] = p[l]
    OBVIOUS
  <2>1. l \in 1..j /\ cut[l] \in 0..Len(w) /\ cut[l - 1] \in 0..Len(w)
    BY <1>4, <1>8
  <2>2. cut[l - 1] <= cut[l] /\ (p[l] # Gap => cut[l] = cut[l - 1] + 1 /\ x[cut[l]] = p[l])
    BY <1>1, <2>1 DEF IsCut
  <2>3. p[l] # Gap => cut[l] \in 1..Len(w)
    BY <2>1, <2>2
  <2> QED BY <2>1, <2>2, <2>3 DEF Longer
<1>10. k \in 1..j /\ k - 1 \in Nat
  BY <1>4, <1>5
<1>11. CASE p[k] = Gap
  <2> DEFINE new == [l \in 0..k |-> IF l < k THEN cut[l] ELSE Len(w)]
  <2>1. new \in [0..k -> 0..Len(w)] /\ new[0] = 0 /\ new[k] = Len(w)
    BY <1>1, <1>2, <1>8, <1>10 DEF IsCut
  <2>2. ASSUME NEW l \in 1..k
        PROVE  new[l - 1] <= new[l] /\ (p[l] # Gap => new[l] = new[l - 1] + 1 /\ w[new[l]] = p[l])
    <3>1. CASE l < k
      <4>1. l \in 1..(k - 1) /\ new[l] = cut[l] /\ new[l - 1] = cut[l - 1]
        BY <3>1
      <4> QED BY <1>9, <4>1
    <3>2. CASE l = k
      BY <1>11, <2>1, <3>2
    <3> QED BY <3>1, <3>2
  <2> HIDE DEF new
  <2>3. Reaches(p, k, w)
    BY <2>1, <2>2 DEF IsCut, Reaches
  <2> QED BY <1>7, <1>10, <1>11, <2>3
<1>12. CASE p[k] # Gap
  <2>1. cut[k] = cut[k - 1] + 1 /\ x[cut[k]] = p[k] /\ cut[k] = Len(x)
    BY <1>1, <1>4, <1>10, <1>12 DEF IsCut
  <2>2. cut[k - 1] = Len(w) /\ p[k] = c
    BY <1>2, <1>6, <2>1 DEF Longer
  <2> DEFINE new == [l \in 0..(k - 1) |-> cut[l]]
  <2>3. new \in [0..(k - 1) -> 0..Len(w)] /\ new[0] = 0 /\ new[k - 1] = Len(w)
    BY <1>1, <1>2, <1>8, <1>10, <2>2 DEF IsCut
  <2>4. ASSUME NEW l \in 1..(k - 1)
        PROVE  new[l - 1] <= new[l] /\ (p[l] # Gap => new[l] = new[l - 1] + 1 /\ w[new[l]] = p[l])
    BY <1>9
  <2> HIDE DEF new
  <2>5. Reaches(p, k - 1, w)
    BY <2>3, <2>4 DEF IsCut, Reaches
  <2> QED BY <1>7, <1>10, <2>2, <2>5
<1> QED BY <1>11, <1>12

\* A pattern is a sequence of characters and gaps.
LEMMA PatternFacts ==
  ASSUME NEW p \in Pattern
  PROVE  /\ p \in Seq(Char \cup {Gap}) /\ Len(p) \in Nat
         /\ \A k \in 1..Len(p) : p[k] # Gap => p[k] \in Char
<1>1. p \in Seq(Char \cup {Gap})
  BY NameAssumption
<1> QED BY <1>1, LenProperties, ElementOfSeq

\* A name and the name with one more character.
LEMMA OneCharacterMore ==
  ASSUME NEW S, NEW w \in Seq(S), NEW c \in S
  PROVE  /\ Longer(w, Append(w, c), c) /\ Append(w, c) \in Seq(S)
         /\ Len(w) \in Nat /\ DOMAIN w = 1..Len(w)
BY AppendProperties, LenProperties DEF Longer

\* One character further.
LEMMA ActiveStep ==
  ASSUME NEW p \in Pattern, NEW c \in Char, NEW w, NEW x, Longer(w, x, c)
  PROVE  Active(p, x) = Advance(p, Active(p, w), c)
<1>1. Len(p) \in Nat /\ c # Gap
  BY PatternFacts, NameAssumption
<1>2. Len(w) \in Nat /\ Len(x) \in Nat
  BY DEF Longer
<1> DEFINE S == Active(p, w)
           Before == {i \in S : i < Len(p) /\ p[i + 1] = Gap} \cup {i + 1 : i \in {j \in S : j < Len(p) /\ p[j + 1] = c}}
<1>3. Advance(p, S, c) = {j \in 0..Len(p) : \E i \in Before : i <= j /\ \A k \in (i + 1)..j : p[k] = Gap}
  BY DEF Advance, Close
<1>4. ASSUME NEW j \in 0..Len(p), NEW i \in Before, i <= j, \A k \in (i + 1)..j : p[k] = Gap
      PROVE  j \in Active(p, x)
  <2>1. CASE i \in S /\ i < Len(p) /\ p[i + 1] = Gap
    <3>1. i \in Nat /\ i + 1 \in Nat /\ i + 1 > 0
      BY <2>1 DEF Active
    <3>2. Reaches(p, i + 1, w)
      <4>1. CASE Reaches(p, i, w)
        <5>1. \A k \in (i + 1)..(i + 1) : p[k] = Gap
          BY <2>1, <3>1
        <5>2. i <= i + 1
          BY <3>1
        <5> QED BY <1>2, <3>1, <4>1, <5>1, <5>2, GapsReach
      <4>2. CASE ~Reaches(p, i, w)
        BY <2>1, <4>2 DEF Active
      <4> QED BY <4>1, <4>2
    <3>3. Reaches(p, i + 1, x)
      BY <2>1, <3>1, <3>2, GapEats
    <3>4. CASE i = j
      BY <2>1, <3>3, <3>4 DEF Active
    <3>5. CASE i # j
      <4>1. i + 1 <= j /\ j \in Nat /\ \A k \in ((i + 1) + 1)..j : p[k] = Gap
        BY <1>4, <3>1, <3>5
      <4>2. Reaches(p, j, x)
        BY <1>2, <3>1, <3>3, <4>1, GapsReach
      <4> QED BY <4>2 DEF Active
    <3> QED BY <3>4, <3>5
  <2>2. CASE \E h \in S : h < Len(p) /\ p[h + 1] = c /\ i = h + 1
    <3>1. PICK h \in S : h < Len(p) /\ p[h + 1] = c /\ i = h + 1
      BY <2>2
    <3>2. h \in Nat /\ i \in Nat /\ i > 0 /\ i - 1 = h /\ p[i] = c
      BY <3>1 DEF Active
    <3>3. Reaches(p, i - 1, w)
      BY <1>1, <3>1, <3>2 DEF Active
    <3>4. Reaches(p, i, x)
      BY <3>2, <3>3, LiteralEats
    <3>5. Reaches(p, j, x)
      BY <1>2, <1>4, <3>2, <3>4, GapsReach
    <3> QED BY <3>5 DEF Active
  <2> QED BY <2>1, <2>2
<1>5. ASSUME NEW j \in 0..Len(p), NEW m \in 0..Len(p), m = j \/ (m = j + 1 /\ p[j + 1] = Gap), Reaches(p, m, x)
      PROVE  \E i \in Before : i <= j /\ \A k \in (i + 1)..j : p[k] = Gap
  <2>1. PICK k \in 1..m : /\ \A l \in (k + 1)..m : p[l] = Gap
                          /\ (p[k] = Gap /\ Reaches(p, k, w)) \/ (p[k] = c /\ Reaches(p, k - 1, w))
    BY <1>5, LastCharacter
  <2>2. k - 1 \in 0..Len(p) /\ k - 1 < Len(p) /\ (k - 1) + 1 = k /\ k \in 0..Len(p)
    BY <1>1
  <2>3. CASE p[k] = Gap /\ Reaches(p, k, w)
    <3>1. k - 1 \in Before
      BY <2>2, <2>3 DEF Active
    <3>2. k - 1 <= j
      BY <1>5, <2>2
    <3>3. \A l \in ((k - 1) + 1)..j : p[l] = Gap
      BY <1>5, <2>1, <2>2, <2>3
    <3> QED BY <3>1, <3>2, <3>3
  <2>4. CASE p[k] = c /\ Reaches(p, k - 1, w)
    <3>1. k \in Before
      BY <2>2, <2>4 DEF Active
    <3>2. k <= j
      BY <1>1, <1>5, <2>2, <2>4
    <3>3. \A l \in (k + 1)..j : p[l] = Gap
      BY <1>5, <2>1, <2>2
    <3> QED BY <3>1, <3>2, <3>3
  <2> QED BY <2>1, <2>3, <2>4
<1>6. ASSUME NEW j \in Active(p, x)
      PROVE  j \in 0..Len(p) /\ \E i \in Before : i <= j /\ \A k \in (i + 1)..j : p[k] = Gap
  <2> HIDE DEF Before
  <2>1. j \in 0..Len(p)
    BY DEF Active
  <2>2. CASE Reaches(p, j, x)
    BY <1>5, <2>1, <2>2
  <2>3. CASE j < Len(p) /\ p[j + 1] = Gap /\ Reaches(p, j + 1, x)
    <3>1. j + 1 \in 0..Len(p)
      BY <1>1, <2>1, <2>3
    <3> QED BY <1>5, <2>1, <2>3, <3>1
  <2> QED BY <2>2, <2>3 DEF Active
<1>7. Active(p, x) \subseteq 0..Len(p)
  BY DEF Active
<1>8. Active(p, x) = Advance(p, S, c)
  <2> HIDE DEF Before, S
  <2> QED BY <1>3, <1>4, <1>6, <1>7
<1> QED BY <1>8

\* Before any character.
LEMMA ActiveEmpty ==
  ASSUME NEW p \in Pattern
  PROVE  Active(p, <<>>) = Bare(p)
<1>1. Len(p) \in Nat /\ Len(<<>>) = 0
  BY PatternFacts, EmptySeq
<1>2. ASSUME NEW j \in 0..Len(p)
      PROVE  Reaches(p, j, <<>>) <=> \A k \in 1..j : p[k] = Gap
  <2>1. ASSUME Reaches(p, j, <<>>), NEW k \in 1..j PROVE p[k] = Gap
    <3>1. PICK cut : IsCut(cut, p, j, <<>>)
      BY <2>1 DEF Reaches
    <3>2. k \in 0..j /\ k - 1 \in 0..j
      OBVIOUS
    <3>3. cut[k] \in 0..0 /\ cut[k - 1] \in 0..0
      BY <1>1, <3>1, <3>2 DEF IsCut
    <3> QED BY <3>1, <3>3 DEF IsCut
  <2>2. ASSUME \A k \in 1..j : p[k] = Gap PROVE Reaches(p, j, <<>>)
    <3> DEFINE cut == [k \in 0..j |-> 0]
    <3>1. IsCut(cut, p, j, <<>>)
      BY <1>1, <2>2 DEF IsCut
    <3> HIDE DEF cut
    <3> QED BY <3>1 DEF Reaches
  <2> QED BY <2>1, <2>2
<1>3. ASSUME NEW j \in 0..Len(p), j < Len(p), Reaches(p, j + 1, <<>>)
      PROVE  Reaches(p, j, <<>>)
  <2>1. j + 1 \in 0..Len(p) /\ \A k \in 1..j : k \in 1..(j + 1)
    BY <1>1, <1>3
  <2> QED BY <1>2, <1>3, <2>1
<1>4. Active(p, <<>>) = {j \in 0..Len(p) : Reaches(p, j, <<>>)}
  BY <1>3 DEF Active
<1>5. Bare(p) = {j \in 0..Len(p) : \A k \in 1..j : p[k] = Gap}
  BY DEF Bare, Close
<1> QED BY <1>2, <1>4, <1>5

-----------------------------------------------------------------------------
\* The positions after w, with and without a root separator before it.
State(p, w) == Active(p, w) \cup Active(p, <<Separator>> \o w)

\* A name with the root separator before it.
LEMMA Rooted ==
  ASSUME NEW w \in Seq(Char)
  PROVE  /\ <<Separator>> \o w \in Seq(Char) /\ Len(<<Separator>> \o w) = Len(w) + 1
         /\ (<<Separator>> \o w)[1] = Separator
         /\ \A i \in 1..Len(w) : (<<Separator>> \o w)[i + 1] = w[i]
<1>1. <<Separator>> \in Seq(Char) /\ Len(<<Separator>>) = 1 /\ <<Separator>>[1] = Separator
  BY NameAssumption
<1> QED BY <1>1, ConcatProperties, LenProperties

\* Positions advance independently of one another.
LEMMA AdvanceUnion ==
  ASSUME NEW p, NEW S, NEW T, NEW c
  PROVE  Advance(p, S \cup T, c) = Advance(p, S, c) \cup Advance(p, T, c)
BY DEF Advance, Close

\* initial() are the positions before the first character.
LEMMA StateStart ==
  ASSUME NEW p \in Pattern
  PROVE  State(p, <<>>) = Initial(p) /\ 0 \in Initial(p)
<1>1. <<>> \in Seq(Char) /\ Len(<<>>) = 0
  BY EmptySeq
<1>2. Longer(<<>>, <<Separator>> \o <<>>, Separator)
  BY <1>1, Rooted DEF Longer
<1>3. Active(p, <<Separator>> \o <<>>) = Advance(p, Bare(p), Separator)
  BY <1>2, ActiveStep, ActiveEmpty, NameAssumption
<1>4. 0 \in Bare(p)
  <2>1. Len(p) \in Nat
    BY PatternFacts
  <2> QED BY <2>1 DEF Bare, Close
<1> QED BY <1>3, <1>4, ActiveEmpty DEF State, Initial

\* advance() are the positions after one more character.
LEMMA StateStep ==
  ASSUME NEW p \in Pattern, NEW w \in Seq(Char), NEW c \in Char
  PROVE  State(p, Append(w, c)) = Advance(p, State(p, w), c)
<1>1. Longer(w, Append(w, c), c) /\ Append(w, c) \in Seq(Char) /\ Len(w) \in Nat
  BY OneCharacterMore
<1>2. Longer(<<Separator>> \o w, <<Separator>> \o Append(w, c), c)
  <2> DEFINE r == <<Separator>> \o w
             s == <<Separator>> \o Append(w, c)
  <2>1. Len(r) = Len(w) + 1 /\ r[1] = Separator /\ \A i \in 1..Len(w) : r[i + 1] = w[i]
    BY Rooted
  <2>2. /\ Len(s) = Len(Append(w, c)) + 1 /\ s[1] = Separator
        /\ \A i \in 1..Len(Append(w, c)) : s[i + 1] = Append(w, c)[i]
    BY <1>1, Rooted
  <2> HIDE DEF r, s
  <2>3. s[Len(s)] = c /\ Len(s) = Len(r) + 1 /\ Len(r) \in Nat
    BY <1>1, <2>1, <2>2 DEF Longer
  <2>4. ASSUME NEW i \in 1..Len(r) PROVE s[i] = r[i]
    <3>1. CASE i = 1
      BY <2>1, <2>2, <3>1
    <3>2. CASE i # 1
      <4>1. i - 1 \in 1..Len(w) /\ (i - 1) + 1 = i
        BY <1>1, <2>1, <3>2
      <4>2. i - 1 \in 1..Len(Append(w, c))
        BY <1>1, <4>1 DEF Longer
      <4>3. s[(i - 1) + 1] = Append(w, c)[i - 1]
        BY <2>2, <4>2
      <4>4. Append(w, c)[i - 1] = w[i - 1] /\ r[(i - 1) + 1] = w[i - 1]
        BY <1>1, <2>1, <4>1 DEF Longer
      <4> QED BY <4>1, <4>3, <4>4
    <3> QED BY <3>1, <3>2
  <2>5. Longer(r, s, c)
    BY <2>3, <2>4 DEF Longer
  <2> QED BY <2>5 DEF r, s
<1> QED BY <1>1, <1>2, ActiveStep, AdvanceUnion DEF State

\* The last position is active after exactly the names the pattern denotes.
LEMMA StateDenotes ==
  ASSUME NEW p \in Pattern, NEW w
  PROVE  Accepts(p, State(p, w)) <=> Denotes(p, w)
<1>1. Len(p) \in Nat
  BY PatternFacts
<1>2. ASSUME NEW v PROVE Len(p) \in Active(p, v) <=> Spells(p, v)
  <2>1. Len(p) \in Active(p, v) <=> Reaches(p, Len(p), v)
    BY <1>1 DEF Active
  <2> QED BY <2>1 DEF Reaches, IsCut, Spells
<1> QED BY <1>2 DEF Accepts, State, Denotes

-----------------------------------------------------------------------------
(* Names below a node                                                      *)

\* x begins with w.
Extends(x, w) == Len(w) <= Len(x) /\ \A i \in 1..Len(w) : x[i] = w[i]

\* The first n characters of a name.
LEMMA PrefixFacts ==
  ASSUME NEW x \in Seq(Char), NEW n \in 0..Len(x)
  PROVE  /\ Prefix(x, n) \in Seq(Char) /\ Len(Prefix(x, n)) = n
         /\ \A i \in 1..n : Prefix(x, n)[i] = x[i]
         /\ Extends(x, Prefix(x, n))
<1>1. \A i \in 1..n : x[i] \in Char
  <2>1. Len(x) \in Nat /\ \A i \in 1..Len(x) : x[i] \in Char
    BY LenProperties, ElementOfSeq
  <2> QED BY <2>1
<1>2. n \in Int /\ 1 \in Int /\ n \in Nat /\ n <= Len(x)
  BY LenProperties
<1>3. /\ SubSeq(x, 1, n) \in Seq(Char) /\ Len(SubSeq(x, 1, n)) = IF 1 <= n THEN n - 1 + 1 ELSE 0
      /\ \A i \in 1..(n - 1 + 1) : SubSeq(x, 1, n)[i] = x[1 + i - 1]
  BY <1>1, <1>2, SubSeqProperties
<1>4. Prefix(x, n) \in Seq(Char) /\ Len(Prefix(x, n)) = n /\ \A i \in 1..n : Prefix(x, n)[i] = x[i]
  <2>1. n - 1 + 1 = n /\ \A i \in 1..n : 1 + i - 1 = i
    BY <1>2
  <2> QED BY <1>2, <1>3, <2>1 DEF Prefix
<1> QED BY <1>2, <1>4 DEF Extends

\* The prefix of a name that is as long as a node above it is that node.
LEMMA PrefixIs ==
  ASSUME NEW x \in Seq(Char), NEW w \in Seq(Char), Extends(x, w)
  PROVE  Prefix(x, Len(w)) = w
<1>1. Len(w) \in 0..Len(x)
  BY LenProperties DEF Extends
<1>2. /\ Prefix(x, Len(w)) \in Seq(Char) /\ Len(Prefix(x, Len(w))) = Len(w)
      /\ \A i \in 1..Len(w) : Prefix(x, Len(w))[i] = w[i]
  BY <1>1, PrefixFacts DEF Extends
<1> QED BY <1>2, SeqEqual

\* A prefix and the one that is a character longer.
LEMMA PrefixStep ==
  ASSUME NEW x \in Seq(Char), NEW n \in 1..Len(x)
  PROVE  Prefix(x, n) = Append(Prefix(x, n - 1), x[n]) /\ x[n] \in Char /\ n - 1 \in 0..Len(x)
<1>1. n - 1 \in 0..Len(x) /\ n \in 0..Len(x) /\ x[n] \in Char /\ n \in Nat
  BY LenProperties, ElementOfSeq
<1>2. /\ Prefix(x, n) \in Seq(Char) /\ Len(Prefix(x, n)) = n /\ \A i \in 1..n : Prefix(x, n)[i] = x[i]
      /\ Prefix(x, n - 1) \in Seq(Char) /\ Len(Prefix(x, n - 1)) = n - 1
      /\ \A i \in 1..(n - 1) : Prefix(x, n - 1)[i] = x[i]
  BY <1>1, PrefixFacts
<1> DEFINE a == Prefix(x, n - 1)
           b == Append(a, x[n])
<1>3. b \in Seq(Char) /\ Len(b) = n /\ b[n] = x[n] /\ \A i \in 1..(n - 1) : b[i] = a[i]
  <2> HIDE DEF a
  <2>1. a \in Seq(Char) /\ Len(a) = n - 1
    BY <1>2 DEF a
  <2> QED BY <1>1, <2>1, AppendProperties
<1>4. \A i \in 1..n : Prefix(x, n)[i] = b[i]
  <2> HIDE DEF b
  <2> SUFFICES ASSUME NEW i \in 1..n PROVE Prefix(x, n)[i] = b[i]
    OBVIOUS
  <2>1. CASE i = n
    BY <1>2, <1>3, <2>1
  <2>2. CASE i # n
    <3>1. i \in 1..(n - 1)
      BY <1>1, <2>2
    <3> QED BY <1>2, <1>3, <3>1
  <2> QED BY <2>1, <2>2
<1>5. Prefix(x, n) = b
  <2> HIDE DEF b
  <2> QED BY <1>2, <1>3, <1>4, SeqEqual
<1> QED BY <1>1, <1>5

\* The shortest prefix and the longest one.
LEMMA PrefixEnds ==
  ASSUME NEW x \in Seq(Char)
  PROVE  Prefix(x, 0) = <<>> /\ Prefix(x, Len(x)) = x /\ Extends(x, x) /\ Extends(x, <<>>)
<1>1. Len(x) \in Nat /\ <<>> \in Seq(Char) /\ Len(<<>>) = 0
  BY LenProperties, EmptySeq
<1>2. Extends(x, x) /\ Extends(x, <<>>)
  BY <1>1 DEF Extends
<1> QED BY <1>1, <1>2, PrefixIs

-----------------------------------------------------------------------------
\* Where no position is left, no longer name has one.
LEMMA NoneLeft ==
  ASSUME NEW p \in Pattern, NEW w \in Seq(Char), State(p, w) = {}, NEW x \in Seq(Char), Extends(x, w)
  PROVE  State(p, x) = {}
<1>1. Len(w) \in Nat /\ Len(x) \in Nat /\ Len(x) - Len(w) \in Nat
  BY LenProperties DEF Extends
<1> DEFINE T == {d \in 0..(Len(x) - Len(w)) : State(p, Prefix(x, Len(w) + d)) = {}}
<1>2. 0 \in T
  <2>1. Len(w) + 0 = Len(w)
    BY <1>1
  <2> QED BY <1>1, <2>1, PrefixIs
<1>3. ASSUME NEW d \in 1..(Len(x) - Len(w)), d - 1 \in T PROVE d \in T
  <2>1. Len(w) + d \in 1..Len(x) /\ (Len(w) + d) - 1 = Len(w) + (d - 1)
    BY <1>1
  <2>2. /\ Prefix(x, Len(w) + d) = Append(Prefix(x, Len(w) + (d - 1)), x[Len(w) + d])
        /\ x[Len(w) + d] \in Char /\ Len(w) + (d - 1) \in 0..Len(x)
    BY <2>1, PrefixStep
  <2>3. Prefix(x, Len(w) + (d - 1)) \in Seq(Char)
    BY <2>2, PrefixFacts
  <2>4. State(p, Prefix(x, Len(w) + d)) = Advance(p, State(p, Prefix(x, Len(w) + (d - 1))), x[Len(w) + d])
    BY <2>2, <2>3, StateStep
  <2>5. State(p, Prefix(x, Len(w) + (d - 1))) = {}
    BY <1>3
  <2>6. Advance(p, {}, x[Len(w) + d]) = {}
    BY DEF Advance, Close
  <2>7. State(p, Prefix(x, Len(w) + d)) = {}
    <3> HIDE DEF T
    <3> QED BY <2>4, <2>5, <2>6
  <2>8. d \in 0..(Len(x) - Len(w))
    OBVIOUS
  <2> QED BY <2>7, <2>8
<1>4. Len(x) - Len(w) \in T
  <2> HIDE DEF T
  <2>1. 0..(Len(x) - Len(w)) \subseteq T
    BY <1>1, <1>2, <1>3, UpTo
  <2> QED BY <1>1, <2>1
<1>5. Len(w) + (Len(x) - Len(w)) = Len(x)
  BY <1>1
<1> QED BY <1>4, <1>5, PrefixEnds

\* NamePattern.matches computes what a pattern denotes.
LEMMA MatchesDenoted ==
  ASSUME NEW p \in Pattern, NEW w \in Seq(Char)
  PROVE  MatchesName(p, w) <=> Denotes(p, w)
<1> DEFINE G(f) == [n \in 0..Len(w) |-> IF n = 0 THEN Initial(p) ELSE Advance(p, f[n - 1], w[n])]
           after == CHOOSE f : f = G(f)
           state == [n \in 0..Len(w) |-> State(p, Prefix(w, n))]
<1>1. Len(w) \in Nat
  BY LenProperties
<1>2. MatchesName(p, w) <=> Accepts(p, after[Len(w)])
  BY DEF MatchesName
<1>3. \A n \in 1..Len(w) : State(p, Prefix(w, n)) = Advance(p, State(p, Prefix(w, n - 1)), w[n])
  BY PrefixStep, PrefixFacts, StateStep
<1>4. state[0] = Initial(p)
  BY <1>1, PrefixEnds, StateStart
<1>5. state = G(state)
  <2>1. \A n \in 0..Len(w) : n # 0 => n \in 1..Len(w) /\ n - 1 \in 0..Len(w)
    BY <1>1
  <2>2. \A n \in 0..Len(w) : state[n] = IF n = 0 THEN Initial(p) ELSE Advance(p, state[n - 1], w[n])
    BY <1>3, <1>4, <2>1
  <2>3. state = [n \in 0..Len(w) |-> state[n]]
    OBVIOUS
  <2> HIDE DEF state
  <2> QED BY <2>2, <2>3
<1>6. after = G(after)
  <2> HIDE DEF G, state
  <2> QED BY <1>5
<1>7. after[0] = Initial(p) /\ \A n \in 1..Len(w) : after[n] = Advance(p, after[n - 1], w[n])
  <2> HIDE DEF after
  <2> QED BY <1>1, <1>6
<1> DEFINE T == {n \in 0..Len(w) : after[n] = state[n]}
<1>8. 0 \in T
  BY <1>1, <1>4, <1>7
<1>9. ASSUME NEW n \in 1..Len(w), n - 1 \in T PROVE n \in T
  <2> HIDE DEF after
  <2>1. after[n] = Advance(p, state[n - 1], w[n]) /\ n \in 0..Len(w) /\ n - 1 \in 0..Len(w)
    BY <1>1, <1>7, <1>9
  <2> QED BY <1>3, <2>1
<1>10. after[Len(w)] = state[Len(w)]
  <2> HIDE DEF after, state
  <2>1. 0..Len(w) \subseteq T
    <3> HIDE DEF T
    <3> QED BY <1>1, <1>8, <1>9, UpTo
  <2> QED BY <1>1, <2>1
<1>11. state[Len(w)] = State(p, w)
  BY <1>1, PrefixEnds
<1> QED BY <1>2, <1>10, <1>11, StateDenotes

-----------------------------------------------------------------------------
(* The trie                                                                *)

\* The trie holds the prefixes of the names added; a node lists its outgoing
\* characters, each once.
TrieInv ==
  /\ names \in Seq(Name)
  /\ <<>> \in DOMAIN children /\ DOMAIN children \subseteq Seq(Char) /\ IsFiniteSet(DOMAIN children)
  /\ \A u \in DOMAIN children :
       /\ children[u] \in Seq(Char)
       /\ \A i, j \in 1..Len(children[u]) : children[u][i] = children[u][j] => i = j
  /\ \A u \in Seq(Char), c \in Char :
       Append(u, c) \in DOMAIN children <=>
         u \in DOMAIN children /\ \E i \in 1..Len(children[u]) : children[u][i] = c
  /\ \A u \in DOMAIN children : u = <<>> \/ \E n \in Elements(names) : Extends(n, u)
  /\ \A n \in Elements(names) : \A i \in 0..Len(n) : Prefix(n, i) \in DOMAIN children

\* A name has a character.
LEMMA NameFacts ==
  ASSUME NEW name \in Name
  PROVE  name \in Seq(Char) /\ name # <<>> /\ Len(name) \in Nat /\ Len(name) > 0
BY NameAssumption, LenProperties, EmptySeq

\* The edge of a name that passes through a node.
LEMMA PathEdge ==
  ASSUME NEW name \in Seq(Char), NEW u \in Seq(Char), NEW c \in Char
  PROVE  (\E n \in 0..Len(name) : Append(u, c) = Prefix(name, n)) <=>
           /\ u # name /\ \E n \in 0..Len(name) : u = Prefix(name, n)
           /\ c = name[Len(u) + 1]
<1>1. Len(name) \in Nat /\ Len(u) \in Nat /\ Append(u, c) \in Seq(Char) /\ Len(Append(u, c)) = Len(u) + 1
  BY LenProperties, AppendProperties
<1>2. ASSUME NEW n \in 0..Len(name), Append(u, c) = Prefix(name, n)
      PROVE  u # name /\ c = name[Len(u) + 1] /\ u = Prefix(name, n - 1) /\ n - 1 \in 0..Len(name)
  <2>1. n = Len(u) + 1 /\ n \in 1..Len(name)
    BY <1>1, <1>2, PrefixFacts
  <2>2. Append(u, c) = Append(Prefix(name, n - 1), name[n]) /\ name[n] \in Char /\ n - 1 \in 0..Len(name)
    BY <1>2, <2>1, PrefixStep
  <2>3. Prefix(name, n - 1) \in Seq(Char)
    BY <2>2, PrefixFacts
  <2>4. u = Prefix(name, n - 1) /\ c = name[n]
    BY <2>2, <2>3, AppendInjective
  <2> QED BY <1>1, <2>1, <2>2, <2>4
<1>3. ASSUME u # name, NEW n \in 0..Len(name), u = Prefix(name, n), c = name[Len(u) + 1]
      PROVE  \E m \in 0..Len(name) : Append(u, c) = Prefix(name, m)
  <2>1. Len(u) = n /\ n # Len(name)
    BY <1>3, PrefixFacts, PrefixEnds
  <2>2. n + 1 \in 1..Len(name) /\ (n + 1) - 1 = n
    BY <1>1, <2>1
  <2>3. Prefix(name, n + 1) = Append(Prefix(name, (n + 1) - 1), name[n + 1])
    BY <2>2, PrefixStep
  <2> QED BY <1>3, <2>1, <2>2, <2>3
<1> QED BY <1>2, <1>3

\* getOrPut adds an edge unless it is there.
LEMMA GetOrPutFacts ==
  ASSUME NEW cs \in Seq(Char), NEW c \in Char,
         \A i, j \in 1..Len(cs) : cs[i] = cs[j] => i = j
  PROVE  /\ GetOrPut(cs, c) \in Seq(Char)
         /\ \A i, j \in 1..Len(GetOrPut(cs, c)) : GetOrPut(cs, c)[i] = GetOrPut(cs, c)[j] => i = j
         /\ \A d : (\E i \in 1..Len(GetOrPut(cs, c)) : GetOrPut(cs, c)[i] = d)
                     <=> d = c \/ \E i \in 1..Len(cs) : cs[i] = d
<1>1. Len(cs) \in Nat /\ DOMAIN cs = 1..Len(cs)
  BY LenProperties
<1>2. CASE c \in Elements(cs)
  <2>1. GetOrPut(cs, c) = cs /\ \E i \in 1..Len(cs) : cs[i] = c
    BY <1>1, <1>2 DEF GetOrPut, Elements
  <2> QED BY <2>1
<1>3. CASE c \notin Elements(cs)
  <2> DEFINE t == Append(cs, c)
  <2>1. GetOrPut(cs, c) = t /\ \A i \in 1..Len(cs) : cs[i] # c
    BY <1>1, <1>3 DEF GetOrPut, Elements
  <2>2. t \in Seq(Char) /\ Len(t) = Len(cs) + 1 /\ t[Len(cs) + 1] = c /\ \A i \in 1..Len(cs) : t[i] = cs[i]
    BY AppendProperties
  <2> HIDE DEF t
  <2>3. ASSUME NEW i \in 1..Len(t), NEW j \in 1..Len(t), t[i] = t[j] PROVE i = j
    <3>1. CASE i \in 1..Len(cs) /\ j \in 1..Len(cs)
      BY <2>2, <2>3, <3>1
    <3>2. CASE i = Len(cs) + 1 \/ j = Len(cs) + 1
      BY <1>1, <2>1, <2>2, <2>3, <3>2
    <3> QED BY <1>1, <2>2, <3>1, <3>2
  <2>4. ASSUME NEW d PROVE (\E i \in 1..Len(t) : t[i] = d) <=> d = c \/ \E i \in 1..Len(cs) : cs[i] = d
    <3>1. ASSUME NEW i \in 1..Len(t), t[i] = d, d # c PROVE \E k \in 1..Len(cs) : cs[k] = d
      <4>1. i \in 1..Len(cs)
        BY <1>1, <2>2, <3>1
      <4> QED BY <2>2, <3>1, <4>1
    <3>2. Len(cs) + 1 \in 1..Len(t) /\ \A i \in 1..Len(cs) : i \in 1..Len(t)
      BY <1>1, <2>2
    <3> QED BY <2>2, <3>1, <3>2
  <2> QED BY <2>1, <2>2, <2>3, <2>4
<1> QED BY <1>2, <1>3

\* An element more.
LEMMA ElementsAppend ==
  ASSUME NEW S, NEW s \in Seq(S), NEW x \in S
  PROVE  Elements(Append(s, x)) = Elements(s) \cup {x}
<1>1. /\ Len(s) \in Nat /\ DOMAIN s = 1..Len(s) /\ Append(s, x) \in Seq(S)
      /\ Len(Append(s, x)) = Len(s) + 1 /\ Append(s, x)[Len(s) + 1] = x
      /\ \A i \in 1..Len(s) : Append(s, x)[i] = s[i]
  BY LenProperties, AppendProperties
<1> DEFINE t == Append(s, x)
<1>2. DOMAIN t = 1..(Len(s) + 1)
  BY <1>1, LenProperties
<1> HIDE DEF t
<1>3. Elements(t) = Elements(s) \cup {x}
  <2>1. ASSUME NEW i \in 1..(Len(s) + 1) PROVE t[i] \in Elements(s) \cup {x}
    <3>1. CASE i \in 1..Len(s)
      BY <1>1, <3>1 DEF t, Elements
    <3>2. CASE i = Len(s) + 1
      BY <1>1, <3>2 DEF t
    <3> QED BY <1>1, <3>1, <3>2
  <2>2. \A i \in 1..Len(s) : i \in DOMAIN t /\ t[i] = s[i]
    BY <1>1, <1>2 DEF t
  <2>3. Len(s) + 1 \in DOMAIN t /\ t[Len(s) + 1] = x
    BY <1>1, <1>2 DEF t
  <2> QED BY <1>1, <1>2, <2>1, <2>2, <2>3 DEF Elements
<1> QED BY <1>3 DEF t

\* add() keeps the trie.
LEMMA AddTrie ==
  ASSUME TrieInv, NEW name \in Name, Add(name)
  PROVE  TrieInv'
<1> DEFINE path == {Prefix(name, n) : n \in 0..Len(name)}
           edges(u) == IF u \in DOMAIN children THEN children[u] ELSE <<>>
<1>1. name \in Seq(Char) /\ Len(name) \in Nat
  BY NameFacts
<1>2. path \subseteq Seq(Char) /\ IsFiniteSet(path)
  <2>1. path \subseteq Seq(Char)
    BY <1>1, PrefixFacts
  <2>2. IsFiniteSet(0..Len(name))
    BY <1>1, FS_Interval
  <2> DEFINE f == [n \in 0..Len(name) |-> Prefix(name, n)]
  <2>3. f \in Surjection(0..Len(name), path)
    <3>1. f \in [0..Len(name) -> path]
      OBVIOUS
    <3>2. \A t \in path : \E n \in 0..Len(name) : f[n] = t
      OBVIOUS
    <3> HIDE DEF f, path
    <3> QED BY <3>1, <3>2 DEF Surjection
  <2>4. IsFiniteSet(path)
    <3> HIDE DEF f, path
    <3> QED BY <2>2, <2>3, FS_Surjection
  <2> QED BY <2>1, <2>4
<1>3. /\ DOMAIN children' = DOMAIN children \cup path
      /\ \A u \in DOMAIN children \cup path :
           children'[u] = IF u \in path /\ u # name THEN GetOrPut(edges(u), name[Len(u) + 1]) ELSE edges(u)
  BY DEF Add
<1>4. ASSUME NEW u \in DOMAIN children \cup path
      PROVE  u \in Seq(Char) /\ edges(u) \in Seq(Char) /\ \A i, j \in 1..Len(edges(u)) : edges(u)[i] = edges(u)[j] => i = j
  <2>1. u \in Seq(Char)
    BY <1>2 DEF TrieInv
  <2>2. CASE u \in DOMAIN children
    BY <2>1, <2>2 DEF TrieInv
  <2>3. CASE u \notin DOMAIN children
    BY <2>1, <2>3, EmptySeq
  <2> QED BY <2>2, <2>3
<1>5. ASSUME NEW u \in path, u # name PROVE name[Len(u) + 1] \in Char
  <2>1. PICK n \in 0..Len(name) : u = Prefix(name, n)
    OBVIOUS
  <2>2. Len(u) = n /\ n # Len(name)
    BY <1>1, <1>5, <2>1, PrefixFacts, PrefixEnds
  <2>3. n + 1 \in 1..Len(name)
    BY <1>1, <2>2
  <2> QED BY <1>1, <2>2, <2>3, PrefixStep
<1>6. /\ names' = Append(names, name) /\ names \in Seq(Name) /\ names' \in Seq(Name)
      /\ Elements(names') = Elements(names) \cup {name}
  <2>1. names' = Append(names, name) /\ names \in Seq(Name)
    BY DEF Add, TrieInv
  <2> QED BY <2>1, AppendProperties, ElementsAppend
<1>7. ASSUME NEW u \in DOMAIN children \cup path
      PROVE  /\ children'[u] \in Seq(Char)
             /\ \A i, j \in 1..Len(children'[u]) : children'[u][i] = children'[u][j] => i = j
             /\ \A c : (\E i \in 1..Len(children'[u]) : children'[u][i] = c)
                         <=> \/ u \in path /\ u # name /\ c = name[Len(u) + 1]
                             \/ \E i \in 1..Len(edges(u)) : edges(u)[i] = c
  <2>1. edges(u) \in Seq(Char) /\ \A i, j \in 1..Len(edges(u)) : edges(u)[i] = edges(u)[j] => i = j
    BY <1>4
  <2>2. CASE u \in path /\ u # name
    <3> DEFINE cs == edges(u)
               d == name[Len(u) + 1]
    <3>1. children'[u] = GetOrPut(cs, d) /\ d \in Char
      BY <1>3, <1>5, <2>2
    <3> HIDE DEF cs, d
    <3>2. cs \in Seq(Char) /\ \A i, j \in 1..Len(cs) : cs[i] = cs[j] => i = j
      BY <2>1 DEF cs
    <3>3. /\ GetOrPut(cs, d) \in Seq(Char)
          /\ \A i, j \in 1..Len(GetOrPut(cs, d)) : GetOrPut(cs, d)[i] = GetOrPut(cs, d)[j] => i = j
          /\ \A c : (\E i \in 1..Len(GetOrPut(cs, d)) : GetOrPut(cs, d)[i] = c)
                      <=> c = d \/ \E i \in 1..Len(cs) : cs[i] = c
      BY <3>1, <3>2, GetOrPutFacts
    <3> HIDE DEF path
    <3> QED BY <2>2, <3>1, <3>3 DEF cs, d
  <2>3. CASE ~(u \in path /\ u # name)
    <3>1. children'[u] = edges(u)
      BY <1>3, <2>3
    <3> HIDE DEF path, edges
    <3> QED BY <2>1, <2>3, <3>1
  <2> QED BY <2>2, <2>3
<1>8. ASSUME NEW u \in Seq(Char), NEW c \in Char
      PROVE  Append(u, c) \in DOMAIN children \cup path <=>
               u \in DOMAIN children \cup path /\ \E i \in 1..Len(children'[u]) : children'[u][i] = c
  <2>1. Append(u, c) \in path <=> u # name /\ u \in path /\ c = name[Len(u) + 1]
    BY <1>1, PathEdge
  <2>2. Append(u, c) \in DOMAIN children <=> u \in DOMAIN children /\ \E i \in 1..Len(children[u]) : children[u][i] = c
    BY DEF TrieInv
  <2>3. (\E i \in 1..Len(edges(u)) : edges(u)[i] = c) <=> Append(u, c) \in DOMAIN children
    <3>1. CASE u \in DOMAIN children
      BY <2>2, <3>1
    <3>2. CASE u \notin DOMAIN children
      <4>1. edges(u) = <<>> /\ 1..Len(<<>>) = {}
        BY <3>2, EmptySeq
      <4> HIDE DEF edges
      <4> QED BY <2>2, <3>2, <4>1
    <3> QED BY <3>1, <3>2
  <2>4. u \notin DOMAIN children => Append(u, c) \notin DOMAIN children
    BY <2>2
  <2> HIDE DEF path, edges
  <2> QED BY <1>7, <2>1, <2>3, <2>4, ZenonT(60)
<1>9. <<>> \in DOMAIN children' /\ DOMAIN children' \subseteq Seq(Char) /\ IsFiniteSet(DOMAIN children')
  <2> HIDE DEF path, edges
  <2>1. <<>> \in DOMAIN children /\ DOMAIN children \subseteq Seq(Char) /\ IsFiniteSet(DOMAIN children)
    BY DEF TrieInv
  <2>2. IsFiniteSet(DOMAIN children \cup path)
    BY <1>2, <2>1, FS_Union
  <2> QED BY <1>2, <1>3, <2>1, <2>2
<1>10. ASSUME NEW u \in DOMAIN children'
       PROVE  u = <<>> \/ \E n \in Elements(names') : Extends(n, u)
  <2>1. CASE u \in DOMAIN children
    BY <1>6, <2>1 DEF TrieInv
  <2>2. CASE u \in path
    BY <1>1, <1>6, <2>2, PrefixFacts
  <2> QED BY <1>3, <1>10, <2>1, <2>2
<1>11. ASSUME NEW n \in Elements(names'), NEW i \in 0..Len(n) PROVE Prefix(n, i) \in DOMAIN children'
  <2>1. CASE n = name
    BY <1>3, <2>1
  <2>2. CASE n \in Elements(names)
    BY <1>3, <2>2 DEF TrieInv
  <2> QED BY <1>6, <2>1, <2>2
<1> HIDE DEF path, edges
<1>12. \A u \in DOMAIN children' :
         /\ children'[u] \in Seq(Char)
         /\ \A i, j \in 1..Len(children'[u]) : children'[u][i] = children'[u][j] => i = j
  BY <1>3, <1>7
<1>13. \A u \in Seq(Char), c \in Char :
         Append(u, c) \in DOMAIN children' <=>
           u \in DOMAIN children' /\ \E i \in 1..Len(children'[u]) : children'[u][i] = c
  BY <1>3, <1>8
<1> QED BY <1>6, <1>9, <1>10, <1>11, <1>12, <1>13 DEF TrieInv

-----------------------------------------------------------------------------
(* The stack                                                               *)

Frame == [node : Seq(Char), next : Nat, state : SUBSET Nat]

\* The child a frame reads at an index.
Child(f, i) == Append(f.node, children[f.node][i])

\* The frames of a stack lie one below the other on one path, each below the
\* child its parent has read last.
OnPath(fs) ==
  /\ fs \in Seq(Frame)
  /\ \A k \in 1..Len(fs) :
       /\ fs[k].node \in DOMAIN children /\ Len(fs[k].node) = k - 1
       /\ fs[k].next \in 1..(Len(children[fs[k].node]) + 1)
       /\ fs[k].state = State(pattern, fs[k].node) /\ fs[k].state # {}
  /\ \A k, l \in 1..Len(fs) :
       k < l => fs[k].next > 1 /\ Extends(fs[l].node, Child(fs[k], fs[k].next - 1))

\* x is at or below a child that some frame has still to read.
AheadOf(fs, x) ==
  \E k \in 1..Len(fs) : \E i \in fs[k].next..Len(children[fs[k].node]) : Extends(x, Child(fs[k], i))

-----------------------------------------------------------------------------
\* A node, its edges and its children.
LEMMA NodeFacts ==
  ASSUME TrieInv, NEW u \in DOMAIN children
  PROVE  /\ u \in Seq(Char) /\ Len(u) \in Nat
         /\ children[u] \in Seq(Char) /\ Len(children[u]) \in Nat
         /\ \A i \in 1..Len(children[u]) :
              /\ children[u][i] \in Char /\ Append(u, children[u][i]) \in DOMAIN children
              /\ Append(u, children[u][i]) \in Seq(Char) /\ Len(Append(u, children[u][i])) = Len(u) + 1
              /\ Append(u, children[u][i])[Len(u) + 1] = children[u][i]
              /\ \A j \in 1..Len(u) : Append(u, children[u][i])[j] = u[j]
         /\ \A i, j \in 1..Len(children[u]) : children[u][i] = children[u][j] => i = j
<1>1. u \in Seq(Char) /\ children[u] \in Seq(Char)
  BY DEF TrieInv
<1>2. Len(u) \in Nat /\ Len(children[u]) \in Nat
  BY <1>1, LenProperties
<1>3. ASSUME NEW i \in 1..Len(children[u])
      PROVE  /\ children[u][i] \in Char /\ Append(u, children[u][i]) \in DOMAIN children
             /\ Append(u, children[u][i]) \in Seq(Char) /\ Len(Append(u, children[u][i])) = Len(u) + 1
             /\ Append(u, children[u][i])[Len(u) + 1] = children[u][i]
             /\ \A j \in 1..Len(u) : Append(u, children[u][i])[j] = u[j]
  <2> DEFINE c == children[u][i]
  <2>1. c \in Char
    BY <1>1, ElementOfSeq
  <2>2. Append(u, c) \in DOMAIN children
    BY <1>1, <2>1 DEF TrieInv
  <2> HIDE DEF c
  <2>3. /\ Append(u, c) \in Seq(Char) /\ Len(Append(u, c)) = Len(u) + 1
        /\ Append(u, c)[Len(u) + 1] = c /\ \A j \in 1..Len(u) : Append(u, c)[j] = u[j]
    BY <1>1, <2>1, AppendProperties
  <2> QED BY <2>1, <2>2, <2>3 DEF c
<1>4. \A i, j \in 1..Len(children[u]) : children[u][i] = children[u][j] => i = j
  BY DEF TrieInv
<1> QED BY <1>1, <1>2, <1>3, <1>4

\* Two names below one child agree on its character.
LEMMA SameChild ==
  ASSUME TrieInv, NEW u \in DOMAIN children, NEW i \in 1..Len(children[u]), NEW j \in 1..Len(children[u]),
         NEW x, Extends(x, Append(u, children[u][i])), Extends(x, Append(u, children[u][j]))
  PROVE  i = j
<1>1. /\ Len(u) + 1 \in 1..Len(Append(u, children[u][i])) /\ Len(u) + 1 \in 1..Len(Append(u, children[u][j]))
      /\ Append(u, children[u][i])[Len(u) + 1] = children[u][i]
      /\ Append(u, children[u][j])[Len(u) + 1] = children[u][j]
  BY NodeFacts
<1>2. x[Len(u) + 1] = children[u][i] /\ x[Len(u) + 1] = children[u][j]
  BY <1>1 DEF Extends
<1> QED BY <1>2, NodeFacts, ZenonT(60)

\* What is below a node is below the nodes above it.
LEMMA ExtendsTransitive ==
  ASSUME NEW x, NEW y, NEW z, Len(x) \in Nat, Len(y) \in Nat, Len(z) \in Nat, Extends(x, y), Extends(y, z)
  PROVE  Extends(x, z)
<1>1. Len(z) <= Len(x)
  BY DEF Extends
<1>2. ASSUME NEW i \in 1..Len(z) PROVE x[i] = z[i]
  <2>1. i \in 1..Len(y)
    BY DEF Extends
  <2> QED BY <2>1 DEF Extends
<1> QED BY <1>1, <1>2 DEF Extends

\* A node below u is below one child of u, and another node than u.
LEMMA BelowChild ==
  ASSUME TrieInv, NEW u \in DOMAIN children, NEW i \in 1..Len(children[u]), NEW x \in Seq(Char),
         Extends(x, Append(u, children[u][i]))
  PROVE  Extends(x, u) /\ x # u
<1>1. /\ Len(Append(u, children[u][i])) = Len(u) + 1 /\ Len(u) \in Nat /\ Len(x) \in Nat
      /\ \A j \in 1..Len(u) : Append(u, children[u][i])[j] = u[j]
  BY NodeFacts, LenProperties
<1> QED BY <1>1 DEF Extends

\* A name below a node is the node or is below a child of it.
LEMMA SomeChild ==
  ASSUME TrieInv, NEW u \in DOMAIN children, NEW n \in Elements(names), Extends(n, u), n # u
  PROVE  \E i \in 1..Len(children[u]) : Extends(n, Append(u, children[u][i]))
<1>1. u \in Seq(Char) /\ n \in Seq(Char) /\ Len(u) \in Nat /\ Len(n) \in Nat
  <2>1. names \in Seq(Name)
    BY DEF TrieInv
  <2>2. n \in Name
    BY <2>1, LenProperties, ElementOfSeq DEF Elements
  <2> QED BY <2>2, NodeFacts, NameFacts
<1>2. Len(u) # Len(n)
  <2>1. CASE Len(u) = Len(n)
    <3>1. u = n
      BY <1>1, <2>1, SeqEqual DEF Extends
    <3> QED BY <3>1
  <2> QED BY <2>1
<1>3. Len(u) + 1 \in 1..Len(n) /\ (Len(u) + 1) - 1 = Len(u) /\ Len(u) + 1 \in 0..Len(n)
  BY <1>1, <1>2 DEF Extends
<1> DEFINE c == n[Len(u) + 1]
<1>4. Prefix(n, Len(u) + 1) = Append(u, c) /\ c \in Char
  BY <1>1, <1>3, PrefixStep, PrefixIs
<1> HIDE DEF c
<1>5. Append(u, c) \in DOMAIN children
  <2>1. Prefix(n, Len(u) + 1) \in DOMAIN children
    BY <1>3 DEF TrieInv
  <2> QED BY <2>1, <1>4
<1>6. PICK i \in 1..Len(children[u]) : children[u][i] = c
  BY <1>1, <1>4, <1>5 DEF TrieInv
<1>7. Extends(n, Append(u, c))
  BY <1>1, <1>3, <1>4, PrefixFacts
<1> QED BY <1>6, <1>7

-----------------------------------------------------------------------------
\* The frames of a stack without its last one.
LEMMA BelowFacts ==
  ASSUME frames \in Seq(Frame), frames # <<>>
  PROVE  /\ Below \in Seq(Frame) /\ Len(Below) = Len(frames) - 1 /\ Len(frames) \in Nat /\ Len(frames) > 0
         /\ \A k \in 1..(Len(frames) - 1) : Below[k] = frames[k]
         /\ Top = frames[Len(frames)] /\ Top \in Frame
<1>1. Len(frames) \in Nat /\ Len(frames) > 0
  BY LenProperties, EmptySeq
<1>2. \A i \in 1..(Len(frames) - 1) : frames[i] \in Frame
  BY <1>1, ElementOfSeq
<1>3. /\ SubSeq(frames, 1, Len(frames) - 1) \in Seq(Frame)
      /\ Len(SubSeq(frames, 1, Len(frames) - 1)) = IF 1 <= Len(frames) - 1 THEN (Len(frames) - 1) - 1 + 1 ELSE 0
      /\ \A i \in 1..((Len(frames) - 1) - 1 + 1) : SubSeq(frames, 1, Len(frames) - 1)[i] = frames[1 + i - 1]
  BY <1>1, <1>2, SubSeqProperties
<1>4. \A i \in 1..(Len(frames) - 1) : 1 + i - 1 = i
  BY <1>1
<1>5. (Len(frames) - 1) - 1 + 1 = Len(frames) - 1
  BY <1>1
<1>6. Top \in Frame
  BY <1>1, ElementOfSeq DEF Top
<1> QED BY <1>1, <1>3, <1>4, <1>5, <1>6 DEF Below, Top

\* A frame whose children are read has nothing ahead.
LEMMA PopFacts ==
  ASSUME OnPath(frames), frames # <<>>, Top.next > Len(children[Top.node])
  PROVE  OnPath(Below) /\ \A x : AheadOf(Below, x) <=> AheadOf(frames, x)
<1>1. /\ Below \in Seq(Frame) /\ Len(Below) = Len(frames) - 1 /\ Len(frames) \in Nat /\ Len(frames) > 0
      /\ \A k \in 1..(Len(frames) - 1) : Below[k] = frames[k]
      /\ Top = frames[Len(frames)] /\ Top \in Frame
  BY BelowFacts DEF OnPath
<1>2. \A k \in 1..Len(Below) : k \in 1..Len(frames) /\ Below[k] = frames[k]
  BY <1>1
<1>3. OnPath(Below)
  BY <1>1, <1>2 DEF OnPath
<1>4. ASSUME NEW x PROVE AheadOf(Below, x) <=> AheadOf(frames, x)
  <2>1. ASSUME AheadOf(Below, x) PROVE AheadOf(frames, x)
    BY <1>2, <2>1 DEF AheadOf
  <2>2. ASSUME NEW k \in 1..Len(frames), NEW i \in frames[k].next..Len(children[frames[k].node]),
               Extends(x, Child(frames[k], i))
        PROVE  AheadOf(Below, x)
    <3>1. k # Len(frames)
      <4>1. CASE k = Len(frames)
        <5>1. Top.next \in 1..(Len(children[Top.node]) + 1) /\ i \in Top.next..Len(children[Top.node])
          BY <1>1, <2>2, <4>1 DEF OnPath
        <5>2. Len(children[Top.node]) \in Int
          BY <5>1
        <5> QED BY <5>1, <5>2
      <4> QED BY <4>1
    <3>2. k \in 1..Len(Below)
      BY <1>1, <3>1
    <3> QED BY <1>2, <2>2, <3>2 DEF AheadOf
  <2> QED BY <2>1, <2>2 DEF AheadOf
<1> QED BY <1>3, <1>4

-----------------------------------------------------------------------------
(* The stack after a child is read                                         *)

\* The stack once its last frame has read a child, and that child.
ReadOn == Append(Below, [Top EXCEPT !.next = @ + 1])
Visited == Child(Top, Top.next)

\* The frames of that stack.
LEMMA ReadFrames ==
  ASSUME OnPath(frames), frames # <<>>, Top.next <= Len(children[Top.node]), TrieInv
  PROVE  /\ ReadOn \in Seq(Frame) /\ Len(ReadOn) = Len(frames) /\ Len(frames) \in Nat \ {0}
         /\ \A k \in 1..(Len(frames) - 1) : ReadOn[k] = frames[k]
         /\ Top = frames[Len(frames)] /\ Top \in Frame /\ Top.next \in 1..Len(children[Top.node])
         /\ Top.node \in DOMAIN children /\ Len(children[Top.node]) \in Nat
         /\ ReadOn[Len(frames)] = [node |-> Top.node, next |-> Top.next + 1, state |-> Top.state]
<1>1. /\ Below \in Seq(Frame) /\ Len(Below) = Len(frames) - 1 /\ Len(frames) \in Nat /\ Len(frames) > 0
      /\ \A k \in 1..(Len(frames) - 1) : Below[k] = frames[k]
      /\ Top = frames[Len(frames)] /\ Top \in Frame
  BY BelowFacts DEF OnPath
<1>2. Top.next \in 1..Len(children[Top.node]) /\ Top.node \in DOMAIN children /\ Len(children[Top.node]) \in Nat
  <2>1. Top.node \in DOMAIN children /\ Top.next \in 1..(Len(children[Top.node]) + 1)
    BY <1>1 DEF OnPath
  <2>2. Len(children[Top.node]) \in Nat
    BY <2>1, NodeFacts
  <2> QED BY <2>1, <2>2
<1> DEFINE r == [node |-> Top.node, next |-> Top.next + 1, state |-> Top.state]
<1>3. [Top EXCEPT !.next = @ + 1] = r /\ r \in Frame
  BY <1>1 DEF Frame
<1> HIDE DEF r
<1>4. ReadOn = Append(Below, r)
  BY <1>3 DEF ReadOn
<1>5. /\ Append(Below, r) \in Seq(Frame) /\ Len(Append(Below, r)) = Len(Below) + 1
      /\ \A k \in 1..Len(Below) : Append(Below, r)[k] = Below[k]
      /\ Append(Below, r)[Len(Below) + 1] = r
  BY <1>1, <1>3, AppendProperties
<1>6. (Len(frames) - 1) + 1 = Len(frames)
  BY <1>1
<1>7. /\ ReadOn \in Seq(Frame) /\ Len(ReadOn) = Len(frames) /\ ReadOn[Len(frames)] = r
      /\ \A k \in 1..(Len(frames) - 1) : ReadOn[k] = frames[k]
  BY <1>1, <1>4, <1>5, <1>6
<1> QED BY <1>1, <1>2, <1>7 DEF r

\* Reading a child leaves ahead what was, but the names below the child.
LEMMA ReadFacts ==
  ASSUME TrieInv, OnPath(frames), frames # <<>>, Top.next <= Len(children[Top.node])
  PROVE  /\ OnPath(ReadOn)
         /\ \A x \in Seq(Char) :
              /\ AheadOf(frames, x) <=> (AheadOf(ReadOn, x) \/ Extends(x, Visited))
              /\ Extends(x, Visited) => ~AheadOf(ReadOn, x)
<1> DEFINE L == Len(frames)
<1>1. /\ ReadOn \in Seq(Frame) /\ Len(ReadOn) = L /\ L \in Nat \ {0}
      /\ \A k \in 1..(L - 1) : ReadOn[k] = frames[k]
      /\ Top = frames[L] /\ Top.next \in 1..Len(children[Top.node])
      /\ Top.node \in DOMAIN children /\ Len(children[Top.node]) \in Nat
      /\ ReadOn[L].node = Top.node /\ ReadOn[L].next = Top.next + 1 /\ ReadOn[L].state = Top.state
  BY ReadFrames
<1> HIDE DEF L
<1>2. Len(frames) = L
  BY DEF L
<1>3. ASSUME NEW k \in 1..L
      PROVE  k = L \/ (k \in 1..(L - 1) /\ ReadOn[k] = frames[k])
  BY <1>1
<1>4. ASSUME NEW k \in 1..L PROVE ReadOn[k].node = frames[k].node
  BY <1>1, <1>3
<1>5. ASSUME NEW k \in 1..L
      PROVE  /\ frames[k].node \in DOMAIN children /\ Len(frames[k].node) = k - 1
             /\ frames[k].next \in 1..(Len(children[frames[k].node]) + 1)
             /\ frames[k].state = State(pattern, frames[k].node) /\ frames[k].state # {}
  BY <1>2 DEF OnPath
<1>6. ASSUME NEW k \in 1..L, NEW l \in 1..L, k < l
      PROVE  frames[k].next > 1 /\ Extends(frames[l].node, Child(frames[k], frames[k].next - 1))
  BY <1>2, <1>6 DEF OnPath
<1>7. Top.next + 1 \in 1..(Len(children[Top.node]) + 1)
  BY <1>1
<1>8. OnPath(ReadOn)
  <2>1. ASSUME NEW k \in 1..L
        PROVE  /\ ReadOn[k].node \in DOMAIN children /\ Len(ReadOn[k].node) = k - 1
               /\ ReadOn[k].next \in 1..(Len(children[ReadOn[k].node]) + 1)
               /\ ReadOn[k].state = State(pattern, ReadOn[k].node) /\ ReadOn[k].state # {}
    <3>1. CASE k = L
      BY <1>1, <1>5, <1>7, <3>1
    <3>2. CASE k \in 1..(L - 1) /\ ReadOn[k] = frames[k]
      BY <1>5, <3>2
    <3> QED BY <1>3, <3>1, <3>2
  <2>2. ASSUME NEW k \in 1..L, NEW l \in 1..L, k < l
        PROVE  ReadOn[k].next > 1 /\ Extends(ReadOn[l].node, Child(ReadOn[k], ReadOn[k].next - 1))
    <3>1. ReadOn[k] = frames[k]
      BY <1>1, <2>2
    <3>2. frames[k].next > 1 /\ Extends(frames[l].node, Child(frames[k], frames[k].next - 1))
      BY <1>6, <2>2
    <3> QED BY <3>1, <3>2, <1>4
  <2> QED BY <1>1, <2>1, <2>2 DEF OnPath
<1>9. ASSUME NEW x \in Seq(Char)
      PROVE  AheadOf(frames, x) <=> (AheadOf(ReadOn, x) \/ Extends(x, Visited))
  <2>1. ASSUME NEW k \in 1..L, NEW i \in frames[k].next..Len(children[frames[k].node]), Extends(x, Child(frames[k], i))
        PROVE  AheadOf(ReadOn, x) \/ Extends(x, Visited)
    <3>1. CASE k = L
      <4>1. i \in Top.next..Len(children[Top.node]) /\ Extends(x, Child(Top, i))
        BY <1>1, <2>1, <3>1
      <4>2. i = Top.next \/ i \in (Top.next + 1)..Len(children[Top.node])
        BY <1>1, <4>1
      <4>3. Child(ReadOn[L], i) = Child(Top, i)
        BY <1>1 DEF Child
      <4>4. CASE i = Top.next
        BY <4>1, <4>4 DEF Visited
      <4>5. CASE i \in (Top.next + 1)..Len(children[Top.node])
        BY <1>1, <4>1, <4>3, <4>5 DEF AheadOf
      <4> QED BY <4>2, <4>4, <4>5
    <3>2. CASE k \in 1..(L - 1) /\ ReadOn[k] = frames[k]
      BY <1>1, <2>1, <3>2 DEF AheadOf
    <3> QED BY <1>3, <3>1, <3>2
  <2>2. ASSUME NEW k \in 1..L, NEW i \in ReadOn[k].next..Len(children[ReadOn[k].node]), Extends(x, Child(ReadOn[k], i))
        PROVE  AheadOf(frames, x)
    <3>1. CASE k = L
      <4>1. i \in Top.next..Len(children[Top.node])
        BY <1>1, <2>2, <3>1
      <4>2. Child(ReadOn[L], i) = Child(frames[L], i)
        BY <1>1 DEF Child
      <4> QED BY <1>1, <1>2, <2>2, <3>1, <4>1, <4>2 DEF AheadOf
    <3>2. CASE k \in 1..(L - 1) /\ ReadOn[k] = frames[k]
      BY <1>2, <2>2, <3>2 DEF AheadOf
    <3> QED BY <1>3, <3>1, <3>2
  <2>3. ASSUME Extends(x, Visited) PROVE AheadOf(frames, x)
    <3>1. Top.next \in Top.next..Len(children[Top.node]) /\ L \in 1..L
      BY <1>1
    <3> QED BY <1>1, <1>2, <2>3, <3>1 DEF AheadOf, Visited
  <2> QED BY <1>1, <1>2, <2>1, <2>2, <2>3 DEF AheadOf
<1>10. ASSUME NEW x \in Seq(Char), Extends(x, Visited), AheadOf(ReadOn, x)
      PROVE  FALSE
  <2>1. PICK k \in 1..L : \E i \in ReadOn[k].next..Len(children[ReadOn[k].node]) : Extends(x, Child(ReadOn[k], i))
    BY <1>1, <1>10 DEF AheadOf
  <2>2. PICK i \in ReadOn[k].next..Len(children[ReadOn[k].node]) : Extends(x, Child(ReadOn[k], i))
    BY <2>1
  <2>3. Extends(x, Append(Top.node, children[Top.node][Top.next]))
    BY <1>10 DEF Visited, Child
  <2>4. CASE k = L
    <3>1. i \in 1..Len(children[Top.node]) /\ i # Top.next
      BY <1>1, <2>2, <2>4
    <3>2. Extends(x, Append(Top.node, children[Top.node][i]))
      BY <1>1, <2>2, <2>4 DEF Child
    <3> QED BY <1>1, <2>3, <3>1, <3>2, SameChild
  <2>5. CASE k \in 1..(L - 1) /\ ReadOn[k] = frames[k]
    <3> DEFINE u == frames[k].node
               m == frames[k].next - 1
    <3>1. /\ u \in DOMAIN children /\ frames[k].next \in 1..(Len(children[u]) + 1)
          /\ frames[k].next > 1 /\ Extends(Top.node, Child(frames[k], m))
      <4>1. k < L /\ L \in 1..L
        BY <1>1, <2>5
      <4> QED BY <1>1, <1>5, <1>6, <4>1
    <3>2. Len(children[u]) \in Nat
      BY <3>1, NodeFacts
    <3>3. m \in 1..Len(children[u]) /\ i \in 1..Len(children[u]) /\ i # m
      BY <2>2, <2>5, <3>1, <3>2
    <3>4. Extends(x, Top.node)
      BY <1>1, <2>3, BelowChild
    <3>5. Extends(Top.node, Append(u, children[u][m])) /\ Extends(x, Append(u, children[u][i]))
      BY <2>2, <2>5, <3>1 DEF Child
    <3> HIDE DEF u, m
    <3>6. Len(x) \in Nat /\ Len(Top.node) \in Nat /\ Len(Append(u, children[u][m])) \in Nat
      <4>1. Len(u) \in Nat /\ Len(Append(u, children[u][m])) = Len(u) + 1
        BY <3>1, <3>3, NodeFacts
      <4> QED BY <1>1, <4>1, NodeFacts, LenProperties
    <3>7. Extends(x, Append(u, children[u][m]))
      BY <3>4, <3>5, <3>6, ExtendsTransitive
    <3> QED BY <3>1, <3>3, <3>5, <3>7, SameChild
  <2> QED BY <1>3, <2>4, <2>5
<1> QED BY <1>8, <1>9, <1>10

\* The stack with a frame for the child.
Pushed == Append(ReadOn, [node |-> Visited, next |-> 1, state |-> State(pattern, Visited)])

\* The child itself.
LEMMA VisitedFacts ==
  ASSUME TrieInv, OnPath(frames), frames # <<>>, Top.next <= Len(children[Top.node])
  PROVE  /\ Visited \in DOMAIN children /\ Visited \in Seq(Char) /\ Visited # <<>>
         /\ Len(Visited) = Len(frames) /\ Len(children[Visited]) \in Nat
         /\ Extends(Visited, Visited) /\ Extends(Visited, Top.node)
         /\ AheadOf(frames, Visited) /\ Top.node \in Seq(Char) /\ children[Top.node][Top.next] \in Char
         /\ Visited = Append(Top.node, children[Top.node][Top.next])
         /\ Top.state = State(pattern, Top.node)
<1>1. /\ Top \in Frame /\ Top = frames[Len(frames)] /\ Len(frames) \in Nat \ {0}
      /\ Top.next \in 1..Len(children[Top.node]) /\ Top.node \in DOMAIN children
  BY ReadFrames
<1>2. Visited = Append(Top.node, children[Top.node][Top.next])
  BY DEF Visited, Child
<1>3. Len(Top.node) = Len(frames) - 1 /\ Top.state = State(pattern, Top.node)
  BY <1>1 DEF OnPath
<1>4. /\ Visited \in DOMAIN children /\ Visited \in Seq(Char) /\ Len(Visited) = Len(Top.node) + 1
      /\ Top.node \in Seq(Char) /\ children[Top.node][Top.next] \in Char
  BY <1>1, <1>2, NodeFacts
<1>5. Len(Visited) = Len(frames) /\ Visited # <<>>
  BY <1>1, <1>3, <1>4, EmptySeq
<1>6. Extends(Visited, Visited) /\ Len(children[Visited]) \in Nat
  BY <1>4, PrefixEnds, NodeFacts
<1>7. Extends(Visited, Top.node)
  BY <1>1, <1>2, <1>4, <1>6, BelowChild
<1>8. AheadOf(frames, Visited)
  BY <1>4, <1>6, ReadFacts
<1> QED BY <1>2, <1>3, <1>4, <1>5, <1>6, <1>7, <1>8

\* The frame of the child has its children ahead.
LEMMA PushFacts ==
  ASSUME TrieInv, OnPath(frames), frames # <<>>, Top.next <= Len(children[Top.node]),
         State(pattern, Visited) # {}
  PROVE  /\ OnPath(Pushed)
         /\ \A x : AheadOf(Pushed, x) <=>
              \/ AheadOf(ReadOn, x)
              \/ \E i \in 1..Len(children[Visited]) : Extends(x, Append(Visited, children[Visited][i]))
<1> DEFINE L == Len(frames)
           f == [node |-> Visited, next |-> 1, state |-> State(pattern, Visited)]
<1>1. /\ ReadOn \in Seq(Frame) /\ Len(ReadOn) = L /\ L \in Nat \ {0} /\ OnPath(ReadOn)
      /\ ReadOn[L].node = Top.node /\ ReadOn[L].next = Top.next + 1
      /\ Top.next \in 1..Len(children[Top.node]) /\ Top.node \in DOMAIN children
  BY ReadFrames, ReadFacts
<1>2. /\ Visited \in DOMAIN children /\ Visited \in Seq(Char) /\ Len(Visited) = L
      /\ Extends(Visited, Visited) /\ Extends(Visited, Top.node) /\ Len(children[Visited]) \in Nat
      /\ Visited = Append(Top.node, children[Top.node][Top.next])
  BY VisitedFacts
<1>3. State(pattern, Visited) \subseteq Nat
  <2>1. State(pattern, Visited) \subseteq 0..Len(pattern)
    BY DEF State, Active
  <2> QED BY <2>1
<1>4. f \in Frame /\ f.state # {} /\ f.node = Visited /\ f.next = 1 /\ f.state = State(pattern, Visited)
  BY <1>2, <1>3 DEF Frame
<1>5. Pushed = Append(ReadOn, f)
  BY DEF Pushed
<1> HIDE DEF L, f
<1>6. /\ Pushed \in Seq(Frame) /\ Len(Pushed) = L + 1 /\ Pushed[L + 1] = f
      /\ \A k \in 1..L : Pushed[k] = ReadOn[k]
  BY <1>1, <1>4, <1>5, AppendProperties
<1>7. ASSUME NEW k \in 1..(L + 1) PROVE k \in 1..L \/ k = L + 1
  BY <1>1
<1>8. ASSUME NEW k \in 1..L
      PROVE  /\ ReadOn[k].node \in DOMAIN children /\ Len(ReadOn[k].node) = k - 1
             /\ ReadOn[k].next \in 1..(Len(children[ReadOn[k].node]) + 1)
             /\ ReadOn[k].state = State(pattern, ReadOn[k].node) /\ ReadOn[k].state # {}
  BY <1>1 DEF OnPath
<1>9. ASSUME NEW k \in 1..L, NEW l \in 1..L, k < l
      PROVE  ReadOn[k].next > 1 /\ Extends(ReadOn[l].node, Child(ReadOn[k], ReadOn[k].next - 1))
  BY <1>1, <1>9 DEF OnPath
<1>10. ASSUME NEW k \in 1..L
       PROVE  ReadOn[k].next > 1 /\ Extends(Visited, Child(ReadOn[k], ReadOn[k].next - 1))
  <2>1. CASE k = L
    <3>1. ReadOn[L].next > 1 /\ ReadOn[L].next - 1 = Top.next
      BY <1>1
    <3>2. Child(ReadOn[L], ReadOn[L].next - 1) = Visited
      BY <1>1, <1>2, <3>1 DEF Child
    <3> QED BY <1>2, <2>1, <3>1, <3>2
  <2>2. CASE k # L
    <3> DEFINE u == ReadOn[k].node
               m == ReadOn[k].next - 1
    <3>1. k < L /\ L \in 1..L
      BY <1>1, <2>2
    <3>2. ReadOn[k].next > 1 /\ Extends(Top.node, Child(ReadOn[k], m))
      BY <1>1, <1>9, <3>1
    <3>3. u \in DOMAIN children /\ ReadOn[k].next \in 1..(Len(children[u]) + 1)
      BY <1>8
    <3>4. Len(children[u]) \in Nat
      BY <3>3, NodeFacts
    <3>5. m \in 1..Len(children[u])
      BY <3>2, <3>3, <3>4
    <3>6. Child(ReadOn[k], m) = Append(u, children[u][m])
      BY DEF Child
    <3> HIDE DEF u, m
    <3>7. Len(Append(u, children[u][m])) \in Nat /\ Len(Visited) \in Nat /\ Len(Top.node) \in Nat
      <4>1. Len(u) \in Nat /\ Len(Append(u, children[u][m])) = Len(u) + 1
        BY <3>3, <3>5, NodeFacts
      <4> QED BY <1>1, <1>2, <4>1, NodeFacts
    <3>8. Extends(Visited, Append(u, children[u][m]))
      BY <1>2, <3>2, <3>6, <3>7, ExtendsTransitive
    <3> QED BY <3>2, <3>6, <3>8 DEF m
  <2> QED BY <2>1, <2>2
<1>11. OnPath(Pushed)
  <2>1. ASSUME NEW k \in 1..(L + 1)
        PROVE  /\ Pushed[k].node \in DOMAIN children /\ Len(Pushed[k].node) = k - 1
               /\ Pushed[k].next \in 1..(Len(children[Pushed[k].node]) + 1)
               /\ Pushed[k].state = State(pattern, Pushed[k].node) /\ Pushed[k].state # {}
    <3>1. CASE k \in 1..L
      BY <1>6, <1>8, <3>1
    <3>2. CASE k = L + 1
      <4>1. Pushed[k] = f /\ Len(Visited) = k - 1 /\ 1 \in 1..(Len(children[Visited]) + 1)
        BY <1>1, <1>2, <1>6, <3>2
      <4> QED BY <1>2, <1>4, <4>1
    <3> QED BY <1>7, <3>1, <3>2
  <2>2. ASSUME NEW k \in 1..(L + 1), NEW l \in 1..(L + 1), k < l
        PROVE  Pushed[k].next > 1 /\ Extends(Pushed[l].node, Child(Pushed[k], Pushed[k].next - 1))
    <3>1. k \in 1..L /\ Pushed[k] = ReadOn[k]
      BY <1>1, <1>6, <2>2
    <3>2. CASE l \in 1..L
      BY <1>6, <1>9, <2>2, <3>1, <3>2
    <3>3. CASE l = L + 1
      BY <1>4, <1>6, <1>10, <3>1, <3>3
    <3> QED BY <1>7, <3>2, <3>3
  <2> QED BY <1>6, <2>1, <2>2 DEF OnPath
<1>12. ASSUME NEW x
       PROVE  AheadOf(Pushed, x) <=>
                \/ AheadOf(ReadOn, x)
                \/ \E i \in 1..Len(children[Visited]) : Extends(x, Append(Visited, children[Visited][i]))
  <2>1. ASSUME NEW k \in 1..L
        PROVE  (\E i \in Pushed[k].next..Len(children[Pushed[k].node]) : Extends(x, Child(Pushed[k], i)))
               <=> \E i \in ReadOn[k].next..Len(children[ReadOn[k].node]) : Extends(x, Child(ReadOn[k], i))
    BY <1>6
  <2>2. (\E i \in Pushed[L + 1].next..Len(children[Pushed[L + 1].node]) : Extends(x, Child(Pushed[L + 1], i)))
        <=> \E i \in 1..Len(children[Visited]) : Extends(x, Append(Visited, children[Visited][i]))
    BY <1>4, <1>6 DEF Child
  <2>3. L + 1 \in 1..(L + 1) /\ \A k \in 1..L : k \in 1..(L + 1)
    BY <1>1
  <2> QED BY <1>1, <1>6, <1>7, <2>1, <2>2, <2>3 DEF AheadOf
<1> QED BY <1>11, <1>12

-----------------------------------------------------------------------------
(* The invariant of the search                                             *)

\* What has been found so far, and the nodes that are not ahead.
Answer == Elements(delivered) \cup Elements(pending)
Passed(fs) == {x \in DOMAIN children \ {<<>>} : ~AheadOf(fs, x)}

Closed == frames = <<>> /\ pending = <<>> /\ delivered = <<>> /\ ended = FALSE /\ visitedNodes = 0

\* The cursor has found the names the pattern denotes that are not ahead of it,
\* each once, and has counted no more nodes than it has passed.
Open ==
  /\ pattern \in Pattern /\ OnPath(frames)
  /\ delivered \in Seq(Name) /\ pending \in Seq(Name) /\ Len(pending) <= 1
  /\ \A i, j \in 1..Len(delivered) : delivered[i] = delivered[j] => i = j
  /\ Elements(delivered) \cap Elements(pending) = {}
  /\ Answer = {n \in Elements(names) : Denotes(pattern, n) /\ ~AheadOf(frames, n)}
  /\ ended => frames = <<>> /\ pending = <<>>
  /\ visitedNodes \in Nat /\ visitedNodes <= Cardinality(Passed(frames))

SearchInv == TrieInv /\ (IF call = "closed" THEN Closed ELSE Open)

-----------------------------------------------------------------------------
\* The names added are names.
LEMMA NamesAre ==
  ASSUME TrieInv
  PROVE  Elements(names) \subseteq Seq(Char) \ {<<>>} /\ Elements(names) \subseteq Name
<1>1. names \in Seq(Name)
  BY DEF TrieInv
<1>2. \A i \in DOMAIN names : names[i] \in Name
  BY <1>1, LenProperties, ElementOfSeq
<1> QED BY <1>2, NameAssumption DEF Elements

\* A stack means the same after a step that keeps the trie and the pattern.
LEMMA StackKept ==
  ASSUME NEW fs, frames' = fs, children' = children, pattern' = pattern
  PROVE  /\ OnPath(frames)' <=> OnPath(fs)
         /\ \A x : (AheadOf(frames, x))' <=> AheadOf(fs, x)
         /\ Passed(frames)' = Passed(fs)
<1>1. OnPath(frames)' <=> OnPath(fs)
  BY DEF OnPath, Child
<1>2. \A x : (AheadOf(frames, x))' <=> AheadOf(fs, x)
  BY DEF AheadOf, Child
<1> QED BY <1>1, <1>2 DEF Passed

\* The trie stays what it is when no name is added.
LEMMA TrieKept ==
  ASSUME TrieInv, names' = names, children' = children
  PROVE  TrieInv'
BY DEF TrieInv, Elements

\* The nodes passed are nodes other than the root.
LEMMA PassedFinite ==
  ASSUME TrieInv, NEW fs
  PROVE  IsFiniteSet(Passed(fs)) /\ Cardinality(Passed(fs)) \in Nat
         /\ Cardinality(Passed(fs)) <= Cardinality(DOMAIN children) - 1
<1>1. IsFiniteSet(DOMAIN children) /\ <<>> \in DOMAIN children
  BY DEF TrieInv
<1>2. /\ IsFiniteSet(DOMAIN children \ {<<>>})
      /\ Cardinality(DOMAIN children \ {<<>>}) = Cardinality(DOMAIN children) - 1
  BY <1>1, FS_RemoveElement
<1>3. Passed(fs) \subseteq DOMAIN children \ {<<>>}
  BY DEF Passed
<1> QED BY <1>2, <1>3, FS_Subset, FS_CardinalityType

\* The elements of a sequence of none and of one.
LEMMA EmptyElements ==
  Elements(<<>>) = {} /\ \A x : Elements(<<x>>) = {x}
<1>1. DOMAIN <<>> = {}
  OBVIOUS
<1>2. \A x : DOMAIN <<x>> = {1} /\ <<x>>[1] = x
  OBVIOUS
<1> QED BY <1>1, <1>2 DEF Elements

\* The elements of two sequences.
LEMMA ElementsConcat ==
  ASSUME NEW S, NEW s \in Seq(S), NEW t \in Seq(S)
  PROVE  Elements(s \o t) = Elements(s) \cup Elements(t)
<1>1. /\ Len(s) \in Nat /\ Len(t) \in Nat /\ DOMAIN s = 1..Len(s) /\ DOMAIN t = 1..Len(t)
      /\ s \o t \in Seq(S) /\ Len(s \o t) = Len(s) + Len(t) /\ DOMAIN (s \o t) = 1..(Len(s) + Len(t))
      /\ \A i \in 1..(Len(s) + Len(t)) : (s \o t)[i] = IF i <= Len(s) THEN s[i] ELSE t[i - Len(s)]
  BY LenProperties, ConcatProperties
<1>2. ASSUME NEW i \in 1..(Len(s) + Len(t)) PROVE (s \o t)[i] \in Elements(s) \cup Elements(t)
  <2>1. CASE i <= Len(s)
    BY <1>1, <2>1 DEF Elements
  <2>2. CASE ~(i <= Len(s))
    <3>1. i - Len(s) \in 1..Len(t)
      BY <1>1, <2>2
    <3> QED BY <1>1, <2>2, <3>1 DEF Elements
  <2> QED BY <2>1, <2>2
<1>3. ASSUME NEW i \in 1..Len(s) PROVE s[i] \in Elements(s \o t)
  <2>1. i \in 1..(Len(s) + Len(t)) /\ i <= Len(s)
    BY <1>1
  <2> QED BY <1>1, <2>1 DEF Elements
<1>4. ASSUME NEW i \in 1..Len(t) PROVE t[i] \in Elements(s \o t)
  <2>1. Len(s) + i \in 1..(Len(s) + Len(t)) /\ ~(Len(s) + i <= Len(s)) /\ (Len(s) + i) - Len(s) = i
    BY <1>1
  <2> QED BY <1>1, <2>1 DEF Elements
<1>5. /\ \A e \in Elements(s \o t) : \E i \in 1..(Len(s) + Len(t)) : e = (s \o t)[i]
      /\ \A e \in Elements(s) : \E i \in 1..Len(s) : e = s[i]
      /\ \A e \in Elements(t) : \E i \in 1..Len(t) : e = t[i]
  BY <1>1 DEF Elements
<1>6. Elements(s \o t) \subseteq Elements(s) \cup Elements(t)
  BY <1>2, <1>5
<1>7. Elements(s) \subseteq Elements(s \o t) /\ Elements(t) \subseteq Elements(s \o t)
  BY <1>3, <1>4, <1>5
<1> QED BY <1>6, <1>7

\* A match that was not delivered is delivered once.
LEMMA DeliverOnce ==
  ASSUME NEW S, NEW s \in Seq(S), NEW t \in Seq(S), Len(t) <= 1, Elements(s) \cap Elements(t) = {},
         \A i, j \in 1..Len(s) : s[i] = s[j] => i = j
  PROVE  /\ s \o t \in Seq(S)
         /\ \A i, j \in 1..Len(s \o t) : (s \o t)[i] = (s \o t)[j] => i = j
<1>0. Len(s) \in Nat /\ Len(t) \in Nat
  BY LenProperties
<1>1. /\ Len(s) \in Nat /\ Len(t) \in {0, 1} /\ DOMAIN s = 1..Len(s) /\ DOMAIN t = 1..Len(t)
      /\ s \o t \in Seq(S) /\ Len(s \o t) = Len(s) + Len(t)
      /\ \A i \in 1..(Len(s) + Len(t)) : (s \o t)[i] = IF i <= Len(s) THEN s[i] ELSE t[i - Len(s)]
  <2>1. Len(t) \in {0, 1}
    <3>1. \A k \in Nat : k <= 1 => k \in {0, 1}
      OBVIOUS
    <3> QED BY <1>0, <3>1
  <2>2. DOMAIN s = 1..Len(s) /\ DOMAIN t = 1..Len(t)
    BY LenProperties
  <2> QED BY <1>0, <2>1, <2>2, ConcatProperties
<1>2. CASE Len(t) = 0
  BY <1>1, <1>2
<1>3. CASE Len(t) = 1
  <2>1. t[1] \in Elements(t) /\ \A i \in 1..Len(s) : s[i] \in Elements(s)
    BY <1>1, <1>3 DEF Elements
  <2>2. (s \o t)[Len(s) + 1] = t[1] /\ \A i \in 1..Len(s) : (s \o t)[i] = s[i]
    BY <1>1, <1>3
  <2>3. \A i \in 1..Len(s \o t) : i \in 1..Len(s) \/ i = Len(s) + 1
    BY <1>1, <1>3
  <2> QED BY <1>1, <2>1, <2>2, <2>3
<1> QED BY <1>1, <1>2, <1>3

-----------------------------------------------------------------------------
\* The names below the child, before and after the step that visits it.
LEMMA PushAhead ==
  ASSUME TrieInv, OnPath(frames), frames # <<>>, Top.next <= Len(children[Top.node]),
         State(pattern, Visited) # {}
  PROVE  /\ \A x \in Seq(Char) : ~Extends(x, Visited) => (AheadOf(Pushed, x) <=> AheadOf(frames, x))
         /\ ~AheadOf(Pushed, Visited)
         /\ \A n \in Elements(names) : Extends(n, Visited) /\ n # Visited => AheadOf(Pushed, n) /\ AheadOf(frames, n)
<1>1. /\ Visited \in DOMAIN children /\ Visited \in Seq(Char) /\ Extends(Visited, Visited)
  BY VisitedFacts
<1>2. \A x : AheadOf(Pushed, x) <=>
              \/ AheadOf(ReadOn, x)
              \/ \E i \in 1..Len(children[Visited]) : Extends(x, Append(Visited, children[Visited][i]))
  BY PushFacts
<1>3. \A x \in Seq(Char) :
              /\ AheadOf(frames, x) <=> (AheadOf(ReadOn, x) \/ Extends(x, Visited))
              /\ Extends(x, Visited) => ~AheadOf(ReadOn, x)
  BY ReadFacts
<1>4. \A x \in Seq(Char), i \in 1..Len(children[Visited]) :
        Extends(x, Append(Visited, children[Visited][i])) => Extends(x, Visited) /\ x # Visited
  BY <1>1, BelowChild
<1>5. ASSUME NEW n \in Elements(names), Extends(n, Visited), n # Visited
      PROVE  AheadOf(Pushed, n) /\ AheadOf(frames, n)
  <2>1. \E i \in 1..Len(children[Visited]) : Extends(n, Append(Visited, children[Visited][i]))
    BY <1>1, <1>5, SomeChild
  <2>2. n \in Seq(Char)
    BY NamesAre
  <2> QED BY <1>2, <1>3, <1>5, <2>1, <2>2
<1> QED BY <1>1, <1>2, <1>3, <1>4, <1>5

\* A child that is visited is passed by that step.
LEMMA OneMorePassed ==
  ASSUME TrieInv, OnPath(frames), frames # <<>>, Top.next <= Len(children[Top.node]), NEW fs,
         ~AheadOf(fs, Visited),
         \A x \in Seq(Char) : AheadOf(fs, x) => AheadOf(frames, x)
  PROVE  Cardinality(Passed(frames)) + 1 <= Cardinality(Passed(fs))
<1>1. Visited \in DOMAIN children \ {<<>>} /\ AheadOf(frames, Visited)
  BY VisitedFacts
<1>2. Visited \notin Passed(frames) /\ Visited \in Passed(fs)
  BY <1>1 DEF Passed
<1>3. Passed(frames) \subseteq Passed(fs)
  <2>1. DOMAIN children \subseteq Seq(Char)
    BY DEF TrieInv
  <2> QED BY <2>1 DEF Passed
<1>4. IsFiniteSet(Passed(frames)) /\ Cardinality(Passed(frames)) \in Nat /\ IsFiniteSet(Passed(fs))
  BY PassedFinite
<1>5. Cardinality(Passed(frames) \cup {Visited}) = Cardinality(Passed(frames)) + 1
  BY <1>2, <1>4, FS_AddElement
<1>6. Passed(frames) \cup {Visited} \subseteq Passed(fs)
  BY <1>2, <1>3
<1>7. Cardinality(Passed(frames) \cup {Visited}) <= Cardinality(Passed(fs))
  BY <1>4, <1>6, FS_Subset
<1> QED BY <1>5, <1>7

-----------------------------------------------------------------------------
(* It holds at the start and is kept by every action                       *)

LEMMA InitSearch ==
  ASSUME Init
  PROVE  SearchInv
<1>1. names = <<>> /\ children = [node \in {<<>>} |-> <<>>] /\ DOMAIN children = {<<>>} /\ children[<<>>] = <<>>
  BY DEF Init
<1>2. names \in Seq(Name) /\ Elements(names) = {}
  BY <1>1, EmptySeq, EmptyElements
<1>3. IsFiniteSet({<<>>}) /\ <<>> \in Seq(Char)
  BY FS_Singleton, EmptySeq
<1>4. ASSUME NEW u \in Seq(Char), NEW c \in Char
      PROVE  Append(u, c) \notin DOMAIN children
  <2>1. Len(Append(u, c)) = Len(u) + 1 /\ Len(u) \in Nat /\ Append(u, c) \in Seq(Char)
    BY LenProperties, AppendProperties
  <2>2. Append(u, c) # <<>>
    BY <2>1, EmptySeq
  <2> QED BY <1>1, <2>2
<1>5. ~ \E i \in 1..Len(<<>>) : TRUE
  BY EmptySeq
<1>6. \A u \in DOMAIN children :
       /\ children[u] \in Seq(Char)
       /\ \A i, j \in 1..Len(children[u]) : children[u][i] = children[u][j] => i = j
  BY <1>1, <1>3, <1>5
<1>7. \A u \in Seq(Char), c \in Char :
       Append(u, c) \in DOMAIN children <=>
         u \in DOMAIN children /\ \E i \in 1..Len(children[u]) : children[u][i] = c
  BY <1>1, <1>4, <1>5
<1>8. TrieInv
  BY <1>1, <1>2, <1>3, <1>6, <1>7 DEF TrieInv
<1>9. call = "closed" /\ Closed
  BY DEF Init, Closed
<1> QED BY <1>8, <1>9 DEF SearchInv

\* A name that is added.
LEMMA AddSearch ==
  ASSUME SearchInv, NEW name \in Name, Add(name)
  PROVE  SearchInv'
<1>1. TrieInv'
  BY AddTrie DEF SearchInv
<1>2. call' = "closed" /\ Closed'
  BY DEF Add, SearchInv, Closed
<1> QED BY <1>1, <1>2 DEF SearchInv

\* A cursor starts with every name ahead of it.
LEMMA QuerySearch ==
  ASSUME SearchInv, NEW p \in Pattern, Query(p)
  PROVE  SearchInv'
<1> DEFINE f == [node |-> <<>>, next |-> 1, state |-> Initial(p)]
<1>1. /\ TrieInv /\ pending = <<>> /\ delivered = <<>> /\ ended = FALSE /\ visitedNodes = 0
      /\ pending' = <<>> /\ delivered' = <<>> /\ ended' = FALSE /\ visitedNodes' = 0
      /\ pattern' = p /\ call' = "idle" /\ frames' = <<f>> /\ names' = names /\ children' = children
  BY DEF SearchInv, Closed, Query
<1>2. <<>> \in DOMAIN children /\ Len(children[<<>>]) \in Nat /\ Len(<<>>) = 0 /\ <<>> \in Seq(Char)
  <2>1. <<>> \in DOMAIN children
    BY <1>1 DEF TrieInv
  <2> QED BY <1>1, <2>1, NodeFacts, EmptySeq
<1>3. Initial(p) = State(p, <<>>) /\ Initial(p) # {} /\ Initial(p) \subseteq Nat
  <2>1. State(p, <<>>) = Initial(p) /\ 0 \in Initial(p)
    BY StateStart
  <2>2. State(p, <<>>) \subseteq 0..Len(p)
    BY DEF State, Active
  <2> QED BY <2>1, <2>2
<1>4. f \in Frame /\ f.node = <<>> /\ f.next = 1 /\ f.state = Initial(p)
  BY <1>2, <1>3 DEF Frame
<1> HIDE DEF f
<1>5. <<f>> \in Seq(Frame) /\ Len(<<f>>) = 1 /\ <<f>>[1] = f /\ 1..1 = {1}
  BY <1>4
<1>6. OnPath(frames)'
  <2>1. /\ f.node \in DOMAIN children' /\ Len(f.node) = 1 - 1
        /\ f.next \in 1..(Len(children'[f.node]) + 1)
        /\ f.state = State(pattern', f.node) /\ f.state # {}
    BY <1>1, <1>2, <1>3, <1>4
  <2> QED BY <1>1, <1>5, <2>1 DEF OnPath
<1>7. ASSUME NEW n \in Elements(names)
      PROVE  (AheadOf(frames, n))'
  <2>1. n \in Seq(Char) /\ n # <<>> /\ Extends(n, <<>>)
    BY <1>1, NamesAre, PrefixEnds
  <2>2. PICK i \in 1..Len(children[<<>>]) : Extends(n, Append(<<>>, children[<<>>][i]))
    BY <1>1, <1>2, <2>1, SomeChild
  <2> QED BY <1>1, <1>4, <1>5, <2>2 DEF AheadOf, Child
<1>8. Elements(delivered)' = {} /\ Elements(pending)' = {} /\ Len(pending)' = 0 /\ Len(delivered)' = 0
      /\ <<>> \in Seq(Name)
  BY <1>1, EmptyElements, EmptySeq
<1>9. Answer' = {n \in Elements(names) : Denotes(pattern, n) /\ ~AheadOf(frames, n)}'
  <2>1. Elements(names)' = Elements(names)
    BY <1>1 DEF Elements
  <2> QED BY <1>7, <1>8, <2>1 DEF Answer
<1>10. TrieInv'
  BY <1>1, TrieKept
<1>11. (Cardinality(Passed(frames)))' \in Nat
  <2>1. Passed(frames)' \subseteq DOMAIN children
    BY <1>1 DEF Passed
  <2>2. IsFiniteSet(DOMAIN children)
    BY <1>1 DEF TrieInv
  <2>3. IsFiniteSet(Passed(frames)')
    BY <2>1, <2>2, FS_Subset
  <2>4. Cardinality(Passed(frames)') \in Nat
    BY <2>3, FS_CardinalityType
  <2> QED BY <2>4
<1>12. Open'
  BY <1>1, <1>5, <1>6, <1>8, <1>9, <1>11 DEF Open
<1> QED BY <1>1, <1>10, <1>12 DEF SearchInv

\* What a step keeps that moves neither the trie nor the cursor.
LEMMA SameStack ==
  ASSUME TrieInv, frames' = frames, children' = children, pattern' = pattern, names' = names
  PROVE  /\ TrieInv' /\ Elements(names)' = Elements(names)
         /\ OnPath(frames)' <=> OnPath(frames)
         /\ \A x : (AheadOf(frames, x))' <=> AheadOf(frames, x)
         /\ Passed(frames)' = Passed(frames)
<1>1. TrieInv'
  BY TrieKept
<1>2. Elements(names)' = Elements(names)
  BY DEF Elements
<1> QED BY <1>1, <1>2, StackKept

\* A call of hasNext or next begins.
LEMMA CallsSearch ==
  ASSUME SearchInv, NEW method \in {"hasNext", "next"}, Calls(method)
  PROVE  SearchInv'
<1>1. /\ TrieInv /\ Open /\ call' = method
      /\ frames' = frames /\ children' = children /\ pattern' = pattern /\ names' = names
      /\ pending' = pending /\ delivered' = delivered /\ ended' = ended /\ visitedNodes' = visitedNodes
  BY DEF SearchInv, Calls, KeepsPending
<1>2. /\ TrieInv' /\ Elements(names)' = Elements(names)
      /\ OnPath(frames)' <=> OnPath(frames)
      /\ \A x : (AheadOf(frames, x))' <=> AheadOf(frames, x)
      /\ Passed(frames)' = Passed(frames)
  BY <1>1, SameStack
<1>3. Open'
  BY <1>1, <1>2 DEF Open, Answer, Elements
<1> QED BY <1>1, <1>2, <1>3 DEF SearchInv

\* A frame whose children are read has nothing ahead.
LEMMA LeaveSearch ==
  ASSUME SearchInv, Leave
  PROVE  SearchInv'
<1>1. /\ TrieInv /\ Open /\ call # "closed" /\ frames # <<>> /\ pending = <<>>
      /\ Top.next > Len(children[Top.node]) /\ frames' = Below
      /\ UNCHANGED <<names, children, pattern, call, pending, delivered, ended, visitedNodes>>
  BY DEF SearchInv, Leave, Searching
<1>2. OnPath(Below) /\ \A x : AheadOf(Below, x) <=> AheadOf(frames, x)
  BY <1>1, PopFacts DEF Open
<1>3. /\ OnPath(frames)' <=> OnPath(Below)
      /\ \A x : (AheadOf(frames, x))' <=> AheadOf(Below, x)
      /\ Passed(frames)' = Passed(Below)
  BY <1>1, StackKept
<1>4. Passed(Below) = Passed(frames)
  BY <1>2 DEF Passed
<1>5. TrieInv' /\ Elements(names)' = Elements(names)
  BY <1>1, TrieKept DEF Elements
<1>6. Answer' = Answer
  BY <1>1 DEF Answer, Elements
<1>7. ~ended
  BY <1>1 DEF Open
<1>8. Answer' = {n \in Elements(names) : Denotes(pattern, n) /\ ~AheadOf(frames, n)}'
  <2>1. Answer = {n \in Elements(names) : Denotes(pattern, n) /\ ~AheadOf(frames, n)}
    BY <1>1 DEF Open
  <2> QED BY <1>1, <1>2, <1>3, <1>5, <1>6, <2>1
<1>9. (Elements(delivered) \cap Elements(pending))' = {}
  BY <1>1 DEF Open, Elements
<1>10. Open'
  BY <1>1, <1>2, <1>3, <1>4, <1>7, <1>8, <1>9 DEF Open
<1> QED BY <1>1, <1>5, <1>10 DEF SearchInv

\* A child is read: below it lie no matches, or it is searched next.
LEMMA VisitSearch ==
  ASSUME SearchInv, VisitChild
  PROVE  SearchInv'
<1> DEFINE c == children[Top.node][Top.next]
           s == State(pattern, Visited)
<1>1. /\ TrieInv /\ Open /\ call # "closed" /\ frames # <<>> /\ pending = <<>>
      /\ Top.next <= Len(children[Top.node]) /\ OnPath(frames) /\ pattern \in Pattern
      /\ UNCHANGED <<names, children, pattern, call, delivered, ended>>
      /\ visitedNodes' = visitedNodes + 1 /\ ~ended /\ visitedNodes \in Nat
  BY DEF SearchInv, VisitChild, Searching, Open
<1>2. /\ Visited \in DOMAIN children /\ Visited \in Seq(Char) /\ Visited # <<>>
      /\ Extends(Visited, Visited) /\ AheadOf(frames, Visited)
      /\ Top.node \in Seq(Char) /\ c \in Char
      /\ Visited = Append(Top.node, c) /\ Top.state = State(pattern, Top.node)
  BY <1>1, VisitedFacts
<1>3. Advance(pattern, Top.state, c) = s
  BY <1>1, <1>2, StateStep
<1>4. IF s = {}
      THEN frames' = ReadOn /\ pending' = <<>>
      ELSE /\ frames' = Pushed
           /\ pending' = IF Visited \in Elements(names) /\ Accepts(pattern, s) THEN <<Visited>> ELSE <<>>
  <2>1. Append(Top.node, c) = Visited
    BY <1>2
  <2> QED BY <1>3, <2>1 DEF VisitChild, ReadOn, Pushed
<1> HIDE DEF c, s
<1>5. TrieInv' /\ Elements(names)' = Elements(names) /\ Elements(delivered)' = Elements(delivered)
  BY <1>1, TrieKept DEF Elements
<1>6. /\ Elements(names) \subseteq Seq(Char) \ {<<>>} /\ Elements(names) \subseteq Name
      /\ Elements(pending) = {}
  BY <1>1, NamesAre, EmptyElements
<1>7. Elements(delivered) = {n \in Elements(names) : Denotes(pattern, n) /\ ~AheadOf(frames, n)}
  <2>1. Answer = {n \in Elements(names) : Denotes(pattern, n) /\ ~AheadOf(frames, n)}
    BY <1>1 DEF Open
  <2> QED BY <1>6, <2>1 DEF Answer
<1>8. /\ delivered \in Seq(Name) /\ delivered' = delivered
      /\ \A i, j \in 1..Len(delivered) : delivered[i] = delivered[j] => i = j
      /\ visitedNodes <= Cardinality(Passed(frames)) /\ Cardinality(Passed(frames)) \in Nat
  BY <1>1, PassedFinite DEF Open
\* The invariant of the new stack, whichever it is.
<1>9. ASSUME NEW fs, frames' = fs, OnPath(fs), ~AheadOf(fs, Visited),
             \A x \in Seq(Char) : AheadOf(fs, x) => AheadOf(frames, x),
             pending' \in Seq(Name), Len(pending') <= 1,
             Elements(pending') = {n \in Elements(names) : /\ Denotes(pattern, n) /\ ~AheadOf(fs, n)
                                                           /\ AheadOf(frames, n)}
      PROVE  Open'
  <2>1. /\ OnPath(frames)' /\ Passed(frames)' = Passed(fs)
        /\ \A x : (AheadOf(frames, x))' <=> AheadOf(fs, x)
    BY <1>1, <1>9, StackKept
  <2>2. Cardinality(Passed(frames)) + 1 <= Cardinality(Passed(fs)) /\ Cardinality(Passed(fs)) \in Nat
    BY <1>1, <1>9, OneMorePassed, PassedFinite
  <2>3. visitedNodes' \in Nat /\ visitedNodes' <= Cardinality(Passed(fs))
    BY <1>1, <1>8, <2>2
  <2>4. Elements(pending)' = Elements(pending')
    BY DEF Elements
  <2>5. (Elements(delivered) \cap Elements(pending))' = {}
    BY <1>5, <1>7, <1>9, <2>4
  <2>6. Answer' = {n \in Elements(names) : Denotes(pattern, n) /\ ~AheadOf(frames, n)}'
    <3>1. Answer' = Elements(delivered) \cup Elements(pending')
      BY <1>5, <2>4 DEF Answer
    <3>2. {n \in Elements(names) : Denotes(pattern, n) /\ ~AheadOf(frames, n)}'
            = {n \in Elements(names) : Denotes(pattern, n) /\ ~AheadOf(fs, n)}
      BY <1>1, <1>5, <2>1
    <3> QED BY <1>6, <1>7, <1>9, <3>1, <3>2
  <2> QED BY <1>1, <1>8, <1>9, <2>1, <2>3, <2>5, <2>6 DEF Open
<1>10. CASE s = {}
  <2>1. frames' = ReadOn /\ pending' = <<>> /\ pending' \in Seq(Name) /\ Len(pending') <= 1 /\ Elements(pending') = {}
    BY <1>4, <1>10, EmptyElements, EmptySeq
  <2>2. /\ OnPath(ReadOn)
        /\ \A x \in Seq(Char) :
             /\ AheadOf(frames, x) <=> (AheadOf(ReadOn, x) \/ Extends(x, Visited))
             /\ Extends(x, Visited) => ~AheadOf(ReadOn, x)
    BY <1>1, ReadFacts
  <2>3. ASSUME NEW n \in Elements(names), Denotes(pattern, n), Extends(n, Visited) PROVE FALSE
    <3>1. State(pattern, n) = {}
      BY <1>1, <1>2, <1>6, <1>10, <2>3, NoneLeft DEF s
    <3>2. Accepts(pattern, State(pattern, n))
      BY <1>1, <2>3, StateDenotes
    <3> QED BY <3>1, <3>2 DEF Accepts
  <2>4. {n \in Elements(names) : Denotes(pattern, n) /\ ~AheadOf(ReadOn, n) /\ AheadOf(frames, n)} = {}
    BY <1>6, <2>2, <2>3
  <2>5. Open'
    BY <1>2, <1>9, <2>1, <2>2, <2>4
  <2> QED BY <1>1, <1>5, <2>5 DEF SearchInv
<1>11. CASE s # {}
  <2>1. /\ OnPath(Pushed) /\ ~AheadOf(Pushed, Visited)
        /\ \A x \in Seq(Char) : ~Extends(x, Visited) => (AheadOf(Pushed, x) <=> AheadOf(frames, x))
        /\ \A n \in Elements(names) : Extends(n, Visited) /\ n # Visited => AheadOf(Pushed, n) /\ AheadOf(frames, n)
    BY <1>1, <1>11, PushFacts, PushAhead DEF s
  <2>2. \A x \in Seq(Char) : AheadOf(Pushed, x) => AheadOf(frames, x)
    <3>1. \A x \in Seq(Char) : Extends(x, Visited) => AheadOf(frames, x)
      BY <1>1, ReadFacts
    <3> QED BY <2>1, <3>1
  <2>3. {n \in Elements(names) : Denotes(pattern, n) /\ ~AheadOf(Pushed, n) /\ AheadOf(frames, n)}
          = {n \in {Visited} : n \in Elements(names) /\ Denotes(pattern, n)}
    BY <1>2, <1>6, <2>1
  <2>4. Accepts(pattern, s) <=> Denotes(pattern, Visited)
    BY <1>1, StateDenotes DEF s
  <2>5. /\ pending' \in Seq(Name) /\ Len(pending') <= 1
        /\ Elements(pending') = {n \in {Visited} : n \in Elements(names) /\ Denotes(pattern, n)}
    <3>1. CASE Visited \in Elements(names) /\ Accepts(pattern, s)
      <4>1. pending' = <<Visited>> /\ Visited \in Name
        BY <1>4, <1>6, <1>11, <3>1
      <4> QED BY <2>4, <3>1, <4>1, EmptyElements
    <3>2. CASE ~(Visited \in Elements(names) /\ Accepts(pattern, s))
      <4>1. pending' = <<>>
        BY <1>4, <1>11, <3>2
      <4> QED BY <2>4, <3>2, <4>1, EmptyElements, EmptySeq
    <3> QED BY <3>1, <3>2
  <2>6. frames' = Pushed
    BY <1>4, <1>11
  <2>7. Open'
    BY <1>9, <2>1, <2>2, <2>3, <2>5, <2>6
  <2> QED BY <1>1, <1>5, <2>7 DEF SearchInv
<1> QED BY <1>10, <1>11

\* hasNext answers: it ends the cursor only when the stack is empty.
LEMMA HasNextSearch ==
  ASSUME SearchInv, HasNextReturns
  PROVE  SearchInv'
<1>1. /\ TrieInv /\ Open /\ call' = "idle" /\ (pending # <<>> \/ frames = <<>>) /\ ended' = (pending = <<>>)
      /\ frames' = frames /\ children' = children /\ pattern' = pattern /\ names' = names
      /\ pending' = pending /\ delivered' = delivered /\ visitedNodes' = visitedNodes
  BY DEF SearchInv, HasNextReturns, Found
<1>2. /\ TrieInv' /\ Elements(names)' = Elements(names)
      /\ OnPath(frames)' <=> OnPath(frames)
      /\ \A x : (AheadOf(frames, x))' <=> AheadOf(frames, x)
      /\ Passed(frames)' = Passed(frames)
  BY <1>1, SameStack
<1>3. ended' => frames' = <<>> /\ pending' = <<>>
  BY <1>1
<1>4. Open'
  BY <1>1, <1>2, <1>3 DEF Open, Answer, Elements
<1> QED BY <1>1, <1>2, <1>4 DEF SearchInv

\* next delivers what was found, or ends the cursor.
LEMMA NextSearch ==
  ASSUME SearchInv, NextReturns
  PROVE  SearchInv'
<1>1. /\ TrieInv /\ Open /\ call' = "idle" /\ (pending # <<>> \/ frames = <<>>) /\ ended' = (pending = <<>>)
      /\ frames' = frames /\ children' = children /\ pattern' = pattern /\ names' = names
      /\ pending' = <<>> /\ delivered' = delivered \o pending /\ visitedNodes' = visitedNodes
  BY DEF SearchInv, NextReturns, Found
<1>2. /\ TrieInv' /\ Elements(names)' = Elements(names)
      /\ OnPath(frames)' <=> OnPath(frames)
      /\ \A x : (AheadOf(frames, x))' <=> AheadOf(frames, x)
      /\ Passed(frames)' = Passed(frames)
  BY <1>1, SameStack
<1>3. /\ delivered \o pending \in Seq(Name) /\ Elements(delivered \o pending) = Answer
      /\ \A i, j \in 1..Len(delivered \o pending) : (delivered \o pending)[i] = (delivered \o pending)[j] => i = j
  BY <1>1, DeliverOnce, ElementsConcat DEF Open, Answer
<1>4. Elements(delivered)' = Answer /\ Elements(pending)' = {}
  <2>1. Elements(delivered)' = Elements(delivered \o pending) /\ Elements(pending)' = Elements(<<>>)
    BY <1>1 DEF Elements
  <2> QED BY <1>3, <2>1, EmptyElements
<1>5. Answer' = {n \in Elements(names) : Denotes(pattern, n) /\ ~AheadOf(frames, n)}'
  <2>1. Answer = {n \in Elements(names) : Denotes(pattern, n) /\ ~AheadOf(frames, n)}
    BY <1>1 DEF Open
  <2>2. Answer' = Answer
    BY <1>4 DEF Answer
  <2> QED BY <1>1, <1>2, <2>1, <2>2
<1>6. /\ delivered' \in Seq(Name)
      /\ \A i, j \in 1..Len(delivered') : delivered'[i] = delivered'[j] => i = j
      /\ pending' \in Seq(Name) /\ Len(pending') <= 1 /\ (Elements(delivered) \cap Elements(pending))' = {}
  BY <1>1, <1>3, <1>4, EmptySeq
<1>7. ended' => frames' = <<>> /\ pending' = <<>>
  BY <1>1
<1>8. Open'
  BY <1>1, <1>2, <1>5, <1>6, <1>7 DEF Open
<1> QED BY <1>1, <1>2, <1>8 DEF SearchInv

\* A step that changes nothing.
LEMMA StutterSearch ==
  ASSUME SearchInv, UNCHANGED vars
  PROVE  SearchInv'
<1>1. /\ frames' = frames /\ children' = children /\ pattern' = pattern /\ names' = names
      /\ pending' = pending /\ delivered' = delivered /\ visitedNodes' = visitedNodes
      /\ ended' = ended /\ call' = call /\ TrieInv
  BY DEF SearchInv, vars
<1>2. /\ TrieInv' /\ Elements(names)' = Elements(names)
      /\ OnPath(frames)' <=> OnPath(frames)
      /\ \A x : (AheadOf(frames, x))' <=> AheadOf(frames, x)
      /\ Passed(frames)' = Passed(frames)
  BY <1>1, SameStack
<1>3. Open => Open'
  BY <1>1, <1>2 DEF Open, Answer, Elements
<1>4. Closed => Closed'
  BY <1>1 DEF Closed
<1> QED BY <1>1, <1>2, <1>3, <1>4 DEF SearchInv

\* The trie holds the prefixes of its names, and a cursor has found exactly the
\* matching names that are not ahead of its stack.
THEOREM SearchIsInvariant == Spec => []SearchInv
<1>1. Init => SearchInv
  BY InitSearch
<1>2. SearchInv /\ [Next]_vars => SearchInv'
  <2> SUFFICES ASSUME SearchInv, [Next]_vars PROVE SearchInv'
    OBVIOUS
  <2>1. ASSUME NEW n \in Name, Add(n) PROVE SearchInv'
    BY <2>1, AddSearch
  <2>2. ASSUME NEW p \in Pattern, Query(p) PROVE SearchInv'
    BY <2>2, QuerySearch
  <2>3. CASE Calls("hasNext") \/ Calls("next")
    BY <2>3, CallsSearch
  <2>4. CASE Leave
    BY <2>4, LeaveSearch
  <2>5. CASE VisitChild
    BY <2>5, VisitSearch
  <2>6. CASE HasNextReturns
    BY <2>6, HasNextSearch
  <2>7. CASE NextReturns
    BY <2>7, NextSearch
  <2>8. CASE UNCHANGED vars
    BY <2>8, StutterSearch
  <2> QED BY <2>1, <2>2, <2>3, <2>4, <2>5, <2>6, <2>7, <2>8 DEF Next
<1> QED BY <1>1, <1>2, PTL DEF Spec

\* Whatever mix of hasNext and next the consumer calls, the cursor has delivered
\* only names that were added and that the pattern denotes, none twice, and all
\* of them when it says there is no more.
THEOREM MatchesAreExact == Spec => []EveryMatchOnce
<1>1. SearchInv => EveryMatchOnce
  <2> SUFFICES ASSUME SearchInv, call # "closed" PROVE EveryMatchOnce
    BY DEF EveryMatchOnce
  <2>1. Open
    BY DEF SearchInv
  <2>2. /\ Elements(delivered \o pending) = Answer
        /\ \A i, j \in 1..Len(delivered \o pending) : (delivered \o pending)[i] = (delivered \o pending)[j] => i = j
    BY <2>1, DeliverOnce, ElementsConcat DEF Open, Answer
  <2>3. Answer = {n \in Elements(names) : Denotes(pattern, n) /\ ~AheadOf(frames, n)}
    BY <2>1 DEF Open
  <2>4. ASSUME ended PROVE Elements(delivered) = {n \in Elements(names) : Denotes(pattern, n)}
    <3>1. frames = <<>> /\ pending = <<>>
      BY <2>1, <2>4 DEF Open
    <3>2. \A n : ~AheadOf(frames, n)
      BY <3>1, EmptySeq DEF AheadOf
    <3>3. Elements(delivered) = Answer
      BY <3>1, EmptyElements DEF Answer
    <3> QED BY <2>3, <3>2, <3>3
  <2>5. Answer \subseteq {n \in Elements(names) : Denotes(pattern, n)}
    BY <2>3
  <2> QED BY <2>2, <2>4, <2>5 DEF EveryMatchOnce
<1> QED BY <1>1, SearchIsInvariant, PTL

\* Matching one name and querying the trie compute what the pattern denotes.
THEOREM MatchesIsDenotes == Spec => []SingleNameAgrees
<1>1. SearchInv => SingleNameAgrees
  <2> SUFFICES ASSUME SearchInv, call # "closed", NEW n \in Elements(names)
               PROVE  MatchesName(pattern, n) <=> Denotes(pattern, n)
    BY DEF SingleNameAgrees
  <2>1. pattern \in Pattern /\ n \in Seq(Char)
    BY NamesAre DEF SearchInv, Open
  <2> QED BY <2>1, MatchesDenoted
<1> QED BY <1>1, SearchIsInvariant, PTL

\* A query visits no node twice, keeps no dead frame, and its stack is no deeper
\* than the longest name.
THEOREM TraversalIsBounded == Spec => []TraversalBounded
<1>1. SearchInv => TraversalBounded
  <2> SUFFICES ASSUME SearchInv PROVE TraversalBounded
    OBVIOUS
  <2>1. TrieInv
    BY DEF SearchInv
  <2>2. CASE call = "closed"
    BY <2>2 DEF SearchInv, Closed, TraversalBounded
  <2>3. CASE call # "closed"
    <3>1. Open
      BY <2>3 DEF SearchInv
    <3>2. visitedNodes < Cardinality(DOMAIN children)
      <4>1. /\ Cardinality(Passed(frames)) \in Nat
            /\ Cardinality(Passed(frames)) <= Cardinality(DOMAIN children) - 1
        BY <2>1, PassedFinite
      <4>2. Cardinality(DOMAIN children) \in Nat
        BY <2>1, FS_CardinalityType DEF TrieInv
      <4>3. visitedNodes \in Nat /\ visitedNodes <= Cardinality(Passed(frames))
        BY <3>1 DEF Open
      <4> QED BY <4>1, <4>2, <4>3
    <3>3. ASSUME NEW k \in 1..Len(frames)
          PROVE  frames[k].state # {} /\ \E n \in Elements(names) \cup {<<>>} : k <= Len(n) + 1
      <4>1. /\ frames[k].state # {} /\ frames[k].node \in DOMAIN children
            /\ Len(frames[k].node) = k - 1
        BY <3>1 DEF Open, OnPath
      <4>2. CASE frames[k].node = <<>>
        <5>1. k = 1 /\ Len(<<>>) = 0
          BY <4>1, <4>2, EmptySeq
        <5> QED BY <4>1, <5>1
      <4>3. CASE frames[k].node # <<>>
        <5>1. PICK n \in Elements(names) : Extends(n, frames[k].node)
          BY <2>1, <4>1, <4>3 DEF TrieInv
        <5>2. Len(n) \in Nat
          BY <2>1, NamesAre, LenProperties
        <5>3. k - 1 <= Len(n)
          BY <4>1, <5>1 DEF Extends
        <5>4. k <= Len(n) + 1
          BY <5>2, <5>3
        <5> QED BY <4>1, <5>4
      <4> QED BY <4>2, <4>3
    <3> QED BY <3>2, <3>3 DEF TraversalBounded
  <2> QED BY <2>2, <2>3
<1> QED BY <1>1, SearchIsInvariant, PTL
=============================================================================
