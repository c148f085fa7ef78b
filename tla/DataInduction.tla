---------------------------- MODULE DataInduction ----------------------------
(***************************************************************************)
(* Induction over data, in the form the provers can use: over sets of      *)
(* numbers instead of predicates.  From the well-foundedness of < on Nat   *)
(* follow the least element of a set, induction up to a bound, and that a  *)
(* function defined by recursion on 0..m is what its equations say.  With  *)
(* these, what the filter of Lists keeps of a list is settled once for the *)
(* modules that read lists with it, beside the facts about sequences of    *)
(* any elements that their proofs share.                                   *)
(***************************************************************************)
EXTENDS Lists, SequenceTheorems, WellFoundedInduction, TLAPS

\* A set of numbers that has an element has a least one.
LEMMA LeastElement ==
  ASSUME NEW T, T \subseteq Nat, T # {}
  PROVE  \E x \in T : \A y \in T : x <= y
<1> DEFINE Less == {p \in Nat \X Nat : p[1] < p[2]}
<1>1. IsWellFoundedOn(Less, Nat)
  BY NatLessThanWellFounded DEF OpToRel
<1>2. PICK x \in T : \A y \in T : ~ (<<y, x>> \in Less)
  <2> HIDE DEF Less
  <2> QED BY <1>1, WFMin
<1>3. ASSUME NEW y \in T PROVE x <= y
  <2>1. x \in Nat /\ y \in Nat /\ <<y, x>> \notin Less
    BY <1>2
  <2> QED BY <2>1
<1> QED BY <1>2, <1>3

\* Induction up to a bound.
LEMMA UpTo ==
  ASSUME NEW m \in Nat, NEW T, 0 \in T, \A n \in 1..m : n - 1 \in T => n \in T
  PROVE  0..m \subseteq T
<1> DEFINE U == (0..m) \ T
<1>1. ASSUME U # {} PROVE FALSE
  <2>1. PICK x \in U : \A y \in U : x <= y
    <3>1. U \subseteq Nat
      OBVIOUS
    <3> HIDE DEF U
    <3> QED BY <1>1, <3>1, LeastElement
  <2>2. x \in 1..m /\ x \notin T
    BY <2>1
  <2>3. x - 1 \in U
    BY <2>2
  <2> QED BY <2>1, <2>2, <2>3
<1> QED BY <1>1

\* f is a at 0, and what it is at n follows by next from what it is at n - 1.
Follows(f, a, next, m) == f[0] = a /\ \A n \in 1..m : f[n] = next[<<f[n - 1], n>>]

\* A recursion on 0..m has a solution.
LEMMA Recursion ==
  ASSUME NEW m \in Nat, NEW S, NEW a \in S, NEW next \in [S \X (1..m) -> S]
  PROVE  \E f \in [0..m -> S] : Follows(f, a, next, m)
<1> DEFINE T == {k \in 0..m : \E f \in [0..k -> S] : Follows(f, a, next, k)}
<1>1. 0 \in T
  <2> DEFINE f == [n \in 0..0 |-> a]
  <2>1. f \in [0..0 -> S] /\ f[0] = a /\ 0 \in 0..m
    OBVIOUS
  <2>2. 1..0 = {}
    OBVIOUS
  <2> HIDE DEF f
  <2> QED BY <2>1, <2>2 DEF Follows
<1>2. ASSUME NEW k \in 1..m, k - 1 \in T PROVE k \in T
  <2>1. PICK f \in [0..(k - 1) -> S] : Follows(f, a, next, k - 1)
    BY <1>2
  <2> DEFINE g == [n \in 0..k |-> IF n = k THEN next[<<f[k - 1], k>>] ELSE f[n]]
  <2>2. next[<<f[k - 1], k>>] \in S
    <3>1. f[k - 1] \in S
      BY <2>1
    <3> QED BY <3>1
  <2>3. g \in [0..k -> S]
    BY <2>1, <2>2
  <2>4. g[0] = a
    BY <2>1 DEF Follows
  <2>5. ASSUME NEW n \in 1..k PROVE g[n] = next[<<g[n - 1], n>>]
    <3>1. CASE n = k
      <4>1. g[n] = next[<<f[k - 1], k>>] /\ g[n - 1] = f[n - 1]
        BY <3>1
      <4> QED BY <3>1, <4>1
    <3>2. CASE n # k
      <4>1. n \in 1..(k - 1) /\ n \in 0..k /\ n - 1 \in 0..k /\ n - 1 # k
        BY <3>2
      <4>2. g[n] = f[n] /\ g[n - 1] = f[n - 1]
        BY <3>2, <4>1
      <4> QED BY <2>1, <4>1, <4>2 DEF Follows
    <3> QED BY <3>1, <3>2
  <2> HIDE DEF g
  <2> QED BY <2>3, <2>4, <2>5 DEF Follows
<1>3. 0..m \subseteq T
  <2> HIDE DEF T
  <2> QED BY <1>1, <1>2, UpTo
<1> QED BY <1>3

-----------------------------------------------------------------------------
(* What is kept of a list.                                                 *)

\* f holds what is kept of each beginning of s.
Keeps(f, s, S) ==
  /\ f[0] = <<>> /\ Kept(s, S) = f[Len(s)]
  /\ \A n \in 1..Len(s) : f[n] = IF s[n] \in S THEN Append(f[n - 1], s[n]) ELSE f[n - 1]

\* Kept is computed along the list.
LEMMA KeptAlong ==
  ASSUME NEW T, NEW s \in Seq(T), NEW S
  PROVE  \E f \in [0..Len(s) -> Seq(T)] : Keeps(f, s, S)
<1> DEFINE G(f) == [n \in 0..Len(s) |->
                      IF n = 0 THEN <<>>
                      ELSE IF s[n] \in S THEN Append(f[n - 1], s[n]) ELSE f[n - 1]]
           kept == CHOOSE f : f = G(f)
           next == [x \in Seq(T) \X (1..Len(s)) |->
                      IF s[x[2]] \in S THEN Append(x[1], s[x[2]]) ELSE x[1]]
<1>1. Len(s) \in Nat /\ \A n \in 1..Len(s) : s[n] \in T
  BY LenProperties, ElementOfSeq
<1>2. Kept(s, S) = kept[Len(s)]
  BY DEF Kept
<1>3. \E f : f = G(f)
  <2>1. \A t \in Seq(T), n \in 1..Len(s) :
          /\ <<t, n>> \in Seq(T) \X (1..Len(s))
          /\ next[<<t, n>>] = IF s[n] \in S THEN Append(t, s[n]) ELSE t
    OBVIOUS
  <2>2. next \in [Seq(T) \X (1..Len(s)) -> Seq(T)]
    <3>1. ASSUME NEW x \in Seq(T) \X (1..Len(s))
          PROVE  (IF s[x[2]] \in S THEN Append(x[1], s[x[2]]) ELSE x[1]) \in Seq(T)
      <4>1. x[1] \in Seq(T) /\ x[2] \in 1..Len(s)
        OBVIOUS
      <4>2. s[x[2]] \in T
        BY <1>1, <4>1
      <4> QED BY <4>1, <4>2, AppendProperties
    <3> QED BY <3>1
  <2> HIDE DEF next
  <2>3. PICK f \in [0..Len(s) -> Seq(T)] : Follows(f, <<>>, next, Len(s))
    <3>1. <<>> \in Seq(T)
      BY EmptySeq
    <3> QED BY <1>1, <2>2, <3>1, Recursion
  <2>4. \A n \in 0..Len(s) : f[n] = IF n = 0 THEN <<>>
                      ELSE IF s[n] \in S THEN Append(f[n - 1], s[n]) ELSE f[n - 1]
    <3> SUFFICES ASSUME NEW n \in 0..Len(s), n # 0
                 PROVE f[n] = IF s[n] \in S THEN Append(f[n - 1], s[n]) ELSE f[n - 1]
      BY <2>3 DEF Follows
    <3>1. n \in 1..Len(s) /\ n - 1 \in 0..Len(s)
      BY <1>1
    <3>2. f[n - 1] \in Seq(T)
      BY <3>1
    <3> QED BY <2>1, <2>3, <3>1, <3>2 DEF Follows
  <2>5. f = G(f)
    <3>1. f = [n \in 0..Len(s) |-> f[n]]
      OBVIOUS
    <3> QED BY <2>4, <3>1
  <2> QED BY <2>5
<1>4. kept = G(kept)
  <2> HIDE DEF G
  <2> QED BY <1>3
<1>5. kept[0] = <<>> /\ \A n \in 1..Len(s) : kept[n] = IF s[n] \in S THEN Append(kept[n - 1], s[n]) ELSE kept[n - 1]
  <2> HIDE DEF kept, next
  <2>1. \A n \in 0..Len(s) : kept[n] = G(kept)[n]
    <3> HIDE DEF G
    <3> QED BY <1>4
  <2>2. \A n \in 0..Len(s) : G(kept)[n] =
                      IF n = 0 THEN <<>>
                      ELSE IF s[n] \in S THEN Append(kept[n - 1], s[n]) ELSE kept[n - 1]
    OBVIOUS
  <2>3. 0 \in 0..Len(s) /\ \A n \in 1..Len(s) : n \in 0..Len(s) /\ n # 0
    BY <1>1
  <2> HIDE DEF G
  <2> QED BY <2>1, <2>2, <2>3
<1> HIDE DEF kept, next
<1> DEFINE U == {n \in 0..Len(s) : kept[n] \in Seq(T)}
<1>6. 0..Len(s) \subseteq U
  <2>1. 0 \in U
    <3>1. 0 \in 0..Len(s) /\ <<>> \in Seq(T)
      BY <1>1, EmptySeq
    <3> QED BY <1>5, <3>1
  <2>2. ASSUME NEW n \in 1..Len(s), n - 1 \in U PROVE n \in U
    <3>1. n \in 0..Len(s) /\ s[n] \in T /\ kept[n - 1] \in Seq(T)
      BY <1>1, <2>2
    <3>2. Append(kept[n - 1], s[n]) \in Seq(T)
      BY <3>1, AppendProperties
    <3> QED BY <1>5, <3>1, <3>2
  <2> HIDE DEF U
  <2> QED BY <1>1, <2>1, <2>2, UpTo
<1>7. kept \in [0..Len(s) -> Seq(T)]
  <2>1. \A n \in 0..Len(s) : kept[n] \in Seq(T)
    BY <1>6
  <2>2. kept = [n \in 0..Len(s) |-> kept[n]]
    <3>1. DOMAIN G(kept) = 0..Len(s) /\ G(kept) = [n \in 0..Len(s) |-> G(kept)[n]]
      OBVIOUS
    <3> HIDE DEF G
    <3> QED BY <1>4, <3>1
  <2> QED BY <2>1, <2>2
<1> QED BY <1>2, <1>5, <1>7 DEF Keeps

\* What is kept, and in which order.
KeptUpTo(s, S, n, t) ==
  /\ \A i \in 1..Len(t) : \E a \in 1..n : t[i] = s[a] /\ s[a] \in S
  /\ \A a \in 1..n : s[a] \in S => \E i \in 1..Len(t) : t[i] = s[a]
  /\ \A i, j \in 1..Len(t) : i < j => \E a, b \in 1..n : a < b /\ t[i] = s[a] /\ t[j] = s[b]

\* The next element is kept: it comes behind those kept so far.
LEMMA KeptMore ==
  ASSUME NEW T, NEW s \in Seq(T), NEW S, NEW n \in 1..Len(s), NEW t \in Seq(T), KeptUpTo(s, S, n - 1, t),
         s[n] \in S
  PROVE  KeptUpTo(s, S, n, Append(t, s[n]))
<1> DEFINE r == Append(t, s[n])
<1>1. /\ Len(t) \in Nat /\ Len(r) = Len(t) + 1 /\ r[Len(t) + 1] = s[n]
      /\ \A i \in 1..Len(t) : r[i] = t[i]
      /\ n \in Nat \ {0} /\ n - 1 \in Nat /\ (\A a \in 1..(n - 1) : a \in 1..n /\ a < n)
  <2>1. Len(s) \in Nat /\ s[n] \in T /\ Len(t) \in Nat
    BY LenProperties, ElementOfSeq
  <2> QED BY <2>1, AppendProperties
<1> HIDE DEF r
<1>2. ASSUME NEW i \in 1..Len(t) PROVE \E a \in 1..n : r[i] = s[a] /\ s[a] \in S
  <2>1. PICK a \in 1..(n - 1) : t[i] = s[a] /\ s[a] \in S
    BY DEF KeptUpTo
  <2> QED BY <1>1, <2>1
<1>3. \A i \in 1..Len(r) : \E a \in 1..n : r[i] = s[a] /\ s[a] \in S
  <2> SUFFICES ASSUME NEW i \in 1..Len(r) PROVE \E a \in 1..n : r[i] = s[a] /\ s[a] \in S
    OBVIOUS
  <2>1. i \in 1..Len(t) \/ i = Len(t) + 1
    BY <1>1
  <2> QED BY <1>1, <1>2, <2>1
<1>4. ASSUME NEW a \in 1..n, s[a] \in S PROVE \E i \in 1..Len(r) : r[i] = s[a]
  <2>1. CASE a = n
    BY <1>1, <2>1
  <2>2. CASE a # n
    <3>1. a \in 1..(n - 1)
      BY <1>1, <2>2
    <3>2. PICK i \in 1..Len(t) : t[i] = s[a]
      BY <1>4, <3>1 DEF KeptUpTo
    <3> QED BY <1>1, <3>2
  <2> QED BY <2>1, <2>2
<1>5. ASSUME NEW i \in 1..Len(r), NEW j \in 1..Len(r), i < j
      PROVE  \E a, b \in 1..n : a < b /\ r[i] = s[a] /\ r[j] = s[b]
  <2>1. i \in 1..Len(t)
    BY <1>1, <1>5
  <2>2. CASE j = Len(t) + 1
    <3>1. PICK a \in 1..(n - 1) : t[i] = s[a]
      BY <2>1 DEF KeptUpTo
    <3>2. a \in 1..n /\ n \in 1..n /\ a < n /\ r[i] = s[a] /\ r[j] = s[n]
      BY <1>1, <2>1, <2>2, <3>1
    <3> QED BY <3>2
  <2>3. CASE j \in 1..Len(t)
    <3>1. PICK a, b \in 1..(n - 1) : a < b /\ t[i] = s[a] /\ t[j] = s[b]
      BY <1>5, <2>1, <2>3 DEF KeptUpTo
    <3> QED BY <1>1, <2>1, <2>3, <3>1
  <2> QED BY <1>1, <2>2, <2>3
<1> QED BY <1>3, <1>4, <1>5 DEF KeptUpTo, r

\* Kept lists exactly the elements of s that are in S, in the order of s.
LEMMA KeptFacts ==
  ASSUME NEW T, NEW s \in Seq(T), NEW S
  PROVE  Kept(s, S) \in Seq(T) /\ KeptUpTo(s, S, Len(s), Kept(s, S))
<1>1. PICK f \in [0..Len(s) -> Seq(T)] : Keeps(f, s, S)
  BY KeptAlong
<1>2. Len(s) \in Nat
  BY LenProperties
<1> DEFINE U == {n \in 0..Len(s) : KeptUpTo(s, S, n, f[n])}
<1>3. 0 \in U
  <2>1. Len(f[0]) = 0
    BY <1>1, EmptySeq DEF Keeps
  <2> QED BY <1>2, <2>1 DEF KeptUpTo
<1>4. ASSUME NEW n \in 1..Len(s), n - 1 \in U PROVE n \in U
  <2>1. n \in 0..Len(s) /\ n - 1 \in 0..Len(s) /\ KeptUpTo(s, S, n - 1, f[n - 1]) /\ f[n - 1] \in Seq(T)
    BY <1>2, <1>4
  <2>2. CASE s[n] \in S
    BY <1>1, <2>1, <2>2, KeptMore DEF Keeps
  <2>3. CASE s[n] \notin S
    <3>1. f[n] = f[n - 1]
      BY <1>1, <2>3 DEF Keeps
    <3>2. \A a \in 1..(n - 1) : a \in 1..n
      BY <1>2
    <3>3. \A a \in 1..n : s[a] \in S => a \in 1..(n - 1)
      BY <1>2, <2>3
    <3>4. KeptUpTo(s, S, n, f[n - 1])
      BY <2>1, <3>2, <3>3 DEF KeptUpTo
    <3> QED BY <2>1, <3>1, <3>4
  <2> QED BY <2>2, <2>3
<1>5. Len(s) \in U
  <2>1. 0..Len(s) \subseteq U
    <3> HIDE DEF U
    <3> QED BY <1>2, <1>3, <1>4, UpTo
  <2> HIDE DEF U
  <2> QED BY <1>2, <2>1
<1> QED BY <1>1, <1>2, <1>5 DEF Keeps

\* No more is kept than is there, and everything only if all of it is in S.
LEMMA KeptLength ==
  ASSUME NEW T, NEW s \in Seq(T), NEW S
  PROVE  Len(Kept(s, S)) = Len(s) => \A a \in 1..Len(s) : s[a] \in S
<1>1. PICK f \in [0..Len(s) -> Seq(T)] : Keeps(f, s, S)
  BY KeptAlong
<1>2. Len(s) \in Nat
  BY LenProperties
<1> DEFINE U == {n \in 0..Len(s) : Len(f[n]) <= n /\ (Len(f[n]) = n => \A a \in 1..n : s[a] \in S)}
<1>3. 0 \in U
  <2>1. Len(f[0]) = 0 /\ 1..0 = {} /\ 0 \in 0..Len(s)
    BY <1>1, <1>2, EmptySeq DEF Keeps
  <2> QED BY <2>1
<1>4. ASSUME NEW n \in 1..Len(s), n - 1 \in U PROVE n \in U
  <2>1. /\ n \in Nat \ {0} /\ n - 1 \in Nat /\ n - 1 \in 0..Len(s) /\ n \in 0..Len(s)
        /\ s[n] \in T /\ f[n - 1] \in Seq(T) /\ Len(f[n - 1]) \in Nat
    <3>1. n \in Nat \ {0} /\ n - 1 \in Nat /\ n - 1 \in 0..Len(s) /\ n \in 0..Len(s)
      BY <1>2
    <3>2. s[n] \in T /\ f[n - 1] \in Seq(T)
      BY <3>1, ElementOfSeq
    <3> QED BY <3>1, <3>2, LenProperties
  <2>2. Len(f[n - 1]) <= n - 1 /\ (Len(f[n - 1]) = n - 1 => \A a \in 1..(n - 1) : s[a] \in S)
    BY <1>4
  <2>3. CASE s[n] \in S
    <3>1. f[n] = Append(f[n - 1], s[n])
      BY <1>1, <2>3 DEF Keeps
    <3>2. Len(f[n]) = Len(f[n - 1]) + 1
      BY <2>1, <3>1, AppendProperties
    <3>3. Len(f[n]) <= n /\ (Len(f[n]) = n => Len(f[n - 1]) = n - 1)
      BY <2>1, <2>2, <3>2
    <3>4. \A a \in 1..n : a \in 1..(n - 1) \/ a = n
      BY <2>1
    <3>5. Len(f[n]) = n => \A a \in 1..n : s[a] \in S
      BY <2>2, <2>3, <3>3, <3>4
    <3> QED BY <2>1, <3>3, <3>5
  <2>4. CASE s[n] \notin S
    <3>1. f[n] = f[n - 1]
      BY <1>1, <2>4 DEF Keeps
    <3>2. Len(f[n]) <= n /\ Len(f[n]) # n
      BY <2>1, <2>2, <3>1
    <3> QED BY <2>1, <3>2
  <2> QED BY <2>3, <2>4
<1>5. Len(s) \in U
  <2>1. 0..Len(s) \subseteq U
    <3> HIDE DEF U
    <3> QED BY <1>2, <1>3, <1>4, UpTo
  <2> HIDE DEF U
  <2> QED BY <1>2, <2>1
<1> QED BY <1>1, <1>5 DEF Keeps

\* Kept over a longer list.
LEMMA KeptAppend ==
  ASSUME NEW T, NEW s \in Seq(T), NEW x \in T, NEW S
  PROVE  Kept(Append(s, x), S) = IF x \in S THEN Append(Kept(s, S), x) ELSE Kept(s, S)
<1> DEFINE t == Append(s, x)
<1>1. /\ t \in Seq(T) /\ Len(s) \in Nat /\ Len(t) = Len(s) + 1 /\ t[Len(s) + 1] = x
      /\ \A n \in 1..Len(s) : t[n] = s[n]
  BY LenProperties, AppendProperties
<1> HIDE DEF t
<1>2. PICK f \in [0..Len(s) -> Seq(T)] : Keeps(f, s, S)
  BY KeptAlong
<1>3. PICK g \in [0..Len(t) -> Seq(T)] : Keeps(g, t, S)
  BY <1>1, KeptAlong
<1> DEFINE U == {n \in 0..Len(s) : f[n] = g[n]}
<1>4. Len(s) \in U
  <2>1. 0 \in U
    BY <1>1, <1>2, <1>3 DEF Keeps
  <2>2. ASSUME NEW n \in 1..Len(s), n - 1 \in U PROVE n \in U
    <3>1. n \in 0..Len(s) /\ n \in 1..Len(t) /\ f[n - 1] = g[n - 1] /\ t[n] = s[n]
      BY <1>1, <2>2
    <3> QED BY <1>2, <1>3, <3>1 DEF Keeps
  <2>3. 0..Len(s) \subseteq U
    <3> HIDE DEF U
    <3> QED BY <1>1, <2>1, <2>2, UpTo
  <2> HIDE DEF U
  <2> QED BY <1>1, <2>3
<1>5. Len(t) \in 1..Len(t) /\ Len(t) - 1 = Len(s)
  BY <1>1
<1>6. Kept(t, S) = IF x \in S THEN Append(Kept(s, S), x) ELSE Kept(s, S)
  BY <1>1, <1>2, <1>3, <1>4, <1>5 DEF Keeps
<1> QED BY <1>6 DEF t

\* Nothing is kept of an empty list.
LEMMA KeptEmpty == ASSUME NEW S PROVE Kept(<<>>, S) = <<>>
<1>1. <<>> \in Seq({}) /\ Len(<<>>) = 0
  BY EmptySeq
<1>2. PICK f \in [0..0 -> Seq({})] : Keeps(f, <<>>, S)
  BY <1>1, KeptAlong
<1> QED BY <1>1, <1>2 DEF Keeps

\* A sequence, of whatever elements.
IsSeq(s) == \E S : s \in Seq(S)

\* A sequence with one element more.
LEMMA Appended ==
  ASSUME NEW s, IsSeq(s), NEW x
  PROVE  /\ IsSeq(Append(s, x)) /\ Len(s) \in Nat /\ Len(Append(s, x)) = Len(s) + 1
         /\ DOMAIN s = 1..Len(s)
         /\ \A i \in 1..Len(s) : Append(s, x)[i] = s[i]
         /\ Append(s, x)[Len(s) + 1] = x
<1>1. PICK S : s \in Seq(S)
  BY DEF IsSeq
<1>2. s \in Seq(S \cup {x})
  <2>1. \A i \in 1..Len(s) : s[i] \in S \cup {x}
    BY <1>1, ElementOfSeq
  <2> QED BY <1>1, <2>1
<1>3. Append(s, x) \in Seq(S \cup {x})
  BY <1>2
<1> QED BY <1>1, <1>2, <1>3, AppendProperties, LenProperties DEF IsSeq

LEMMA EmptyIsSeq == IsSeq(<<>>) /\ Len(<<>>) = 0
<1>1. <<>> \in Seq({})
  BY EmptySeq
<1> QED BY <1>1, EmptySeq DEF IsSeq

\* Kept over a longer list, whatever its elements.
LEMMA KeptOneMore ==
  ASSUME NEW s, IsSeq(s), NEW x, NEW S
  PROVE  Kept(Append(s, x), S) = IF x \in S THEN Append(Kept(s, S), x) ELSE Kept(s, S)
<1>1. PICK T : s \in Seq(T)
  BY DEF IsSeq
<1>2. s \in Seq(T \cup {x}) /\ x \in T \cup {x}
  <2>1. \A i \in 1..Len(s) : s[i] \in T \cup {x}
    BY <1>1, ElementOfSeq
  <2> QED BY <1>1, <2>1
<1> QED BY <1>2, KeptAppend

\* What is kept of a sequence is one.
LEMMA KeptIsSeq == ASSUME NEW s, IsSeq(s), NEW S PROVE IsSeq(Kept(s, S))
BY KeptFacts DEF IsSeq

\* The places of a sequence.
LEMMA SeqFacts == ASSUME NEW s, IsSeq(s) PROVE Len(s) \in Nat /\ DOMAIN s = 1..Len(s)
BY LenProperties DEF IsSeq

\* Two sequences behind each other.
LEMMA Joined ==
  ASSUME NEW s, IsSeq(s), NEW t, IsSeq(t)
  PROVE  /\ IsSeq(s \o t) /\ Len(s) \in Nat /\ Len(t) \in Nat /\ Len(s \o t) = Len(s) + Len(t)
         /\ \A i \in 1..(Len(s) + Len(t)) : (s \o t)[i] = IF i <= Len(s) THEN s[i] ELSE t[i - Len(s)]
<1>1. PICK S : s \in Seq(S)
  BY DEF IsSeq
<1>2. PICK T : t \in Seq(T)
  BY DEF IsSeq
<1>3. s \in Seq(S \cup T) /\ t \in Seq(S \cup T)
  <2>1. S \subseteq S \cup T /\ T \subseteq S \cup T
    OBVIOUS
  <2> QED BY <1>1, <1>2, <2>1, SeqMonotonic
<1> HIDE <1>1, <1>2
<1> QED BY <1>3, ConcatProperties, LenProperties DEF IsSeq

\* A sequence without its first element.
LEMMA TailFacts ==
  ASSUME NEW s, IsSeq(s), s # <<>>
  PROVE  /\ IsSeq(Tail(s)) /\ Len(s) \in Nat \ {0} /\ Len(Tail(s)) = Len(s) - 1 /\ Head(s) = s[1]
         /\ \A i \in 1..(Len(s) - 1) : Tail(s)[i] = s[i + 1]
<1>1. PICK S : s \in Seq(S)
  BY DEF IsSeq
<1>2. Len(s) \in Nat \ {0} /\ Head(s) = s[1]
  BY <1>1, EmptySeq
<1> QED BY <1>1, <1>2, HeadTailProperties DEF IsSeq

\* The beginning of a sequence.
LEMMA BeginningFacts ==
  ASSUME NEW s, IsSeq(s), NEW n \in 0..Len(s)
  PROVE  /\ IsSeq(SubSeq(s, 1, n)) /\ Len(SubSeq(s, 1, n)) = n
         /\ \A i \in 1..n : SubSeq(s, 1, n)[i] = s[i]
<1>1. PICK S : s \in Seq(S)
  BY DEF IsSeq
<1>2. Len(s) \in Nat /\ n \in Int /\ 1 \in Int /\ \A i \in 1..n : i \in 1..Len(s)
  BY <1>1, LenProperties
<1>3. \A i \in 1..n : s[i] \in S
  BY <1>1, <1>2, ElementOfSeq
<1>4. /\ SubSeq(s, 1, n) \in Seq(S) /\ Len(SubSeq(s, 1, n)) = IF 1 <= n THEN n - 1 + 1 ELSE 0
      /\ \A i \in 1..(n - 1 + 1) : SubSeq(s, 1, n)[i] = s[1 + i - 1]
  BY <1>2, <1>3, SubSeqProperties
<1> QED BY <1>2, <1>4 DEF IsSeq

=============================================================================
