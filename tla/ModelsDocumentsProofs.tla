------------------------ MODULE ModelsDocumentsProofs ------------------------
(***************************************************************************)
(* The generated documents, for every set of extensions, documents and     *)
(* declarations, and for processes that stop anywhere: the hand-declared   *)
(* documents are never written, no subject is ever declared twice, and     *)
(* extraction leaves every function and class where its extension has it.  *)
(***************************************************************************)
EXTENDS ModelsDocuments, DataInduction

-----------------------------------------------------------------------------
(* Lists of entries.                                                       *)

\* No subject twice in a list of entries.
Distinct(es) == \A i, j \in DOMAIN es : es[i].key = es[j].key => i = j

\* No subject of a list is in another.
ApartFrom(es, fs) == \A i \in DOMAIN es, j \in DOMAIN fs : es[i].key # fs[j].key

\* No subject of some lists is in some others.
Apart(f, g) == \A p \in DOMAIN f, q \in DOMAIN g : ApartFrom(f[p], g[q])

\* Each of some lists is a sequence.
AllSeqs(f) == \A p \in DOMAIN f : IsSeq(f[p])

\* The entries of es are entries of fs, in another order at most.
From(es, fs) ==
  /\ IsSeq(es) /\ Distinct(es)
  /\ \A i \in DOMAIN es : \E a \in DOMAIN fs : es[i] = fs[a]

\* What is kept of a list, place by place.
LEMMA KeptPlaces ==
  ASSUME NEW s, IsSeq(s), NEW S
  PROVE  /\ IsSeq(Kept(s, S))
         /\ \A i \in DOMAIN Kept(s, S) : \E a \in DOMAIN s : Kept(s, S)[i] = s[a] /\ s[a] \in S
         /\ \A a \in DOMAIN s : s[a] \in S => \E i \in DOMAIN Kept(s, S) : Kept(s, S)[i] = s[a]
<1>1. PICK T : s \in Seq(T)
  BY DEF IsSeq
<1>2. Kept(s, S) \in Seq(T) /\ KeptUpTo(s, S, Len(s), Kept(s, S))
  BY <1>1, KeptFacts
<1>3. DOMAIN s = 1..Len(s) /\ DOMAIN Kept(s, S) = 1..Len(Kept(s, S))
  BY <1>1, <1>2, LenProperties
<1> QED BY <1>2, <1>3 DEF IsSeq, KeptUpTo

\* What is kept of a list without repetition has none.
LEMMA KeptInjective ==
  ASSUME NEW s, IsSeq(s), IsInjective(s), NEW S
  PROVE  IsInjective(Kept(s, S))
<1> DEFINE t == Kept(s, S)
<1>1. PICK T : s \in Seq(T)
  BY DEF IsSeq
<1>2. t \in Seq(T) /\ KeptUpTo(s, S, Len(s), t)
  BY <1>1, KeptFacts
<1>3. DOMAIN s = 1..Len(s) /\ DOMAIN t = 1..Len(t) /\ Len(t) \in Nat
  BY <1>1, <1>2, LenProperties
<1>4. ASSUME NEW i \in 1..Len(t), NEW j \in 1..Len(t), i < j, t[i] = t[j] PROVE FALSE
  <2>1. PICK a, b \in 1..Len(s) : a < b /\ t[i] = s[a] /\ t[j] = s[b]
    BY <1>2, <1>4 DEF KeptUpTo
  <2>2. a = b
    BY <1>3, <1>4, <2>1 DEF IsInjective
  <2> QED BY <2>1, <2>2
<1>5. \A i, j \in 1..Len(t) : i = j \/ i < j \/ j < i
  BY <1>3
<1> HIDE DEF t
<1>6. IsInjective(t)
  BY <1>3, <1>4, <1>5 DEF IsInjective
<1> QED BY <1>6 DEF t

\* What is kept of the entries of a list.
LEMMA KeptEntries ==
  ASSUME NEW s, IsSeq(s), Distinct(s), NEW S
  PROVE  From(Kept(s, S), s)
<1> DEFINE t == Kept(s, S)
<1>1. PICK T : s \in Seq(T)
  BY DEF IsSeq
<1>2. t \in Seq(T) /\ KeptUpTo(s, S, Len(s), t)
  BY <1>1, KeptFacts
<1>3. DOMAIN s = 1..Len(s) /\ DOMAIN t = 1..Len(t) /\ Len(t) \in Nat
  BY <1>1, <1>2, LenProperties
<1>4. ASSUME NEW i \in 1..Len(t), NEW j \in 1..Len(t), i < j, t[i].key = t[j].key PROVE FALSE
  <2>1. PICK a, b \in 1..Len(s) : a < b /\ t[i] = s[a] /\ t[j] = s[b]
    BY <1>2, <1>4 DEF KeptUpTo
  <2>2. a = b
    BY <1>3, <1>4, <2>1 DEF Distinct
  <2> QED BY <2>1, <2>2
<1>5. \A i, j \in 1..Len(t) : i = j \/ i < j \/ j < i
  BY <1>3
<1> HIDE DEF t
<1>6. Distinct(t)
  BY <1>3, <1>4, <1>5 DEF Distinct
<1>7. IsSeq(t) /\ \A i \in DOMAIN t : \E a \in DOMAIN s : t[i] = s[a]
  BY <1>2, <1>3 DEF IsSeq, KeptUpTo
<1> QED BY <1>6, <1>7 DEF From, t

-----------------------------------------------------------------------------
(* The documents of a run.                                                 *)

\* What is assumed of the documents' names, and of the declarations.
LEMMA AssumedPaths ==
  /\ \A order \in {ExtensionOrder, PathOrder, ClassOrder, CallableOrder} :
       order \in Seq(Keys(order)) /\ IsInjective(order)
  /\ Keys(ExtensionOrder) = Extension /\ Hand \subseteq Path
  /\ ExtensionOf \in [Path -> Extension] /\ NewPath \in [Extension -> Path \ Hand]
  /\ \A x \in Extension : ExtensionOf[NewPath[x]] = x
  /\ DOMAIN Declares \subseteq Key /\ \A k \in DOMAIN Declares : Declares[k] \in Extension
BY DocumentsAssumption

\* What is assumed of subjects and owners.
LEMMA AssumedKeys ==
  /\ Keys(ClassOrder) \cap Keys(CallableOrder) = {} /\ DOMAIN OwnerOf \subseteq Keys(CallableOrder)
  /\ OwnerOf \in [DOMAIN OwnerOf -> Keys(ClassOrder)]
  /\ \A m \in DOMAIN OwnerOf \cap DOMAIN Declares :
       OwnerOf[m] \in DOMAIN Declares /\ Declares[m] = Declares[OwnerOf[m]]
BY DocumentsAssumption

\* What is assumed of the documents a behavior begins with.
LEMMA AssumedBeginnings ==
  \A b \in Beginnings :
    DOMAIN b.docs \subseteq Path /\ b.docs \in [DOMAIN b.docs -> Seq(Entry)] /\ Once(b.docs)
BY DocumentsAssumption

\* An order lists nothing twice.
LEMMA OrdersAreLists ==
  /\ IsSeq(ExtensionOrder) /\ IsInjective(ExtensionOrder)
  /\ IsSeq(PathOrder) /\ IsInjective(PathOrder)
  /\ IsSeq(ClassOrder) /\ IsInjective(ClassOrder)
  /\ IsSeq(CallableOrder) /\ IsInjective(CallableOrder)
BY AssumedPaths DEF IsSeq

\* The documents a run reads, the entries it holds and those it has still to
\* write.
ReadInv ==
  /\ DOMAIN docs \subseteq Path /\ docs = [p \in DOMAIN docs |-> docs[p]]
  /\ IsSeq(listing) /\ IsInjective(listing)
  /\ \A i \in DOMAIN listing : listing[i] \in DOMAIN docs \ Hand
  /\ phase \in {"idle", "append", "add"} => listing = <<>>

\* What a run holds in memory, and in which phases it holds something.
HeldInv ==
  /\ moving = [x \in Extension |-> moving[x]]
  /\ phase \notin {"relocate", "append"} => moving = NothingMoving
  /\ IsSeq(additions)
  /\ \A n \in DOMAIN additions : additions[n].path \in Path \ Hand
  /\ phase # "add" => additions = <<>>

\* The entries still to be added, by their place in additions.
Waiting == [n \in DOMAIN additions |-> additions[n].entries]

\* No subject twice, wherever its entry is.
OnceInv ==
  /\ AllSeqs(docs) /\ AllSeqs(moving) /\ AllSeqs(Waiting)
  /\ Once(docs) /\ Once(moving) /\ Once(Waiting)
  /\ Apart(docs, moving) /\ Apart(docs, Waiting)

Inv == ReadInv /\ HeldInv /\ OnceInv

\* The empty list.
LEMMA NothingIsSeq == IsSeq(<<>>) /\ DOMAIN <<>> = {} /\ Len(<<>>) = 0 /\ IsInjective(<<>>)
<1>1. IsSeq(<<>>) /\ Len(<<>>) = 0
  BY EmptyIsSeq
<1>2. DOMAIN <<>> = {}
  <2>1. 1..0 = {}
    OBVIOUS
  <2> QED BY <1>1, <2>1, SeqFacts
<1> QED BY <1>1, <1>2 DEF IsInjective

\* A sequence with a place is not empty, and one that is not empty has a first
\* place.
LEMMA FirstPlace == ASSUME NEW s, IsSeq(s) PROVE (s # <<>> <=> DOMAIN s # {}) /\ (s # <<>> => 1 \in DOMAIN s /\ Len(s) \in DOMAIN s)
<1>1. Len(s) \in Nat /\ DOMAIN s = 1..Len(s)
  BY SeqFacts
<1>2. s # <<>> => Len(s) \in Nat \ {0}
  BY TailFacts
<1>3. s = <<>> => DOMAIN s = {}
  BY NothingIsSeq
<1> QED BY <1>1, <1>2, <1>3

\* generated_documents lists each document that is not hand-declared once.
LEMMA GeneratedFacts ==
  ASSUME ReadInv
  PROVE  /\ IsSeq(Generated) /\ IsInjective(Generated)
         /\ \A i \in DOMAIN Generated : Generated[i] \in DOMAIN docs \ Hand
         /\ \A p \in DOMAIN docs \ Hand : \E i \in DOMAIN Generated : Generated[i] = p
<1>2. /\ IsSeq(Generated) /\ IsInjective(Generated)
      /\ \A i \in DOMAIN Generated : Generated[i] \in DOMAIN docs \ Hand
      /\ \A a \in DOMAIN PathOrder : PathOrder[a] \in DOMAIN docs \ Hand => \E i \in DOMAIN Generated : Generated[i] = PathOrder[a]
  BY OrdersAreLists, KeptPlaces, KeptInjective DEF Generated
<1>3. \A p \in DOMAIN docs \ Hand : \E a \in DOMAIN PathOrder : PathOrder[a] = p
  BY DEF ReadInv, Path, Keys
<1> QED BY <1>2, <1>3

\* placement opens no hand-declared document, and none of another extension.
LEMMA PlacementFacts ==
  ASSUME ReadInv, NEW x \in Extension
  PROVE  Placement(x) \in Path \ Hand /\ ExtensionOf[Placement(x)] = x
<1> DEFINE S == {p \in Path : ExtensionOf[p] = x}
           found == Kept(Generated, S)
<1>1. /\ IsSeq(found)
      /\ \A i \in DOMAIN found : \E a \in DOMAIN Generated :
           found[i] = Generated[a] /\ found[i] \in Path /\ ExtensionOf[found[i]] = x
  <2>1. \A p \in S : p \in Path /\ ExtensionOf[p] = x
    OBVIOUS
  <2> HIDE DEF S
  <2>2. /\ IsSeq(found)
        /\ \A i \in DOMAIN found : \E a \in DOMAIN Generated : found[i] = Generated[a] /\ Generated[a] \in S
    BY GeneratedFacts, KeptPlaces
  <2> QED BY <2>1, <2>2
<1>2. Placement(x) = IF found = <<>> THEN NewPath[x] ELSE found[Len(found)]
  BY DEF Placement
<1>3. NewPath[x] \in Path \ Hand /\ ExtensionOf[NewPath[x]] = x
  BY AssumedPaths
<1> HIDE DEF found
<1>4. found # <<>> => Len(found) \in DOMAIN found
  BY <1>1, FirstPlace
<1> QED BY <1>1, <1>2, <1>3, <1>4, GeneratedFacts

\* The next extension that entries have been moved to.
LEMMA NextExtensionFacts ==
  ASSUME HeldInv, moving # NothingMoving
  PROVE  NextExtension \in Extension /\ moving[NextExtension] # <<>>
<1> DEFINE S == {x \in Extension : moving[x] # <<>>}
           found == Kept(ExtensionOrder, S)
<1>1. PICK x \in Extension : moving[x] # <<>>
  BY DEF HeldInv, NothingMoving
<1>2. IsSeq(ExtensionOrder) /\ \E a \in DOMAIN ExtensionOrder : ExtensionOrder[a] \in S
  BY <1>1, AssumedPaths, OrdersAreLists DEF Keys
<1>3. IsSeq(found) /\ DOMAIN found # {} /\ \A i \in DOMAIN found : found[i] \in S
  <2> HIDE DEF S
  <2> QED BY <1>2, KeptPlaces
<1>4. NextExtension = found[1]
  BY DEF NextExtension
<1> HIDE DEF found
<1> QED BY <1>3, <1>4, FirstPlace

-----------------------------------------------------------------------------
(* What a run writes.                                                      *)

\* es may become the entries of p: nothing in it is declared elsewhere.
Fits(p, es) ==
  /\ p \in Path \ Hand /\ IsSeq(es) /\ Distinct(es)
  /\ \A q \in DOMAIN docs \ {p} : ApartFrom(es, docs[q])

\* Two lists of entries without a common subject, behind each other.
LEMMA JoinedEntries ==
  ASSUME NEW es, IsSeq(es), Distinct(es), NEW fs, IsSeq(fs), Distinct(fs), ApartFrom(es, fs)
  PROVE  /\ IsSeq(es \o fs) /\ Distinct(es \o fs)
         /\ \A i \in DOMAIN (es \o fs) : \/ \E a \in DOMAIN es : (es \o fs)[i] = es[a]
                                         \/ \E a \in DOMAIN fs : (es \o fs)[i] = fs[a]
         /\ \A a \in DOMAIN es : \E i \in DOMAIN (es \o fs) : (es \o fs)[i] = es[a]
         /\ \A a \in DOMAIN fs : \E i \in DOMAIN (es \o fs) : (es \o fs)[i] = fs[a]
<1> DEFINE t == es \o fs
<1>1. /\ IsSeq(t) /\ Len(es) \in Nat /\ Len(fs) \in Nat /\ DOMAIN t = 1..(Len(es) + Len(fs))
      /\ \A i \in DOMAIN t : t[i] = IF i <= Len(es) THEN es[i] ELSE fs[i - Len(es)]
      /\ DOMAIN es = 1..Len(es) /\ DOMAIN fs = 1..Len(fs)
  BY Joined, SeqFacts
<1> HIDE DEF t
<1>2. ASSUME NEW i \in DOMAIN t
      PROVE  \/ i \in DOMAIN es /\ t[i] = es[i]
             \/ ~(i <= Len(es)) /\ i - Len(es) \in DOMAIN fs /\ t[i] = fs[i - Len(es)]
  BY <1>1
<1>3. ASSUME NEW a \in DOMAIN es PROVE a \in DOMAIN t /\ t[a] = es[a]
  BY <1>1
<1>4. ASSUME NEW a \in DOMAIN fs PROVE a + Len(es) \in DOMAIN t /\ t[a + Len(es)] = fs[a]
  BY <1>1
<1>5. ASSUME NEW i \in DOMAIN t, NEW j \in DOMAIN t, t[i].key = t[j].key PROVE i = j
  <2>1. CASE i \in DOMAIN es /\ t[i] = es[i] /\ j \in DOMAIN es /\ t[j] = es[j]
    BY <1>5, <2>1 DEF Distinct
  <2>2. CASE i - Len(es) \in DOMAIN fs /\ t[i] = fs[i - Len(es)] /\ j - Len(es) \in DOMAIN fs /\ t[j] = fs[j - Len(es)]
    <3>1. i - Len(es) = j - Len(es)
      BY <1>5, <2>2 DEF Distinct
    <3> QED BY <1>1, <3>1
  <2>3. CASE i \in DOMAIN es /\ t[i] = es[i] /\ j - Len(es) \in DOMAIN fs /\ t[j] = fs[j - Len(es)]
    BY <1>5, <2>3 DEF ApartFrom
  <2>4. CASE j \in DOMAIN es /\ t[j] = es[j] /\ i - Len(es) \in DOMAIN fs /\ t[i] = fs[i - Len(es)]
    BY <1>5, <2>4 DEF ApartFrom
  <2> QED BY <1>2, <2>1, <2>2, <2>3, <2>4
<1>6. Distinct(t)
  BY <1>5 DEF Distinct
<1>7. IsSeq(t) /\ Distinct(t)
         /\ (\A i \in DOMAIN t : \/ \E a \in DOMAIN es : t[i] = es[a]
                                 \/ \E a \in DOMAIN fs : t[i] = fs[a])
         /\ (\A a \in DOMAIN es : \E i \in DOMAIN t : t[i] = es[a])
         /\ (\A a \in DOMAIN fs : \E i \in DOMAIN t : t[i] = fs[a])
  BY <1>1, <1>2, <1>3, <1>4, <1>6
<1> QED BY <1>7 DEF t

\* append: what a document has, and entries that no document declares.
LEMMA AppendFits ==
  ASSUME OnceInv, NEW p \in Path \ Hand, NEW es, IsSeq(es), Distinct(es), \A q \in DOMAIN docs : ApartFrom(docs[q], es)
  PROVE  /\ AppendTo(p, es).path = p /\ Fits(p, AppendTo(p, es).entries)
         /\ \A i \in DOMAIN AppendTo(p, es).entries :
              \/ p \in DOMAIN docs /\ \E a \in DOMAIN docs[p] : AppendTo(p, es).entries[i] = docs[p][a]
              \/ \E a \in DOMAIN es : AppendTo(p, es).entries[i] = es[a]
         /\ p \in DOMAIN docs => \A a \in DOMAIN docs[p] : \E i \in DOMAIN AppendTo(p, es).entries : AppendTo(p, es).entries[i] = docs[p][a]
         /\ \A a \in DOMAIN es : \E i \in DOMAIN AppendTo(p, es).entries : AppendTo(p, es).entries[i] = es[a]
<1> DEFINE fs == IF p \in DOMAIN docs THEN docs[p] ELSE <<>>
           t == fs \o es
<1>1. AppendTo(p, es).path = p /\ AppendTo(p, es).entries = t
  BY DEF AppendTo
<1>2. /\ IsSeq(fs) /\ Distinct(fs) /\ ApartFrom(fs, es)
      /\ p \notin DOMAIN docs => DOMAIN fs = {}
      /\ p \in DOMAIN docs => fs = docs[p]
  BY NothingIsSeq DEF OnceInv, AllSeqs, Once, Distinct, ApartFrom
<1> HIDE DEF fs
<1>3. /\ IsSeq(t) /\ Distinct(t)
      /\ \A i \in DOMAIN t : \/ \E a \in DOMAIN fs : t[i] = fs[a]
                             \/ \E a \in DOMAIN es : t[i] = es[a]
      /\ \A a \in DOMAIN fs : \E i \in DOMAIN t : t[i] = fs[a]
      /\ \A a \in DOMAIN es : \E i \in DOMAIN t : t[i] = es[a]
  BY <1>2, JoinedEntries
<1> HIDE DEF t
<1>4. \A i \in DOMAIN t : \/ p \in DOMAIN docs /\ \E a \in DOMAIN docs[p] : t[i] = docs[p][a]
                          \/ \E a \in DOMAIN es : t[i] = es[a]
  BY <1>2, <1>3
<1>5. ASSUME NEW q \in DOMAIN docs \ {p}, NEW i \in DOMAIN t, NEW j \in DOMAIN docs[q] PROVE t[i].key # docs[q][j].key
  <2>1. CASE p \in DOMAIN docs /\ \E a \in DOMAIN docs[p] : t[i] = docs[p][a]
    BY <2>1 DEF OnceInv, Once
  <2>2. CASE \E a \in DOMAIN es : t[i] = es[a]
    BY <2>2 DEF ApartFrom
  <2> QED BY <1>4, <2>1, <2>2
<1>6. Fits(p, t)
  BY <1>3, <1>5 DEF Fits, ApartFrom
<1> QED BY <1>1, <1>2, <1>3, <1>4, <1>6

\* A write that is cut leaves a beginning, which fits as well.
LEMMA BeginningFits ==
  ASSUME NEW p, NEW es, Fits(p, es), NEW n \in 0..Len(es)
  PROVE  Fits(p, SubSeq(es, 1, n))
<1> DEFINE t == SubSeq(es, 1, n)
<1>1. /\ IsSeq(t) /\ DOMAIN t = 1..n /\ DOMAIN es = 1..Len(es) /\ Len(es) \in Nat
      /\ \A i \in 1..n : t[i] = es[i]
  BY BeginningFacts, SeqFacts DEF Fits
<1>2. \A i \in DOMAIN t : i \in DOMAIN es /\ t[i] = es[i]
  BY <1>1
<1> HIDE DEF t
<1>3. Fits(p, t)
  BY <1>1, <1>2 DEF Fits, Distinct, ApartFrom
<1> QED BY <1>3 DEF t

\* g is the documents after es became the entries of p, or after p was removed.
Changed(g, p, es) ==
  /\ g = [q \in DOMAIN g |-> g[q]] /\ DOMAIN g \subseteq Path
  /\ DOMAIN docs \ {p} \subseteq DOMAIN g
  /\ \A q \in DOMAIN g : (q = p /\ g[q] = es) \/ (q # p /\ q \in DOMAIN docs /\ g[q] = docs[q])

\* The hand-declared documents are in g as they were.
HandKept(g) == \A p \in Hand : (p \in DOMAIN g <=> p \in DOMAIN docs) /\ (p \in DOMAIN docs => g[p] = docs[p])

\* No subject becomes declared twice by entries that fit.
LEMMA ChangedOnce ==
  ASSUME OnceInv, NEW p, NEW es, Fits(p, es), NEW g, Changed(g, p, es)
  PROVE  AllSeqs(g) /\ Once(g) /\ HandKept(g)
<1>1. AllSeqs(g)
  BY DEF AllSeqs, OnceInv, Fits, Changed
<1>2. ASSUME NEW q \in DOMAIN g, NEW r \in DOMAIN g, NEW i \in DOMAIN g[q], NEW j \in DOMAIN g[r],
             g[q][i].key = g[r][j].key
      PROVE  q = r /\ i = j
  <2>1. CASE q = p /\ r = p
    BY <1>2, <2>1 DEF Distinct, Changed, Fits
  <2>2. CASE q = p /\ r # p
    <3>1. g[q] = es /\ r \in DOMAIN docs \ {p} /\ g[r] = docs[r]
      BY <2>2 DEF Changed
    <3> QED BY <1>2, <3>1 DEF ApartFrom, Fits
  <2>3. CASE q # p /\ r = p
    <3>1. g[r] = es /\ q \in DOMAIN docs \ {p} /\ g[q] = docs[q]
      BY <2>3 DEF Changed
    <3> QED BY <1>2, <3>1 DEF ApartFrom, Fits
  <2>4. CASE q # p /\ r # p
    <3>1. q \in DOMAIN docs /\ g[q] = docs[q] /\ r \in DOMAIN docs /\ g[r] = docs[r]
      BY <2>4 DEF Changed
    <3> QED BY <1>2, <3>1 DEF Once, OnceInv
  <2> QED BY <2>1, <2>2, <2>3, <2>4
<1>3. HandKept(g)
  BY DEF HandKept, Changed, Fits
<1> QED BY <1>1, <1>2, <1>3 DEF Once

\* Other lists stay apart from the documents.
LEMMA ChangedApart ==
  ASSUME NEW p, NEW es, NEW g, Changed(g, p, es), NEW f,
         \A r \in DOMAIN f : ApartFrom(es, f[r]) /\ \A q \in DOMAIN docs \ {p} : ApartFrom(docs[q], f[r])
  PROVE  Apart(g, f)
<1> SUFFICES ASSUME NEW q \in DOMAIN g, NEW r \in DOMAIN f PROVE ApartFrom(g[q], f[r])
  BY DEF Apart
<1>1. CASE q = p
  BY <1>1 DEF Changed
<1>2. CASE q # p
  BY <1>2 DEF Changed
<1> QED BY <1>1, <1>2

\* A document is written, or what is left of the write.
LEMMA PutChanges ==
  ASSUME ReadInv, NEW p \in Path, NEW es
  PROVE  LET g == [q \in DOMAIN docs \cup {p} |-> IF q = p THEN es ELSE docs[q]] IN
         Changed(g, p, es) /\ DOMAIN docs \subseteq DOMAIN g /\ p \in DOMAIN g
BY DEF Changed, ReadInv

\* Without a document, the others are as they were.
LEMMA DropChanges ==
  ASSUME ReadInv, NEW p, NEW es
  PROVE  Changed([q \in DOMAIN docs \ {p} |-> docs[q]], p, es)
BY DEF Changed, ReadInv

\* A write changes one document; only relocation removes one.
LEMMA WithChanges ==
  ASSUME ReadInv, NEW p \in Path, NEW es, Write.path = p, Write.entries = es
  PROVE  /\ Changed(With(Write), p, es)
         /\ phase # "relocate" => DOMAIN docs \subseteq DOMAIN With(Write)
         /\ phase # "relocate" \/ es # <<>> => p \in DOMAIN With(Write)
<1>1. CASE phase = "relocate" /\ es = <<>>
  <2>1. With(Write) = [q \in DOMAIN docs \ {p} |-> docs[q]]
    BY <1>1 DEF With
  <2> QED BY <1>1, <2>1, DropChanges, SMTT(60)
<1>2. CASE ~(phase = "relocate" /\ es = <<>>)
  <2>1. With(Write) = [q \in DOMAIN docs \cup {p} |-> IF q = p THEN es ELSE docs[q]]
    BY <1>2 DEF With
  <2> QED BY <2>1, PutChanges
<1> QED BY <1>1, <1>2

\* An entry rewritten by a producer is still that of its subject.
LEMMA TransformKey == ASSUME NEW e PROVE Transform(e).key = e.key
BY DEF Transform, Rewritten, EntryOf

-----------------------------------------------------------------------------
(* relocate.                                                               *)

\* The entries of p that belong to x, and no others.
LEMMA EntriesForFacts ==
  ASSUME NEW p \in DOMAIN docs, IsSeq(docs[p]), Distinct(docs[p]), NEW x
  PROVE  /\ From(EntriesFor(p, x), docs[p])
         /\ \A i \in DOMAIN EntriesFor(p, x) : Target(EntriesFor(p, x)[i], ExtensionOf[p]) = x
         /\ \A a \in DOMAIN docs[p] : Target(docs[p][a], ExtensionOf[p]) = x =>
              \E i \in DOMAIN EntriesFor(p, x) : EntriesFor(p, x)[i] = docs[p][a]
<1> DEFINE S == {e \in Range(docs[p]) : Target(e, ExtensionOf[p]) = x}
<1>1. EntriesFor(p, x) = Kept(docs[p], S)
  BY DEF EntriesFor
<1>2. \A e \in S : Target(e, ExtensionOf[p]) = x
  OBVIOUS
<1>3. \A a \in DOMAIN docs[p] : Target(docs[p][a], ExtensionOf[p]) = x => docs[p][a] \in S
  BY DEF Range
<1> HIDE DEF S
<1>4. From(EntriesFor(p, x), docs[p])
  BY <1>1, KeptEntries
<1>5. \A i \in DOMAIN EntriesFor(p, x) : EntriesFor(p, x)[i] \in S
  BY <1>1, KeptPlaces
<1>6. \A a \in DOMAIN docs[p] : docs[p][a] \in S => \E i \in DOMAIN EntriesFor(p, x) : EntriesFor(p, x)[i] = docs[p][a]
  BY <1>1, KeptPlaces
<1> QED BY <1>2, <1>3, <1>4, <1>5, <1>6

\* The document that relocate reads.
LEMMA HeadFacts ==
  ASSUME ReadInv, listing # <<>>
  PROVE  /\ Head(listing) \in DOMAIN docs \ Hand /\ Head(listing) \in Path
         /\ IsSeq(Tail(listing)) /\ IsInjective(Tail(listing))
         /\ \A i \in DOMAIN Tail(listing) : Tail(listing)[i] \in DOMAIN docs \ Hand /\ Tail(listing)[i] # Head(listing)
         /\ \A i \in DOMAIN listing : listing[i] = Head(listing) \/ \E j \in DOMAIN Tail(listing) : Tail(listing)[j] = listing[i]
<1>1. /\ IsSeq(Tail(listing)) /\ Len(listing) \in Nat \ {0} /\ Head(listing) = listing[1]
      /\ DOMAIN listing = 1..Len(listing) /\ DOMAIN Tail(listing) = 1..(Len(listing) - 1)
      /\ \A i \in 1..(Len(listing) - 1) : Tail(listing)[i] = listing[i + 1]
  BY TailFacts, SeqFacts DEF ReadInv
<1>2. 1 \in DOMAIN listing /\ \A i \in DOMAIN Tail(listing) : i + 1 \in DOMAIN listing /\ i + 1 # 1 /\ Tail(listing)[i] = listing[i + 1]
  BY <1>1
<1>3. \A i \in DOMAIN listing : i = 1 \/ (i - 1 \in DOMAIN Tail(listing) /\ Tail(listing)[i - 1] = listing[i])
  BY <1>1
<1>4. \A i \in DOMAIN Tail(listing), j \in DOMAIN Tail(listing) : i + 1 = j + 1 => i = j
  BY <1>1
<1>5. \A i \in DOMAIN listing : listing[i] \in DOMAIN docs \ Hand /\ listing[i] \in Path
  BY DEF ReadInv
<1>6. \A i, j \in DOMAIN listing : listing[i] = listing[j] => i = j
  BY DEF ReadInv, IsInjective
<1>7. \A i \in DOMAIN Tail(listing) : Tail(listing)[i] \in DOMAIN docs \ Hand /\ Tail(listing)[i] # Head(listing)
  BY <1>1, <1>2, <1>5, <1>6
<1>8. IsInjective(Tail(listing))
  BY <1>2, <1>4, <1>6 DEF IsInjective
<1>9. \A i \in DOMAIN listing : listing[i] = Head(listing) \/ \E j \in DOMAIN Tail(listing) : Tail(listing)[j] = listing[i]
  BY <1>1, <1>3
<1>10. Head(listing) \in DOMAIN docs \ Hand /\ Head(listing) \in Path
  BY <1>1, <1>2, <1>5
<1> QED BY <1>1, <1>7, <1>8, <1>9, <1>10

\* What a document keeps fits, and what is taken out of it is declared nowhere
\* else.
LEMMA RelocateFits ==
  ASSUME Inv, listing # <<>>
  PROVE  LET h == Head(listing) IN
         /\ Fits(h, Remaining(h))
         /\ AllSeqs(Taken(h)) /\ Once(Taken(h)) /\ DOMAIN Taken(h) = Extension
         /\ \A x \in Extension : ApartFrom(Remaining(h), Taken(h)[x])
         /\ \A q \in DOMAIN docs \ {h}, x \in Extension : ApartFrom(docs[q], Taken(h)[x])
         /\ \A x \in Extension : \A i \in DOMAIN Taken(h)[x] :
              \/ \E a \in DOMAIN moving[x] : Taken(h)[x][i] = moving[x][a]
              \/ x # ExtensionOf[h] /\ \E a \in DOMAIN EntriesFor(h, x) : Taken(h)[x][i] = EntriesFor(h, x)[a]
<1> DEFINE h == Head(listing)
           home == ExtensionOf[h]
<1>1. h \in DOMAIN docs \ Hand /\ h \in Path /\ IsSeq(docs[h]) /\ Distinct(docs[h])
  BY HeadFacts DEF Inv, OnceInv, AllSeqs, Once, Distinct
<1> HIDE DEF h
<1>2. \A q \in DOMAIN docs \ {h} : ApartFrom(docs[h], docs[q])
  BY <1>1 DEF Inv, OnceInv, Once, ApartFrom
<1>3. Remaining(h) = EntriesFor(h, home)
  BY DEF Remaining, Stays
<1> HIDE DEF home
<1>4. \A x : /\ From(EntriesFor(h, x), docs[h])
             /\ \A i \in DOMAIN EntriesFor(h, x) : Target(EntriesFor(h, x)[i], home) = x
  BY <1>1, EntriesForFacts DEF home
<1>5. ASSUME NEW x, NEW q \in DOMAIN docs \ {h} PROVE ApartFrom(EntriesFor(h, x), docs[q]) /\ ApartFrom(docs[q], EntriesFor(h, x))
  BY <1>2, <1>4 DEF From, ApartFrom
<1>6. ASSUME NEW x, NEW y, x # y PROVE ApartFrom(EntriesFor(h, x), EntriesFor(h, y))
  <2> SUFFICES ASSUME NEW i \in DOMAIN EntriesFor(h, x), NEW j \in DOMAIN EntriesFor(h, y),
                      EntriesFor(h, x)[i].key = EntriesFor(h, y)[j].key
               PROVE  FALSE
    BY DEF ApartFrom
  <2>1. PICK a \in DOMAIN docs[h] : EntriesFor(h, x)[i] = docs[h][a]
    BY <1>4 DEF From
  <2>2. PICK b \in DOMAIN docs[h] : EntriesFor(h, y)[j] = docs[h][b]
    BY <1>4 DEF From
  <2>3. a = b
    BY <1>1, <2>1, <2>2 DEF Distinct
  <2> QED BY <1>4, <1>6, <2>1, <2>2, <2>3
<1>7. Fits(h, Remaining(h))
  BY <1>1, <1>3, <1>4, <1>5 DEF Fits, From
<1>8. ASSUME NEW x \in Extension, NEW y PROVE ApartFrom(moving[x], EntriesFor(h, y)) /\ ApartFrom(EntriesFor(h, y), moving[x])
  <2>1. ApartFrom(docs[h], moving[x])
    BY <1>1 DEF Inv, OnceInv, HeldInv, Apart
  <2> QED BY <1>4, <2>1 DEF From, ApartFrom
<1>9. ASSUME NEW x \in Extension
      PROVE  /\ IsSeq(Taken(h)[x]) /\ Distinct(Taken(h)[x])
             /\ \A i \in DOMAIN Taken(h)[x] : \/ \E a \in DOMAIN moving[x] : Taken(h)[x][i] = moving[x][a]
                                              \/ x # home /\ \E a \in DOMAIN EntriesFor(h, x) : Taken(h)[x][i] = EntriesFor(h, x)[a]
  <2>1. Taken(h)[x] = IF x # home THEN moving[x] \o EntriesFor(h, x) ELSE moving[x]
    BY DEF Taken, home
  <2>2. IsSeq(moving[x]) /\ Distinct(moving[x])
    BY DEF Inv, HeldInv, OnceInv, AllSeqs, Once, Distinct
  <2>3. IsSeq(EntriesFor(h, x)) /\ Distinct(EntriesFor(h, x)) /\ ApartFrom(moving[x], EntriesFor(h, x))
    BY <1>4, <1>8 DEF From
  <2>4. CASE x # home
    <3> DEFINE t == moving[x] \o EntriesFor(h, x)
    <3>1. /\ IsSeq(t) /\ Distinct(t)
          /\ \A i \in DOMAIN t : \/ \E a \in DOMAIN moving[x] : t[i] = moving[x][a]
                                 \/ \E a \in DOMAIN EntriesFor(h, x) : t[i] = EntriesFor(h, x)[a]
      BY <2>2, <2>3, JoinedEntries
    <3>2. Taken(h)[x] = t
      BY <2>1, <2>4
    <3> HIDE DEF t
    <3> QED BY <2>4, <3>1, <3>2
  <2>5. CASE x = home
    BY <2>1, <2>2, <2>5
  <2> QED BY <2>4, <2>5
<1>10. DOMAIN Taken(h) = Extension
  BY DEF Taken
<1>11. AllSeqs(Taken(h))
  BY <1>9, <1>10 DEF AllSeqs
<1>12. ASSUME NEW x \in Extension, NEW y \in Extension, x # y PROVE ApartFrom(Taken(h)[x], Taken(h)[y])
  <2>1. ApartFrom(moving[x], moving[y])
    BY <1>12 DEF Inv, HeldInv, OnceInv, Once, ApartFrom
  <2>2. /\ ApartFrom(moving[x], EntriesFor(h, y)) /\ ApartFrom(EntriesFor(h, x), moving[y])
        /\ ApartFrom(EntriesFor(h, x), EntriesFor(h, y))
    BY <1>6, <1>8, <1>12
  <2> QED BY <1>9, <2>1, <2>2 DEF ApartFrom
<1>13. Once(Taken(h))
  BY <1>9, <1>10, <1>12 DEF Once, Distinct, ApartFrom
<1>14. ASSUME NEW x \in Extension PROVE ApartFrom(Remaining(h), Taken(h)[x])
  <2>1. x # home => ApartFrom(EntriesFor(h, home), EntriesFor(h, x))
    BY <1>6
  <2>2. ApartFrom(EntriesFor(h, home), moving[x])
    BY <1>8
  <2> QED BY <1>3, <1>9, <2>1, <2>2 DEF ApartFrom
<1>15. ASSUME NEW q \in DOMAIN docs \ {h}, NEW x \in Extension PROVE ApartFrom(docs[q], Taken(h)[x])
  <2>1. ApartFrom(docs[q], moving[x])
    BY DEF Inv, OnceInv, HeldInv, Apart
  <2> QED BY <1>5, <1>9, <2>1 DEF ApartFrom
<1> QED BY <1>7, <1>9, <1>10, <1>11, <1>13, <1>14, <1>15 DEF h, home

-----------------------------------------------------------------------------
(* Each step keeps the invariant, and the hand-declared documents.         *)

\* The entries a document gives away are moving once they are no longer in it.
LEMMA RelocateNextInv ==
  ASSUME Inv, RelocateNext
  PROVE  Inv' /\ HandKept(docs')
<1> DEFINE h == Head(listing)
<1>1. phase = "relocate" /\ phase' = "relocate" /\ listing # <<>> /\ listing' = Tail(listing) /\ additions' = additions
  BY DEF RelocateNext
<1>2. /\ h \in DOMAIN docs \ Hand /\ h \in Path
      /\ IsSeq(Tail(listing)) /\ IsInjective(Tail(listing))
      /\ \A i \in DOMAIN Tail(listing) : Tail(listing)[i] \in DOMAIN docs \ Hand /\ Tail(listing)[i] # h
  BY <1>1, HeadFacts DEF Inv
<1>3. /\ Fits(h, Remaining(h))
      /\ AllSeqs(Taken(h)) /\ Once(Taken(h)) /\ DOMAIN Taken(h) = Extension
      /\ \A x \in Extension : ApartFrom(Remaining(h), Taken(h)[x])
      /\ \A q \in DOMAIN docs \ {h}, x \in Extension : ApartFrom(docs[q], Taken(h)[x])
  BY <1>1, RelocateFits
<1>4. Write.path = h /\ Write.entries = Remaining(h)
  BY <1>1 DEF Write
<1> HIDE DEF h
<1>5. additions = <<>> /\ DOMAIN additions = {}
  BY <1>1, NothingIsSeq DEF Inv, HeldInv
<1>6. Waiting' = Waiting /\ DOMAIN Waiting = {}
  BY <1>1, <1>5 DEF Waiting
<1>7. CASE Writes
  <2>1. docs' = With(Write) /\ moving' = Taken(h)
    BY <1>7 DEF RelocateNext, h
  <2>2. Changed(docs', h, Remaining(h))
    BY <1>2, <1>4, <2>1, WithChanges DEF Inv
  <2>3. AllSeqs(docs') /\ Once(docs') /\ HandKept(docs')
    BY <1>3, <2>2, ChangedOnce DEF Inv
  <2>4. Apart(docs', moving')
    BY <1>3, <2>1, <2>2, ChangedApart
  <2>5. Apart(docs', Waiting')
    BY <1>6 DEF Apart
  <2>6. OnceInv'
    BY <1>3, <1>6, <2>1, <2>3, <2>4, <2>5 DEF Inv, OnceInv
  <2>7. ReadInv'
    BY <1>1, <1>2, <2>2 DEF ReadInv, Changed
  <2>8. moving' = [x \in Extension |-> moving'[x]]
    BY <2>1 DEF Taken
  <2>9. HeldInv'
    BY <1>1, <1>5, <2>8 DEF HeldInv, Inv
  <2> QED BY <2>3, <2>6, <2>7, <2>9 DEF Inv
<1>8. CASE ~Writes
  <2>1. docs' = docs /\ moving' = moving
    BY <1>8 DEF RelocateNext
  <2>2. OnceInv'
    BY <1>6, <2>1 DEF Inv, OnceInv
  <2>3. ReadInv'
    BY <1>1, <1>2, <2>1 DEF ReadInv, Inv
  <2>4. HeldInv'
    BY <1>1, <2>1 DEF HeldInv, Inv
  <2> QED BY <2>1, <2>2, <2>3, <2>4 DEF Inv, HandKept
<1> QED BY <1>7, <1>8

\* Steps that write nothing and leave what is held.
LEMMA NothingWritten ==
  ASSUME Inv, UNCHANGED <<docs, moving, additions>>
  PROVE  OnceInv' /\ HandKept(docs')
<1>1. Waiting' = Waiting
  BY DEF Waiting
<1> QED BY <1>1 DEF Inv, OnceInv, HandKept

\* The end of the reading changes the phase only.
LEMMA AllReadInv ==
  ASSUME Inv, AllRead
  PROVE  Inv' /\ HandKept(docs')
<1>1. OnceInv' /\ HandKept(docs')
  BY NothingWritten DEF AllRead
<1>2. ReadInv' /\ HeldInv'
  BY DEF AllRead, Inv, ReadInv, HeldInv
<1> QED BY <1>1, <1>2 DEF Inv

\* The moved entries of an extension fit behind its document, and no other
\* extension has them on their way.
LEMMA AppendMovedFits ==
  ASSUME Inv, phase = "append", Writes
  PROVE  LET x == NextExtension
             es == Write.entries
         IN /\ x \in Extension /\ Write.path = Placement(x) /\ Fits(Placement(x), es)
            /\ \A y \in Extension \ {x} : ApartFrom(es, moving[y])
<1> DEFINE x == NextExtension
           p == Placement(x)
           es == Write.entries
<1>1. x \in Extension
  BY NextExtensionFacts DEF Writes, Inv
<1>2. p \in Path \ Hand
  BY <1>1, PlacementFacts DEF Inv
<1>3. Write = AppendTo(p, moving[x])
  BY DEF Write
<1> HIDE DEF x
<1> HIDE DEF p
<1>4. IsSeq(moving[x]) /\ Distinct(moving[x]) /\ \A q \in DOMAIN docs : ApartFrom(docs[q], moving[x])
  BY <1>1 DEF Inv, HeldInv, OnceInv, AllSeqs, Once, Distinct, Apart
<1>5. /\ Write.path = p /\ Fits(p, es)
      /\ \A i \in DOMAIN es : \/ p \in DOMAIN docs /\ \E a \in DOMAIN docs[p] : es[i] = docs[p][a]
                              \/ \E a \in DOMAIN moving[x] : es[i] = moving[x][a]
  BY <1>2, <1>3, <1>4, AppendFits DEF Inv
<1> HIDE DEF es
<1>6. ASSUME NEW y \in Extension \ {x} PROVE ApartFrom(es, moving[y])
  <2>1. p \in DOMAIN docs => ApartFrom(docs[p], moving[y])
    BY DEF Inv, HeldInv, OnceInv, Apart
  <2>2. ApartFrom(moving[x], moving[y])
    BY <1>1, <1>6 DEF Inv, HeldInv, OnceInv, Once, ApartFrom
  <2> QED BY <1>5, <2>1, <2>2 DEF ApartFrom
<1> QED BY <1>1, <1>5, <1>6 DEF x, p, es

\* Once they are appended, the entries are no longer moving.
LEMMA AppendMovedInv ==
  ASSUME Inv, AppendMoved
  PROVE  Inv' /\ HandKept(docs')
<1> DEFINE x == NextExtension
           p == Placement(x)
           es == Write.entries
<1>1. /\ phase = "append" /\ phase' = "append" /\ Writes /\ docs' = With(Write)
      /\ moving' = [moving EXCEPT ![x] = <<>>] /\ listing' = listing /\ additions' = additions
  BY DEF AppendMoved
<1>2. /\ x \in Extension /\ Write.path = p /\ Fits(p, es)
      /\ \A y \in Extension \ {x} : ApartFrom(es, moving[y])
  BY <1>1, AppendMovedFits
<1> HIDE DEF x
<1> HIDE DEF p
<1> HIDE DEF es
<1>3. Changed(docs', p, es) /\ DOMAIN docs \subseteq DOMAIN docs'
  BY <1>1, <1>2, WithChanges DEF Inv, Fits, es
<1>4. AllSeqs(docs') /\ Once(docs') /\ HandKept(docs')
  BY <1>2, <1>3, ChangedOnce DEF Inv
<1>5. /\ DOMAIN moving' = Extension /\ moving' = [y \in Extension |-> moving'[y]]
      /\ moving'[x] = <<>> /\ \A y \in Extension \ {x} : moving'[y] = moving[y]
  BY <1>1, <1>2 DEF Inv, HeldInv
<1>6. AllSeqs(moving') /\ Once(moving')
  <2>1. IsSeq(<<>>) /\ DOMAIN <<>> = {}
    BY NothingIsSeq
  <2> QED BY <1>5, <2>1 DEF Inv, HeldInv, OnceInv, AllSeqs, Once
<1>7. ASSUME NEW y \in DOMAIN moving' PROVE ApartFrom(es, moving'[y]) /\ \A q \in DOMAIN docs \ {p} : ApartFrom(docs[q], moving'[y])
  <2>1. CASE y = x
    BY <1>5, <2>1, NothingIsSeq DEF ApartFrom
  <2>2. CASE y # x
    BY <1>2, <1>5, <2>2 DEF Inv, HeldInv, OnceInv, Apart
  <2> QED BY <2>1, <2>2
<1>8. Apart(docs', moving')
  BY <1>3, <1>7, ChangedApart
<1>9. additions = <<>> /\ DOMAIN additions = {}
  BY <1>1, NothingIsSeq DEF Inv, HeldInv
<1>10. Waiting' = Waiting /\ DOMAIN Waiting = {}
  BY <1>1, <1>9 DEF Waiting
<1>11. Apart(docs', Waiting')
  BY <1>10 DEF Apart
<1>12. OnceInv'
  BY <1>4, <1>6, <1>8, <1>10, <1>11 DEF Inv, OnceInv
<1>13. ReadInv'
  BY <1>1, <1>3 DEF ReadInv, Changed, Inv
<1>14. HeldInv'
  BY <1>1, <1>5 DEF HeldInv, Inv
<1> QED BY <1>4, <1>12, <1>13, <1>14 DEF Inv

-----------------------------------------------------------------------------
(* add_missing.                                                            *)

\* A function on 1..n is a sequence.
LEMMA ListOn == ASSUME NEW n \in Nat, NEW f, DOMAIN f = 1..n, f = [i \in 1..n |-> f[i]] PROVE IsSeq(f) /\ Len(f) = n
<1> DEFINE S == {f[i] : i \in 1..n}
<1>1. f \in [1..n -> S]
  OBVIOUS
<1> HIDE DEF S
<1>2. f \in Seq(S) /\ Len(f) = n
  BY <1>1
<1> QED BY <1>2 DEF IsSeq

\* The missing declarations, each once.
LEMMA MissingFacts ==
  /\ IsSeq(Missing) /\ IsInjective(Missing)
  /\ \A i \in DOMAIN Missing : Owns(Missing[i]) /\ Missing[i] \notin DeclaredIn(DOMAIN docs)
  /\ \A k : Owns(k) /\ k \notin DeclaredIn(DOMAIN docs) => \E i \in DOMAIN Missing : Missing[i] = k
<1> DEFINE S == {k \in Key : Owns(k) /\ k \notin DeclaredIn(DOMAIN docs)}
<1>1. IsSeq(Order) /\ IsInjective(Order)
  BY OrdersAreLists DEF Order
<1>2. \A k \in S : Owns(k) /\ k \notin DeclaredIn(DOMAIN docs)
  OBVIOUS
<1>3. \A k : Owns(k) /\ k \notin DeclaredIn(DOMAIN docs) => k \in S /\ \E a \in DOMAIN Order : Order[a] = k
  BY AssumedPaths DEF Owns, Keys
<1>4. Missing = Kept(Order, S)
  BY DEF Missing
<1> HIDE DEF S
<1>5. IsSeq(Missing) /\ IsInjective(Missing)
  BY <1>1, <1>4, KeptPlaces, KeptInjective
<1>6. \A i \in DOMAIN Missing : Missing[i] \in S
  BY <1>1, <1>4, KeptPlaces
<1>7. \A a \in DOMAIN Order : Order[a] \in S => \E i \in DOMAIN Missing : Missing[i] = Order[a]
  BY <1>1, <1>4, KeptPlaces
<1> QED BY <1>2, <1>3, <1>5, <1>6, <1>7

\* target_document: a document that may be written.
LEMMA TargetFacts ==
  ASSUME ReadInv, NEW k, Owns(k), ~Orphan(k)
  PROVE  /\ TargetDocument(k) \in Path \ Hand
         /\ k \in DOMAIN OwnerOf => TargetDocument(k) \in DOMAIN docs /\ OwnerOf[k] \in DeclaredIn({TargetDocument(k)})
         /\ k \notin DOMAIN OwnerOf => ExtensionOf[TargetDocument(k)] = Declares[k]
<1>1. CASE k \in DOMAIN OwnerOf
  <2> DEFINE S == {p \in DOMAIN docs : OwnerOf[k] \in DeclaredIn({p})}
  <2>1. ClassDocuments(k) = Kept(Generated, S)
    BY DEF ClassDocuments
  <2>2. \A p \in S : p \in DOMAIN docs /\ OwnerOf[k] \in DeclaredIn({p})
    OBVIOUS
  <2> HIDE DEF S
  <2>3. IsSeq(ClassDocuments(k)) /\ \A i \in DOMAIN ClassDocuments(k) : ClassDocuments(k)[i] \in S /\ \E a \in DOMAIN Generated : ClassDocuments(k)[i] = Generated[a]
    BY <2>1, GeneratedFacts, KeptPlaces
  <2>4. 1 \in DOMAIN ClassDocuments(k) /\ TargetDocument(k) = ClassDocuments(k)[1]
    BY <1>1, <2>3, FirstPlace DEF Orphan, TargetDocument
  <2>5. TargetDocument(k) \in S /\ \E a \in DOMAIN Generated : TargetDocument(k) = Generated[a]
    BY <2>3, <2>4
  <2> QED BY <1>1, <2>2, <2>5, GeneratedFacts DEF ReadInv
<1>2. CASE k \notin DOMAIN OwnerOf
  <2>1. Declares[k] \in Extension /\ TargetDocument(k) = Placement(Declares[k])
    BY <1>2, AssumedPaths DEF Owns, TargetDocument
  <2> QED BY <1>2, <2>1, PlacementFacts
<1> QED BY <1>1, <1>2

\* The entries planned for a document.
LEMMA NewEntriesFacts ==
  ASSUME NEW p
  PROVE  /\ IsSeq(NewEntries(p)) /\ Distinct(NewEntries(p))
         /\ \A i \in DOMAIN NewEntries(p) :
              TargetDocument(NewEntries(p)[i].key) = p /\ \E a \in DOMAIN Missing : NewEntries(p)[i].key = Missing[a]
         /\ \A a \in DOMAIN Missing : TargetDocument(Missing[a]) = p => \E i \in DOMAIN NewEntries(p) : NewEntries(p)[i].key = Missing[a]
<1> DEFINE S == {k \in Range(Missing) : TargetDocument(k) = p}
           ks == Kept(Missing, S)
<1>1. \A k \in S : TargetDocument(k) = p
  OBVIOUS
<1>2. \A a \in DOMAIN Missing : TargetDocument(Missing[a]) = p => Missing[a] \in S
  BY DEF Range
<1> HIDE DEF S
<1>3. IsSeq(ks) /\ IsInjective(ks)
  BY MissingFacts, KeptPlaces, KeptInjective
<1>4. \A i \in DOMAIN ks : ks[i] \in S /\ \E a \in DOMAIN Missing : ks[i] = Missing[a]
  BY MissingFacts, KeptPlaces
<1>5. \A a \in DOMAIN Missing : Missing[a] \in S => \E i \in DOMAIN ks : ks[i] = Missing[a]
  BY MissingFacts, KeptPlaces
<1>6. NewEntries(p) = [i \in DOMAIN ks |-> NewEntry(ks[i])]
  BY DEF NewEntries, S
<1>7. Len(ks) \in Nat /\ DOMAIN ks = 1..Len(ks)
  BY <1>3, SeqFacts
<1> HIDE DEF ks
<1>8. DOMAIN NewEntries(p) = DOMAIN ks /\ \A i \in DOMAIN ks : NewEntries(p)[i] = NewEntry(ks[i])
  BY <1>6
<1>9. \A i \in DOMAIN ks : NewEntries(p)[i].key = ks[i]
  BY <1>8 DEF NewEntry, EntryOf
<1>10. IsSeq(NewEntries(p))
  BY <1>6, <1>7, <1>8, ListOn
<1>11. Distinct(NewEntries(p))
  BY <1>3, <1>8, <1>9 DEF Distinct, IsInjective
<1> QED BY <1>1, <1>2, <1>4, <1>5, <1>8, <1>9, <1>10, <1>11

\* Each document that joins is planned once.
LEMMA DestinationsFacts ==
  /\ IsSeq(Destinations) /\ IsInjective(Destinations)
  /\ \A n \in DOMAIN Destinations : \E i \in DOMAIN Missing : Destinations[n] = TargetDocument(Missing[i])
  /\ \A i \in DOMAIN Missing : \E n \in DOMAIN Destinations : Destinations[n] = TargetDocument(Missing[i])
<1> DEFINE target(i) == TargetDocument(Missing[i])
           places == [i \in DOMAIN Missing |-> i]
           S == {i \in DOMAIN Missing : \A j \in 1..(i - 1) : target(j) # target(i)}
           firsts == Kept(places, S)
<1>1. Len(Missing) \in Nat /\ DOMAIN Missing = 1..Len(Missing)
  BY MissingFacts, SeqFacts
<1>2. DOMAIN places = DOMAIN Missing /\ \A i \in DOMAIN Missing : places[i] = i
  OBVIOUS
<1>3. IsSeq(places) /\ IsInjective(places)
  BY <1>1, ListOn DEF IsInjective
<1>4. Destinations = [n \in DOMAIN firsts |-> target(firsts[n])]
  BY DEF Destinations
<1>5. \A i \in S : i \in DOMAIN Missing /\ \A j \in 1..(i - 1) : target(j) # target(i)
  OBVIOUS
<1>6. ASSUME NEW i \in DOMAIN Missing PROVE \E m \in S : target(m) = target(i)
  <2> DEFINE U == {j \in DOMAIN Missing : target(j) = target(i)}
  <2>1. U \subseteq Nat /\ i \in U
    BY <1>1
  <2>2. PICK m \in U : \A j \in U : m <= j
    <3> HIDE DEF U
    <3> QED BY <2>1, LeastElement
  <2>3. m \in DOMAIN Missing /\ target(m) = target(i) /\ m \in 1..Len(Missing)
    BY <1>1, <2>2
  <2>4. ASSUME NEW j \in 1..(m - 1), target(j) = target(m) PROVE FALSE
    <3>1. j \in DOMAIN Missing /\ ~(m <= j)
      BY <1>1, <2>3
    <3>2. j \in U
      BY <2>3, <2>4, <3>1
    <3> QED BY <2>2, <3>1, <3>2
  <2> QED BY <2>3, <2>4
<1> HIDE DEF S
<1> HIDE DEF places
<1>7. IsSeq(firsts) /\ IsInjective(firsts)
  BY <1>3, KeptPlaces, KeptInjective
<1>8. \A n \in DOMAIN firsts : firsts[n] \in S
  BY <1>3, KeptPlaces
<1>9. \A m \in S : \E n \in DOMAIN firsts : firsts[n] = m
  <2>1. \A a \in DOMAIN places : places[a] \in S => \E n \in DOMAIN firsts : firsts[n] = places[a]
    BY <1>3, KeptPlaces
  <2> QED BY <1>2, <1>5, <2>1
<1>10. Len(firsts) \in Nat /\ DOMAIN firsts = 1..Len(firsts)
  BY <1>7, SeqFacts
<1> HIDE DEF firsts
<1>11. DOMAIN Destinations = DOMAIN firsts /\ \A n \in DOMAIN firsts : Destinations[n] = target(firsts[n])
  BY <1>4
<1>12. IsSeq(Destinations)
  BY <1>4, <1>10, <1>11, ListOn
<1>13. ASSUME NEW i \in S, NEW j \in S, target(i) = target(j) PROVE i = j
  <2>1. i \in 1..Len(Missing) /\ j \in 1..Len(Missing)
    BY <1>1, <1>5
  <2>2. ~(i < j) /\ ~(j < i)
    <3>1. i < j => i \in 1..(j - 1)
      BY <1>1, <2>1
    <3>2. j < i => j \in 1..(i - 1)
      BY <1>1, <2>1
    <3> HIDE DEF target
    <3> QED BY <1>5, <1>13, <3>1, <3>2
  <2> QED BY <1>1, <2>1, <2>2
<1>14. IsInjective(Destinations)
  <2> HIDE DEF target
  <2> QED BY <1>7, <1>8, <1>11, <1>13 DEF IsInjective
<1>15. \A i \in DOMAIN Missing : \E n \in DOMAIN Destinations : Destinations[n] = target(i)
  <2> HIDE DEF target
  <2> QED BY <1>6, <1>9, <1>11
<1>16. \A n \in DOMAIN Destinations : \E i \in DOMAIN Missing : Destinations[n] = target(i)
  <2> HIDE DEF target
  <2> QED BY <1>5, <1>8, <1>11
<1> QED BY <1>12, <1>14, <1>15, <1>16

\* What Ends leaves to be written.
LEMMA EndsInv ==
  ASSUME Inv, NEW how, Ends(how), DOMAIN docs' \subseteq Path /\ docs' = [p \in DOMAIN docs' |-> docs'[p]],
         AllSeqs(docs') /\ Once(docs')
  PROVE  Inv'
<1>1. phase' = "idle" /\ listing' = <<>> /\ moving' = NothingMoving /\ additions' = <<>>
  BY DEF Ends
<1>2. /\ DOMAIN moving' = Extension /\ moving' = [x \in Extension |-> moving'[x]]
      /\ \A x \in Extension : moving'[x] = <<>>
  BY <1>1 DEF NothingMoving
<1>3. DOMAIN Waiting' = {}
  BY <1>1, NothingIsSeq DEF Waiting
<1>4. \A x \in Extension : IsSeq(moving'[x]) /\ DOMAIN moving'[x] = {}
  BY <1>2, NothingIsSeq
<1>5. AllSeqs(moving') /\ Once(moving') /\ Apart(docs', moving')
  BY <1>2, <1>4 DEF AllSeqs, Once, Apart, ApartFrom
<1>6. AllSeqs(Waiting') /\ Once(Waiting') /\ Apart(docs', Waiting')
  BY <1>3 DEF AllSeqs, Once, Apart
<1>7. ReadInv'
  BY <1>1, NothingIsSeq DEF ReadInv
<1>8. HeldInv'
  BY <1>1, <1>2, NothingIsSeq DEF HeldInv
<1> QED BY <1>5, <1>6, <1>7, <1>8 DEF Inv, OnceInv

\* What is planned is in no document.
LEMMA PlanAdditionsInv ==
  ASSUME Inv, PlanAdditions
  PROVE  Inv' /\ HandKept(docs')
<1>1. phase = "append" /\ moving = NothingMoving /\ docs' = docs
  BY DEF PlanAdditions, Writes
<1>2. HandKept(docs')
  BY <1>1 DEF HandKept
<1>3. CASE \E k \in Range(Missing) : Orphan(k)
  <2>1. Ends("failed")
    BY <1>3 DEF PlanAdditions
  <2> QED BY <1>1, <1>2, <2>1, EndsInv DEF Inv, ReadInv, OnceInv
<1>4. CASE ~\E k \in Range(Missing) : Orphan(k)
  <2>1. /\ additions' = [n \in DOMAIN Destinations |-> [path |-> Destinations[n], entries |-> NewEntries(Destinations[n])]]
        /\ phase' = "add" /\ listing' = listing /\ moving' = moving
    BY <1>4 DEF PlanAdditions
  <2>2. /\ DOMAIN additions' = DOMAIN Destinations
        /\ \A n \in DOMAIN Destinations : additions'[n].path = Destinations[n] /\ additions'[n].entries = NewEntries(Destinations[n])
    BY <2>1
  <2>3. IsSeq(additions')
    BY <2>1, DestinationsFacts, SeqFacts, ListOn
  <2>4. \A n \in DOMAIN Destinations : Destinations[n] \in Path \ Hand
    <3>1. \A i \in DOMAIN Missing : Owns(Missing[i]) /\ ~Orphan(Missing[i])
      BY <1>4, MissingFacts DEF Range
    <3> QED BY <3>1, DestinationsFacts, TargetFacts DEF Inv
  <2>5. Waiting' = [n \in DOMAIN Destinations |-> NewEntries(Destinations[n])]
    BY <2>2 DEF Waiting
  <2>6. DOMAIN Waiting' = DOMAIN Destinations /\ \A n \in DOMAIN Destinations : Waiting'[n] = NewEntries(Destinations[n])
    BY <2>5
  <2>7. AllSeqs(Waiting')
    BY <2>6, NewEntriesFacts DEF AllSeqs
  <2>8. ASSUME NEW m \in DOMAIN Destinations, NEW n \in DOMAIN Destinations,
               NEW i \in DOMAIN NewEntries(Destinations[m]), NEW j \in DOMAIN NewEntries(Destinations[n]),
               NewEntries(Destinations[m])[i].key = NewEntries(Destinations[n])[j].key
        PROVE  m = n /\ i = j
    <3>1. Destinations[m] = Destinations[n]
      BY <2>8, NewEntriesFacts
    <3>2. m = n
      BY <3>1, DestinationsFacts DEF IsInjective
    <3> QED BY <2>8, <3>2, NewEntriesFacts DEF Distinct
  <2>9. Once(Waiting')
    BY <2>6, <2>8 DEF Once
  <2>10. ASSUME NEW p \in DOMAIN docs, NEW q PROVE ApartFrom(docs[p], NewEntries(q))
    <3>1. \A i \in DOMAIN docs[p] : docs[p][i].key \in DeclaredIn(DOMAIN docs)
      BY DEF DeclaredIn
    <3>2. \A i \in DOMAIN NewEntries(q) : NewEntries(q)[i].key \notin DeclaredIn(DOMAIN docs)
      BY NewEntriesFacts, MissingFacts
    <3> QED BY <3>1, <3>2 DEF ApartFrom
  <2>11. Apart(docs, Waiting')
    BY <2>6, <2>10 DEF Apart
  <2>12. OnceInv'
    BY <1>1, <2>1, <2>7, <2>9, <2>11 DEF Inv, OnceInv
  <2>13. ReadInv'
    BY <1>1, <2>1 DEF Inv, ReadInv
  <2>14. HeldInv'
    BY <1>1, <2>1, <2>2, <2>3, <2>4 DEF Inv, HeldInv
  <2> QED BY <1>2, <2>12, <2>13, <2>14 DEF Inv
<1> QED BY <1>3, <1>4

\* The entries next to be added fit, and keep apart from those behind.
LEMMA AddFits ==
  ASSUME Inv, phase = "add", Writes
  PROVE  LET p == additions[1].path
             es == Write.entries
         IN /\ additions # <<>> /\ Write.path = p /\ Fits(p, es)
            /\ \A n \in DOMAIN additions \ {1} : ApartFrom(es, additions[n].entries)
<1> DEFINE p == additions[1].path
           es == Write.entries
           fresh == additions[1].entries
<1>1. additions # <<>> /\ 1 \in DOMAIN additions /\ p \in Path \ Hand
  BY FirstPlace DEF Writes, Inv, HeldInv
<1>2. Write = AppendTo(p, fresh)
  BY DEF Write
<1>3. DOMAIN Waiting = DOMAIN additions /\ Waiting[1] = fresh /\ \A n \in DOMAIN additions : Waiting[n] = additions[n].entries
  BY <1>1 DEF Waiting
<1> HIDE DEF p
<1> HIDE DEF fresh
<1>4. IsSeq(fresh) /\ Distinct(fresh) /\ \A q \in DOMAIN docs : ApartFrom(docs[q], fresh)
  BY <1>1, <1>3 DEF Inv, OnceInv, AllSeqs, Once, Distinct, Apart
<1>5. /\ Write.path = p /\ Fits(p, es)
      /\ \A i \in DOMAIN es : \/ p \in DOMAIN docs /\ \E a \in DOMAIN docs[p] : es[i] = docs[p][a]
                              \/ \E a \in DOMAIN fresh : es[i] = fresh[a]
  <2> DEFINE t == AppendTo(p, fresh).entries
  <2>1. OnceInv /\ p \in Path \ Hand
    BY <1>1 DEF Inv
  <2>2. /\ AppendTo(p, fresh).path = p /\ Fits(p, t)
        /\ \A i \in DOMAIN t : \/ p \in DOMAIN docs /\ \E a \in DOMAIN docs[p] : t[i] = docs[p][a]
                               \/ \E a \in DOMAIN fresh : t[i] = fresh[a]
    BY <1>4, <2>1, AppendFits, SMTT(60)
  <2>3. Write.path = AppendTo(p, fresh).path /\ es = t
    BY <1>2
  <2> HIDE DEF es, t
  <2> QED BY <2>2, <2>3
<1> HIDE DEF es
<1>6. ASSUME NEW n \in DOMAIN additions \ {1} PROVE ApartFrom(es, Waiting[n])
  <2>1. p \in DOMAIN docs => ApartFrom(docs[p], Waiting[n])
    BY <1>3 DEF Inv, OnceInv, Apart
  <2>2. ApartFrom(fresh, Waiting[n])
    BY <1>1, <1>3, <1>6 DEF Inv, OnceInv, Once, ApartFrom
  <2>3. ASSUME NEW i \in DOMAIN es, NEW j \in DOMAIN Waiting[n] PROVE es[i].key # Waiting[n][j].key
    <3>1. CASE p \in DOMAIN docs /\ \E a \in DOMAIN docs[p] : es[i] = docs[p][a]
      BY <2>1, <3>1 DEF ApartFrom
    <3>2. CASE \E a \in DOMAIN fresh : es[i] = fresh[a]
      BY <2>2, <3>2 DEF ApartFrom
    <3> QED BY <1>5, <3>1, <3>2
  <2> QED BY <2>3 DEF ApartFrom
<1> QED BY <1>1, <1>3, <1>5, <1>6 DEF p, es

\* What is added is no longer planned.
LEMMA AddNextInv ==
  ASSUME Inv, AddNext
  PROVE  Inv' /\ HandKept(docs')
<1> DEFINE p == additions[1].path
           es == Write.entries
<1>1. phase = "add" /\ moving' = moving /\ moving = NothingMoving
  BY DEF AddNext, Inv, HeldInv
<1>2. CASE Writes
  <2>1. docs' = With(Write) /\ additions' = Tail(additions) /\ phase' = phase /\ listing' = listing
    BY <1>2 DEF AddNext
  <2>2. /\ additions # <<>> /\ Write.path = p /\ Fits(p, es)
        /\ \A n \in DOMAIN additions \ {1} : ApartFrom(es, additions[n].entries)
    BY <1>1, <1>2, AddFits
  <2> HIDE DEF p
  <2> HIDE DEF es
  <2>3. Changed(docs', p, es)
    BY <2>1, <2>2, WithChanges DEF Inv, Fits, es
  <2>4. AllSeqs(docs') /\ Once(docs') /\ HandKept(docs')
    BY <2>2, <2>3, ChangedOnce DEF Inv
  <2>5. \A x \in Extension : moving[x] = <<>> /\ DOMAIN moving[x] = {}
    BY <1>1, NothingIsSeq DEF NothingMoving
  <2>6. Apart(docs', moving')
    BY <1>1, <2>5 DEF Apart, ApartFrom, NothingMoving
  <2>7. /\ IsSeq(Tail(additions)) /\ DOMAIN additions = 1..Len(additions) /\ Len(additions) \in Nat \ {0}
        /\ DOMAIN Tail(additions) = 1..(Len(additions) - 1)
        /\ \A i \in 1..(Len(additions) - 1) : Tail(additions)[i] = additions[i + 1]
    BY <2>2, TailFacts, SeqFacts DEF Inv, HeldInv
  <2>8. \A n \in DOMAIN additions' : n + 1 \in DOMAIN additions \ {1} /\ additions'[n] = additions[n + 1]
    BY <2>1, <2>7
  <2>9. \A m, n \in DOMAIN additions' : m + 1 = n + 1 => m = n
    BY <2>1, <2>7
  <2>10. /\ DOMAIN Waiting' = DOMAIN additions' /\ DOMAIN Waiting = DOMAIN additions
         /\ \A n \in DOMAIN additions' : Waiting'[n] = Waiting[n + 1] /\ n + 1 \in DOMAIN Waiting \ {1}
         /\ \A n \in DOMAIN additions : Waiting[n] = additions[n].entries
    BY <2>8 DEF Waiting
  <2>11. AllSeqs(Waiting')
    BY <2>10 DEF AllSeqs, Inv, OnceInv
  <2>12. Once(Waiting')
    BY <2>9, <2>10 DEF Once, Inv, OnceInv
  <2>13. ASSUME NEW n \in DOMAIN Waiting' PROVE ApartFrom(es, Waiting'[n]) /\ \A q \in DOMAIN docs \ {p} : ApartFrom(docs[q], Waiting'[n])
    BY <2>2, <2>10 DEF Inv, OnceInv, Apart
  <2>14. Apart(docs', Waiting')
    BY <2>3, <2>13, ChangedApart
  <2>15. OnceInv'
    BY <1>1, <2>4, <2>6, <2>11, <2>12, <2>14 DEF Inv, OnceInv
  <2>16. ReadInv'
    BY <1>1, <2>1, <2>3 DEF Inv, ReadInv, Changed
  <2>17. HeldInv'
    BY <1>1, <2>1, <2>7, <2>8 DEF Inv, HeldInv
  <2> QED BY <2>4, <2>15, <2>16, <2>17 DEF Inv
<1>3. CASE ~Writes
  <2>1. phase' = "rewrite" /\ listing' = Generated /\ docs' = docs /\ additions' = additions /\ additions = <<>>
    BY <1>1, <1>3 DEF AddNext, Writes
  <2>2. OnceInv' /\ HandKept(docs')
    BY <1>1, <2>1, NothingWritten
  <2>3. ReadInv'
    BY <2>1, GeneratedFacts DEF Inv, ReadInv
  <2>4. HeldInv'
    BY <1>1, <2>1 DEF Inv, HeldInv
  <2> QED BY <2>2, <2>3, <2>4 DEF Inv
<1> QED BY <1>2, <1>3

\* A rewritten document declares what it declared.
LEMMA RewriteFits ==
  ASSUME Inv, phase = "rewrite", listing # <<>>
  PROVE  LET h == Head(listing)
             es == Write.entries
         IN /\ Write.path = h /\ Fits(h, es) /\ h \in DOMAIN docs \ Hand
            /\ DOMAIN es = DOMAIN docs[h] /\ \A i \in DOMAIN docs[h] : es[i] = Transform(docs[h][i])
<1> DEFINE h == Head(listing)
           es == Write.entries
<1>1. h \in DOMAIN docs \ Hand /\ h \in Path
  BY HeadFacts DEF Inv
<1>2. Write.path = h /\ es = [i \in DOMAIN docs[h] |-> Transform(docs[h][i])]
  BY DEF Write
<1> HIDE DEF h
<1> HIDE DEF es
<1>3. IsSeq(docs[h]) /\ \A q \in DOMAIN docs \ {h} : ApartFrom(docs[h], docs[q])
  BY <1>1 DEF Inv, OnceInv, AllSeqs, Once, ApartFrom
<1>4. Distinct(docs[h])
  BY <1>1 DEF Inv, OnceInv, Once, Distinct
<1>5. DOMAIN es = DOMAIN docs[h] /\ \A i \in DOMAIN docs[h] : es[i] = Transform(docs[h][i])
  BY <1>2
<1>6. \A i \in DOMAIN docs[h] : es[i].key = docs[h][i].key
  BY <1>5, TransformKey
<1>7. IsSeq(es)
  <2>1. Len(docs[h]) \in Nat /\ DOMAIN docs[h] = 1..Len(docs[h])
    BY <1>3, SeqFacts
  <2>2. es = [i \in DOMAIN es |-> es[i]]
    BY <1>2
  <2> QED BY <1>5, <2>1, <2>2, ListOn
<1>8. Distinct(es) /\ \A q \in DOMAIN docs \ {h} : ApartFrom(es, docs[q])
  BY <1>3, <1>4, <1>5, <1>6 DEF Distinct, ApartFrom
<1> QED BY <1>1, <1>2, <1>5, <1>7, <1>8 DEF Fits, h, es

\* A rewrite keeps the subjects of the document.
LEMMA RewriteNextInv ==
  ASSUME Inv, RewriteNext
  PROVE  Inv' /\ HandKept(docs')
<1> DEFINE h == Head(listing)
           es == Write.entries
<1>1. phase = "rewrite" /\ listing # <<>>
  BY DEF RewriteNext
<1>2. moving = NothingMoving /\ additions = <<>>
  BY <1>1 DEF Inv, HeldInv
<1>3. CASE docs' = docs /\ Ends("failed")
  BY <1>3, EndsInv DEF Inv, ReadInv, OnceInv, HandKept
<1>4. CASE /\ docs' = IF Writes THEN With(Write) ELSE docs
           /\ listing' = Tail(listing) /\ phase' = phase /\ moving' = moving /\ additions' = additions
  <2>1. /\ h \in DOMAIN docs \ Hand /\ h \in Path
        /\ IsSeq(Tail(listing)) /\ IsInjective(Tail(listing))
        /\ \A i \in DOMAIN Tail(listing) : Tail(listing)[i] \in DOMAIN docs \ Hand /\ Tail(listing)[i] # h
    BY <1>1, HeadFacts DEF Inv
  <2>2. Write.path = h /\ Fits(h, es)
    BY <1>1, RewriteFits
  <2>3. CASE ~Writes
    <3>1. docs' = docs
      BY <1>4, <2>3
    <3>2. OnceInv' /\ HandKept(docs')
      BY <1>4, <3>1, NothingWritten
    <3>3. ReadInv'
      BY <1>1, <1>4, <2>1, <3>1 DEF Inv, ReadInv
    <3>4. HeldInv'
      BY <1>4 DEF Inv, HeldInv
    <3> QED BY <3>2, <3>3, <3>4 DEF Inv
  <2>4. CASE Writes
    <3>1. docs' = With(Write)
      BY <1>4, <2>4
    <3> HIDE DEF h
    <3>2. Changed(docs', h, es) /\ DOMAIN docs \subseteq DOMAIN docs'
      BY <1>1, <2>1, <2>2, <3>1, WithChanges DEF Inv
    <3> HIDE DEF es
    <3>3. AllSeqs(docs') /\ Once(docs') /\ HandKept(docs')
      BY <2>2, <3>2, ChangedOnce DEF Inv
    <3>4. \A x \in Extension : moving[x] = <<>> /\ DOMAIN moving[x] = {}
      BY <1>2, NothingIsSeq DEF NothingMoving
    <3>5. Apart(docs', moving)
      BY <1>2, <3>4 DEF Apart, ApartFrom, NothingMoving
    <3>6. Waiting' = Waiting /\ DOMAIN Waiting = {}
      BY <1>2, <1>4, NothingIsSeq DEF Waiting
    <3>7. OnceInv'
      BY <1>4, <3>3, <3>5, <3>6 DEF Inv, OnceInv, Apart
    <3>8. ReadInv'
      BY <1>1, <1>4, <2>1, <3>2 DEF Inv, ReadInv, Changed
    <3>9. HeldInv'
      BY <1>4 DEF Inv, HeldInv
    <3> QED BY <3>3, <3>7, <3>8, <3>9 DEF Inv
  <2> QED BY <2>3, <2>4
<1> QED BY <1>3, <1>4 DEF RewriteNext

\* A producer starts with nothing on its way.
LEMMA StartInv ==
  ASSUME Inv, NEW t \in Tool, Start(t)
  PROVE  Inv' /\ HandKept(docs')
<1>1. OnceInv' /\ HandKept(docs')
  BY NothingWritten DEF Start
<1>2. phase = "idle" /\ docs' = docs /\ moving' = moving /\ additions' = additions
  BY DEF Start
<1>3. moving = NothingMoving /\ additions = <<>> /\ listing = <<>>
  BY <1>2 DEF Inv, HeldInv, ReadInv
<1>4. HeldInv'
  BY <1>2, <1>3 DEF Inv, HeldInv
<1>5. \/ phase' = "idle" /\ listing' = listing
      \/ phase' \in {"rewrite", "relocate"} /\ listing' = Generated
  BY DEF Start
<1>6. ReadInv'
  BY <1>2, <1>3, <1>5, GeneratedFacts DEF Inv, ReadInv
<1> QED BY <1>1, <1>4, <1>6 DEF Inv

\* A producer finishes with nothing on its way.
LEMMA FinishInv ==
  ASSUME Inv, Finish
  PROVE  Inv' /\ HandKept(docs')
BY EndsInv DEF Finish, Inv, ReadInv, OnceInv, HandKept

\* Whatever a run writes next fits.
LEMMA WriteFits ==
  ASSUME Inv, Writes
  PROVE  Fits(Write.path, Write.entries)
<1>1. CASE phase = "relocate"
  <2>1. listing # <<>> /\ Write.path = Head(listing) /\ Write.entries = Remaining(Head(listing))
    BY <1>1 DEF Writes, Write
  <2> QED BY <2>1, RelocateFits
<1>2. CASE phase = "append"
  BY <1>2, AppendMovedFits
<1>3. CASE phase = "add"
  BY <1>3, AddFits
<1>4. CASE phase = "rewrite"
  <2>1. listing # <<>>
    BY <1>4 DEF Writes
  <2> QED BY <1>4, <2>1, RewriteFits
<1> QED BY <1>1, <1>2, <1>3, <1>4 DEF Writes

\* A process that stops inside a write leaves a beginning of the document, and
\* loses what it held in memory.
LEMMA StopInv ==
  ASSUME Inv, Stop
  PROVE  Inv' /\ HandKept(docs')
<1>1. Ends("stopped")
  BY DEF Stop
<1>2. CASE docs' = docs
  BY <1>1, <1>2, EndsInv DEF Inv, ReadInv, OnceInv, HandKept
<1>3. CASE Writes /\ \E n \in 0..(Len(Write.entries) - 1) :
                    docs' = [p \in DOMAIN docs \cup {Write.path} |->
                               IF p = Write.path THEN SubSeq(Write.entries, 1, n) ELSE docs[p]]
  <2> DEFINE p == Write.path
             es == Write.entries
  <2>1. Fits(p, es)
    BY <1>3, WriteFits
  <2>2. PICK n \in 0..(Len(es) - 1) : docs' = [q \in DOMAIN docs \cup {p} |-> IF q = p THEN SubSeq(es, 1, n) ELSE docs[q]]
    BY <1>3
  <2> HIDE DEF p
  <2> HIDE DEF es
  <2>3. n \in 0..Len(es)
    BY <2>1, SeqFacts DEF Fits
  <2> DEFINE left == SubSeq(es, 1, n)
  <2>4. Fits(p, left)
    BY <2>1, <2>3, BeginningFits
  <2>5. docs' = [q \in DOMAIN docs \cup {p} |-> IF q = p THEN left ELSE docs[q]]
    BY <2>2
  <2> HIDE DEF left
  <2>6. Changed(docs', p, left)
    BY <2>4, <2>5, PutChanges DEF Inv, Fits
  <2>7. AllSeqs(docs') /\ Once(docs') /\ HandKept(docs')
    BY <2>4, <2>6, ChangedOnce DEF Inv
  <2> QED BY <1>1, <2>6, <2>7, EndsInv DEF Changed
<1> QED BY <1>2, <1>3 DEF Stop

\* Every step keeps the invariant and the hand-declared documents.
LEMMA NextInv == Inv /\ [Next]_vars => Inv' /\ HandKept(docs')
<1> SUFFICES ASSUME Inv, [Next]_vars PROVE Inv' /\ HandKept(docs')
  OBVIOUS
<1>1. CASE UNCHANGED vars
  <2>1. OnceInv' /\ HandKept(docs')
    BY <1>1, NothingWritten DEF vars
  <2> QED BY <1>1, <2>1 DEF vars, Inv, ReadInv, HeldInv
<1> QED BY <1>1, StartInv, RelocateNextInv, AllReadInv, AppendMovedInv, PlanAdditionsInv, AddNextInv, RewriteNextInv,
           FinishInv, StopInv DEF Next

\* The documents a behavior begins with declare no subject twice.
LEMMA InitInv == Init => Inv
<1> SUFFICES ASSUME Init PROVE Inv
  OBVIOUS
<1>1. PICK b \in Beginnings : docs = b.docs
  BY DEF Init
<1>2. DOMAIN b.docs \subseteq Path /\ b.docs \in [DOMAIN b.docs -> Seq(Entry)] /\ Once(b.docs) /\ b.docs = [p \in DOMAIN b.docs |-> b.docs[p]]
  BY AssumedBeginnings
<1>3. phase = "idle" /\ listing = <<>> /\ moving = NothingMoving /\ additions = <<>>
  BY DEF Init
<1>4. ReadInv
  BY <1>1, <1>2, <1>3, NothingIsSeq DEF ReadInv
<1>5. HeldInv
  BY <1>3, NothingIsSeq DEF HeldInv, NothingMoving
<1>6. AllSeqs(docs) /\ Once(docs)
  BY <1>1, <1>2 DEF AllSeqs, IsSeq
<1>7. DOMAIN Waiting = {}
  BY <1>3, NothingIsSeq DEF Waiting
<1>8. \A x \in DOMAIN moving : IsSeq(moving[x]) /\ DOMAIN moving[x] = {}
  BY <1>3, NothingIsSeq DEF NothingMoving
<1>9. OnceInv
  BY <1>6, <1>7, <1>8 DEF OnceInv, AllSeqs, Once, Apart, ApartFrom
<1> QED BY <1>4, <1>5, <1>9 DEF Inv

\* For every set of extensions, documents and declarations, and wherever a
\* process stops: no two generated or hand-declared entries have one subject.
THEOREM DeclaredOnce == Spec => []OncePerSubject
<1>1. Inv => OncePerSubject
  BY DEF Inv, OnceInv, OncePerSubject
<1> QED BY <1>1, InitInv, NextInv, PTL DEF Spec

\* No step writes or removes a hand-declared document.
THEOREM HandDeclaredKept == Spec => HandUntouched
<1>1. Inv /\ [Next]_vars =>
        [\A p \in Hand : /\ p \in DOMAIN docs' <=> p \in DOMAIN docs
                         /\ p \in DOMAIN docs => docs'[p] = docs[p]]_vars
  BY NextInv DEF HandKept
<1> QED BY <1>1, InitInv, NextInv, PTL DEF Spec, HandUntouched

-----------------------------------------------------------------------------
(* Where the entries are.                                                  *)

\* The keys of the running producer, and those of the classes.
OwnKeys   == DOMAIN Declares \cap Keys(Order)
ClassKeys == DOMAIN Declares \cap Keys(ClassOrder)

\* The entries of some keys in a list are those of an extension; or the list
\* holds no others.
Homed(es, x, K)    == \A i \in DOMAIN es : es[i].key \in K => Declares[es[i].key] = x
HomedAll(es, x, K) == \A i \in DOMAIN es : es[i].key \in K /\ Declares[es[i].key] = x

\* A run is under way, or the last one has finished.
Live == phase # "idle" \/ outcome = "done"

\* A document that relocation has not read yet.
Unread(p) == phase = "relocate" /\ \E i \in DOMAIN listing : listing[i] = p

\* Which producers run in which phase, and after which.
PhaseInv ==
  /\ tool \in Tool \cup {"none"} /\ complete \subseteq Tool
  /\ phase \in {"idle", "relocate", "append", "add", "rewrite"}
  /\ phase # "idle" => tool \in Tool /\ outcome = "none"
  /\ phase \in {"relocate", "append", "add"} => tool # "throws"
  /\ phase # "idle" /\ tool = "signatures" => "hierarchy" \in complete

\* What is on its way goes to its extension; what relocate has read is there,
\* and the classes once extract_hierarchy has finished.
HomeInv ==
  /\ \A x \in Extension : HomedAll(moving[x], x, OwnKeys)
  /\ \A n \in DOMAIN additions : HomedAll(additions[n].entries, ExtensionOf[additions[n].path], OwnKeys)
  /\ Live /\ tool # "throws" =>
       \A p \in DOMAIN docs \ Hand : Unread(p) \/ Homed(docs[p], ExtensionOf[p], OwnKeys)
  /\ "hierarchy" \in complete => \A p \in DOMAIN docs \ Hand : Homed(docs[p], ExtensionOf[p], ClassKeys)

\* Some entry of some lists has the key.
Has(f, k) == \E p \in DOMAIN f : \E i \in DOMAIN f[p] : f[p][i].key = k

\* Every declaration of the producer has an entry, or one still to be added.
GivenInv ==
  Live /\ phase \notin {"relocate", "append"} /\ tool # "throws" =>
    \A k \in OwnKeys : Has(docs, k) \/ Has(Waiting, k)

PlacedInv == Inv /\ PhaseInv /\ HomeInv /\ GivenInv

\* The producers of classes and of callables own nothing in common.
LEMMA OwnKeysFacts ==
  /\ \A k : Owns(k) <=> k \in OwnKeys
  /\ tool = "hierarchy" => OwnKeys = ClassKeys
  /\ tool = "signatures" => OwnKeys \cap Keys(ClassOrder) = {}
  /\ tool # "hierarchy" => OwnKeys \subseteq Keys(CallableOrder)
  /\ tool = "hierarchy" => OwnKeys \cap DOMAIN OwnerOf = {}
BY AssumedKeys DEF Owns, OwnKeys, ClassKeys, Order

\* Nothing is on its way.
LEMMA NothingHomed ==
  ASSUME NEW x, NEW K, NEW es, es = <<>>
  PROVE  HomedAll(es, x, K) /\ Homed(es, x, K)
BY NothingIsSeq DEF HomedAll, Homed

\* Documents that stay homed when one is changed.
LEMMA ChangedHomed ==
  ASSUME NEW p, NEW es, NEW g, Changed(g, p, es), NEW K, Homed(es, ExtensionOf[p], K),
         NEW U, \A q \in DOMAIN docs \ Hand : q = p \/ q \in U \/ Homed(docs[q], ExtensionOf[q], K)
  PROVE  \A q \in DOMAIN g \ Hand : q \in U \/ Homed(g[q], ExtensionOf[q], K)
<1> SUFFICES ASSUME NEW q \in DOMAIN g \ Hand, q \notin U PROVE Homed(g[q], ExtensionOf[q], K)
  OBVIOUS
<1>1. CASE q = p
  BY <1>1 DEF Changed
<1>2. CASE q # p
  BY <1>2 DEF Changed
<1> QED BY <1>1, <1>2

\* A run that ends otherwise than by finishing promises nothing of its own keys.
LEMMA EndsHome ==
  ASSUME PlacedInv, phase # "idle", NEW how \in {"failed", "stopped"}, Ends(how), docs' = docs \/ how = "stopped", UNCHANGED tool
  PROVE  PhaseInv' /\ HomeInv' /\ GivenInv'
<1>1. /\ phase' = "idle" /\ outcome' = how /\ moving' = NothingMoving /\ additions' = <<>>
      /\ complete' \subseteq complete /\ (how = "stopped" => complete' = {})
  BY DEF Ends
<1>2. ~Live'
  BY <1>1 DEF Live
<1>3. PhaseInv'
  BY <1>1 DEF PlacedInv, PhaseInv
<1>4. \A x \in Extension : moving'[x] = <<>>
  BY <1>1 DEF NothingMoving
<1>5. (\A x \in Extension : HomedAll(moving'[x], x, OwnKeys')) /\ DOMAIN additions' = {}
  BY <1>1, <1>4, NothingHomed, NothingIsSeq
<1>6. "hierarchy" \in complete' => docs' = docs /\ "hierarchy" \in complete
  BY <1>1
<1>7. HomeInv'
  BY <1>2, <1>5, <1>6 DEF PlacedInv, HomeInv
<1>8. GivenInv'
  BY <1>2 DEF GivenInv
<1> QED BY <1>3, <1>7, <1>8

\* What relocate leaves in a document belongs there, and what it takes out goes
\* to its extension.
LEMMA RelocateHomed ==
  ASSUME PlacedInv, phase = "relocate", listing # <<>>
  PROVE  LET h == Head(listing) IN
         /\ Homed(Remaining(h), ExtensionOf[h], OwnKeys)
         /\ "hierarchy" \in complete => Homed(Remaining(h), ExtensionOf[h], ClassKeys)
         /\ \A x \in Extension : HomedAll(Taken(h)[x], x, OwnKeys)
         /\ ~Writes => Homed(docs[h], ExtensionOf[h], OwnKeys)
<1> DEFINE h == Head(listing)
           home == ExtensionOf[h]
<1>1. h \in DOMAIN docs \ Hand /\ IsSeq(docs[h]) /\ Distinct(docs[h])
  BY HeadFacts DEF PlacedInv, Inv, OnceInv, AllSeqs, Once, Distinct
<1>2. \A x \in Extension : \A i \in DOMAIN Taken(h)[x] :
              \/ \E a \in DOMAIN moving[x] : Taken(h)[x][i] = moving[x][a]
              \/ x # home /\ \E a \in DOMAIN EntriesFor(h, x) : Taken(h)[x][i] = EntriesFor(h, x)[a]
  BY RelocateFits DEF PlacedInv
<1>3. ~Writes => Len(Remaining(h)) = Len(docs[h])
  BY DEF Writes, Remaining
<1> HIDE DEF h
<1>4. Remaining(h) = EntriesFor(h, home) /\ Remaining(h) = Kept(docs[h], {e \in Range(docs[h]) : Target(e, home) = home})
  BY DEF Remaining, Stays, EntriesFor
<1> HIDE DEF home
<1>5. \A x : /\ From(EntriesFor(h, x), docs[h])
             /\ \A i \in DOMAIN EntriesFor(h, x) : Target(EntriesFor(h, x)[i], home) = x
  BY <1>1, EntriesForFacts DEF home
<1>6. \A e, x : Target(e, home) = x /\ e.key \in OwnKeys => Declares[e.key] = x
  BY OwnKeysFacts DEF Target
<1>7. \A e, x : Target(e, home) = x /\ x # home => e.key \in OwnKeys /\ Declares[e.key] = x
  BY OwnKeysFacts DEF Target
<1>8. Homed(Remaining(h), home, OwnKeys)
  BY <1>4, <1>5, <1>6 DEF Homed
<1>9. "hierarchy" \in complete => Homed(Remaining(h), home, ClassKeys)
  <2>1. "hierarchy" \in complete => Homed(docs[h], home, ClassKeys)
    BY <1>1 DEF PlacedInv, HomeInv, home
  <2>2. \A i \in DOMAIN EntriesFor(h, home) : \E a \in DOMAIN docs[h] : EntriesFor(h, home)[i] = docs[h][a]
    BY <1>5 DEF From
  <2>3. \A i \in DOMAIN Remaining(h) : \E a \in DOMAIN docs[h] : Remaining(h)[i] = docs[h][a]
    <3>1. Remaining(h) = EntriesFor(h, home)
      BY <1>4
    <3> QED BY <2>2, <3>1
  <2> QED BY <2>1, <2>3 DEF Homed
<1>10. ASSUME NEW x \in Extension PROVE HomedAll(Taken(h)[x], x, OwnKeys)
  <2>1. HomedAll(moving[x], x, OwnKeys)
    BY DEF PlacedInv, HomeInv
  <2>2. x # home => HomedAll(EntriesFor(h, x), x, OwnKeys)
    BY <1>5, <1>7 DEF HomedAll
  <2> QED BY <1>2, <2>1, <2>2 DEF HomedAll
<1>11. ASSUME ~Writes PROVE Homed(docs[h], home, OwnKeys)
  <2> DEFINE S == {e \in Range(docs[h]) : Target(e, home) = home}
  <2>1. \A e \in S : Target(e, home) = home
    OBVIOUS
  <2>2. Len(Kept(docs[h], S)) = Len(docs[h])
    BY <1>3, <1>4, <1>11
  <2> HIDE DEF S
  <2>3. \A a \in 1..Len(docs[h]) : docs[h][a] \in S
    BY <1>1, <2>2, KeptLength DEF IsSeq
  <2>4. DOMAIN docs[h] = 1..Len(docs[h])
    BY <1>1, SeqFacts
  <2> QED BY <1>6, <2>1, <2>3, <2>4 DEF Homed
<1> QED BY <1>8, <1>9, <1>10, <1>11 DEF h, home

\* What stays in a document that has been read is at home there.
LEMMA RelocateNextPlaced ==
  ASSUME PlacedInv, RelocateNext
  PROVE  PhaseInv' /\ HomeInv' /\ GivenInv'
<1> DEFINE h == Head(listing)
<1>1. /\ phase = "relocate" /\ listing # <<>> /\ listing' = Tail(listing)
      /\ UNCHANGED <<tool, phase, additions, outcome, complete>>
  BY DEF RelocateNext
<1>2. /\ h \in DOMAIN docs \ Hand /\ h \in Path
      /\ \A i \in DOMAIN listing : listing[i] = h \/ \E j \in DOMAIN Tail(listing) : Tail(listing)[j] = listing[i]
  BY <1>1, HeadFacts DEF PlacedInv, Inv
<1>3. /\ Homed(Remaining(h), ExtensionOf[h], OwnKeys)
      /\ "hierarchy" \in complete => Homed(Remaining(h), ExtensionOf[h], ClassKeys)
      /\ \A x \in Extension : HomedAll(Taken(h)[x], x, OwnKeys)
      /\ ~Writes => Homed(docs[h], ExtensionOf[h], OwnKeys)
  BY <1>1, RelocateHomed
<1>4. Write.path = h /\ Write.entries = Remaining(h)
  BY <1>1 DEF Write
<1>5. /\ docs' = IF Writes THEN With(Write) ELSE docs
      /\ moving' = IF Writes THEN Taken(h) ELSE moving
  BY DEF RelocateNext
<1> HIDE DEF h
<1>6. OwnKeys' = OwnKeys
  BY <1>1 DEF OwnKeys, Order
<1>7. PhaseInv' /\ GivenInv'
  BY <1>1 DEF PlacedInv, PhaseInv, GivenInv
<1>8. \A x \in Extension : HomedAll(moving'[x], x, OwnKeys')
  BY <1>3, <1>5, <1>6 DEF PlacedInv, HomeInv
<1>9. DOMAIN additions' = {}
  BY <1>1, NothingIsSeq DEF PlacedInv, Inv, HeldInv
<1> DEFINE U == {q \in Path : \E j \in DOMAIN Tail(listing) : Tail(listing)[j] = q}
<1>10. \A q \in U : Unread(q)'
  BY <1>1 DEF Unread
<1>11. tool # "throws" => \A q \in DOMAIN docs \ Hand : q = h \/ q \in U \/ Homed(docs[q], ExtensionOf[q], OwnKeys)
  <2> SUFFICES ASSUME tool # "throws", NEW q \in DOMAIN docs \ Hand, q # h, q \notin U PROVE Homed(docs[q], ExtensionOf[q], OwnKeys)
    OBVIOUS
  <2>1. q \in Path
    BY DEF PlacedInv, Inv, ReadInv
  <2>2. ~Unread(q)
    BY <1>2, <2>1 DEF Unread
  <2> QED BY <1>1, <2>2 DEF PlacedInv, HomeInv, Live
<1> HIDE DEF U
<1>12. tool # "throws" => \A q \in DOMAIN docs' \ Hand : q \in U \/ Homed(docs'[q], ExtensionOf[q], OwnKeys)
  <2>1. CASE Writes
    <3>1. Changed(docs', h, Remaining(h))
      BY <1>2, <1>4, <1>5, <2>1, WithChanges DEF PlacedInv, Inv
    <3> QED BY <1>3, <1>11, <3>1, ChangedHomed
  <2>2. CASE ~Writes
    BY <1>3, <1>5, <1>11, <2>2
  <2> QED BY <2>1, <2>2
<1>13. "hierarchy" \in complete => \A q \in DOMAIN docs' \ Hand : Homed(docs'[q], ExtensionOf[q], ClassKeys)
  <2> SUFFICES ASSUME "hierarchy" \in complete PROVE \A q \in DOMAIN docs' \ Hand : Homed(docs'[q], ExtensionOf[q], ClassKeys)
    OBVIOUS
  <2>1. \A q \in DOMAIN docs \ Hand : Homed(docs[q], ExtensionOf[q], ClassKeys)
    BY DEF PlacedInv, HomeInv
  <2>2. CASE Writes
    <3>1. Changed(docs', h, Remaining(h))
      BY <1>2, <1>4, <1>5, <2>2, WithChanges DEF PlacedInv, Inv
    <3>2. \A q \in DOMAIN docs' \ Hand : q \in {} \/ Homed(docs'[q], ExtensionOf[q], ClassKeys)
      BY <1>3, <2>1, <3>1, ChangedHomed
    <3> QED BY <3>2
  <2>3. CASE ~Writes
    BY <1>5, <2>1, <2>3
  <2> QED BY <2>2, <2>3
<1>14. ClassKeys' = ClassKeys /\ complete' = complete /\ tool' = tool
  BY <1>1 DEF ClassKeys
<1>15. HomeInv'
  BY <1>6, <1>8, <1>9, <1>10, <1>12, <1>13, <1>14 DEF HomeInv
<1> QED BY <1>7, <1>15

\* After the reading every document is at home.
LEMMA AllReadPlaced ==
  ASSUME PlacedInv, AllRead
  PROVE  PhaseInv' /\ HomeInv' /\ GivenInv'
<1>1. /\ phase = "relocate" /\ phase' = "append" /\ listing = <<>>
      /\ UNCHANGED <<docs, tool, listing, moving, additions, outcome, complete>>
  BY DEF AllRead
<1>2. OwnKeys' = OwnKeys /\ ClassKeys' = ClassKeys
  BY <1>1 DEF OwnKeys, ClassKeys, Order
<1>3. \A p : ~Unread(p)
  BY <1>1, NothingIsSeq DEF Unread
<1>4. PhaseInv' /\ GivenInv'
  BY <1>1 DEF PlacedInv, PhaseInv, GivenInv
<1>5. HomeInv'
  BY <1>1, <1>2, <1>3 DEF PlacedInv, HomeInv, Live
<1> QED BY <1>4, <1>5

\* What joins a document by append belongs there.
LEMMA AppendHomed ==
  ASSUME PlacedInv, NEW p \in Path \ Hand, NEW es, IsSeq(es), Distinct(es), \A q \in DOMAIN docs : ApartFrom(docs[q], es),
         HomedAll(es, ExtensionOf[p], OwnKeys), phase \in {"append", "add"}
  PROVE  LET t == AppendTo(p, es).entries IN
         /\ Homed(t, ExtensionOf[p], OwnKeys)
         /\ "hierarchy" \in complete => Homed(t, ExtensionOf[p], ClassKeys)
<1> DEFINE t == AppendTo(p, es).entries
           x == ExtensionOf[p]
<1>1. OnceInv
  BY DEF PlacedInv, Inv
<1>2. \A i \in DOMAIN t : \/ p \in DOMAIN docs /\ \E a \in DOMAIN docs[p] : t[i] = docs[p][a]
                          \/ \E a \in DOMAIN es : t[i] = es[a]
  BY <1>1, AppendFits, SMTT(60)
<1> HIDE DEF t
<1>3. p \in DOMAIN docs => Homed(docs[p], x, OwnKeys)
  BY DEF PlacedInv, PhaseInv, HomeInv, Live, Unread
<1>4. p \in DOMAIN docs /\ "hierarchy" \in complete => Homed(docs[p], x, ClassKeys)
  BY DEF PlacedInv, HomeInv
<1> HIDE DEF x
<1>5. Homed(es, x, OwnKeys) /\ Homed(es, x, ClassKeys)
  BY DEF HomedAll, Homed, x
<1>6. Homed(t, x, OwnKeys)
  BY <1>2, <1>3, <1>5 DEF Homed
<1>7. "hierarchy" \in complete => Homed(t, x, ClassKeys)
  BY <1>2, <1>4, <1>5 DEF Homed
<1> QED BY <1>6, <1>7 DEF t, x

\* The documents keep their entries in place when what belongs there joins one.
LEMMA WrittenHomed ==
  ASSUME PlacedInv, NEW p, NEW es, Changed(docs', p, es), tool # "throws" => Homed(es, ExtensionOf[p], OwnKeys),
         "hierarchy" \in complete => Homed(es, ExtensionOf[p], ClassKeys),
         phase \in {"append", "add", "rewrite"}, UNCHANGED <<tool, complete>>, phase' # "relocate",
         \A x \in Extension : HomedAll(moving'[x], x, OwnKeys),
         \A n \in DOMAIN additions' : HomedAll(additions'[n].entries, ExtensionOf[additions'[n].path], OwnKeys)
  PROVE  HomeInv'
<1>1. OwnKeys' = OwnKeys /\ ClassKeys' = ClassKeys
  BY DEF OwnKeys, ClassKeys, Order
<1>2. ASSUME tool # "throws" PROVE \A q \in DOMAIN docs' \ Hand : q \in {} \/ Homed(docs'[q], ExtensionOf[q], OwnKeys)
  <2>1. \A q \in DOMAIN docs \ Hand : q \in {} \/ Homed(docs[q], ExtensionOf[q], OwnKeys)
    BY <1>2 DEF PlacedInv, PhaseInv, HomeInv, Live, Unread
  <2> QED BY <1>2, <2>1, ChangedHomed
<1>3. tool # "throws" => \A q \in DOMAIN docs' \ Hand : Homed(docs'[q], ExtensionOf[q], OwnKeys)
  BY <1>2
<1>4. "hierarchy" \in complete => \A q \in DOMAIN docs' \ Hand : Homed(docs'[q], ExtensionOf[q], ClassKeys)
  <2> SUFFICES ASSUME "hierarchy" \in complete PROVE \A q \in DOMAIN docs' \ Hand : Homed(docs'[q], ExtensionOf[q], ClassKeys)
    OBVIOUS
  <2>1. \A q \in DOMAIN docs \ Hand : q \in {} \/ Homed(docs[q], ExtensionOf[q], ClassKeys)
    BY DEF PlacedInv, HomeInv
  <2>2. \A q \in DOMAIN docs' \ Hand : q \in {} \/ Homed(docs'[q], ExtensionOf[q], ClassKeys)
    BY <2>1, ChangedHomed
  <2> QED BY <2>2
<1> QED BY <1>1, <1>3, <1>4 DEF HomeInv

\* What is moved is appended to the document of its extension.
LEMMA AppendMovedPlaced ==
  ASSUME PlacedInv, AppendMoved
  PROVE  PhaseInv' /\ HomeInv' /\ GivenInv'
<1> DEFINE x == NextExtension
           p == Placement(x)
           es == AppendTo(p, moving[x]).entries
<1>1. /\ phase = "append" /\ Writes /\ docs' = With(Write) /\ moving' = [moving EXCEPT ![x] = <<>>]
      /\ UNCHANGED <<tool, phase, additions, outcome, complete, listing>>
  BY DEF AppendMoved
<1>2. Write = AppendTo(p, moving[x])
  BY <1>1 DEF Write
<1>3. x \in Extension
  BY <1>1, NextExtensionFacts DEF Writes, PlacedInv, Inv
<1>4. p \in Path \ Hand /\ ExtensionOf[p] = x
  BY <1>3, PlacementFacts DEF PlacedInv, Inv
<1> HIDE DEF x
<1> HIDE DEF p
<1>5. IsSeq(moving[x]) /\ Distinct(moving[x]) /\ \A q \in DOMAIN docs : ApartFrom(docs[q], moving[x])
  BY <1>3 DEF PlacedInv, Inv, HeldInv, OnceInv, AllSeqs, Once, Distinct, Apart
<1>6. HomedAll(moving[x], x, OwnKeys)
  BY <1>3 DEF PlacedInv, HomeInv
<1>7. Homed(es, x, OwnKeys) /\ ("hierarchy" \in complete => Homed(es, x, ClassKeys))
  BY <1>1, <1>4, <1>5, <1>6, AppendHomed
<1>8. Write.path = p /\ Write.entries = es
  BY <1>2 DEF AppendTo
<1> HIDE DEF es
<1>9. Changed(docs', p, es)
  BY <1>1, <1>4, <1>8, WithChanges DEF PlacedInv, Inv
<1>10. \A y \in Extension : moving'[y] = <<>> \/ moving'[y] = moving[y]
  BY <1>1, <1>3 DEF PlacedInv, Inv, HeldInv
<1>11. \A y \in Extension : HomedAll(moving'[y], y, OwnKeys)
  BY <1>10, NothingHomed DEF PlacedInv, HomeInv
<1>12. HomeInv'
  <2>1. \A n \in DOMAIN additions' : HomedAll(additions'[n].entries, ExtensionOf[additions'[n].path], OwnKeys)
    BY <1>1 DEF PlacedInv, HomeInv
  <2>2. tool # "throws" /\ UNCHANGED <<tool, complete>> /\ phase' # "relocate" /\ phase \in {"append", "add", "rewrite"}
    BY <1>1 DEF PlacedInv, PhaseInv
  <2> QED BY <1>4, <1>7, <1>9, <1>11, <2>1, <2>2, WrittenHomed
<1>13. PhaseInv' /\ GivenInv'
  BY <1>1 DEF PlacedInv, PhaseInv, GivenInv
<1> QED BY <1>12, <1>13

\* A new entry joins a document of its extension: a method the document of its
\* class, which extract_hierarchy has put in place.
LEMMA TargetHomed ==
  ASSUME PlacedInv, phase = "append", NEW k, Owns(k), ~Orphan(k)
  PROVE  ExtensionOf[TargetDocument(k)] = Declares[k]
<1>1. CASE k \notin DOMAIN OwnerOf
  BY <1>1, TargetFacts DEF PlacedInv, Inv
<1>2. CASE k \in DOMAIN OwnerOf
  <2> DEFINE p == TargetDocument(k)
  <2>1. p \in DOMAIN docs \ Hand /\ OwnerOf[k] \in DeclaredIn({p})
    BY <1>2, TargetFacts DEF PlacedInv, Inv
  <2>2. tool = "signatures"
    BY <1>2, OwnKeysFacts DEF PlacedInv, PhaseInv, Tool
  <2>3. \A q \in DOMAIN docs \ Hand : Homed(docs[q], ExtensionOf[q], ClassKeys)
    BY <2>2 DEF PlacedInv, PhaseInv, HomeInv
  <2>4. k \in DOMAIN Declares
    BY DEF Owns
  <2>5. OwnerOf[k] \in ClassKeys /\ Declares[k] = Declares[OwnerOf[k]]
    BY <1>2, <2>4, AssumedKeys DEF ClassKeys
  <2> HIDE DEF p
  <2>6. PICK i \in DOMAIN docs[p] : docs[p][i].key = OwnerOf[k]
    BY <2>1 DEF DeclaredIn
  <2>7. ExtensionOf[p] = Declares[k]
    BY <2>1, <2>3, <2>5, <2>6 DEF Homed
  <2> QED BY <2>7 DEF p
<1> QED BY <1>1, <1>2

\* A declaration without an entry gets one for its extension.
LEMMA PlanAdditionsPlaced ==
  ASSUME PlacedInv, PlanAdditions
  PROVE  PhaseInv' /\ HomeInv' /\ GivenInv'
<1>1. phase = "append" /\ moving = NothingMoving /\ UNCHANGED <<docs, tool>>
  BY DEF PlanAdditions, Writes
<1>2. CASE \E k \in Range(Missing) : Orphan(k)
  <2>1. Ends("failed")
    BY <1>2 DEF PlanAdditions
  <2> QED BY <1>1, <2>1, EndsHome
<1>3. CASE ~\E k \in Range(Missing) : Orphan(k)
  <2>1. /\ additions' = [n \in DOMAIN Destinations |-> [path |-> Destinations[n], entries |-> NewEntries(Destinations[n])]]
        /\ phase' = "add" /\ UNCHANGED <<listing, moving, outcome, complete>>
    BY <1>3 DEF PlanAdditions
  <2>2. /\ DOMAIN additions' = DOMAIN Destinations
        /\ \A n \in DOMAIN Destinations : additions'[n].path = Destinations[n] /\ additions'[n].entries = NewEntries(Destinations[n])
    BY <2>1
  <2>3. OwnKeys' = OwnKeys /\ ClassKeys' = ClassKeys
    BY <1>1 DEF OwnKeys, ClassKeys, Order
  <2>4. PhaseInv'
    BY <1>1, <2>1 DEF PlacedInv, PhaseInv
  <2>5. \A a \in DOMAIN Missing :
          /\ Missing[a] \in OwnKeys
          /\ ExtensionOf[TargetDocument(Missing[a])] = Declares[Missing[a]]
    <3>1. \A a \in DOMAIN Missing : Owns(Missing[a]) /\ ~Orphan(Missing[a])
      BY <1>3, MissingFacts DEF Range
    <3> QED BY <1>1, <3>1, TargetHomed, OwnKeysFacts
  <2>6. \A q : HomedAll(NewEntries(q), ExtensionOf[q], OwnKeys)
    BY <2>5, NewEntriesFacts DEF HomedAll
  <2>7. \A n \in DOMAIN additions' : HomedAll(additions'[n].entries, ExtensionOf[additions'[n].path], OwnKeys)
    BY <2>2, <2>6
  <2>8. \A q : Unread(q)' <=> FALSE
    BY <2>1 DEF Unread
  <2>9. \A q \in DOMAIN docs \ Hand : tool # "throws" => Homed(docs[q], ExtensionOf[q], OwnKeys)
    BY <1>1 DEF PlacedInv, HomeInv, Live, Unread
  <2>10. HomeInv'
    BY <1>1, <2>1, <2>3, <2>7, <2>9 DEF PlacedInv, HomeInv
  <2>11. ASSUME NEW k \in OwnKeys PROVE Has(docs, k) \/ Has(Waiting', k)
    <3>1. CASE k \in DeclaredIn(DOMAIN docs)
      BY <3>1 DEF DeclaredIn, Has
    <3>2. CASE k \notin DeclaredIn(DOMAIN docs)
      <4>1. PICK a \in DOMAIN Missing : Missing[a] = k
        BY <3>2, MissingFacts, OwnKeysFacts
      <4>2. PICK n \in DOMAIN Destinations : Destinations[n] = TargetDocument(k)
        BY <4>1, DestinationsFacts
      <4>3. PICK i \in DOMAIN NewEntries(Destinations[n]) : NewEntries(Destinations[n])[i].key = k
        BY <4>1, <4>2, NewEntriesFacts
      <4>4. n \in DOMAIN Waiting' /\ Waiting'[n] = NewEntries(Destinations[n])
        BY <2>2 DEF Waiting
      <4> QED BY <4>3, <4>4 DEF Has
    <3> QED BY <3>1, <3>2
  <2>12. GivenInv'
    BY <1>1, <2>3, <2>11 DEF GivenInv
  <2> QED BY <2>4, <2>10, <2>12
<1> QED BY <1>2, <1>3

\* What is added goes to the document of its extension.
LEMMA AddNextPlaced ==
  ASSUME PlacedInv, AddNext
  PROVE  PhaseInv' /\ HomeInv' /\ GivenInv'
<1>1. phase = "add" /\ UNCHANGED <<tool, moving, outcome, complete>>
  BY DEF AddNext
<1>2. OwnKeys' = OwnKeys /\ ClassKeys' = ClassKeys
  BY <1>1 DEF OwnKeys, ClassKeys, Order
<1>3. CASE ~Writes
  <2>1. phase' = "rewrite" /\ docs' = docs /\ additions' = additions /\ additions = <<>>
    BY <1>1, <1>3 DEF AddNext, Writes
  <2>2. PhaseInv'
    BY <1>1, <2>1 DEF PlacedInv, PhaseInv
  <2>3. HomeInv'
    BY <1>1, <1>2, <2>1 DEF PlacedInv, HomeInv, Live, Unread
  <2>4. Waiting' = Waiting
    BY <2>1 DEF Waiting
  <2>5. GivenInv'
    BY <1>1, <1>2, <2>1, <2>4 DEF PlacedInv, GivenInv, Live
  <2> QED BY <2>2, <2>3, <2>5
<1>4. CASE Writes
  <2> DEFINE p == additions[1].path
             fresh == additions[1].entries
             es == AppendTo(p, fresh).entries
  <2>1. docs' = With(Write) /\ additions' = Tail(additions) /\ UNCHANGED <<phase, listing>>
    BY <1>4 DEF AddNext
  <2>2. additions # <<>> /\ 1 \in DOMAIN additions /\ p \in Path \ Hand
    BY <1>1, <1>4, FirstPlace DEF Writes, PlacedInv, Inv, HeldInv
  <2>3. Write = AppendTo(p, fresh)
    BY <1>1 DEF Write
  <2>4. DOMAIN Waiting = DOMAIN additions /\ Waiting[1] = fresh /\ \A n \in DOMAIN additions : Waiting[n] = additions[n].entries
    BY <2>2 DEF Waiting
  <2>5. HomedAll(fresh, ExtensionOf[p], OwnKeys)
    BY <2>2 DEF PlacedInv, HomeInv
  <2> HIDE DEF p
  <2> HIDE DEF fresh
  <2>6. IsSeq(fresh) /\ Distinct(fresh) /\ \A q \in DOMAIN docs : ApartFrom(docs[q], fresh)
    BY <2>2, <2>4 DEF PlacedInv, Inv, OnceInv, AllSeqs, Once, Distinct, Apart
  <2>7. Homed(es, ExtensionOf[p], OwnKeys) /\ ("hierarchy" \in complete => Homed(es, ExtensionOf[p], ClassKeys))
    BY <1>1, <2>2, <2>5, <2>6, AppendHomed
  <2>8. /\ p \in DOMAIN docs => \A a \in DOMAIN docs[p] : \E i \in DOMAIN es : es[i] = docs[p][a]
        /\ \A a \in DOMAIN fresh : \E i \in DOMAIN es : es[i] = fresh[a]
    <3>1. OnceInv
      BY DEF PlacedInv, Inv
    <3> QED BY <2>2, <2>6, <3>1, AppendFits, SMTT(60)
  <2>9. Write.path = p /\ Write.entries = es
    BY <2>3 DEF AppendTo
  <2> HIDE DEF es
  <2>10. Changed(docs', p, es) /\ DOMAIN docs \subseteq DOMAIN docs' /\ p \in DOMAIN docs'
    BY <1>1, <2>1, <2>2, <2>9, WithChanges DEF PlacedInv, Inv
  <2>11. /\ DOMAIN additions = 1..Len(additions) /\ Len(additions) \in Nat \ {0}
         /\ DOMAIN additions' = 1..(Len(additions) - 1)
         /\ \A i \in 1..(Len(additions) - 1) : additions'[i] = additions[i + 1]
    BY <2>1, <2>2, TailFacts, SeqFacts DEF PlacedInv, Inv, HeldInv
  <2>12. \A n \in DOMAIN additions' : n + 1 \in DOMAIN additions /\ additions'[n] = additions[n + 1]
    BY <2>11
  <2>13. \A n \in DOMAIN additions : n = 1 \/ (n - 1 \in DOMAIN additions' /\ additions'[n - 1] = additions[n])
    BY <2>11
  <2>14. HomeInv'
    <3>1. \A x \in Extension : HomedAll(moving'[x], x, OwnKeys)
      BY <1>1 DEF PlacedInv, HomeInv
    <3>2. \A n \in DOMAIN additions' : HomedAll(additions'[n].entries, ExtensionOf[additions'[n].path], OwnKeys)
      BY <2>12 DEF PlacedInv, HomeInv
    <3>3. tool # "throws" /\ UNCHANGED <<tool, complete>> /\ phase' # "relocate" /\ phase \in {"append", "add", "rewrite"}
      BY <1>1, <2>1 DEF PlacedInv, PhaseInv
    <3> QED BY <2>7, <2>10, <3>1, <3>2, <3>3, WrittenHomed
  <2>15. ASSUME NEW k, Has(docs, k) PROVE Has(docs', k)
    <3>1. PICK q \in DOMAIN docs : \E i \in DOMAIN docs[q] : docs[q][i].key = k
      BY <2>15 DEF Has
    <3>2. CASE q = p
      <4>1. \E i \in DOMAIN es : es[i].key = k
        BY <2>8, <3>1, <3>2
      <4>2. docs'[p] = es
        BY <2>10 DEF Changed
      <4> QED BY <2>10, <4>1, <4>2 DEF Has
    <3>3. CASE q # p
      <4>1. q \in DOMAIN docs' /\ docs'[q] = docs[q]
        BY <2>10, <3>3 DEF Changed
      <4> QED BY <3>1, <4>1 DEF Has
    <3> QED BY <3>2, <3>3
  <2>16. ASSUME NEW k, Has(Waiting, k) PROVE Has(docs', k) \/ Has(Waiting', k)
    <3>1. PICK n \in DOMAIN Waiting : \E i \in DOMAIN Waiting[n] : Waiting[n][i].key = k
      BY <2>16 DEF Has
    <3>2. CASE n = 1
      <4>1. \E i \in DOMAIN es : es[i].key = k
        BY <2>4, <2>8, <3>1, <3>2
      <4>2. docs'[p] = es
        BY <2>10 DEF Changed
      <4> QED BY <2>10, <4>1, <4>2 DEF Has
    <3>3. CASE n # 1
      <4>1. n - 1 \in DOMAIN additions' /\ additions'[n - 1] = additions[n]
        BY <2>4, <2>13, <3>1, <3>3
      <4>2. n - 1 \in DOMAIN Waiting' /\ Waiting'[n - 1] = additions'[n - 1].entries
        BY <4>1 DEF Waiting
      <4>3. Waiting'[n - 1] = Waiting[n]
        BY <2>4, <3>1, <4>1, <4>2
      <4> QED BY <3>1, <4>2, <4>3 DEF Has
    <3> QED BY <3>2, <3>3
  <2>17. GivenInv'
    BY <1>1, <1>2, <2>1, <2>15, <2>16 DEF PlacedInv, GivenInv, Live
  <2>18. PhaseInv'
    BY <1>1, <2>1 DEF PlacedInv, PhaseInv
  <2> QED BY <2>14, <2>17, <2>18
<1> QED BY <1>3, <1>4

\* A rewrite changes neither subjects nor documents.
LEMMA RewriteNextPlaced ==
  ASSUME PlacedInv, RewriteNext
  PROVE  PhaseInv' /\ HomeInv' /\ GivenInv'
<1> DEFINE h == Head(listing)
           es == Write.entries
<1>1. phase = "rewrite" /\ listing # <<>> /\ UNCHANGED tool
  BY DEF RewriteNext
<1>2. CASE docs' = docs /\ Ends("failed")
  BY <1>1, <1>2, EndsHome
<1>3. CASE /\ docs' = IF Writes THEN With(Write) ELSE docs
           /\ UNCHANGED <<phase, moving, additions, outcome, complete>>
  <2>1. /\ Write.path = h /\ Fits(h, es) /\ h \in DOMAIN docs \ Hand /\ h \in Path
        /\ DOMAIN es = DOMAIN docs[h] /\ \A i \in DOMAIN docs[h] : es[i] = Transform(docs[h][i])
    BY <1>1, RewriteFits, HeadFacts DEF PlacedInv, Inv
  <2> HIDE DEF h
  <2>2. OwnKeys' = OwnKeys /\ ClassKeys' = ClassKeys /\ Waiting' = Waiting
    BY <1>1, <1>3 DEF OwnKeys, ClassKeys, Order, Waiting
  <2>3. PhaseInv'
    BY <1>1, <1>3 DEF PlacedInv, PhaseInv
  <2>4. CASE ~Writes
    <3>1. docs' = docs
      BY <1>3, <2>4
    <3>2. HomeInv'
      BY <1>1, <1>3, <2>2, <3>1 DEF PlacedInv, HomeInv, Live, Unread
    <3>3. GivenInv'
      BY <1>1, <1>3, <2>2, <3>1 DEF PlacedInv, GivenInv, Live
    <3> QED BY <2>3, <3>2, <3>3
  <2>5. CASE Writes
    <3>1. docs' = With(Write)
      BY <1>3, <2>5
    <3>2. Changed(docs', h, es) /\ DOMAIN docs \subseteq DOMAIN docs'
      BY <1>1, <2>1, <3>1, WithChanges DEF PlacedInv, Inv
    <3> HIDE DEF es
    <3>3. \A i \in DOMAIN docs[h] : es[i].key = docs[h][i].key
      BY <2>1, TransformKey
    <3>4. \A x, K : Homed(docs[h], x, K) => Homed(es, x, K)
      BY <2>1, <3>3 DEF Homed
    <3>5. tool # "throws" => Homed(es, ExtensionOf[h], OwnKeys)
      BY <1>1, <2>1, <3>4 DEF PlacedInv, HomeInv, Live, Unread
    <3>6. "hierarchy" \in complete => Homed(es, ExtensionOf[h], ClassKeys)
      BY <2>1, <3>4 DEF PlacedInv, HomeInv
    <3>7. /\ \A x \in Extension : HomedAll(moving'[x], x, OwnKeys)
          /\ \A n \in DOMAIN additions' : HomedAll(additions'[n].entries, ExtensionOf[additions'[n].path], OwnKeys)
      BY <1>3 DEF PlacedInv, HomeInv
    <3>8. UNCHANGED <<tool, complete>> /\ phase' # "relocate" /\ phase \in {"append", "add", "rewrite"}
      BY <1>1, <1>3
    <3>9. HomeInv'
      BY <3>2, <3>5, <3>6, <3>7, <3>8, WrittenHomed
    <3>10. ASSUME NEW k, Has(docs, k) PROVE Has(docs', k)
      <4>1. PICK q \in DOMAIN docs : \E i \in DOMAIN docs[q] : docs[q][i].key = k
        BY <3>10 DEF Has
      <4>2. CASE q = h
        <5>1. \E i \in DOMAIN es : es[i].key = k
          BY <2>1, <3>3, <4>1, <4>2
        <5>2. h \in DOMAIN docs' /\ docs'[h] = es
          BY <2>1, <3>2 DEF Changed
        <5> QED BY <5>1, <5>2 DEF Has
      <4>3. CASE q # h
        <5>1. q \in DOMAIN docs' /\ docs'[q] = docs[q]
          BY <3>2, <4>3 DEF Changed
        <5> QED BY <4>1, <5>1 DEF Has
      <4> QED BY <4>2, <4>3
    <3>11. GivenInv'
      BY <1>1, <1>3, <2>2, <3>10 DEF PlacedInv, GivenInv, Live
    <3> QED BY <2>3, <3>9, <3>11
  <2> QED BY <2>4, <2>5
<1> QED BY <1>1, <1>2, <1>3 DEF RewriteNext

\* A producer that finishes has placed the declarations it owns.
LEMMA FinishPlaced ==
  ASSUME PlacedInv, Finish
  PROVE  PhaseInv' /\ HomeInv' /\ GivenInv'
<1>1. /\ phase = "rewrite" /\ phase' = "idle" /\ outcome' = "done" /\ complete' = complete \cup {tool}
      /\ moving' = NothingMoving /\ additions' = <<>> /\ UNCHANGED <<docs, tool>>
  BY DEF Finish, Ends
<1>2. moving = NothingMoving /\ additions = <<>> /\ tool \in Tool
  BY <1>1 DEF PlacedInv, Inv, HeldInv, PhaseInv
<1>3. OwnKeys' = OwnKeys /\ ClassKeys' = ClassKeys /\ Waiting' = Waiting
  BY <1>1, <1>2 DEF OwnKeys, ClassKeys, Order, Waiting
<1>4. PhaseInv'
  BY <1>1, <1>2 DEF PlacedInv, PhaseInv
<1>5. GivenInv'
  BY <1>1, <1>3 DEF PlacedInv, GivenInv, Live
<1>6. tool # "throws" => \A q \in DOMAIN docs \ Hand : Homed(docs[q], ExtensionOf[q], OwnKeys)
  BY <1>1 DEF PlacedInv, HomeInv, Live, Unread
<1>7. "hierarchy" \in complete' => \A q \in DOMAIN docs \ Hand : Homed(docs[q], ExtensionOf[q], ClassKeys)
  <2>1. CASE tool = "hierarchy"
    BY <1>6, <2>1, OwnKeysFacts
  <2>2. CASE tool # "hierarchy"
    BY <1>1, <2>2 DEF PlacedInv, HomeInv
  <2> QED BY <2>1, <2>2
<1>8. HomeInv'
  BY <1>1, <1>2, <1>3, <1>6, <1>7 DEF PlacedInv, HomeInv
<1> QED BY <1>4, <1>5, <1>8

\* A process that stops promises nothing, but classes that were placed stay so.
LEMMA StopPlaced ==
  ASSUME PlacedInv, Stop
  PROVE  PhaseInv' /\ HomeInv' /\ GivenInv'
<1>1. phase # "idle" /\ Ends("stopped") /\ UNCHANGED tool
  BY DEF Stop
<1> QED BY <1>1, EndsHome

\* A producer starts by reading every document again.
LEMMA StartPlaced ==
  ASSUME PlacedInv, NEW t \in Tool, Start(t)
  PROVE  PhaseInv' /\ HomeInv' /\ GivenInv'
<1>1. phase = "idle" /\ tool' = t /\ InOrder(t) /\ UNCHANGED <<docs, moving, additions>>
  BY DEF Start
<1>2. /\ \A x \in Extension : moving'[x] = <<>>
      /\ DOMAIN additions' = {}
  BY <1>1, NothingIsSeq DEF PlacedInv, Inv, HeldInv, NothingMoving
<1>3. (\A x \in Extension : HomedAll(moving'[x], x, OwnKeys')) /\ ClassKeys' = ClassKeys
  BY <1>2, NothingHomed DEF ClassKeys
<1>4. CASE phase' = "idle" /\ outcome' = "failed" /\ complete' = complete \ {t}
  <2>1. ~Live' /\ complete' \subseteq complete
    BY <1>4 DEF Live
  <2>2. PhaseInv'
    BY <1>1, <1>4 DEF PlacedInv, PhaseInv
  <2>3. HomeInv'
    BY <1>1, <1>2, <1>3, <2>1 DEF PlacedInv, HomeInv
  <2> QED BY <2>1, <2>2, <2>3 DEF GivenInv
<1>5. CASE /\ phase' = IF t = "throws" THEN "rewrite" ELSE "relocate"
           /\ outcome' = "none" /\ listing' = Generated /\ UNCHANGED complete
  <2>1. PhaseInv'
    BY <1>1, <1>5 DEF PlacedInv, PhaseInv, InOrder
  <2>2. t # "throws" => \A p \in DOMAIN docs \ Hand : Unread(p)'
    BY <1>5, GeneratedFacts DEF Unread, PlacedInv, Inv
  <2>3. HomeInv'
    BY <1>1, <1>2, <1>3, <1>5, <2>2 DEF PlacedInv, HomeInv
  <2>4. GivenInv'
    BY <1>1, <1>5 DEF GivenInv
  <2> QED BY <2>1, <2>3, <2>4
<1> QED BY <1>4, <1>5 DEF Start

\* Every step keeps the placement.
LEMMA NextPlaced == PlacedInv /\ [Next]_vars => PlacedInv'
<1> SUFFICES ASSUME PlacedInv, [Next]_vars PROVE PlacedInv'
  OBVIOUS
<1>1. Inv'
  BY NextInv DEF PlacedInv
<1>2. CASE UNCHANGED vars
  <2>1. UNCHANGED <<OwnKeys, ClassKeys, Waiting>>
    BY <1>2 DEF vars, OwnKeys, ClassKeys, Order, Waiting
  <2>2. PhaseInv' /\ GivenInv'
    BY <1>2, <2>1 DEF vars, PlacedInv, PhaseInv, GivenInv, Live
  <2>3. HomeInv'
    BY <1>2, <2>1 DEF vars, PlacedInv, HomeInv, Live, Unread
  <2> QED BY <1>1, <2>2, <2>3 DEF PlacedInv
<1> QED BY <1>1, <1>2, StartPlaced, RelocateNextPlaced, AllReadPlaced, AppendMovedPlaced, PlanAdditionsPlaced, AddNextPlaced,
           RewriteNextPlaced, FinishPlaced, StopPlaced DEF Next, PlacedInv

\* Before the first run nothing is promised.
LEMMA InitPlaced == Init => PlacedInv
<1> SUFFICES ASSUME Init PROVE PlacedInv
  OBVIOUS
<1>1. phase = "idle" /\ tool = "none" /\ outcome = "none" /\ complete = {} /\ moving = NothingMoving /\ additions = <<>>
  BY DEF Init
<1>2. ~Live
  BY <1>1 DEF Live
<1>3. (\A x \in Extension : HomedAll(moving[x], x, OwnKeys)) /\ DOMAIN additions = {}
  BY <1>1, NothingHomed, NothingIsSeq DEF NothingMoving
<1>4. PhaseInv /\ HomeInv /\ GivenInv
  BY <1>1, <1>2, <1>3 DEF PhaseInv, HomeInv, GivenInv
<1> QED BY <1>4, InitInv DEF PlacedInv

\* After a finished run of extract_hierarchy or extract_signatures, whatever
\* stopped half way before it, every declaration is there and in a document of
\* its extension.
THEOREM DeclarationsInPlace == Spec => []InPlace
<1>1. ASSUME PlacedInv, outcome = "done", tool # "throws", NEW k \in Key, Owns(k)
      PROVE  /\ k \in DeclaredIn(DOMAIN docs)
             /\ \A p \in DOMAIN docs \ Hand : k \in DeclaredIn({p}) => ExtensionOf[p] = Declares[k]
  <2>1. phase = "idle" /\ k \in OwnKeys /\ Live
    BY <1>1, OwnKeysFacts DEF PlacedInv, PhaseInv, Live
  <2>2. DOMAIN Waiting = {}
    <3>1. additions = <<>>
      BY <1>1, <2>1 DEF PlacedInv, Inv, HeldInv
    <3> QED BY <3>1, NothingIsSeq DEF Waiting
  <2>3. Has(docs, k)
    BY <1>1, <2>1, <2>2 DEF PlacedInv, GivenInv, Has
  <2>4. k \in DeclaredIn(DOMAIN docs)
    BY <2>3 DEF Has, DeclaredIn
  <2>5. \A p \in DOMAIN docs \ Hand : Homed(docs[p], ExtensionOf[p], OwnKeys)
    BY <1>1, <2>1 DEF PlacedInv, HomeInv, Unread
  <2>6. \A p : k \in DeclaredIn({p}) => \E i \in DOMAIN docs[p] : docs[p][i].key = k
    BY DEF DeclaredIn
  <2> QED BY <2>1, <2>4, <2>5, <2>6 DEF Homed
<1>2. PlacedInv => InPlace
  BY <1>1 DEF InPlace
<1> QED BY <1>2, InitPlaced, NextPlaced, PTL DEF Spec
=============================================================================
