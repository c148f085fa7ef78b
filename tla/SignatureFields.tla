--------------------------- MODULE SignatureFields ---------------------------
(***************************************************************************)
(* The lines of an entry below its subject, and how a producer rewrites    *)
(* the signature fields it owns (Entry.with_signature and                  *)
(* signature_fields of php_src.py).  A line has a kind, the key it gives   *)
(* where it is a field, and a text: "head" is the line of the signature    *)
(* itself, a "field" stands four columns in, a "nested" line deeper, a     *)
(* "comment" four columns in, and a "section" less.                        *)
(***************************************************************************)
EXTENDS Naturals, Sequences, FiniteSets, SequencesExt

Line(kind, key, text) == [kind |-> kind, key |-> key, text |-> text]
Head1 == Line("head", "", "")

Kinds    == {"head", "field", "nested", "comment", "blank", "section"}
Indented == {"field", "nested", "comment"}

IsField(l) == l.kind = "field"
Trivial(l) == l.kind \in {"comment", "blank"}

\* How many lines at the start are of some kinds.
Leading(lines, kinds) ==
  CHOOSE n \in 0..Len(lines) :
    /\ \A i \in 1..n : lines[i].kind \in kinds
    /\ n < Len(lines) => lines[n + 1].kind \notin kinds

\* The last line before the next field.
EndOf(body, i) == i + Leading(SubSeq(body, i + 1, Len(body)), Kinds \ {"field"})

-----------------------------------------------------------------------------
(* signature_fields: the spans of a body, each with the key of its field,  *)
(* or "" where no field owns it.  A span starts at the first line, at each *)
(* field, and where comments and blank lines run up to the next field.     *)

\* A field that takes what stands below it, up to the next field.
CutsAtFields(body) == {i \in DOMAIN body : i = 1 \/ IsField(body[i])}

Cuts(body) ==
  {i \in DOMAIN body :
     \/ i = 1 \/ IsField(body[i])
     \/ ~Trivial(body[i - 1]) /\ \A j \in i..EndOf(body, i) : Trivial(body[j])}

Spans(body) ==
  LET indices == [i \in DOMAIN body |-> i]
      cut(i)  == i \in Cuts(body)
      starts  == SelectSeq(indices, cut) \o <<Len(body) + 1>>
  IN [n \in 1..(Len(starts) - 1) |->
        [key |-> body[starts[n]].key, lines |-> SubSeq(body, starts[n], starts[n + 1] - 1)]]

Text(spans) == FlattenSeq([n \in DOMAIN spans |-> spans[n].lines])

-----------------------------------------------------------------------------
(* with_signature.                                                         *)

IndexOf(spans, key) == CHOOSE n \in DOMAIN spans : spans[n].key = key /\ \A m \in 1..(n - 1) : spans[m].key # key

\* The kept spans, an owned one replaced where it first stands and left out
\* where the block omits it.
Replaced(kept, fresh, owned) ==
  LET first(n) == \A m \in 1..(n - 1) : kept[m].key # kept[n].key
      given(n) == \E m \in DOMAIN fresh : fresh[m].key = kept[n].key
      stays(n) == kept[n].key \notin owned \/ (given(n) /\ first(n))
      places   == SelectSeq([n \in DOMAIN kept |-> n], stays)
  IN [p \in DOMAIN places |->
        LET span == kept[places[p]] IN
        IF span.key \in owned THEN fresh[IndexOf(fresh, span.key)] ELSE span]

\* The m-th field of the block joins spans that lack it, after the block's
\* preceding field.
Inserted(spans, fresh, m) ==
  LET at == IF m > 1 THEN IndexOf(spans, fresh[m - 1].key)
            ELSE IF spans # <<>> /\ spans[1].key = "" THEN 1 ELSE 0
  IN IF \E n \in DOMAIN spans : spans[n].key = fresh[m].key THEN spans
     ELSE SubSeq(spans, 1, at) \o <<fresh[m]>> \o SubSeq(spans, at + 1, Len(spans))

Merged(kept, fresh, owned) ==
  FoldLeft(LAMBDA spans, m : Inserted(spans, fresh, m), Replaced(kept, fresh, owned), [m \in DOMAIN fresh |-> m])

\* Where the lines of the signature stand: after the head, up to a line less
\* indented, without the blank lines at their end.
HeadAt(lines) == IF \E i \in DOMAIN lines : lines[i].kind = "head"
                 THEN 1 + Leading(lines, Kinds \ {"head"}) ELSE 0
LastAt(lines) ==
  LET head == HeadAt(lines)
      count == Leading(SubSeq(lines, head + 1, Len(lines)), Indented \cup {"blank"})
  IN CHOOSE i \in head..(head + count) :
       /\ i = head \/ lines[i].kind # "blank"
       /\ \A j \in (i + 1)..(head + count) : lines[j].kind = "blank"

WithSignature(lines, fresh, owned) ==
  LET head == HeadAt(lines)
      last == LastAt(lines)
      at   == Leading(lines, Indented)
  IN IF head = 0 THEN SubSeq(lines, 1, at) \o <<Head1>> \o Text(fresh) \o SubSeq(lines, at + 1, Len(lines))
     ELSE SubSeq(lines, 1, head) \o Text(Merged(Spans(SubSeq(lines, head + 1, last)), fresh, owned))
          \o SubSeq(lines, last + 1, Len(lines))

-----------------------------------------------------------------------------
(* What a reader of the document sees, stated on the lines.                *)

\* The lines of the signature under the field at i: the field, and what stands
\* up to its last nested line.
Value(lines, i) ==
  LET below == i..(i + Leading(SubSeq(lines, i + 1, LastAt(lines)), Kinds \ {"field"}))
  IN {j \in below : j = i \/ \E k \in j..LastAt(lines) : k \in below /\ lines[k].kind = "nested"}

OwnedAt(lines, owned) ==
  {i \in (HeadAt(lines) + 1)..LastAt(lines) : HeadAt(lines) > 0 /\ lines[i].key \in owned}

\* The owned fields and their values, in no order.
OwnedFields(lines, owned) ==
  {[key |-> lines[i].key, lines |-> SubSeq(lines, i, i + Cardinality(Value(lines, i)) - 1)] : i \in OwnedAt(lines, owned)}

\* Every other line, in its order, without the head.
UnownedLines(lines, owned) ==
  LET values == UNION {Value(lines, i) : i \in OwnedAt(lines, owned)}
      other(i) == i \notin values /\ lines[i].kind # "head"
      kept == SelectSeq([i \in DOMAIN lines |-> i], other)
  IN [n \in DOMAIN kept |-> lines[kept[n]]]
=============================================================================
