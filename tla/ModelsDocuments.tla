--------------------------- MODULE ModelsDocuments ---------------------------
(***************************************************************************)
(* The generated documents under the producers of php-src facts            *)
(* (php_src.py, and the mains of extract_hierarchy.py,                     *)
(* extract_signatures.py and extract_throws.py).  Each document written or *)
(* removed is one step; a process may stop between two of them, or inside  *)
(* a write, which then leaves a part of the document's entries.            *)
(***************************************************************************)
EXTENDS SignatureFields, Lists

CONSTANTS
  Extension, ExtensionOrder, \* the PHP extensions, and their sorted order
  PathOrder,     \* every document path, sorted
  ExtensionOf,   \* path -> the extension its file name encodes
  Hand,          \* the paths under the hand-declared directories
  NewPath,       \* extension -> the document opened for it
  ClassOrder, CallableOrder, \* the sorted subject keys of the two kinds
  OwnerOf,       \* method key -> the key of its class
  Declares,      \* key -> its extension, for every key php-src declares
  Handled,       \* the callable keys whose throws are known
  Thrown,        \* the class keys among those throws
  Owned,         \* the signature fields extract_hierarchy writes
  Rendered,      \* class key -> the fields php-src gives it
  Beginnings,    \* the documents a first run may find, and the stubs it reads
  MaxRuns, MaxStops \* bounds on the runs and on the processes that stop half way

Keys(order) == {order[i] : i \in DOMAIN order}
Key  == Keys(ClassOrder) \cup Keys(CallableOrder)
Path == Keys(PathOrder)
Tool == {"hierarchy", "signatures", "throws"}

\* A stub's declaration of a callable: its parameters and the members of its
\* return type.
Variant == [params : Seq({"required", "optional"}), returns : SUBSET {"old", "int", "false"}]

\* An entry: of a class, all lines below its subject; of a callable, the one
\* declaration its signature shows, and its other lines by their throws line
\* and the arguments that its propagation statements name.
Entry == [key : Key, signature : Seq([kind : STRING, key : STRING, text : STRING]) \cup Seq(Variant),
          throws : Seq({"old", "new"}), ports : SUBSET Nat]
EntryOf(key, signature, throws, ports) ==
  [key |-> key, signature |-> signature, throws |-> throws, ports |-> ports]

\* No subject is declared twice in some documents.
Once(documents) ==
  \A p, q \in DOMAIN documents : \A i \in DOMAIN documents[p], j \in DOMAIN documents[q] :
    documents[p][i].key = documents[q][j].key => p = q /\ i = j

ASSUME DocumentsAssumption ==
  /\ \A order \in {ExtensionOrder, PathOrder, ClassOrder, CallableOrder} :
       order \in Seq(Keys(order)) /\ IsInjective(order)
  /\ Keys(ClassOrder) \cap Keys(CallableOrder) = {} \* a key holds the kind of its subject
  /\ Keys(ExtensionOrder) = Extension /\ Hand \subseteq Path
  /\ ExtensionOf \in [Path -> Extension] /\ NewPath \in [Extension -> Path \ Hand]
  /\ \A x \in Extension : ExtensionOf[NewPath[x]] = x
  /\ DOMAIN Declares \subseteq Key /\ \A k \in DOMAIN Declares : Declares[k] \in Extension
  /\ OwnerOf \in [DOMAIN OwnerOf -> Keys(ClassOrder)] /\ DOMAIN OwnerOf \subseteq Keys(CallableOrder)
  /\ \A m \in DOMAIN OwnerOf \cap DOMAIN Declares :
       OwnerOf[m] \in DOMAIN Declares /\ Declares[m] = Declares[OwnerOf[m]]
  /\ Handled \subseteq Keys(CallableOrder) /\ Thrown \subseteq Key
  /\ \A k \in DOMAIN Declares \cap Keys(ClassOrder) :
       \A n \in DOMAIN Rendered[k] : Rendered[k][n].key \in Owned \ {""}
  /\ \A b \in Beginnings :
       /\ DOMAIN b.docs \subseteq Path /\ b.docs \in [DOMAIN b.docs -> Seq(Entry)] /\ Once(b.docs)
       /\ \A k \in DOMAIN Declares \cap Keys(CallableOrder) : b.stubs[k] \in Seq(Variant) \ {<<>>}
  /\ MaxRuns \in Nat /\ MaxStops \in Nat

VARIABLES
  docs,      \* the documents that exist: path -> its entries
  stubs,     \* callable key -> its declarations, in the order of the stub files
  tool,      \* the running producer, or the last one
  phase,     \* "idle", "relocate", "append", "add", "rewrite"
  listing,   \* the documents the running loop has still to read
  moving,    \* extension -> the entries taken out of other documents
  additions, \* the new entries still to append: a sequence of [path, entries]
  outcome,   \* how the last run ended: "none", "done", "failed", "stopped"
  before,    \* the documents when the last run started
  again,     \* the last run followed a finished run of its own tool
  complete,  \* the tools that have finished since a run last ended otherwise
  runs, stops

vars == <<docs, stubs, tool, phase, listing, moving, additions, outcome, before, again, complete, runs, stops>>

NothingMoving == [x \in Extension |-> <<>>]

Init ==
  /\ \E b \in Beginnings : docs = b.docs /\ stubs = b.stubs
  /\ tool = "none" /\ phase = "idle" /\ listing = <<>> /\ moving = NothingMoving
  /\ additions = <<>> /\ outcome = "none" /\ before = docs /\ again = FALSE
  /\ complete = {} /\ runs = 0 /\ stops = 0

-----------------------------------------------------------------------------
(* php_src.py                                                              *)

\* Every document, the hand-declared ones with it.
AllDocuments == Kept(PathOrder, DOMAIN docs)

\* generated_documents: sorted, without the hand-declared ones.
Generated == Kept(PathOrder, DOMAIN docs \ Hand)

\* A placement that takes the last document when none is named for x.
LastPlacement(x) ==
  LET found == Kept(Generated, {p \in Path : ExtensionOf[p] = x})
  IN IF found # <<>> THEN found[Len(found)]
     ELSE IF Generated # <<>> THEN Generated[Len(Generated)] ELSE NewPath[x]

\* placement: the last generated document named for the extension, or a new one.
Placement(x) ==
  LET found == Kept(Generated, {p \in Path : ExtensionOf[p] = x})
  IN IF found = <<>> THEN NewPath[x] ELSE found[Len(found)]

\* declared: the keys of some documents.
DeclaredIn(paths) == UNION {{docs[p][i].key : i \in DOMAIN docs[p]} : p \in paths}

Order == IF tool = "hierarchy" THEN ClassOrder ELSE CallableOrder
Owns(k) == k \in DOMAIN Declares \cap Keys(Order)

\* The extension an entry of a document named for home belongs to.
Target(e, home) == IF Owns(e.key) THEN Declares[e.key] ELSE home

EntriesFor(p, x) == Kept(docs[p], {e \in Range(docs[p]) : Target(e, ExtensionOf[p]) = x})
Stays(p) == EntriesFor(p, ExtensionOf[p])

\* A source document that keeps what moves.
Untouched(p) == docs[p]

\* What relocate writes back to a document that loses entries.
Remaining(p) == Stays(p)

\* The entries on the move once those of p are taken.
Taken(p) == [x \in Extension |-> IF x # ExtensionOf[p] THEN moving[x] \o EntriesFor(p, x)
                                 ELSE moving[x]]

-----------------------------------------------------------------------------
(* The writes                                                              *)

\* The next document written by the running loop, and its entries; a document
\* without an entry is removed by relocate.
AppendTo(p, es) == [path |-> p, entries |-> (IF p \in DOMAIN docs THEN docs[p] ELSE <<>>) \o es]

NextExtension == Kept(ExtensionOrder, {x \in Extension : moving[x] # <<>>})[1]

\* The wider of two declarations: no call the other admits is lost.
Subsumes(a, b) ==
  /\ IsPrefix(b.params, a.params) /\ b.returns \subseteq a.returns
  /\ \A i \in (Len(b.params) + 1)..Len(a.params) : a.params[i] = "optional"

\* A fold that keeps the first declaration whatever comes.
FirstKept(known, v) == known

\* One of the two subsumes the other, or nothing is kept.
KeptOf(known, v) == {w \in known \cup {v} : known # {} /\ \A u \in known \cup {v} : Subsumes(w, u)}

\* read_php_src: the declaration kept of a callable, if any.
Selected(k) == FoldLeft(KeptOf, {stubs[k][1]}, stubs[k])
Signature(k) == CHOOSE v \in Selected(k) : TRUE
Conflict == \E k \in DOMAIN Declares \cap Keys(CallableOrder) : Selected(k) = {}

\* The propagation statements whose ports the signature has, and an entry that
\* has lost all of them.
Admitted(e) == {n \in e.ports : n < Len(Signature(e.key).params)}
Portless(e) == Owns(e.key) /\ e.ports # {} /\ Admitted(e) = {}

\* What the producers but extract_throws make of an entry they own.
Rewritten(e) ==
  IF ~Owns(e.key) THEN e
  ELSE IF tool = "hierarchy" THEN EntryOf(e.key, WithSignature(e.signature, Rendered[e.key], Owned), e.throws, e.ports)
  ELSE EntryOf(e.key, <<Signature(e.key)>>, e.throws, Admitted(e))

AppendsThrows(e) ==
  IF tool # "throws" THEN Rewritten(e)
  ELSE EntryOf(e.key, e.signature, IF e.key \in Handled THEN Append(e.throws, "new") ELSE <<>>, e.ports)

\* The transform of each producer: the signature it owns, or the throws line.
Transform(e) ==
  IF tool # "throws" THEN Rewritten(e)
  ELSE EntryOf(e.key, e.signature, IF e.key \in Handled THEN <<"new">> ELSE <<>>, e.ports)

Write ==
  CASE phase = "relocate" -> [path |-> Head(listing), entries |-> Remaining(Head(listing))]
    [] phase = "append"   -> AppendTo(Placement(NextExtension), moving[NextExtension])
    [] phase = "add"      -> AppendTo(additions[1].path, additions[1].entries)
    [] phase = "rewrite"  -> [path |-> Head(listing),
                              entries |-> [i \in DOMAIN docs[Head(listing)] |->
                                             Transform(docs[Head(listing)][i])]]

\* The running step writes a document.
Writes ==
  \/ phase = "relocate" /\ listing # <<>> /\ Len(Stays(Head(listing))) # Len(docs[Head(listing)])
  \/ phase = "append" /\ moving # NothingMoving
  \/ phase = "add" /\ additions # <<>>
  \/ phase = "rewrite" /\ listing # <<>> /\ Write.entries # docs[Head(listing)]

With(w) ==
  IF phase = "relocate" /\ w.entries = <<>> THEN [p \in DOMAIN docs \ {w.path} |-> docs[p]]
  ELSE [p \in DOMAIN docs \cup {w.path} |-> IF p = w.path THEN w.entries ELSE docs[p]]

Ends(how) ==
  /\ phase' = "idle" /\ outcome' = how
  /\ complete' = (CASE how = "done"    -> complete \cup {tool}
                    [] how = "failed"  -> complete \ {tool}
                    [] how = "stopped" -> {})
  /\ listing' = <<>> /\ moving' = NothingMoving /\ additions' = <<>>

-----------------------------------------------------------------------------
(* The producers                                                           *)

\* The producers run in this order (design-extraction.md).
InOrder(t) ==
  /\ t = "signatures" => "hierarchy" \in complete
  /\ t = "throws" => "signatures" \in complete

Start(t) ==
  /\ phase = "idle" /\ runs < MaxRuns /\ InOrder(t)
  /\ tool' = t /\ before' = docs /\ runs' = runs + 1
  /\ again' = (outcome = "done" /\ tool = t)
  /\ IF \/ t = "signatures" /\ Conflict
        \/ t = "throws" /\ ~(Thrown \subseteq DeclaredIn(DOMAIN docs \ Hand))
     THEN phase' = "idle" /\ outcome' = "failed" /\ complete' = complete \ {t} /\ UNCHANGED listing
     ELSE /\ phase' = IF t = "throws" THEN "rewrite" ELSE "relocate"
          /\ outcome' = "none" /\ listing' = Generated /\ UNCHANGED complete
  /\ UNCHANGED <<docs, stubs, moving, additions, stops>>

\* One document of relocate's loop.
RelocateNext ==
  /\ phase = "relocate" /\ listing # <<>>
  /\ docs' = IF Writes THEN With(Write) ELSE docs
  /\ moving' = IF Writes THEN Taken(Head(listing)) ELSE moving
  /\ listing' = Tail(listing)
  /\ UNCHANGED <<stubs, tool, phase, additions, outcome, before, again, complete, runs, stops>>

AllRead ==
  /\ phase = "relocate" /\ listing = <<>>
  /\ phase' = "append"
  /\ UNCHANGED <<docs, stubs, tool, listing, moving, additions, outcome, before, again, complete, runs, stops>>

\* The moved entries of one extension join its document.
AppendMoved ==
  /\ phase = "append" /\ Writes
  /\ docs' = With(Write) /\ moving' = [moving EXCEPT ![NextExtension] = <<>>]
  /\ UNCHANGED <<stubs, tool, phase, listing, additions, outcome, before, again, complete, runs, stops>>

\* The generated documents that declare the class of a method.
ClassDocuments(k) == Kept(Generated, {p \in DOMAIN docs : OwnerOf[k] \in DeclaredIn({p})})
Orphan(k) == k \in DOMAIN OwnerOf /\ ClassDocuments(k) = <<>>

\* target_document: the class's document for a method, else the extension's.
TargetDocument(k) ==
  IF k \in DOMAIN OwnerOf THEN ClassDocuments(k)[1] ELSE Placement(Declares[k])

\* add_missing: what no document declares, grouped by the document it joins, in
\* the order in which the documents are first met.
Missing == Kept(Order, {k \in Key : Owns(k) /\ k \notin DeclaredIn(DOMAIN docs)})

NewEntry(k) ==
  EntryOf(k, IF tool = "hierarchy" THEN WithSignature(<<>>, Rendered[k], Owned) ELSE <<Signature(k)>>, <<>>, {})

NewEntries(p) ==
  LET ks == Kept(Missing, {k \in Range(Missing) : TargetDocument(k) = p})
  IN [i \in DOMAIN ks |-> NewEntry(ks[i])]

Destinations ==
  LET target(i) == TargetDocument(Missing[i])
      firsts == Kept([i \in DOMAIN Missing |-> i],
                     {i \in DOMAIN Missing : \A j \in 1..(i - 1) : target(j) # target(i)})
  IN [n \in DOMAIN firsts |-> target(firsts[n])]

PlanAdditions ==
  /\ phase = "append" /\ ~Writes
  /\ IF \E k \in Range(Missing) : Orphan(k) THEN Ends("failed")
     ELSE /\ additions' = [n \in DOMAIN Destinations |->
                             [path |-> Destinations[n], entries |-> NewEntries(Destinations[n])]]
          /\ phase' = "add" /\ UNCHANGED <<listing, moving, outcome, complete>>
  /\ UNCHANGED <<docs, stubs, tool, before, again, runs, stops>>

AddNext ==
  /\ phase = "add"
  /\ IF Writes THEN docs' = With(Write) /\ additions' = Tail(additions) /\ UNCHANGED <<phase, listing>>
     ELSE phase' = "rewrite" /\ listing' = Generated /\ UNCHANGED <<docs, additions>>
  /\ UNCHANGED <<stubs, tool, moving, outcome, before, again, complete, runs, stops>>

\* One document of rewrite's loop; an entry left without a propagation port
\* ends the run.
RewriteNext ==
  /\ phase = "rewrite" /\ listing # <<>>
  /\ IF tool = "signatures" /\ \E i \in DOMAIN docs[Head(listing)] : Portless(docs[Head(listing)][i])
     THEN Ends("failed") /\ UNCHANGED docs
     ELSE /\ docs' = IF Writes THEN With(Write) ELSE docs
          /\ listing' = Tail(listing)
          /\ UNCHANGED <<phase, moving, additions, outcome, complete>>
  /\ UNCHANGED <<stubs, tool, before, again, runs, stops>>

Finish ==
  /\ phase = "rewrite" /\ listing = <<>>
  /\ Ends("done")
  /\ UNCHANGED <<docs, stubs, tool, before, again, runs, stops>>

\* The process stops between two writes, or inside one.
Stop ==
  /\ phase # "idle" /\ stops < MaxStops
  /\ \/ docs' = docs
     \/ Writes /\ \E n \in 0..(Len(Write.entries) - 1) :
                    docs' = [p \in DOMAIN docs \cup {Write.path} |->
                               IF p = Write.path THEN SubSeq(Write.entries, 1, n) ELSE docs[p]]
  /\ stops' = stops + 1
  /\ Ends("stopped")
  /\ UNCHANGED <<stubs, tool, before, again, runs>>

Next ==
  \/ \E t \in Tool : Start(t)
  \/ RelocateNext \/ AllRead \/ AppendMoved \/ PlanAdditions \/ AddNext
  \/ RewriteNext \/ Finish \/ Stop

Spec == Init /\ [][Next]_vars

-----------------------------------------------------------------------------
(* What the producers promise.                                             *)

\* No subject is ever declared twice, in the middle of a run or after a process
\* that stopped: the merge refuses a generated set that does (Mount.kt).
OncePerSubject == Once(docs)

IsClass(k)  == k \in Keys(ClassOrder)
Declared(k) == k \in DOMAIN Declares

\* The lines of an entry that no producer owns: the arguments its propagation
\* names, as far as some declaration has them, or the lines of a class.
Foreign(e) ==
  IF ~IsClass(e.key) THEN {n \in e.ports : Declared(e.key) => \A v \in Range(stubs[e.key]) : n < Len(v.params)}
  ELSE IF Declared(e.key) THEN UnownedLines(e.signature, Owned)
  ELSE e.signature

\* A run that ends by itself, in success or in a failure, keeps every entry,
\* wherever it has moved, and every line that no producer owns, in its order:
\* comments, blank lines and fields of others between the owned fields, and
\* what follows the signature (extract_hierarchy.py: "every other line
\* untouched").
EntriesKept ==
  outcome \in {"done", "failed"} =>
    \A p \in DOMAIN before : \A i \in DOMAIN before[p] :
      \E q \in DOMAIN docs : \E j \in DOMAIN docs[q] :
        docs[q][j].key = before[p][i].key /\ Foreign(docs[q][j]) = Foreign(before[p][i])

\* After a finished run every declaration of php-src the producer owns is
\* declared, and a generated one lives in a document of its extension, also
\* when earlier runs stopped half way.
InPlace ==
  outcome = "done" /\ tool # "throws" =>
    \A k \in Key : Owns(k) =>
      /\ k \in DeclaredIn(DOMAIN docs)
      /\ \A p \in DOMAIN docs \ Hand : k \in DeclaredIn({p}) => ExtensionOf[p] = Declares[k]

\* An entry shows what php-src declares: the fields of a class, each once and
\* no other owned one; a declaration of a callable that admits every call and
\* every result that some stub of it admits.
Shows(e) ==
  IF IsClass(e.key)
  THEN /\ OwnedFields(e.signature, Owned) = Range(Rendered[e.key])
       /\ Cardinality(OwnedAt(e.signature, Owned)) = Len(Rendered[e.key])
  ELSE \A v \in Range(stubs[e.key]) : Subsumes(e.signature[1], v)

\* After a finished run every generated entry the producer owns shows its
\* declaration, whatever the text it was merged into and in whatever order the
\* stubs were read (php_src.py: "Each owned key is replaced in place by the
\* block's field, removed when the block omits it, and inserted ... when the
\* entry lacks it"; extract_signatures.py: "one variant per subject by
\* subsumption").
AsDeclared ==
  outcome = "done" /\ tool # "throws" =>
    \A p \in DOMAIN docs \ Hand : \A i \in DOMAIN docs[p] : Owns(docs[p][i].key) => Shows(docs[p][i])

\* "A second run over its own output changes nothing" (design-extraction.md).
SecondRunIdle == outcome = "done" /\ again => docs = before

\* The producers never write the hand-declared documents.
HandUntouched ==
  [][\A p \in Hand : /\ p \in DOMAIN docs' <=> p \in DOMAIN docs
                     /\ p \in DOMAIN docs => docs'[p] = docs[p]]_vars
=============================================================================
