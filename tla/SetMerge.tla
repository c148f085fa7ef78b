------------------------------ MODULE SetMerge ------------------------------
(***************************************************************************)
(* One merge of a mount sequence (SetMerge.kt): the fold of the mounted    *)
(* entries into the entry in force for each (subject, condition, unit)     *)
(* key, the records built from it, and the class keys.  Each loop          *)
(* iteration of of(), fold() and keyClassAliases() is one step.            *)
(***************************************************************************)
EXTENDS Naturals, Sequences, FiniteSets, Lists

CONSTANTS
  Subject,       \* declaration subjects of every kind
  ClassName,     \* the class subjects among them, and the spellings of aliases
  FunctionName,  \* the function subjects among them
  Condition,     \* argument patterns, and Always for an unconditional entry
  Always,
  Inputs         \* the mount sequences that may be merged

\* OverrideUnit, in the order an EnumMap iterates it.
Units == <<"signature", "value", "sources", "sinks", "sanitizers", "throws">>
Unit  == {Units[i] : i \in 1..6}

\* The part of an entry the merge reads: its key, the units it declares and
\* the aliases of its signature, which only a class signature has.
Entry == {e \in [subject : Subject, condition : Condition, units : SUBSET Unit \ {{}},
                 aliases : Seq(ClassName)] :
            e.subject \notin ClassName => e.aliases = <<>>}
\* A set as mounted: the rank of its verification (0 is the strongest), the
\* names its vocabulary declares, and its entries, each with the extension of
\* its document, "none" in every set but the generated one.
Mount == [rank : Nat, declares : SUBSET STRING,
          entries : Seq([entry : Entry, extension : STRING \cup {"none"}])]

ASSUME InputAssumption ==
  /\ Inputs \subseteq Seq(Mount)
  /\ ClassName \cap FunctionName = {} /\ Always \in Condition

VARIABLES
  phase,      \* "idle", "collect", "slots", "write", "assemble", "alias", "done", "failed"
  mounts,     \* the input
  step,       \* the loop's position in its list
  vocabulary, \* the names declared by the sets collected so far
  mounted,    \* the mounted entries, in mount order
  subjects,   \* the keys of the fold's outer map, in insertion order
  conditions, \* per subject, the keys of its slots, in insertion order
  inForce,    \* per (subject, condition), the unit map: unit -> index in mounted
  written,    \* the mounted entries written so far
  records,    \* the records in insertion order
  classes,    \* the class keys in insertion order, each with its record's subject
  names,      \* the subjects in the canonical-name tries
  aliases     \* the aliases still to key, each with its record's subject

vars == <<phase, mounts, step, vocabulary, mounted, subjects, conditions, inForce, written,
          records, classes, names, aliases>>

slots  == <<subjects, conditions, inForce>>
result == <<records, classes, names, aliases>>

Items == 1..Len(mounted)
Key(i) == <<mounted[i].entry.subject, mounted[i].entry.condition>>
States(i, key, u) == Key(i) = key /\ u \in mounted[i].entry.units

Init ==
  /\ phase = "idle" /\ mounts = <<>> /\ step = 0 /\ vocabulary = {} /\ mounted = <<>>
  /\ subjects = <<>> /\ conditions = [s \in {} |-> <<>>]
  /\ inForce = [k \in {} |-> <<>>] /\ written = {}
  /\ records = <<>> /\ classes = <<>> /\ names = {} /\ aliases = <<>>

\* of(mounts): a merge owns its maps.
Begin(ms) ==
  /\ phase \in {"idle", "done", "failed"}
  /\ phase' = "collect" /\ mounts' = ms /\ step' = 1 /\ vocabulary' = {} /\ mounted' = <<>>
  /\ subjects' = <<>> /\ conditions' = [s \in {} |-> <<>>]
  /\ inForce' = [k \in {} |-> <<>>] /\ written' = {}
  /\ records' = <<>> /\ classes' = <<>> /\ names' = {} /\ aliases' = <<>>

\* The next mount's entries, with its position and rank.
Collect ==
  /\ phase = "collect"
  /\ IF step <= Len(mounts)
     THEN /\ mounted' = mounted \o
               [j \in 1..Len(mounts[step].entries) |->
                  [position |-> step, rank |-> mounts[step].rank,
                   entry |-> mounts[step].entries[j].entry,
                   extension |-> mounts[step].entries[j].extension]]
          /\ vocabulary' = vocabulary \cup mounts[step].declares
          /\ step' = step + 1 /\ phase' = phase
     ELSE UNCHANGED <<mounted, vocabulary>> /\ step' = 1 /\ phase' = "slots"
  /\ UNCHANGED <<mounts, slots, written, result>>

-----------------------------------------------------------------------------
(* fold()                                                                  *)

\* A map that does not keep the insertion order.
InsertedFirst(keys, k) == <<k>> \o keys

\* A LinkedHashMap lists its keys as they were inserted.
Inserted(keys, k) == Append(keys, k)

ConditionalSignature(e) == e.condition # Always /\ "signature" \in e.units

\* First pass: the slot of the next entry's key, if it has none yet.
AddSlot ==
  /\ phase = "slots" /\ step <= Len(mounted)
  /\ LET e == mounted[step].entry
         s == e.subject
         c == e.condition
     IN IF ConditionalSignature(e)
        THEN phase' = "failed" /\ UNCHANGED <<step, slots>>
        ELSE /\ subjects' = IF s \in DOMAIN conditions THEN subjects ELSE Inserted(subjects, s)
             /\ conditions' = [t \in DOMAIN conditions \cup {s} |->
                  CASE t # s -> conditions[t]
                    [] t = s /\ <<s, c>> \in DOMAIN inForce -> conditions[s]
                    [] t = s /\ s \notin DOMAIN conditions -> <<c>>
                    [] OTHER -> Inserted(conditions[s], c)]
             /\ inForce' = [k \in DOMAIN inForce \cup {<<s, c>>} |->
                  IF k \in DOMAIN inForce THEN inForce[k] ELSE [u \in {} |-> 0]]
             /\ step' = step + 1 /\ phase' = phase
  /\ UNCHANGED <<mounts, vocabulary, mounted, written, result>>

SlotsAdded ==
  /\ phase = "slots" /\ step > Len(mounted)
  /\ phase' = "write" /\ step' = 1
  /\ UNCHANGED <<mounts, vocabulary, mounted, slots, written, result>>

\* A sort by rank alone: equal ranks in whatever order the sort leaves them.
WeakerByRank(i, j) == mounted[i].rank > mounted[j].rank

\* The order entries are written in: compareByDescending rank, then position;
\* the sort is stable, so entries of one set keep their order.
Weaker(i, j) ==
  LET a == mounted[i]
      b == mounted[j]
  IN \/ a.rank > b.rank
     \/ a.rank = b.rank /\ a.position < b.position
     \/ a.rank = b.rank /\ a.position = b.position /\ i < j

\* Second pass: the weakest entry left overwrites every unit it declares.
WriteNext ==
  /\ phase = "write"
  /\ \E i \in Items \ written :
       /\ \A j \in Items \ written : ~Weaker(j, i)
       /\ inForce' = [inForce EXCEPT ![Key(i)] =
            [u \in DOMAIN @ \cup mounted[i].entry.units |->
               IF u \in mounted[i].entry.units THEN i ELSE @[u]]]
       /\ written' = written \cup {i}
  /\ UNCHANGED <<phase, mounts, step, vocabulary, mounted, subjects, conditions, result>>

Written ==
  /\ phase = "write" /\ written = Items
  /\ phase' = "assemble" /\ step' = 1
  /\ UNCHANGED <<mounts, vocabulary, mounted, slots, written, result>>

-----------------------------------------------------------------------------
(* add() and record()                                                      *)

\* The entries in force for a unit of s, in the order of its conditions.
InForceOf(s, u) ==
  LET cs == Kept(conditions[s], {c \in Condition : <<s, c>> \in DOMAIN inForce
                                                   /\ u \in DOMAIN inForce[<<s, c>>]})
  IN [k \in 1..Len(cs) |-> [condition |-> cs[k], item |-> inForce[<<s, cs[k]>>][u]]]

\* The mounted entry whose unconditional signature is in force, or 0.
Signature(s) ==
  IF <<s, Always>> \in DOMAIN inForce /\ "signature" \in DOMAIN inForce[<<s, Always>>]
  THEN inForce[<<s, Always>>]["signature"] ELSE 0

\* The extension belongs to the entry of the signature in force.
Record(s) ==
  [subject   |-> s,
   signature |-> Signature(s),
   extension |-> IF Signature(s) = 0 THEN "none" ELSE mounted[Signature(s)].extension,
   facts     |-> [u \in Unit \ {"signature"} |-> InForceOf(s, u)]]

AddRecord ==
  /\ phase = "assemble" /\ step <= Len(subjects)
  /\ LET s == subjects[step]
     IN /\ records' = Append(records, Record(s))
        /\ classes' = IF s \in ClassName THEN Append(classes, <<s, s>>) ELSE classes
        /\ names' = IF s \in ClassName \cup FunctionName /\ Signature(s) # 0
                    THEN names \cup {s} ELSE names
  /\ step' = step + 1
  /\ UNCHANGED <<phase, mounts, vocabulary, mounted, slots, written, aliases>>

\* The aliases of a signature that was replaced.
AliasesOfFirst(k) ==
  LET s == classes[k][2]
      signed == {i \in Items : States(i, <<s, Always>>, "signature")}
      first == CHOOSE i \in signed : \A j \in signed : i <= j
  IN IF signed = {} THEN <<>>
     ELSE [j \in 1..Len(mounted[first].entry.aliases) |-> <<mounted[first].entry.aliases[j], s>>]

\* The aliases of the signature in force of the k-th class key's record.
AliasesAt(k) ==
  LET s == classes[k][2]
  IN IF Signature(s) = 0 THEN <<>>
     ELSE [j \in 1..Len(mounted[Signature(s)].entry.aliases) |->
             <<mounted[Signature(s)].entry.aliases[j], s>>]

\* keyClassAliases lists every alias before it keys the first one.
ListAliases ==
  LET upTo[k \in 0..Len(classes)] == IF k = 0 THEN <<>> ELSE upTo[k - 1] \o AliasesAt(k)
  IN /\ phase = "assemble" /\ step > Len(subjects)
     /\ aliases' = upTo[Len(classes)]
     /\ phase' = "alias" /\ step' = 1
     /\ UNCHANGED <<mounts, vocabulary, mounted, slots, written, records, classes, names>>

Keys == {classes[k][1] : k \in DOMAIN classes}

\* An alias key that takes over the key of another record.
KeyAliasAnyway ==
  /\ phase = "alias" /\ step <= Len(aliases)
  /\ classes' = Append(Kept(classes, {x \in ClassName \X Subject : x[1] # aliases[step][1]}), aliases[step])
  /\ step' = step + 1
  /\ UNCHANGED <<phase, mounts, vocabulary, mounted, slots, written, records, names, aliases>>

KeyAlias ==
  /\ phase = "alias" /\ step <= Len(aliases)
  /\ IF aliases[step][1] \in Keys
     THEN phase' = "failed" /\ UNCHANGED <<classes, step>>
     ELSE classes' = Append(classes, aliases[step]) /\ step' = step + 1 /\ phase' = phase
  /\ UNCHANGED <<mounts, vocabulary, mounted, slots, written, records, names, aliases>>

Merged ==
  /\ phase = "alias" /\ step > Len(aliases)
  /\ phase' = "done"
  /\ UNCHANGED <<mounts, step, vocabulary, mounted, slots, written, result>>

Merge == \/ Collect \/ AddSlot \/ SlotsAdded \/ WriteNext \/ Written \/ AddRecord
         \/ ListAliases \/ KeyAlias \/ Merged
Next == Merge \/ \E ms \in Inputs : phase = "idle" /\ Begin(ms)
Spec == Init /\ [][Next]_vars

-----------------------------------------------------------------------------
(* What a merge promises.                                                  *)

\* The entry that must be in force for a key: the strongest rank and, among
\* equal ranks, the later mounted (spec-merge.md, Correctness).
Strongest(i, key, u) ==
  /\ i \in Items /\ States(i, key, u)
  /\ \A j \in Items : States(j, key, u) =>
       \/ mounted[i].rank < mounted[j].rank
       \/ mounted[i].rank = mounted[j].rank /\ j <= i

Folded == phase \in {"assemble", "alias", "done"}

\* Per (subject, condition, unit) key the strongest entry is in force, and a
\* key nobody states has none: a unit is replaced alone, and a conditional
\* entry never replaces an unconditional one (SetMergeTest.kt).
InForceIsStrongest ==
  Folded => \A key \in DOMAIN inForce, u \in Unit :
    IF u \in DOMAIN inForce[key] THEN Strongest(inForce[key][u], key, u)
    ELSE \A i \in Items : ~States(i, key, u)

FirstEntry(s) == CHOOSE i \in Items : /\ mounted[i].entry.subject = s
                                      /\ \A j \in 1..(i - 1) : mounted[j].entry.subject # s
FirstKey(s, c) == CHOOSE i \in Items : Key(i) = <<s, c>> /\ \A j \in 1..(i - 1) : Key(j) # <<s, c>>

\* Enumeration follows the mount order of each subject's first entry, whatever
\* its rank, and the facts of a record that of each condition's first entry.
MountOrder ==
  phase = "done" =>
    /\ {records[k].subject : k \in DOMAIN records} = {mounted[i].entry.subject : i \in Items}
    /\ \A k, l \in DOMAIN records :
         k < l => FirstEntry(records[k].subject) < FirstEntry(records[l].subject)
    /\ \A k \in DOMAIN records, u \in Unit \ {"signature"} :
         LET s == records[k].subject
             fs == records[k].facts[u]
         IN \A m, n \in DOMAIN fs :
              m < n => FirstKey(s, fs[m].condition) < FirstKey(s, fs[n].condition)

\* No class key reads two records.
OneRecordPerKey == \A k, l \in DOMAIN classes : classes[k][1] = classes[l][1] => k = l

\* Every class key reads the record that declares it, as its subject or as an
\* alias of its signature in force, no key reads two records, and filtering
\* the aliases out (DeclaredClasses) lists every class record once, in record
\* order (SetMergeClassAliasTest.kt).
ClassKeys ==
  phase = "done" =>
    LET declared == Kept([k \in DOMAIN records |-> records[k].subject], ClassName)
        listed == Kept(classes, {<<c, c>> : c \in ClassName})
        stated(r) == IF r.signature = 0 THEN {}
                     ELSE {mounted[r.signature].entry.aliases[j] :
                             j \in DOMAIN mounted[r.signature].entry.aliases}
    IN /\ [k \in DOMAIN listed |-> listed[k][1]] = declared
       /\ OneRecordPerKey
       /\ {classes[k] : k \in DOMAIN classes} =
            UNION {{<<a, records[k].subject>> : a \in {records[k].subject} \cup stated(records[k])}
                     : k \in {l \in DOMAIN records : records[l].subject \in ClassName}}

\* The records and aliases that claim a class key.
Claims(a) ==
  {<<s, 0>> : s \in {mounted[i].entry.subject : i \in Items} \cap {a}}
  \cup UNION {{<<mounted[i].entry.subject, j>> :
                 j \in {k \in DOMAIN mounted[i].entry.aliases : mounted[i].entry.aliases[k] = a}} :
              i \in {k \in Items : Strongest(k, <<mounted[k].entry.subject, Always>>, "signature")}}

SignedConditionally == \E i \in Items : ConditionalSignature(mounted[i].entry)
ClaimedTwice == \E a \in ClassName : \E x, y \in Claims(a) : x # y

\* A merge is refused exactly for a conditional signature or for a class key
\* that is claimed twice, by signatures in force only.
RefusedForAReason ==
  /\ phase = "failed" => SignedConditionally \/ ClaimedTwice
  /\ phase = "done" => ~SignedConditionally /\ ~ClaimedTwice

\* BuiltinRecord.kt says a record has no extension when no generated set
\* declares its subject.
ExtensionOfGenerated ==
  \A k \in DOMAIN records :
    records[k].extension = "none" =>
      \A i \in Items : mounted[i].entry.subject = records[k].subject
                         => mounted[i].extension = "none"
=============================================================================
