------------------------- MODULE MCModelsDocuments -------------------------
(***************************************************************************)
(* Three extensions, one of them split into two documents and one without  *)
(* a document; two declared classes and one php-src does not declare, a    *)
(* method, two functions and one declared by hand.  The first documents    *)
(* hold the entries in right and in wrong places, or miss them; one class  *)
(* may be declared by hand instead.  In one layout, one class has any of    *)
(* many texts, and one function any declarations.                          *)
(***************************************************************************)
EXTENDS ModelsDocuments

Extensions == <<"core", "date", "spl">>
Paths == <<"core", "core_1", "core_2", "date", "manual/date", "spl">>
NamedFor == [p \in {Paths[i] : i \in 1..6} |->
               CASE p \in {"core", "core_1", "core_2"} -> "core"
                 [] p \in {"date", "manual/date"} -> "date"
                 [] p = "spl" -> "spl"]
Opened  == [x \in {"core", "date", "spl"} |-> x]
Classes == <<"a", "b", "x">>
Calls   == <<"a::m", "f", "g">>
Owners  == [k \in {"a::m"} |-> "a"]
Source  == [k \in {"a", "b", "a::m", "f", "g"} |->
              CASE k \in {"a", "b", "a::m"} -> "date" [] k = "f" -> "spl" [] k = "g" -> "core"]

\* The sequences over S without repetition, of the given lengths.
Arrangements(S, lengths) == UNION {{s \in [1..n -> S] : IsInjective(s)} : n \in lengths}

F(key, text) == Line("field", key, text)
Nested(text) == Line("nested", "", text)
Comment == Line("comment", "", "c")
Blank   == Line("blank", "", "")
Section == Line("section", "", "s")
Note    == F("note", "old")

OwnedKeys == {"classifier", "parent", "isFinal", "handlers"}
Given ==
  [k \in {"a", "b"} |->
     <<[key |-> "classifier", lines |-> <<F("classifier", k)>>], [key |-> "isFinal", lines |-> <<F("isFinal", "true")>>]>>
     \o (IF k = "a" THEN <<[key |-> "handlers", lines |-> <<F("handlers", ""), Nested("t")>>]>> ELSE <<>>)]

\* The texts of a class: short ones over all kinds of lines, and longer ones
\* that bring owned fields with values, comments inside and behind them, two
\* fields of one key, or no signature at all.
Tokens == {F("classifier", "old"), F("parent", "old"), F("handlers", ""), Note, Nested("u"), Comment, Blank}
Short  == Arrangements(Tokens, 0..3)
Long   == {
  <<Comment, F("handlers", ""), Nested("u"), Comment, Nested("u"), Blank, Note>>,
  <<F("parent", "old"), Blank, Comment, Note, Nested("n"), Blank, Nested("n"), F("classifier", "old"), Blank>>,
  <<Note, F("isFinal", "true"), Comment, F("classifier", "old"), F("isFinal", "old"), Nested("u"), Blank, Blank>>,
  <<Blank, Nested("u"), Comment, F("handlers", ""), Blank, Nested("u"), Blank, Comment, F("parent", "old")>>}
Behind == {<<>>, <<Section, F("classifier", "other"), Blank, Nested("v")>>}
Texts  == {<<Head1>> \o body : body \in Short} \cup {<<Head1>> \o body \o behind : body \in Long, behind \in Behind}
          \cup {<<Nested("x")>> \o behind : behind \in Behind} \cup {<<Section, Comment, Head1, F("parent", "old"), Note>>}
Usual  == <<Head1, F("classifier", "old"), Note, F("parent", "old"), Blank, Section>>

\* The declarations of "f": two that subsume neither each other, one that
\* subsumes both, one that is subsumed, and one no other goes with.
R == "required"
O == "optional"
V(params, returns) == [params |-> params, returns |-> returns]
One     == V(<<R>>, {"int"})
Variants == {One, V(<<R, O>>, {"int"}), V(<<R>>, {"int", "false"}), V(<<R, O>>, {"int", "false"}), V(<<R, R>>, {"int"})}
Stubs(of_f) == [k \in {"a::m", "f", "g"} |-> IF k = "f" THEN of_f ELSE <<One>>]

\* The keys of a document, in the order of Ranked; "f" has the propagation
\* statements given.
Ranked == <<"x", "f", "a", "b", "a::m">>
Old(k, text, ports) ==
  [key |-> k, signature |-> IF k \in Keys(Classes) THEN text ELSE <<V(<<>>, {"old"})>>, throws |-> <<"old">>,
   ports |-> IF k = "f" THEN ports ELSE {}]
Held(home, p, text, ports) ==
  LET here(k) == home[k] = p
      ks == SelectSeq(Ranked, here)
  IN [i \in DOMAIN ks |-> Old(ks[i], IF ks[i] = "a" THEN text ELSE Usual, ports)]
Homes == {h \in [{"a", "b", "a::m", "f", "x"} ->
                   {"core_1", "core_2", "date", "manual/date", "none"}] :
            /\ h["x"] = "core_2" /\ h["f"] \in {"core_1", "date"}
            /\ h["a"] \in {"core_1", "date", "manual/date", "none"}
            /\ h["b"] \in {"core_1", "core_2", "none"}
            /\ h["a::m"] \in {"core_2", "date", "none"}}
Layout(h, text, ports) ==
  [p \in {"manual/date"} \cup ({h[k] : k \in DOMAIN h} \ {"none"}) |->
     IF p = "manual/date" THEN <<Old("g", Usual, {})>> \o Held(h, p, text, ports)
     ELSE Held(h, p, text, ports)]
Home == CHOOSE h \in Homes : h["a"] = "date" /\ h["b"] = "none" /\ h["a::m"] = "date" /\ h["f"] = "core_1"

Begin(h, text, ports, of_f) == [docs |-> Layout(h, text, ports), stubs |-> Stubs(of_f)]
Starts ==
  {Begin(h, Usual, ports, <<One>>) : h \in Homes, ports \in {{}, {1}}}
  \cup {Begin(Home, text, {0, 1}, <<One>>) : text \in Texts}
  \cup {Begin(Home, Usual, {0, 1}, of_f) : of_f \in Arrangements(Variants, 1..3)}
=============================================================================
