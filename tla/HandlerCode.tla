---------------------------- MODULE HandlerCode ----------------------------
(***************************************************************************)
(* The compiler of the handler extraction (tools/handler_index.py): parsed *)
(* statements to a flat list of instructions, so that goto, switch and     *)
(* loops are jumps, and the lexical bindings each instruction sees.        *)
(*                                                                         *)
(* A node of syntax is <<kind, attribute, child, ...>>.  Expressions:      *)
(*   num n, name x, unknown, un op e, post op e, cast mask e, bin op a b,  *)
(*   assign op target e, member <<field, arrow>> e, index a i, comma a b,  *)
(*   cond c a b, call callee arg..., init <<path, active>>... e...         *)
(* Statements: expr e, opaque, decl <<name, array>> [e], block s...,       *)
(*   if c s s, while c s, do s c, for s c s s, switch e s, case e,         *)
(*   default, break, continue, return [e], goto l, label l,                *)
(*   cgroup <<g, exhaustive>> branch..., where branch number s... is one   *)
(*   source branch and an exhaustive group has an #else.                   *)
(* Instructions: n, j pc, x e, o, d <<name, array>> [e], r [e],            *)
(*   b <<then, else>> c, s <<case pcs, default, end>> e case-e...,         *)
(*   g <<group, exhaustive, <<number, start>> pairs, end, configuration>>. *)
(* A configuration, the choice a group stands for, is                      *)
(* <<scope, group, exhaustive>>.                                           *)
(***************************************************************************)
EXTENDS Integers, Sequences, FiniteSets, SequencesExt, Functions

ImplicitBranch == -1
None == <<"none">>

\* A binding: one declaration, the alternatives of a source group, or None.
Local(scope, name, array)               == <<"local", scope, name, array>>
Conditional(config, branches, enclosing) == <<"cond", config, branches, enclosing>>
IsLocal(b)       == b[1] = "local"
IsConditional(b) == b[1] = "cond"

\* The regions of a declaration and of a recorded source choice.
LocalRegion(b)  == <<"l", b[2], b[3]>>
ConfigRegion(c) == <<"k", c[1], c[2]>>

Children(node) == {node[i] : i \in 3..Len(node)}

RECURSIVE Nodes(_)
Nodes(node) == {node} \cup UNION {Nodes(child) : child \in Children(node)}

ReferencedNames(node) == {n[2] : n \in {m \in Nodes(node) : m[1] = "name"}}

\* What a branch holds when its evaluation and effects do not depend on memory.
Dependent(node) ==
  \/ node[1] \in {"name", "call", "opaque", "unknown", "cgroup", "assign", "post", "index", "member"}
  \/ node[1] = "un" /\ node[2] \in {"*", "&"}
IndependentBranch(body) == \A s \in Range(body) : \A node \in Nodes(s) : ~Dependent(node)

Bound(bindings, name) == IF name \in DOMAIN bindings THEN bindings[name] ELSE None

\* The bindings after a source group: branches is a sequence of [number, bindings, body].
ConditionalBindings(config, branches, enclosing) ==
  LET names == UNION {DOMAIN b.bindings : b \in Range(branches)}
      In(b, name) == Bound(b.bindings, name)
      body == branches[1].body
      equivalent == (\A b \in Range(branches) : b.body = body) /\ IndependentBranch(body)
      Plain(name) == /\ equivalent /\ IsLocal(In(branches[1], name))
                     /\ \A b \in Range(branches) : In(b, name) = In(branches[1], name)
      Changed(name) == \E b \in Range(branches) : In(b, name) # Bound(enclosing, name)
      explicit == {b \in Range(branches) : b.number # ImplicitBranch}
      Choice(name) ==
        Conditional(config, {<<b.number, In(b, name)>> : b \in explicit}, Bound(enclosing, name))
  IN [name \in DOMAIN enclosing \cup {n \in names : Plain(n) \/ Changed(n)} |->
        IF name \notin names THEN enclosing[name]
        ELSE IF Plain(name) THEN In(branches[1], name)
        ELSE IF Changed(name) THEN Choice(name) ELSE enclosing[name]]

RECURSIVE Configurations(_)
Configurations(b) ==
  IF ~IsConditional(b) THEN {}
  ELSE {b[2]} \cup Configurations(b[4]) \cup UNION {Configurations(choice[2]) : choice \in b[3]}

-----------------------------------------------------------------------------
(* The compiler's state: instructions with the bindings and scopes they    *)
(* were emitted under, the locals of each scope, and the jumps, cases and  *)
(* labels still to be resolved.                                            *)

NewCompiler ==
  [ins |-> <<>>, labels |-> <<>>, heads |-> {}, jumps |-> {}, cases |-> <<>>, default |-> 0,
   breaks |-> {}, continues |-> {}, bindings |-> <<>>, scopes |-> <<>>, owned |-> <<>>]

Here(c) == Len(c.ins) + 1
Emit(c, do) == [c EXCEPT !.ins = Append(@, [do |-> do, bindings |-> c.bindings, scopes |-> c.scopes])]
Replace(c, pc, do) == [c EXCEPT !.ins[pc].do = do]
Patch(c, pcs, target) ==
  [c EXCEPT !.ins = [pc \in DOMAIN @ |-> IF pc \in pcs THEN [@[pc] EXCEPT !.do = <<"j", target>>] ELSE @[pc]]]
Join(c) == Emit(c, <<"n", "">>)
Jump(c) == Emit(c, <<"j", 0>>)
LoopHead(c) == Join([c EXCEPT !.heads = @ \cup {Here(c)}])

Scope(c) == Len(c.owned)
Open(c)  == [c EXCEPT !.scopes = Append(@, Scope(c) + 1), !.owned = Append(@, {})]
Close(c, outer) == [c EXCEPT !.scopes = outer.scopes, !.bindings = outer.bindings]
Own(c, rid) == [c EXCEPT !.owned[Last(c.scopes)] = @ \cup {rid}]

\* A loop or switch body collects its own jumps out; the enclosing ones come back after it.
Resume(c, outer, end, again) ==
  [Patch(Patch(c, c.breaks, end), c.continues, again)
     EXCEPT !.breaks = outer.breaks, !.continues = outer.continues]
Apart(c) == [c EXCEPT !.breaks = {}, !.continues = {}]

Declare(c, node) ==
  LET local == Local(Last(c.scopes), node[2][1], node[2][2])
      seen  == [Own(c, LocalRegion(local)) EXCEPT !.bindings = (local[3] :> local) @@ @]
  IN Emit(seen, <<"d">> \o Tail(node))

RECURSIVE Statement(_, _)
Statements(c, body) == FoldLeft(Statement, c, body)

IfEnd(c, node, then, else) ==
  Replace(Replace(Join(else), Here(c), <<"b", <<Here(c) + 1, Here(then) + 1>>, node[3]>>),
          Here(then), <<"j", Here(else)>>)
IfElse(c, node, then) == IfEnd(c, node, then, Statement(Jump(then), node[5]))
If(c, node) == IfElse(c, node, Statement(Emit(c, <<"b", <<0, 0>>, node[3]>>), node[4]))

\* while, and the loop of a for: head, test, body, step, back to the head.
LoopEnd(c, cond, next, again) ==
  Resume(Replace(Join(Emit(next, <<"j", Here(c)>>)), Here(c) + 1, <<"b", <<Here(c) + 2, Here(next) + 1>>, cond>>),
         c, Here(next) + 1, again)
LoopStep(c, cond, step, run) ==
  IF step = <<>> THEN LoopEnd(c, cond, run, Here(c)) ELSE LoopEnd(c, cond, Emit(run, <<"x", "", step>>), Here(run))
Loop(c, cond, body, step) ==
  LoopStep(c, cond, step, Statement(Apart(Emit(LoopHead(c), <<"b", <<0, 0>>, cond>>)), body))

DoEnd(c, node, run) ==
  Resume(Join(Emit(run, <<"b", <<Here(c), Here(run) + 1>>, node[4]>>)), c, Here(run) + 1, Here(run))
DoLoop(c, node) == DoEnd(c, node, Statement(Apart(LoopHead(c)), node[3]))

SwitchEnd(c, node, body) ==
  LET pcs   == [i \in DOMAIN body.cases |-> body.cases[i][2]]
      tests == [i \in DOMAIN body.cases |-> body.cases[i][1]]
  IN [Patch(Replace(Join(body), Here(c), <<"s", <<pcs, body.default, Here(body)>>, node[3]>> \o tests),
            body.breaks, Here(body))
        EXCEPT !.cases = c.cases, !.default = c.default, !.breaks = c.breaks]
Switch(c, node) ==
  SwitchEnd(c, node, Statement([Emit(c, <<"s", <<>>, node[3]>>)
                                  EXCEPT !.cases = <<>>, !.default = 0, !.breaks = {}], node[4]))

\* The branches of a source group start from the bindings before it.
BranchEnd(acc, node, start, run) ==
  [c |-> Jump(run), starts |-> acc.starts \cup {<<node[2], start>>}, jumps |-> acc.jumps \cup {Here(run)},
   branches |-> Append(acc.branches, [number |-> node[2], bindings |-> run.bindings,
                                      body |-> SubSeq(node, 3, Len(node))])]
SourceBranch(acc, node, outer) ==
  BranchEnd(acc, node, Here(acc.c),
            Statements([acc.c EXCEPT !.bindings = outer.bindings], SubSeq(node, 3, Len(node))))

GroupEnd(c, node, acc, config, visible) ==
  LET chosen == IF visible = c.bindings THEN None ELSE config
      bound  == [acc.c EXCEPT !.bindings = visible]
      end    == Join(IF visible = c.bindings THEN bound ELSE Own(bound, ConfigRegion(config)))
  IN Replace(Patch(end, acc.jumps, Here(acc.c)), Here(c),
             <<"g", <<node[2][1], node[2][2], acc.starts, Here(acc.c), chosen>>>>)
GroupVisible(c, node, acc, config) ==
  LET empty == [number |-> ImplicitBranch, bindings |-> c.bindings, body |-> <<>>]
      all   == IF node[2][2] THEN acc.branches ELSE Append(acc.branches, empty)
  IN GroupEnd(c, node, acc, config, ConditionalBindings(config, all, c.bindings))
Group(c, node) ==
  GroupVisible(c, node,
    FoldLeft(LAMBDA acc, branch : SourceBranch(acc, branch, c),
             [c |-> Emit(c, <<"g", <<>>>>), starts |-> {}, jumps |-> {}, branches |-> <<>>],
             SubSeq(node, 3, Len(node))),
    <<Last(c.scopes), node[2][1], node[2][2]>>)

Statement(c, node) ==
  CASE node[1] = "block"    -> Close(Statements(Open(c), SubSeq(node, 3, Len(node))), c)
    [] node[1] = "expr"     -> Emit(c, <<"x">> \o Tail(node))
    [] node[1] = "opaque"   -> Emit(c, <<"o", "">>)
    [] node[1] = "decl"     -> Declare(c, node)
    [] node[1] = "if"       -> If(c, node)
    [] node[1] = "while"    -> Loop(c, node[3], node[4], <<>>)
    [] node[1] = "do"       -> DoLoop(c, node)
    [] node[1] = "for"      -> Close(Loop(Statement(Open(c), node[3]), node[4], node[6], node[5]), c)
    [] node[1] = "switch"   -> Switch(c, node)
    [] node[1] = "case"     -> Join([c EXCEPT !.cases = Append(@, <<node[3], Here(c)>>)])
    [] node[1] = "default"  -> Join([c EXCEPT !.default = Here(c)])
    [] node[1] = "break"    -> Jump([c EXCEPT !.breaks = @ \cup {Here(c)}])
    [] node[1] = "continue" -> Jump([c EXCEPT !.continues = @ \cup {Here(c)}])
    [] node[1] = "return"   -> Emit(c, <<"r">> \o Tail(node))
    [] node[1] = "goto"     -> Jump([c EXCEPT !.jumps = @ \cup {<<Here(c), node[2]>>}])
    [] node[1] = "label"    -> LoopHead([c EXCEPT !.labels = (node[2] :> Here(c)) @@ @])
    [] node[1] = "cgroup"   -> Group(c, node)
    [] OTHER                -> c

-----------------------------------------------------------------------------
(* The finished code.                                                      *)

\* The names of an instruction whose declaration depends on a source group.
ConditionalNames(i) == {x \in ReferencedNames(i.do) : IsConditional(Bound(i.bindings, x))}

\* A goto to a label the body lacks makes the whole body unreadable.
Unreadable == [failed |-> TRUE, ins |-> <<>>, heads |-> {}, opaque |-> FALSE]

Finished(body, c) ==
  LET Target(pc) == c.labels[(CHOOSE j \in c.jumps : j[1] = pc)[2]]
      required == UNION {UNION {Configurations(i.bindings[x]) : x \in ConditionalNames(i)} : i \in Range(c.ins)}
      Idle(do) == do[1] = "g" /\ do[2][5] # None /\ do[2][5] \notin required
      idle == {ConfigRegion(i.do[2][5]) : i \in {i \in Range(c.ins) : Idle(i.do)}}
      Final(pc, do) ==
        IF \E j \in c.jumps : j[1] = pc THEN <<"j", Target(pc)>>
        ELSE IF Idle(do) THEN <<"g", [do[2] EXCEPT ![5] = None]>> ELSE do
  IN IF \E j \in c.jumps : j[2] \notin DOMAIN c.labels THEN Unreadable
     ELSE [failed |-> FALSE, heads |-> c.heads,
           opaque |-> \E node \in Nodes(body) : node[1] = "opaque",
           ins |-> [pc \in DOMAIN c.ins |->
                      [do |-> Final(pc, c.ins[pc].do), bindings |-> c.ins[pc].bindings,
                       asks |-> ConditionalNames(c.ins[pc]),
                       live |-> UNION {c.owned[s] : s \in Range(c.ins[pc].scopes)} \ idle]]]

Compile(body) == Finished(body, Emit(Statement(NewCompiler, body), <<"r", "">>))
=============================================================================
