-------------------------------- MODULE Facts --------------------------------
(***************************************************************************)
(* The points-to facts of csmith (FactMgr.cpp, FactPointTo.cpp, Fact.cpp):  *)
(* a function is made statement by statement, its blocks are analysed until *)
(* a fixed point, other calls of it revisit it, and it is run.  Effects and *)
(* everything but pointers and control are left out: a branch, an iteration *)
(* and a jump may or may not be taken.                                      *)
(***************************************************************************)
EXTENDS Integers, Sequences, FiniteSets, TLC

CONSTANTS GlobalPtr,    \* a global pointer, at first null
          Target,       \* a global variable that pointers point to
          LocalTargets, \* local ones, made when their address is taken first
          MaxDepth,     \* CGOptions::max_blk_depth
          Plans         \* bound: [kinds, stms, visits, ptrs], a set of kinds of statements,
                        \* a number of them and of calls after the first one, and a
                        \* set of local pointers, made when they are used first

VARIABLES plan,   \* what is made
          fn,     \* [node, blocks, facts, in, out, visited, edges, init]: see below
          open,   \* the contexts of the blocks that are being made
          calls,  \* [in, out]: the global facts before and after every call
          env,    \* the values of the pointers while the function runs
          at      \* the statement that runs next, 0 before and after

fVars == <<plan, fn, open, calls, env, at>>

LocalPtrs == plan.ptrs
Pointers == {GlobalPtr} \cup LocalPtrs
Locals == LocalPtrs \cup LocalTargets
NULL == "null"
garbage == "garbage"

(***************************************************************************)
(* fn.node numbers blocks and statements.  A block has kind, parent,        *)
(* looping, stms, locals, breaks (break_stms) and revisit (need_revisit); a *)
(* statement its block as parent, and "assign" lhs and rhs (a pointer, NULL *)
(* or the variable whose address is taken), "use" ptr, "if" yes and no,     *)
(* "for" body, "goto" dest.  fn.facts, fn.in[s] and fn.out[s] are           *)
(* global_facts, map_facts_in and map_facts_out: from pointers to the sets  *)
(* of what they may point to.  fn.edges are CFG edges.                      *)
(***************************************************************************)
Empty == [v \in {} |-> {}]
AtFacts(map, s) == IF s \in DOMAIN map THEN map[s] ELSE Empty
SetFacts(map, s, facts) == (s :> facts) @@ map
Edge(src, dest, post, back) == [src |-> src, dest |-> dest, post |-> post, back |-> back]
LastStm(m, b) == m.node[b].stms[Len(m.node[b].stms)]
Elems(seq) == {seq[i] : i \in DOMAIN seq}

RECURSIVE Chain(_, _)
Chain(m, b) == IF b = 0 THEN {} ELSE {b} \cup Chain(m, m.node[b].parent)

SubBlocks(m, s) == CASE m.node[s].kind = "if" -> {m.node[s].yes, m.node[s].no}
                     [] m.node[s].kind = "for" -> {m.node[s].body}
                     [] m.node[s].kind = "block" -> {s}
                     [] OTHER -> {}
ContainsStm(m, s, x) == x = s \/ SubBlocks(m, s) \cap Chain(m, m.node[x].parent) # {} \/ x \in SubBlocks(m, s)
LocalsAt(m, b) == UNION {m.node[c].locals : c \in Chain(m, b)}

RECURSIVE LoopChain(_, _)
LoopChain(m, b) == IF b = 0 THEN {} ELSE {b} \cup (IF m.node[b].looping THEN {} ELSE LoopChain(m, m.node[b].parent))

RECURSIVE LoopOf(_, _)
LoopOf(m, b) == IF b = 0 \/ m.node[b].looping THEN b ELSE LoopOf(m, m.node[b].parent)

RECURSIVE MustReturn(_, _), MustJump(_, _)
EscapesBack(m, b) == \E e \in m.edges : e.dest = b /\ ~e.post /\ e.back /\ e.src # b
MustBreakOrReturn(m, b) == Len(m.node[b].stms) > 0 /\ MustReturn(m, LastStm(m, b)) /\ ~EscapesBack(m, b)
MustReturn(m, s) ==
  CASE m.node[s].kind = "return" -> TRUE
    [] m.node[s].kind = "if" -> MustReturn(m, m.node[s].yes) /\ MustReturn(m, m.node[s].no)
    [] m.node[s].kind = "block" -> m.node[s].breaks = {} /\ MustBreakOrReturn(m, s)
    [] OTHER -> FALSE
\* The conditions of jumps are variables.
MustJump(m, s) ==
  CASE m.node[s].kind = "return" -> TRUE
    [] m.node[s].kind = "if" -> MustJump(m, m.node[s].yes) /\ MustJump(m, m.node[s].no)
    [] m.node[s].kind = "block" -> m.node[s].breaks = {} /\ Len(m.node[s].stms) > 0 /\ MustJump(m, LastStm(m, s))
    [] OTHER -> FALSE
FromTailToHead(m, b) == m.node[b].looping /\ Len(m.node[b].stms) > 0 /\ ~MustJump(m, LastStm(m, b))

-----------------------------------------------------------------------------
(* Facts *)

RhsFact(rhs, facts) == IF rhs \in Pointers THEN facts[rhs] ELSE {rhs}
Assigned(m, s, facts) == [facts EXCEPT ![m.node[s].lhs] = RhsFact(m.node[s].rhs, facts)]

IsValidPtr(p, facts) == p \in DOMAIN facts /\ facts[p] \cap {NULL, garbage} = {}

MergeFacts(f, g) == [v \in DOMAIN f \cup DOMAIN g |->
                       (IF v \in DOMAIN f THEN f[v] ELSE {}) \cup (IF v \in DOMAIN g THEN g[v] ELSE {})]

\* A variable without a fact where the jump comes from is not initialised.
MergeJumpFacts(f, jump) == [v \in DOMAIN f |-> f[v] \cup (IF v \in DOMAIN jump THEN jump[v] ELSE {garbage})]
InitFact(m, v) == [x \in {v} |-> {m.init[v]}]

\* Variables that were made since, with their first values.
Makeup(m, f, since) == [v \in DOMAIN f \cup DOMAIN since |-> IF v \in DOMAIN f THEN f[v] ELSE {m.init[v]}]

\* update_facts_for_oos_vars: what leaves its scope.
OutOfScope(vars, f) ==
  [v \in DOMAIN f \ vars |-> IF f[v] \cap vars = {} THEN f[v] ELSE (f[v] \ vars) \cup {garbage}]

VisibleAt(m, v, s) == v \notin Locals \/ v \in LocalsAt(m, m.node[s].parent)
ForDest(m, f, dest) ==
  OutOfScope({v \in DOMAIN f \cup UNION {f[p] : p \in DOMAIN f} :
                ~VisibleAt(m, v, dest) /\ \E b \in m.blocks : v \in m.node[b].locals}, f)

\* What set_fact_out leaves of the facts behind a statement.
FactsOut(m, s, f) ==
  CASE m.node[s].kind \in {"break", "continue"} ->
         OutOfScope(UNION {m.node[b].locals : b \in LoopChain(m, m.node[s].parent)}, f)
    [] m.node[s].kind = "goto" -> ForDest(m, f, m.node[s].dest)
    [] m.node[s].kind = "return" \/ m.node[s].parent = 0 -> OutOfScope(LocalsAt(m, m.node[s].parent), f)
    [] OTHER -> f

SetInOut(m, s, before, after) ==
  [m EXCEPT !.in = SetFacts(@, s, before), !.out = SetFacts(@, s, FactsOut(m, s, after))]

-----------------------------------------------------------------------------
(* Analysis: the result is whether it succeeded, the function, the facts *)

Gotos(m, s) == {e \in m.edges : m.node[e.src].kind = "goto" /\ ContainsStm(m, s, e.src)}
UnfixedGoto(m, s) ==
  \/ \E e \in Gotos(m, s) : e.src \notin m.visited /\ ~ContainsStm(m, s, e.dest)
  \/ \E e \in m.edges :
       /\ m.node[e.src].kind = "goto" /\ e.src \in m.visited /\ ContainsStm(m, s, e.dest)
       /\ LET jump == AtFacts(m.out, e.src)
              there == AtFacts(m.in, e.dest)
          IN \/ jump # Empty /\ there = Empty
             \/ \E v \in DOMAIN there \cap DOMAIN jump : ~(jump[v] \subseteq there[v])

\* A statement that was analysed with the same facts needs no other visit.
Shortcut(m, s, f) ==
  f = AtFacts(m.in, s) /\ m.node[s].kind \notin {"break", "continue", "goto"} /\ ~UnfixedGoto(m, s)

FactsWithEdges(m, s, f) ==
  LET jumps == {e \in m.edges : e.dest = s /\ ~e.post /\ e.src \in m.visited /\ (e.back => s \in m.visited)}
  IN [v \in DOMAIN f |-> f[v] \cup UNION {MergeJumpFacts(f, AtFacts(m.out, e.src))[v] : e \in jumps}]

\* StatementGoto::visit_facts: what its destination knows is stale.
ForgetDest(m, s, f) ==
  LET dest == m.node[s].dest
      last == AtFacts(m.out, s)
  IN IF /\ s \notin m.visited /\ dest \notin m.visited /\ f # last
        /\ DOMAIN f = DOMAIN last /\ \A v \in DOMAIN f : f[v] \subseteq last[v]
       THEN [m EXCEPT !.in = SetFacts(@, dest, Empty), !.out = SetFacts(@, dest, Empty)] ELSE m

RECURSIVE VisitFacts(_, _, _), AnalyzeStms(_, _, _, _), FixedPoint(_, _, _, _, _)

StmVisitFacts(m, s, f) == [VisitFacts(m, s, f) EXCEPT !.m.visited = @ \cup {s}]

Updated(r, s, f) == IF r.ok THEN [r EXCEPT !.m = SetInOut(@, s, f, r.facts)] ELSE r

ValidateAndUpdate(m, s, f) ==
  IF Shortcut(m, s, f)
    THEN [ok |-> TRUE, m |-> [m EXCEPT !.visited = @ \cup {e.src : e \in Gotos(m, s)}], facts |-> AtFacts(m.out, s)]
    ELSE Updated(StmVisitFacts(m, s, f), s, f)

\* The statements of b behind the i-th; fail is the index of the one that fails.
AnalyzeRest(r, b, i) ==
  IF r.ok THEN AnalyzeStms(r.m, b, i + 1, r.facts) ELSE [ok |-> FALSE, m |-> r.m, facts |-> r.facts, fail |-> i]

AnalyzeStms(m, b, i, f) ==
  IF i > Len(m.node[b].stms) THEN [ok |-> TRUE, m |-> m, facts |-> f, fail |-> 0]
  ELSE LET s == m.node[b].stms[i] IN AnalyzeRest(ValidateAndUpdate(m, s, FactsWithEdges(m, s, f)), b, i)

MaxIterations == 8

\* post are the facts at the end of the block, before its variables leave their
\* scope, which only the last analysis of it knows.
KeepPost(next, post) == IF next.ok /\ next.post = Empty THEN [next EXCEPT !.post = post] ELSE next

Again(r, b, f, count) ==
  IF ~r.ok THEN r @@ [post |-> Empty]
  ELSE KeepPost(FixedPoint([SetInOut(r.m, b, f, OutOfScope(r.m.node[b].locals, r.facts)) EXCEPT !.visited = @ \cup {b}],
                           b, f, FALSE, count),
                r.facts)

\* The facts of a turn; a fixed point that is not reached is an assertion that fails.
Turn(m, b, f, once, count) ==
  IF count > MaxIterations THEN [ok |-> TRUE, m |-> [m EXCEPT !.asserts = FALSE], facts |-> f, fail |-> 0, post |-> Empty]
  ELSE IF ~once /\ Shortcut(m, b, f)
    THEN [ok |-> TRUE, m |-> m, facts |-> AtFacts(m.out, b), fail |-> 0, post |-> Empty]
    ELSE Again(AnalyzeStms(m, b, 1, Makeup(m, f, [v \in m.node[b].locals \cap Pointers |-> {}])), b, f, count)

WithBackEdges(m, b, inputs) ==
  LET from == {AtFacts(m.out, e.src) : e \in {x \in m.edges : x.dest = b /\ ~x.post /\ x.back}}
  IN [v \in DOMAIN inputs \cup UNION {DOMAIN g : g \in from} |->
        (IF v \in DOMAIN inputs THEN inputs[v] ELSE {}) \cup UNION {g[v] : g \in {h \in from : v \in DOMAIN h}}]

FixedPoint(m, b, inputs, once, cnt) ==
  Turn(m, b, IF b \in m.visited THEN WithBackEdges(m, b, inputs) ELSE inputs,
       once, IF b \in m.visited THEN cnt + 1 ELSE cnt)

Visited(r, b) ==
  IF r.ok THEN [ok |-> TRUE, m |-> [r.m EXCEPT !.visited = @ \cup {b}], facts |-> AtFacts(r.m.out, b)]
  ELSE [ok |-> FALSE, m |-> r.m, facts |-> r.facts]

VisitBlock(m, b, f) == Visited(FixedPoint(m, b, f, FALSE, 0), b)

\* A branch that must return does not count.
Joined(m, s, before, yes, no) ==
  LET tr == MustReturn(m, m.node[s].yes)
      fr == MustReturn(m, m.node[s].no)
  IN CASE tr /\ fr -> before
       [] tr /\ ~fr -> no
       [] ~tr /\ fr -> yes
       [] OTHER -> MergeFacts(yes, no)

JoinBranches(s, f, yes, no) == IF no.ok THEN [no EXCEPT !.facts = Joined(no.m, s, f, yes.facts, @)] ELSE no
VisitNo(s, f, yes) == IF yes.ok THEN JoinBranches(s, f, yes, VisitBlock(yes.m, yes.m.node[s].no, f)) ELSE yes
VisitIf(m, s, f) == VisitNo(s, f, VisitBlock(m, m.node[s].yes, f))

BreakFacts(m, s, f) ==
  LET breaks == {e \in m.edges : e.dest = s /\ e.post /\ ~e.back}
  IN [v \in DOMAIN f |-> f[v] \cup UNION {MergeJumpFacts(f, AtFacts(m.out, e.src))[v] : e \in breaks}]

AfterFor(m, s, f) == BreakFacts(m, s, IF MustReturn(m, m.node[s].body) THEN f ELSE AtFacts(m.in, m.node[s].body))
BehindFor(r, s, f) == IF r.ok THEN [r EXCEPT !.facts = AfterFor(r.m, s, f)] ELSE r
VisitFor(m, s, f) == BehindFor(VisitBlock(m, m.node[s].body, f), s, f)

VisitFacts(m, s, f) ==
  CASE m.node[s].kind = "assign" ->
         [ok |-> m.node[s].rhs \in Pointers => garbage \notin f[m.node[s].rhs],
          m |-> m, facts |-> IF m.node[s].rhs \in Pointers /\ garbage \in f[m.node[s].rhs] THEN f ELSE Assigned(m, s, f)]
    [] m.node[s].kind = "use" -> [ok |-> IsValidPtr(m.node[s].ptr, f), m |-> m, facts |-> f]
    [] m.node[s].kind = "goto" -> [ok |-> TRUE, m |-> ForgetDest(m, s, f), facts |-> f]
    [] m.node[s].kind = "return" -> [ok |-> TRUE, m |-> [m EXCEPT !.out = SetFacts(@, s, FactsOut(m, s, f))], facts |-> f]
    [] m.node[s].kind = "if" -> VisitIf(m, s, f)
    [] m.node[s].kind = "for" -> VisitFor(m, s, f)
    [] OTHER -> [ok |-> TRUE, m |-> m, facts |-> f]

-----------------------------------------------------------------------------
(* Statements that are deleted *)

RECURSIVE RemoveStm(_, _, _), RemoveJumpsInto(_, _), RemoveFrom(_, _, _)

RemoveStm(m, b, s) ==
  LET jumps == {x \in DOMAIN m.node : m.node[x].kind \in {"break", "continue", "goto"} /\ ContainsStm(m, s, x)}
      loop == LoopOf(m, b)
      m1 == [m EXCEPT !.edges = {e \in @ : e.src \notin jumps}]
      m2 == RemoveJumpsInto(IF loop = 0 THEN m1 ELSE [m1 EXCEPT !.node[loop].breaks = @ \ jumps], s)
  IN [m2 EXCEPT !.blocks = {c \in @ : ~ContainsStm(m, s, c)},
                !.node[b].stms = SelectSeq(@, LAMBDA x : x # s)]

\* A goto goes with its destination.
RemoveJumpsInto(m, s) ==
  LET into == {e \in m.edges : ContainsStm(m, s, e.dest)}
      e == CHOOSE x \in into : TRUE
      m1 == [m EXCEPT !.edges = @ \ {e}]
  IN IF into = {} THEN m
     ELSE RemoveJumpsInto(IF m.node[e.src].kind = "goto" THEN RemoveStm(m1, m.node[e.src].parent, e.src) ELSE m1, s)

\* The statement at i and all that follow.
RemoveFrom(m, b, i) ==
  IF i > Len(m.node[b].stms) THEN m ELSE RemoveFrom(RemoveStm(m, b, m.node[b].stms[i]), b, i)

ResetMaps(m, b) ==
  LET inside == {x \in DOMAIN m.node : ContainsStm(m, b, x)} IN
  [m EXCEPT !.in = [x \in DOMAIN @ \cup inside |-> IF x \in inside THEN Empty ELSE @[x]],
            !.out = [x \in DOMAIN @ \cup inside |-> IF x \in inside THEN Empty ELSE @[x]]]

-----------------------------------------------------------------------------
(* post_creation_analysis *)

AddNode(m, node) == [m EXCEPT !.node = Append(@, node)]
NewId(m) == Len(m.node) + 1
CloseLoop(m, b) == [m EXCEPT !.edges = @ \cup {Edge(b, b, FALSE, TRUE)}]

\* Whatever makes the analysis of the block fail, once it loops, is deleted.
RECURSIVE Settle(_, _, _, _)
Settle(m, b, inputs, post) ==
  LET r == FixedPoint(m, b, inputs, m.node[b].revisit, 0)
      after == IF r.post = Empty THEN post ELSE r.post
  IN IF r.ok THEN [m |-> [r.m EXCEPT !.facts = AtFacts(r.m.out, b)], post |-> after]
     ELSE LET cut == ResetMaps([RemoveFrom(r.m, b, r.fail) EXCEPT !.node[b].revisit = TRUE], b)
          IN Settle(IF FromTailToHead(cut, b) THEN CloseLoop(cut, b) ELSE cut, b, inputs, after)

AppendReturn(m, b, post) ==
  LET s == NewId(m)
      m1 == AddNode(m, [kind |-> "return", parent |-> b])
      m2 == SetInOut([m1 EXCEPT !.node[b].stms = Append(@, s), !.facts = post, !.visited = @ \cup {s}], s, post, post)
  IN [m2 EXCEPT !.out = SetFacts(@, b, m2.out[s])]

BlockPostCreation(m, b) ==
  LET left == OutOfScope(m.node[b].locals, m.facts)
      m1 == [m EXCEPT !.visited = @ \cup {b}, !.facts = left, !.out = SetFacts(@, b, left)]
      loopBody == m.node[b].looping /\ ~MustBreakOrReturn(m, b)
      m2 == IF loopBody /\ FromTailToHead(m1, b) THEN CloseLoop(m1, b) ELSE m1
      r == IF loopBody \/ m.node[b].revisit \/ \E e \in m.edges : e.dest = b /\ ~e.post /\ e.back
             THEN Settle(m2, b, m2.in[b], m.facts) ELSE [m |-> m1, post |-> m.facts]
  IN IF m.node[b].parent = 0 /\ "return" \in plan.kinds /\ ~MustReturn(r.m, b) THEN AppendReturn(r.m, b, r.post) ELSE r.m

\* Statement::post_creation_analysis; pre are the facts in front of it.
PostCreation(m, s, pre) ==
  LET yes == AtFacts(m.out, m.node[s].yes)   \* of the branches of an if
      no == AtFacts(m.out, m.node[s].no)
      before == IF m.node[s].kind = "if" THEN Makeup(m, Makeup(m, pre, yes), no) ELSE Makeup(m, pre, m.facts)
      after == CASE m.node[s].kind = "if" ->
                      (IF MustReturn(m, m.node[s].no) /\ ~MustReturn(m, m.node[s].yes)
                         THEN Makeup(m, yes, AtFacts(m.in, m.node[s].no)) ELSE Joined(m, s, before, yes, no))
                 [] m.node[s].kind = "assign" -> Assigned(m, s, m.facts)
                 [] OTHER -> m.facts
  IN SetInOut([m EXCEPT !.facts = after, !.visited = @ \cup {s}], s, before, after)

-----------------------------------------------------------------------------
(* The function is made *)

Top == open[Len(open)]
Current == Top.block
Stms(b) == fn.node[b].stms
\* What the blocks that are open need before they can be closed counts.
Made == Cardinality({s \in DOMAIN fn.node : fn.node[s].kind # "block"})
        + Cardinality({i \in DOMAIN open : open[i].kind # "body"}) + Cardinality({i \in DOMAIN open : open[i].kind = "yes"})
Ended == IF Stms(Current) = <<>> THEN FALSE ELSE MustReturn(fn, LastStm(fn, Current))
MayAppend == open # <<>> /\ Made < plan.stms /\ ~Ended
InLoop == LoopOf(fn, Current) # 0

NewBlock(parent, looping) ==
  [kind |-> "block", parent |-> parent, looping |-> looping, stms |-> <<>>, locals |-> {}, breaks |-> {}, revisit |-> FALSE]
OpenBlock(m, parent, looping) ==
  [AddNode(m, NewBlock(parent, looping)) EXCEPT !.blocks = @ \cup {NewId(m)}, !.in = SetFacts(@, NewId(m), m.facts)]

\* s is the last statement of its block.
AppendStm(m, node, pre) ==
  LET s == NewId(m) IN
  PostCreation([AddNode(m, node) EXCEPT !.node[node.parent].stms = Append(@, s)], s, pre)

\* The block that gets a local: no jump enters it.
RECURSIVE ExpandForGoto(_, _)
ExpandForGoto(m, b) ==
  LET into == {e \in m.edges : m.node[e.src].kind = "goto" /\ ContainsStm(m, b, e.dest) /\ ~ContainsStm(m, b, e.src)}
  IN IF into = {} THEN b ELSE ExpandForGoto(m, m.node[b].parent)

\* Behind s a local of blk is visible (add_fact_out).
VisibleBehind(m, s, blk) ==
  /\ blk \in Chain(m, m.node[s].parent)
  /\ m.node[s].kind # "return"
  /\ m.node[s].kind \in {"break", "continue"} => blk \in Chain(m, m.node[LoopOf(m, m.node[s].parent)].parent)
  /\ m.node[s].kind = "goto" => blk \in Chain(m, m.node[m.node[s].dest].parent)

\* A local is declared; facts about a pointer are added wherever it is visible.
Declare(m, v, blk, init) ==
  LET m1 == [m EXCEPT !.node[blk].locals = @ \cup {v}, !.init = (v :> init) @@ @]
      add(f) == InitFact(m1, v) @@ f
  IN IF v \notin LocalPtrs THEN m1
     ELSE [m1 EXCEPT !.facts = add(@),
                     !.in = [s \in DOMAIN @ |-> IF blk \in Chain(m, m.node[s].parent) THEN add(@[s]) ELSE @[s]],
                     !.out = [s \in DOMAIN @ |-> IF VisibleBehind(m, s, blk) THEN add(@[s]) ELSE @[s]]]

Fresh(m, v) == v \in Locals /\ \A s \in DOMAIN m.node : m.node[s].kind = "block" => v \notin m.node[s].locals

\* v is visible, or it is made for this expression in a block around it.
WithVar(m, v, values) ==
  IF v \notin Locals \/ v \in LocalsAt(m, Current) THEN {m}
  ELSE IF ~Fresh(m, v) THEN {}
  ELSE {Declare(m, v, ExpandForGoto(m, b), init) :
          b \in Chain(m, Current), init \in (IF v \in LocalPtrs THEN values ELSE {NULL})}

MakeAssign ==
  /\ "assign" \in plan.kinds /\ MayAppend
  /\ \E p \in Pointers, rhs \in {NULL, Target} \cup LocalTargets \cup Pointers :
       /\ rhs # p
       /\ \E m1 \in WithVar(fn, rhs, {Target}) : \E m2 \in WithVar(m1, p, {NULL, Target}) :
            /\ rhs \in Pointers => garbage \notin m1.facts[rhs]
            /\ fn' = AppendStm(m2, [kind |-> "assign", parent |-> Current, lhs |-> p, rhs |-> rhs], fn.facts)
  /\ UNCHANGED <<plan, open, calls, env, at>>

MakeUse ==
  /\ "use" \in plan.kinds /\ MayAppend
  /\ \E p \in Pointers : \E m \in WithVar(fn, p, {Target}) :
       /\ IsValidPtr(p, m.facts)
       /\ fn' = AppendStm(m, [kind |-> "use", parent |-> Current, ptr |-> p], fn.facts)
  /\ UNCHANGED <<plan, open, calls, env, at>>

MakeReturn ==
  /\ "return" \in plan.kinds /\ MayAppend
  /\ fn' = AppendStm(fn, [kind |-> "return", parent |-> Current], fn.facts)
  /\ UNCHANGED <<plan, open, calls, env, at>>

MakeBreak ==
  /\ "break" \in plan.kinds /\ MayAppend /\ InLoop
  /\ fn' = AppendStm([fn EXCEPT !.node[LoopOf(fn, Current)].breaks = @ \cup {NewId(fn)}],
                     [kind |-> "break", parent |-> Current], fn.facts)
  /\ UNCHANGED <<plan, open, calls, env, at>>

MakeContinue ==
  /\ "continue" \in plan.kinds /\ MayAppend /\ InLoop /\ Stms(Current) # <<>>
  /\ fn' = AppendStm([fn EXCEPT !.edges = @ \cup {Edge(NewId(fn), LoopOf(fn, Current), FALSE, TRUE)}],
                     [kind |-> "continue", parent |-> Current], fn.facts)
  /\ UNCHANGED <<plan, open, calls, env, at>>

\* Jumps that skip the first value of a local.
Skips(m, src, dest) == UNION {m.node[b].locals : b \in Chain(m, dest) \ Chain(m, src)} # {}
GoodBlock(b, asDest) ==
  /\ Stms(b) # <<>>
  /\ IF asDest THEN TRUE ELSE Stms(Current) # <<>> /\ ~(Len(Stms(b)) = 1 /\ fn.node[Stms(b)[1]].kind = "return")
  /\ b = Current \/ (IF asDest THEN ~Skips(fn, Current, b) ELSE ~Skips(fn, b, Current))
LastOrNone == IF Stms(Current) = <<>> THEN 0 ELSE LastStm(fn, Current)
GoodStms(b) == {s \in Elems(Stms(b)) : s # LastOrNone /\ ~MustReturn(fn, s)}

RECURSIVE Around(_, _, _)
Around(m, b, s) == IF ContainsStm(m, b, s) THEN b ELSE Around(m, m.node[b].parent, s)

JumpBack ==
  /\ "goto" \in plan.kinds /\ MayAppend
  /\ \E b \in fn.blocks :
       /\ GoodBlock(b, TRUE)
       /\ \E s \in GoodStms(b) :
            fn' = AppendStm([fn EXCEPT !.edges = @ \cup {Edge(NewId(fn), s, FALSE, TRUE)},
                                       !.node[Around(fn, Current, s)].revisit = TRUE],
                            [kind |-> "goto", parent |-> Current, dest |-> s], fn.facts)
  /\ UNCHANGED <<plan, open, calls, env, at>>

InsertAfter(seq, x, y) ==
  LET i == CHOOSE j \in DOMAIN seq : seq[j] = x IN SubSeq(seq, 1, i) \o <<y>> \o SubSeq(seq, i + 1, Len(seq))

\* From behind other to stm, the last statement so far, which is analysed with
\* what the jump adds; where that fails there is no jump.
JumpForward(other, stm) ==
  LET gotoIn(m) == IF fn.node[other].kind \in {"break", "continue", "goto"} THEN m.in[other] ELSE m.out[other]
      gotoOut == ForDest(fn, gotoIn(fn), stm)
      stmIn == MergeJumpFacts(fn.in[stm], gotoOut)
      new == stmIn # fn.in[stm]
      r == StmVisitFacts(fn, stm, stmIn)
      m1 == IF new THEN SetInOut(r.m, stm, stmIn, r.facts) ELSE fn
      lastOut == IF new /\ ContainsStm(fn, stm, other) THEN MergeFacts(gotoOut, ForDest(fn, gotoIn(r.m), stm)) ELSE gotoOut
      sg == NewId(fn)
      m2 == [AddNode(m1, [kind |-> "goto", parent |-> fn.node[other].parent, dest |-> stm])
               EXCEPT !.node[fn.node[other].parent].stms = InsertAfter(@, other, sg),
                      !.in = SetFacts(@, sg, gotoIn(IF new THEN r.m ELSE fn)), !.out = SetFacts(@, sg, lastOut),
                      !.visited = @ \cup {sg}, !.edges = @ \cup {Edge(sg, stm, FALSE, FALSE)}]
      control == fn.node[stm].kind \in {"break", "continue", "goto", "return"}
  IN [m2 EXCEPT !.facts = IF control THEN m2.in[stm] ELSE m2.out[stm]]

MakeJumpForward ==
  /\ "goto" \in plan.kinds /\ MayAppend
  /\ \E b \in fn.blocks :
       /\ GoodBlock(b, FALSE)
       /\ \E s \in GoodStms(b) :
            /\ LET stm == LastStm(fn, Current)
                   gotoIn == IF fn.node[s].kind \in {"break", "continue", "goto"} THEN fn.in[s] ELSE fn.out[s]
                   stmIn == MergeJumpFacts(fn.in[stm], ForDest(fn, gotoIn, stm))
               IN stmIn # fn.in[stm] => StmVisitFacts(fn, stm, stmIn).ok
            /\ fn' = JumpForward(s, LastStm(fn, Current))
  /\ UNCHANGED <<plan, open, calls, env, at>>

OpenIf ==
  /\ "if" \in plan.kinds /\ MayAppend /\ Made + 3 <= plan.stms /\ Len(open) <= MaxDepth
  /\ open' = Append(open, [kind |-> "yes", block |-> NewId(fn), pre |-> fn.facts, yes |-> 0])
  /\ fn' = OpenBlock(fn, Current, FALSE)
  /\ UNCHANGED <<plan, calls, env, at>>

OpenFor ==
  /\ "for" \in plan.kinds /\ MayAppend /\ Made + 2 <= plan.stms /\ Len(open) <= MaxDepth
  /\ open' = Append(open, [kind |-> "for", block |-> NewId(fn), pre |-> fn.facts, yes |-> 0])
  /\ fn' = OpenBlock(fn, Current, TRUE)
  /\ UNCHANGED <<plan, calls, env, at>>

Closing(kind) == open # <<>> /\ Top.kind = kind /\ Stms(Current) # <<>>
Popped == SubSeq(open, 1, Len(open) - 1)
Outer == open[Len(open) - 1].block

\* The other branch starts with the facts in front of the first one.
CloseYes ==
  /\ Closing("yes")
  /\ \E m \in {BlockPostCreation(fn, Current)} :
       /\ fn' = OpenBlock([m EXCEPT !.facts = m.in[Current]], Outer, FALSE)
       /\ open' = Append(Popped, [Top EXCEPT !.kind = "no", !.block = NewId(m), !.yes = Current])
  /\ UNCHANGED <<plan, calls, env, at>>

CloseIf ==
  /\ Closing("no")
  /\ fn' = AppendStm(BlockPostCreation(fn, Current), [kind |-> "if", parent |-> Outer, yes |-> Top.yes, no |-> Current], Top.pre)
  /\ open' = Popped /\ UNCHANGED <<plan, calls, env, at>>

\* post_loop_analysis: the facts behind the loop are those in front of its body.
CloseFor ==
  /\ Closing("for")
  /\ \E m \in {BlockPostCreation(fn, Current)} :
       LET s == NewId(m)
           after == IF MustReturn(m, Current) THEN Makeup(m, Top.pre, m.in[Current]) ELSE m.in[Current]
           m1 == [m EXCEPT !.edges = @ \cup {Edge(x, s, TRUE, FALSE) : x \in m.node[Current].breaks}]
       IN fn' = AppendStm([m1 EXCEPT !.facts = BreakFacts(m1, s, after)], [kind |-> "for", parent |-> Outer, body |-> Current], Top.pre)
  /\ open' = Popped /\ UNCHANGED <<plan, calls, env, at>>

\* Only the end of the function counts: for a mutant.
NoReturnFacts(m) == Empty

ReturnFacts(m) ==
  LET out == {m.out[s] : s \in {x \in DOMAIN m.node : m.node[x].kind = "return" /\ x \in DOMAIN m.out}}
  IN IF out = {} THEN Empty ELSE [v \in {GlobalPtr} |-> UNION {f[v] : f \in {g \in out : v \in DOMAIN g}}]

CloseBody ==
  /\ Closing("body")
  /\ \E m \in {BlockPostCreation(fn, Current)} :
       /\ fn' = m
       /\ calls' = Append(calls, [in |-> m.in[Current][GlobalPtr], out |-> MergeFacts(m.out[Current], ReturnFacts(m))[GlobalPtr]])
  /\ open' = <<>> /\ UNCHANGED <<plan, env, at>>

-----------------------------------------------------------------------------
(* Other calls, and a run of the last one *)

Body == 1
FactSets == {{NULL}, {Target}, {NULL, Target}}
Running == env # Empty

\* A visit that fails leaves the maps as they were; there is no such call.
Revisit ==
  /\ open = <<>> /\ ~Running /\ Len(calls) <= plan.visits
  /\ \E f \in FactSets :
       LET m == [fn EXCEPT !.visited = {}]
           r == VisitBlock(m, Body, [v \in {GlobalPtr} |-> f])
       IN IF r.ok
            THEN /\ fn' = r.m
                 /\ calls' = Append(calls, [in |-> f, out |-> MergeFacts(r.facts, ReturnFacts(r.m))[GlobalPtr]])
            ELSE fn' = [r.m EXCEPT !.in = fn.in, !.out = fn.out] /\ UNCHANGED calls
  /\ UNCHANGED <<plan, open, env, at>>

RECURSIVE AfterStm(_, _), EnterBlock(_, _)

\* What points to the locals of the blocks that are left dangles.
Leave(blocks, e) ==
  LET gone == UNION {fn.node[b].locals : b \in blocks}
  IN [v \in DOMAIN e \ gone |-> IF e[v] \in gone THEN garbage ELSE e[v]]
Owner(b) == CHOOSE s \in DOMAIN fn.node : fn.node[s].kind \in {"if", "for"} /\ b \in SubBlocks(fn, s)
AfterLoop(b, e) == EnterBlock(b, e) \cup AfterStm(Owner(b), e)

\* Where control may be then: [at, env].
EnterBlock(b, e) ==
  IF Stms(b) = <<>> THEN (IF b = Body THEN {[at |-> 0, env |-> e]} ELSE AfterStm(Owner(b), e))
  ELSE {[at |-> Stms(b)[1], env |-> [v \in fn.node[b].locals \cap LocalPtrs |-> fn.init[v]] @@ e]}

AfterStm(s, e) ==
  LET b == fn.node[s].parent
      i == CHOOSE j \in DOMAIN Stms(b) : Stms(b)[j] = s
      left == Leave({b}, e)
  IN IF i < Len(Stms(b)) THEN {[at |-> Stms(b)[i + 1], env |-> e]}
     ELSE IF b = Body THEN {[at |-> 0, env |-> left]}
     ELSE IF fn.node[b].looping THEN AfterLoop(b, left) ELSE AfterStm(Owner(b), left)

Jump(s, dest, e) ==
  LET to == Chain(fn, fn.node[dest].parent)
      from == Chain(fn, fn.node[s].parent)
  IN [at |-> dest, env |-> [v \in UNION {fn.node[b].locals : b \in to \ from} \cap LocalPtrs |-> garbage] @@ Leave(from \ to, e)]

Successors(s, e) ==
  LET n == fn.node[s]
      loop == LoopOf(fn, n.parent)
      left == Leave(LoopChain(fn, n.parent), e)
  IN CASE n.kind = "assign" -> AfterStm(s, [e EXCEPT ![n.lhs] = IF n.rhs \in Pointers THEN e[n.rhs] ELSE n.rhs])
       [] n.kind = "use" -> AfterStm(s, e)
       [] n.kind = "if" -> EnterBlock(n.yes, e) \cup EnterBlock(n.no, e)
       [] n.kind = "for" -> EnterBlock(n.body, e) \cup AfterStm(s, e)
       [] n.kind = "break" -> AfterStm(s, e) \cup AfterStm(Owner(loop), left)
       [] n.kind = "continue" -> AfterStm(s, e) \cup AfterLoop(loop, left)
       [] n.kind = "goto" -> AfterStm(s, e) \cup {Jump(s, n.dest, e)}
       [] n.kind = "return" -> {[at |-> 0, env |-> Leave(Chain(fn, n.parent), e)]}

Run ==
  /\ open = <<>> /\ ~Running
  /\ \E v \in calls[Len(calls)].in : \E c \in EnterBlock(Body, [x \in {GlobalPtr} |-> v]) : env' = c.env /\ at' = c.at
  /\ UNCHANGED <<plan, fn, open, calls>>

Step ==
  /\ Running /\ at # 0
  /\ \E c \in Successors(at, env) : env' = c.env /\ at' = c.at
  /\ UNCHANGED <<plan, fn, open, calls>>

Done == Running /\ at = 0 /\ UNCHANGED fVars

Blank(f) == [node |-> <<>>, blocks |-> {}, facts |-> f, in |-> [s \in {} |-> Empty], out |-> [s \in {} |-> Empty],
             visited |-> {}, edges |-> {}, init |-> [v \in {} |-> NULL], asserts |-> TRUE]

Init ==
  /\ plan \in Plans
  /\ \E f \in FactSets : (f # {Target} => plan.visits > 0) /\ fn = OpenBlock(Blank([v \in {GlobalPtr} |-> f]), 0, FALSE)
  /\ open = <<[kind |-> "body", block |-> Body, pre |-> Empty, yes |-> 0]>>
  /\ calls = <<>> /\ env = Empty /\ at = 0

Next == \/ MakeAssign \/ MakeUse \/ MakeReturn \/ MakeBreak \/ MakeContinue \/ JumpBack \/ MakeJumpForward
        \/ OpenIf \/ OpenFor \/ CloseYes \/ CloseIf \/ CloseFor \/ CloseBody
        \/ Revisit \/ Run \/ Step \/ Done

Spec == Init /\ [][Next]_fVars

-----------------------------------------------------------------------------
(* Properties *)

\* No run dereferences a null or dangling pointer, or reads a dangling one,
\* whichever jumps are taken and whatever the analysis took a shortcut for
\* (Statement.cpp:605, FactPointTo.cpp:420).
DereferencesValid ==
  Running /\ at # 0 =>
    /\ fn.node[at].kind = "use" => env[fn.node[at].ptr] \notin {NULL, garbage}
    /\ fn.node[at].kind = "assign" /\ fn.node[at].rhs \in Pointers => env[fn.node[at].rhs] # garbage

\* In front of every statement the facts have the value of every pointer, and
\* what a call hands back has the one it leaves, through breaks, early returns,
\* jumps and loops, and for calls that are analysed later (FactMgr.cpp:530).
FactsCover ==
  Running =>
    IF at = 0 THEN env[GlobalPtr] \in calls[Len(calls)].out
    ELSE \A v \in DOMAIN env : v \in DOMAIN fn.in[at] /\ env[v] \in fn.in[at][v]

\* No goto skips the first value of a local, of one that is made later either
\* (StatementGoto.cpp:66, VariableSelector.cpp:769).
NothingSkipped ==
  \A e \in fn.edges : fn.node[e.src].kind = "goto" => ~Skips(fn, fn.node[e.src].parent, fn.node[e.dest].parent)

\* A fixed point is always reached (Block.cpp:603 asserts it).
FixedPointReached == fn.asserts

\* The points-to analysis says no less than any run does, with gotos that are made later
\* and calls that are analysed again, and so the pointers it lets statements use are
\* valid (FactMgr.cpp:530, Statement.cpp:605).
FactsSound == FixedPointReached /\ NothingSkipped /\ FactsCover /\ DereferencesValid
=============================================================================
