--------------------------- MODULE BinaryReduction ---------------------------
(***************************************************************************)
(* "replace binary" of the reducer (Reducer.cpp, ReducerOutputMgr.cpp): a     *)
(* poll prints a statement with each choice of operands that may stand for   *)
(* binary operations, and a later run reads one of these directives back.    *)
(*                                                                          *)
(* An expression is a function of its nodes, node 1 is the whole:            *)
(*   tree[n] = [kind, val, subs]    val: variable, value, operator, function  *)
(***************************************************************************)
EXTENDS Integers, Sequences, FiniteSets

CONSTANTS Trees,
          OpLimit,     \* BINARY_REDUCTION_LIMIT, 18
          AltLimit     \* alternatives of a statement, 10000

VARIABLES tree,
          reduced,       \* map_reduced_invocations: node -> [const, v], a value or a node
          ops,           \* the binary operations that are left to choose for
          left_trees, right_trees,
          single,        \* <<operation, operand>> printed on its own so far
          combinations, choice_at,    \* choices for ops, and the operation that extends them
          alt_stms,      \* [cmd, text], ordered by length
          choosing       \* "find", "limit", "trees", "single", "combine", "print", "over", "endless"

binVars == <<tree, reduced, ops, left_trees, right_trees, single, combinations, choice_at, alt_stms, choosing>>

Node(n) == [const |-> FALSE, v |-> n]
Value(x) == [const |-> TRUE, v |-> x]
IsInvoke(n) == tree[n].kind \in {"bin", "call"}
With(map, n, e) == [m \in DOMAIN map \cup {n} |-> IF m = n THEN e ELSE map[m]]
Without(map, gone) == [m \in DOMAIN map \ gone |-> map[m]]

-----------------------------------------------------------------------------
(* Output of an expression under reductions: a sequence of <<kind, value>> *)

RECURSIVE Text(_, _)
Text(map, e) ==
  IF e.const THEN <<<<"const", e.v>>>>
  ELSE IF e.v \in DOMAIN map THEN Text(map, map[e.v])
  ELSE LET t == tree[e.v]
           args == LET f[i \in 0 .. Len(t.subs)] == IF i = 0 THEN <<>> ELSE f[i - 1] \o Text(map, Node(t.subs[i])) IN f[Len(t.subs)]
       IN IF IsInvoke(e.v) THEN <<<<"open", 0>>, <<t.kind, t.val>>>> \o args \o <<<<"close", 0>>>>
          ELSE <<<<t.kind, t.val>>>>

\* What it computes in an environment of variables; a call returns the number of the function.
RECURSIVE Meaning(_, _, _)
Apply(o, x, y) == CASE o = 1 -> x + y [] o = 2 -> x * y [] o = 3 -> IF y = 0 THEN x ELSE x \div y
Meaning(map, e, env) ==
  IF e.const THEN e.v
  ELSE IF e.v \in DOMAIN map THEN Meaning(map, map[e.v], env)
  ELSE LET t == tree[e.v] IN
       CASE t.kind = "const" -> t.val
         [] t.kind = "var" -> env[t.val]
         [] t.kind = "call" -> t.val
         [] t.kind = "bin" -> Apply(t.val, Meaning(map, Node(t.subs[1]), env), Meaning(map, Node(t.subs[2]), env))

\* real_length: a constant counts as one character, however many digits it has.
real_length(text) == Len(text)

-----------------------------------------------------------------------------
(* find_binary_operations: those that are left, an operation before its operands; *)
(* operations on two constants become constants on the way.                       *)

\* An operand, or what replaces it.
Operand(map, n) == IF IsInvoke(n) /\ n \in DOMAIN map THEN map[n] ELSE Node(n)
Constant(e) == IF e.const THEN {e.v} ELSE IF tree[e.v].kind = "const" THEN {tree[e.v].val} ELSE {}

reduce_const_binary_op(map, n) ==
  LET v1 == Constant(Operand(map, tree[n].subs[1]))
      v2 == Constant(Operand(map, tree[n].subs[2]))
  IN IF v1 # {} /\ v2 # {}
     THEN With(map, n, Value(Apply(tree[n].val, CHOOSE x \in v1 : TRUE, CHOOSE x \in v2 : TRUE)))
     ELSE map

RECURSIVE find_binary_operations(_, _)
\* found = [map, ops].
find_binary_operations(found, e) ==
  IF e.const \/ ~IsInvoke(e.v) THEN found
  ELSE IF e.v \in DOMAIN found.map THEN find_binary_operations(found, found.map[e.v])
  ELSE LET t == tree[e.v]
           map == IF t.kind = "bin" THEN reduce_const_binary_op(found.map, e.v) ELSE found.map
           here == [map |-> map, ops |-> IF t.kind = "bin" /\ e.v \notin DOMAIN map THEN Append(found.ops, e.v) ELSE found.ops]
           f[i \in 0 .. Len(t.subs)] == IF i = 0 THEN here ELSE find_binary_operations(f[i - 1], Node(t.subs[i]))
       IN f[Len(t.subs)]

Operations(map, n) == find_binary_operations([map |-> map, ops |-> <<>>], Node(n)).ops

Same == UNCHANGED <<tree, left_trees, right_trees, single, combinations, choice_at, alt_stms>>

Find ==
  /\ choosing = "find"
  /\ LET found == find_binary_operations([map |-> reduced, ops |-> <<>>], Node(1))
     IN ops' = found.ops /\ reduced' = found.map
  /\ choosing' = "limit" /\ Same

\* limit_binarys: the last operation on simple operands goes.  These are looked for in the
\* expression, not among the operations that are left.
SimpleOps == {s \in DOMAIN ops : \A i \in 1 .. 2 : Operations(reduced, tree[ops[s]].subs[i]) = <<>>}

LimitBinarys ==
  /\ choosing = "limit"
  /\ IF Len(ops) <= OpLimit THEN choosing' = "trees" /\ UNCHANGED ops
     ELSE IF SimpleOps = {} THEN choosing' = "endless" /\ UNCHANGED ops
     ELSE LET s == CHOOSE x \in SimpleOps : \A y \in SimpleOps : y <= x
          IN ops' = SubSeq(ops, 1, s - 1) \o SubSeq(ops, s + 1, Len(ops)) /\ UNCHANGED choosing
  /\ UNCHANGED reduced /\ Same

\* Operations among ops that are in the operand of another one.
Covered(side) ==
  [i \in DOMAIN ops |-> {k \in DOMAIN ops : ops[k] \in {Operations(reduced, tree[ops[i]].subs[side])[j] :
                                                        j \in DOMAIN Operations(reduced, tree[ops[i]].subs[side])}}]

\* build_left_right_binary_trees.
BuildTrees ==
  /\ choosing = "trees"
  /\ left_trees' = Covered(1) /\ right_trees' = Covered(2)
  /\ choosing' = "single"
  /\ UNCHANGED <<tree, reduced, ops, single, combinations, choice_at, alt_stms>>

-----------------------------------------------------------------------------
(* output_alt_exprs *)

\* The reduction stays until the next one: for a mutant.
KeepReduction(map, gone) == map

Erase(map, gone) == Without(map, gone)

OutputSingle ==
  /\ choosing = "single"
  /\ IF Len(single) = 2 * Len(ops)
     THEN /\ choosing' = "combine"
          /\ combinations' = <<[i \in DOMAIN ops |-> 0]>> /\ choice_at' = <<1, 1, 1>>
          /\ UNCHANGED <<single, reduced>>
     ELSE LET n == ops[(Len(single) \div 2) + 1]
              j == (Len(single) % 2) + 1
              map == With(reduced, n, Node(tree[n].subs[j]))
          IN /\ single' = Append(single, [cmd |-> <<<<n, j>>>>, text |-> Text(map, Node(1))])
             /\ reduced' = Erase(map, {n})
             /\ UNCHANGED <<choosing, combinations, choice_at>>
  /\ UNCHANGED <<tree, ops, left_trees, right_trees, alt_stms>>

\* A choice for operation i: those in the other operand are skipped.
Choose(c, i, side) ==
  [k \in DOMAIN c |-> IF k = i THEN side ELSE IF k \in (IF side = 1 THEN right_trees ELSE left_trees)[i] THEN 3 ELSE c[k]]

\* choice_at = <<i, j, len>>: combination j, of the len that were there, is extended at operation i.
\* The reference to right_trees[i] is assigned to for the second choice, so from then on
\* right_trees[i] is the same as left_trees[i].
Combine ==
  LET i == choice_at[1]
      j == choice_at[2]
      len == choice_at[3]
  IN
  /\ choosing = "combine"
  /\ IF i > Len(ops)
     THEN choosing' = "print" /\ choice_at' = <<2, 0, 0>> /\ UNCHANGED <<combinations, right_trees>>
     ELSE LET open == combinations[j][i] = 0
              made == IF open THEN combinations \o <<Choose(combinations[j], i, 1), Choose(combinations[j], i, 2)>> ELSE combinations
          IN /\ combinations' = made
             /\ right_trees' = (IF open THEN [right_trees EXCEPT ![i] = left_trees[i]] ELSE right_trees)
             /\ choice_at' = (IF j = len THEN <<i + 1, 1, Len(made)>> ELSE <<i, j + 1, len>>)
             /\ UNCHANGED choosing
  /\ UNCHANGED <<tree, reduced, ops, left_trees, single, alt_stms>>

insert_alt_stm_cmd(alts, alt) ==
  LET longer == {i \in DOMAIN alts : real_length(alts[i].text) > real_length(alt.text)}
      at == IF longer = {} THEN Len(alts) + 1 ELSE CHOOSE i \in longer : \A j \in longer : i <= j
  IN IF \E i \in 1 .. at - 1 : alts[i].text = alt.text THEN alts
     ELSE SubSeq(alts, 1, at - 1) \o <<alt>> \o SubSeq(alts, at, Len(alts))

\* The combinations but the first one; the loop is left with the reductions in place when there are enough.
PrintCombination ==
  LET at == choice_at[1] IN
  /\ choosing = "print"
  /\ IF at > Len(combinations) THEN choosing' = "over" /\ UNCHANGED <<reduced, alt_stms, choice_at>>
     ELSE LET c == combinations[at]
              chosen == {k \in DOMAIN c : c[k] \in {1, 2}}
              map == [m \in DOMAIN reduced \cup {ops[k] : k \in chosen} |->
                        IF m \in {ops[k] : k \in chosen} THEN Node(tree[m].subs[c[CHOOSE k \in chosen : ops[k] = m]]) ELSE reduced[m]]
              cmd == LET f[k \in 0 .. Len(c)] == IF k = 0 THEN <<>> ELSE IF k \in chosen THEN Append(f[k - 1], <<ops[k], c[k]>>) ELSE f[k - 1]
                     IN f[Len(c)]
              alts == insert_alt_stm_cmd(alt_stms, [cmd |-> cmd, text |-> Text(map, Node(1))])
          IN /\ alt_stms' = alts
             /\ choice_at' = <<at + 1, 0, 0>>
             /\ IF Len(alts) >= AltLimit THEN reduced' = map /\ choosing' = "over"
                ELSE reduced' = Erase(map, {ops[k] : k \in chosen}) /\ UNCHANGED choosing
  /\ UNCHANGED <<tree, ops, left_trees, right_trees, single, combinations>>

Done == choosing \in {"over", "endless"} /\ UNCHANGED binVars

Init ==
  /\ tree \in Trees /\ reduced = <<>> /\ ops = <<>> /\ left_trees = <<>> /\ right_trees = <<>>
  /\ single = <<>> /\ combinations = <<>> /\ choice_at = <<1, 1, 1>> /\ alt_stms = <<>> /\ choosing = "find"

Next == Find \/ LimitBinarys \/ BuildTrees \/ OutputSingle \/ Combine \/ PrintCombination \/ Done

Spec == Init /\ [][Next]_binVars

-----------------------------------------------------------------------------
(* Reading a directive back *)

RECURSIVE find_invoke_by_eid(_, _)
find_invoke_by_eid(n, id) ==
  IF n = id THEN {n} ELSE UNION {find_invoke_by_eid(tree[n].subs[i], id) : i \in DOMAIN tree[n].subs}

config_binary_reduction(cmd) ==
  LET f[i \in 0 .. Len(cmd)] ==
        IF i = 0 THEN <<>>
        ELSE LET n == CHOOSE m \in find_invoke_by_eid(1, cmd[i][1]) : TRUE IN With(f[i - 1], n, Node(tree[n].subs[cmd[i][2]]))
  IN f[Len(cmd)]

-----------------------------------------------------------------------------
(* Properties *)

Environments == {[x \in 1 .. 6 |-> x + 2], [x \in 1 .. 6 |-> (x * x) % 7], [x \in 1 .. 6 |-> 0]}

\* Each printed directive, read back by a run that finds nothing folded, makes the statement beside it.
CommandsReplay ==
  \A alt \in {single[i] : i \in DOMAIN single} \cup {alt_stms[i] : i \in DOMAIN alt_stms} :
    LET map == config_binary_reduction(alt.cmd)
        again == find_binary_operations([map |-> map, ops |-> <<>>], Node(1)).map
    IN Text(again, Node(1)) = alt.text

\* Alternatives are printed once, shorter ones first.
AlternativesOrdered ==
  \A i, j \in DOMAIN alt_stms : i < j =>
    alt_stms[i].text # alt_stms[j].text /\ real_length(alt_stms[i].text) <= real_length(alt_stms[j].text)

\* The statement itself computes what it did, between two directives and behind the listing too,
\* unless that was cut short.
OriginalRestored ==
  choosing \in {"single", "combine", "print", "over"} /\ Len(alt_stms) < AltLimit =>
    \A env \in Environments : Meaning(reduced, Node(1), env) = Meaning(<<>>, Node(1), env)

\* All choices of operands are among the alternatives; the listing was not cut short.
RECURSIVE Choices(_)
Choices(e) ==
  IF e.const \/ ~IsInvoke(e.v) THEN {Text(reduced, e)}
  ELSE IF e.v \in DOMAIN reduced THEN Choices(reduced[e.v])
  ELSE LET t == tree[e.v] IN
       IF t.kind # "bin" THEN {Text(reduced, e)}
       ELSE {<<<<"open", 0>>, <<"bin", t.val>>>> \o x \o y \o <<<<"close", 0>>>> :
               x \in Choices(Node(t.subs[1])), y \in Choices(Node(t.subs[2]))}
            \cup Choices(Node(t.subs[1])) \cup Choices(Node(t.subs[2]))

AllAlternatives ==
  choosing = "over" /\ Len(alt_stms) < AltLimit /\ ops = Operations(reduced, 1) =>
    Choices(Node(1)) \subseteq {alt_stms[i].text : i \in DOMAIN alt_stms} \cup {Text(reduced, Node(1))}

\* The alternatives that are printed for a statement are different ones and can be asked
\* for by their directives, and listing them leaves the statement as it was
\* (ReducerOutputMgr.cpp).
AlternativesSound == CommandsReplay /\ AlternativesOrdered /\ OriginalRestored
=============================================================================
