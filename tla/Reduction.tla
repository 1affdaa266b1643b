------------------------------ MODULE Reduction ------------------------------
(***************************************************************************)
(* --reduce (Reducer.cpp, ReducerOutputMgr.cpp): the file of directives      *)
(* marks blocks as active and replaces statements, calls and branches; a     *)
(* walk from main finds the variables, functions and labels that are still   *)
(* used; and the program is printed without the rest.                        *)
(*                                                                          *)
(* A program has statements, blocks (numbered apart), functions and calls:   *)
(*   stms[s]  = [kind, up, uses, call, subs, dest]    call, dest: 0 is none   *)
(*   blocks[b] = [stms, up, func]                     up: 0 for a body        *)
(*   funcs[f] = [body, params]                                              *)
(*   calls[c] = [func, args: sets of variables, inner: the call in each, or 0] *)
(*     func: 0 for a binary operation, which has two arguments               *)
(*   address[v]: the variable whose address initialises v, or 0               *)
(***************************************************************************)
EXTENDS Integers, Sequences, FiniteSets

CONSTANTS Programs,
          ActiveSets(_),   \* sets of blocks that a run has entered
          MaxDirectives    \* other directives of a file

VARIABLES source,         \* the program
          directives,     \* read so far
          monitored_var, drop_params,
          active_blks,    \* map_active_blks
          replaced,       \* replaced_stms: statement or block -> a block, or 0
          pre_assigns,    \* map_pre_stm_assigns: -> variables that are assigned
          invocations,    \* map_reduced_invocations: call -> [vars, call] of what replaces it
          must_use,       \* must_use_var_stms
          must_visit,     \* must_use_var_invocations
          used_vars, used_funcs, used_labels, all_blks,
          todo,           \* the recursion of the walk; <<>> when it has ended
          stage,          \* "configure", "walk" or "done"
          output

redVars == <<source, directives, monitored_var, drop_params, active_blks, replaced, pre_assigns, invocations, must_use, must_visit,
             used_vars, used_funcs, used_labels, all_blks, todo, stage, output>>

-----------------------------------------------------------------------------
(* The program *)

Stms == DOMAIN source.stms
Blks == DOMAIN source.blocks
Kind(s) == IF s \in Blks THEN "block" ELSE source.stms[s].kind
SubBlocks(s) == IF s \in Blks THEN <<s>> ELSE source.stms[s].subs
Holder(n) == IF n \in Blks THEN source.blocks[n].up ELSE source.stms[n].up
FuncOf(s) == source.blocks[source.stms[s].up].func
Elements(q) == {q[i] : i \in DOMAIN q}
Flatten(q) == LET f[n \in 0 .. Len(q)] == IF n = 0 THEN <<>> ELSE f[n - 1] \o q[n] IN f[Len(q)]
Put(f, x, v) == [y \in DOMAIN f \cup {x} |-> IF y = x THEN v ELSE f[y]]
Get(f, x) == IF x \in DOMAIN f THEN f[x] ELSE {}

\* find_container_stm: 0 for a statement of a body.
find_container_stm(n) ==
  LET b == IF n \in Blks THEN n ELSE Holder(n)
      c == {s \in Stms : b \in Elements(source.stms[s].subs)}
  IN IF c = {} THEN 0 ELSE CHOOSE s \in c : TRUE

is_blk_deleted(b) == DOMAIN active_blks # {} /\ b \notin DOMAIN active_blks
find_jump_label(s) == IF \E g \in Stms : source.stms[g].dest = s THEN {s} ELSE {}

RECURSIVE Inside(_, _)
\* Statements in n, itself too, in blocks of the given set.
Inside(n, blks) ==
  ({n} \cap Stms) \cup UNION {UNION {Inside(s, blks) : s \in Elements(source.blocks[b].stms)} : b \in Elements(SubBlocks(n)) \cap blks}

find_contained_labels(n) == UNION {find_jump_label(s) : s \in Inside(n, Blks)}
find_required_labels(n) == used_labels \cap UNION {find_jump_label(s) : s \in Inside(n, {b \in Blks : ~is_blk_deleted(b)})}

\* Only the label of the statement itself is kept: for a mutant.
OwnLabel(s, alt) == used_labels \cap find_jump_label(s)

find_missing_labels(s, alt) == (used_labels \cap find_contained_labels(s)) \ (IF alt = 0 THEN {} ELSE find_contained_labels(alt))

is_var_used(v) == v \in used_vars
is_param_dropped(f, i) == drop_params /\ stage # "configure" /\ ~is_var_used(source.funcs[f].params[i])

RECURSIVE StatementsAfter(_, _, _)
\* delete_stms_after: those behind s; behind the statements around it as well.
StatementsAfter(s, include_parent_blks, active) ==
  LET q == source.blocks[Holder(s)].stms
      up == find_container_stm(s)
      body == source.blocks[source.funcs[FuncOf(s)].body].stms
      at == CHOOSE i \in DOMAIN q : q[i] = s
      addBack(t) == \E b \in Elements(SubBlocks(t)) \cap DOMAIN active : active[b] = 0
  IN {t \in {q[i] : i \in at + 1 .. Len(q)} : find_required_labels(t) = {} /\ t # body[Len(body)] /\ ~addBack(t)}
     \cup (IF include_parent_blks /\ up # 0 THEN StatementsAfter(up, TRUE, active) ELSE {})

\* replace_stm with nothing, for a set of statements.
Drop(map, gone) == [s \in DOMAIN map \cup gone |-> IF s \in gone THEN 0 ELSE map[s]]

-----------------------------------------------------------------------------
(* Directives *)

Configure == stage = "configure" /\ directives < MaxDirectives /\ directives' = directives + 1
Walked == <<used_funcs, used_labels, all_blks, todo, stage, output>>

\* "focus variable", "keep variable".
FocusVariable(v) ==
  /\ Configure /\ used_vars' = used_vars \cup {v}
  /\ monitored_var' \in {v, monitored_var}
  /\ UNCHANGED <<source, drop_params, active_blks, replaced, pre_assigns, invocations, must_use, must_visit>> /\ UNCHANGED Walked

DropParameters ==
  /\ Configure /\ ~drop_params /\ drop_params' = TRUE
  /\ UNCHANGED <<source, monitored_var, active_blks, replaced, pre_assigns, invocations, must_use, must_visit, used_vars>> /\ UNCHANGED Walked

\* config_active_blks with a count of 0: the blocks around b are put back as well, up to one that is there.
RECURSIVE Around(_)
Around(b) == IF b = 0 \/ b \in DOMAIN active_blks THEN {} ELSE {b} \cup Around(Holder(b))

RollBackBlock(b) ==
  /\ Configure /\ DOMAIN active_blks # {} /\ b \notin DOMAIN active_blks
  /\ active_blks' = [c \in DOMAIN active_blks \cup {b} \cup Around(Holder(b)) |-> IF c \in DOMAIN active_blks THEN active_blks[c] ELSE 0]
  /\ UNCHANGED <<source, monitored_var, drop_params, replaced, pre_assigns, invocations, must_use, must_visit, used_vars>> /\ UNCHANGED Walked

\* configure_diff_active_blks: the compilers take different branches.
TakeDiffBranch(b) ==
  LET si == find_container_stm(b) IN
  /\ Configure /\ monitored_var # 0 /\ b \in DOMAIN active_blks
  /\ si # 0 /\ Kind(si) = "if"
  /\ LET both == Elements(SubBlocks(si)) IN
       /\ active_blks' = [c \in DOMAIN active_blks \cup both |-> IF c \in both THEN active_blks[b] ELSE active_blks[c]]
       /\ pre_assigns' = [s \in DOMAIN pre_assigns \cup both |-> IF s \in both THEN {monitored_var} ELSE pre_assigns[s]]
       /\ replaced' = Drop(replaced, both \cup StatementsAfter(si, TRUE, active_blks'))
  /\ UNCHANGED <<source, monitored_var, drop_params, invocations, must_use, must_visit, used_vars>> /\ UNCHANGED Walked

\* reduce_stms_with_assigns: statements of a block, from the first to the last.
ReplaceStatements(first, last, vars) ==
  LET q == source.blocks[Holder(first)].stms IN
  /\ Configure /\ ~is_blk_deleted(Holder(first)) /\ DOMAIN active_blks # {}
  /\ \E i, j \in DOMAIN q : i <= j /\ q[i] = first /\ q[j] = last /\ replaced' = Drop(replaced, {q[k] : k \in i .. j})
  /\ pre_assigns' = (IF vars = {} THEN pre_assigns ELSE Put(pre_assigns, first, vars))
  /\ UNCHANGED <<source, monitored_var, drop_params, active_blks, invocations, must_use, must_visit, used_vars>> /\ UNCHANGED Walked

\* config_if_reduction: one branch is deleted, the other one takes the place of the statement; "+" rolls back.
ReplaceIf(si, rollback) ==
  LET subs == SubBlocks(si)
      alt == IF is_blk_deleted(subs[2]) THEN subs[1] ELSE subs[2]
  IN /\ Configure /\ DOMAIN active_blks # {} /\ ~is_blk_deleted(Holder(si))
     /\ \E i \in 1 .. 2 : is_blk_deleted(subs[i])
     /\ replaced' = Put(replaced, si, alt)
     /\ must_use' = (IF rollback THEN must_use \cup {si} ELSE must_use)
     /\ UNCHANGED <<source, monitored_var, drop_params, active_blks, pre_assigns, invocations, must_visit, used_vars>> /\ UNCHANGED Walked

\* What stands for a call: a constant or an address, or an operand.
Instead(vars, call) == [vars |-> vars, call |-> call]

RECURSIVE InvocationsIn(_), find_called_funcs(_)
\* The operations and calls in an expression, also in what is replaced; and the calls that
\* are found where replacements are followed.
InvocationsIn(c) ==
  IF c = 0 THEN {} ELSE {c} \cup UNION {InvocationsIn(d) : d \in Elements(source.calls[c].inner)}
find_called_funcs(c) ==
  IF c = 0 THEN {}
  ELSE IF c \in DOMAIN invocations THEN find_called_funcs(invocations[c].call)
  ELSE {d \in {c} : source.calls[c].func # 0} \cup UNION {find_called_funcs(d) : d \in Elements(source.calls[c].inner)}

InActiveBlock(s) == DOMAIN active_blks # {} /\ ~is_blk_deleted(Holder(s))

\* reduce_call_with_assigns: a constant, or an address, for the call.
ReplaceCall(s, c, vars, assigned) ==
  /\ Configure /\ InActiveBlock(s) /\ c \in find_called_funcs(source.stms[s].call)
  /\ invocations' = Put(invocations, c, Instead(vars, 0))
  /\ pre_assigns' = (IF assigned = {} THEN pre_assigns ELSE Put(pre_assigns, s, assigned))
  /\ UNCHANGED <<source, monitored_var, drop_params, active_blks, replaced, must_use, must_visit, used_vars>> /\ UNCHANGED Walked

\* config_binary_reduction: one operand for an operation; after "+" its variables stay used.
ReplaceBinary(s, c, choice, rollback) ==
  LET call == source.calls[c] IN
  /\ Configure /\ InActiveBlock(s) /\ c \in InvocationsIn(source.stms[s].call) /\ call.func = 0
  /\ invocations' = Put(invocations, c, Instead(call.args[choice], call.inner[choice]))
  /\ must_visit' = (IF rollback THEN must_visit \cup {c} ELSE must_visit)
  /\ UNCHANGED <<source, monitored_var, drop_params, active_blks, replaced, pre_assigns, must_use, used_vars>> /\ UNCHANGED Walked

\* "0:-1": the condition of an if becomes 1.
ReplaceCondition(s) ==
  /\ Configure /\ InActiveBlock(s) /\ Kind(s) = "if" /\ source.stms[s].call # 0
  /\ invocations' = Put(invocations, source.stms[s].call, Instead({}, 0))
  /\ UNCHANGED <<source, monitored_var, drop_params, active_blks, replaced, pre_assigns, must_use, must_visit, used_vars>> /\ UNCHANGED Walked

\* The value is "delete": the statement goes; of an if one branch stays.
DeleteCall(s) ==
  /\ Configure /\ DOMAIN active_blks # {} /\ ~is_blk_deleted(Holder(s)) /\ source.stms[s].call # 0
  /\ LET subs == SubBlocks(s)
     IN replaced' = Put(replaced, s, IF Kind(s) # "if" THEN 0 ELSE IF is_blk_deleted(subs[1]) THEN subs[2] ELSE subs[1])
  /\ UNCHANGED <<source, monitored_var, drop_params, active_blks, pre_assigns, invocations, must_use, must_visit, used_vars>> /\ UNCHANGED Walked

EndConfigure ==
  /\ stage = "configure" /\ stage' = "walk"
  /\ todo' = <<<<"node", source.funcs[1].body>>>>
  /\ UNCHANGED <<source, directives, monitored_var, drop_params, active_blks, replaced, pre_assigns, invocations, must_use, must_visit,
                 used_vars, used_funcs, used_labels, all_blks, output>>

-----------------------------------------------------------------------------
(* get_used_vars_and_funcs_and_labels *)

Fixed == <<source, directives, monitored_var, drop_params, active_blks, pre_assigns, must_use, must_visit, output>>
Nodes(q) == [i \in DOMAIN q |-> <<"node", q[i]>>]

\* The jump is into a loop over the variable in focus: it stays although the body goes.
KeepsJump(g) ==
  LET s == find_container_stm(source.stms[g].dest)
  IN s # 0 /\ Kind(s) = "for" /\ monitored_var # 0 /\ source.stms[s].ctrl = monitored_var

DeadIf(s) == Kind(s) = "if" /\ \A b \in Elements(SubBlocks(s)) : is_blk_deleted(b)
DeadJump(s) == Kind(s) = "goto" /\ is_blk_deleted(Holder(source.stms[s].dest)) /\ ~KeepsJump(s)

UsedIn(s, visit) == Get(pre_assigns, s) \cup (IF visit /\ s \in Stms THEN source.stms[s].uses ELSE {})

BlockItems(b) == Nodes(source.blocks[b].stms) \o <<<<"list", b>>>>

VisitNode(s) ==
  /\ todo # <<>> /\ Head(todo) = <<"node", s>>
  /\ LET gone == IF DeadIf(s) THEN {s} \cup StatementsAfter(s, FALSE, active_blks) ELSE IF DeadJump(s) THEN {s} ELSE {}
         now == Drop(replaced, gone)
         visit == s \in must_use \/ s \notin DOMAIN now
         jump == IF Kind(s) = "goto" /\ ~DeadJump(s) THEN {source.stms[s].dest} ELSE {}
         call == IF s \in Stms /\ source.stms[s].call # 0 THEN <<<<"call", source.stms[s].call>>>> ELSE <<>>
         subs == SubBlocks(s)
     IN /\ replaced' = now
        /\ used_vars' = used_vars \cup UsedIn(s, visit)
        /\ used_labels' = used_labels \cup jump \cup (IF visit THEN find_jump_label(s) ELSE {})
        /\ todo' = (IF visit THEN call \o Flatten([i \in DOMAIN subs |-> IF is_blk_deleted(subs[i]) THEN <<>> ELSE BlockItems(subs[i])])
                    ELSE IF now[s] = 0 THEN <<>> ELSE <<<<"node", now[s]>>>>) \o Tail(todo)
  /\ UNCHANGED <<invocations, used_funcs, all_blks, stage>> /\ UNCHANGED Fixed

\* The call is of a function whose body was never entered: 0 stands for it.
IsOperation(c) == source.calls[c].func = 0
NeverEntered(c) == source.calls[c].func \notin Elements(used_funcs) /\ is_blk_deleted(source.funcs[source.calls[c].func].body)

CallItem(c) == IF c = 0 THEN <<>> ELSE <<<<"call", c>>>>
ArgItems(c) == [i \in DOMAIN source.calls[c].args |-> <<"arg", c, i>>]
Body(c) ==
  LET f == source.calls[c].func
  IN IF IsOperation(c) \/ f \in Elements(used_funcs) THEN <<>> ELSE <<<<"node", source.funcs[f].body>>, <<"function", f>>>>

VisitCall(c) ==
  /\ todo # <<>> /\ Head(todo) = <<"call", c>>
  /\ IF c \in DOMAIN invocations /\ c \notin must_visit
     THEN /\ used_vars' = used_vars \cup invocations[c].vars
          /\ todo' = CallItem(invocations[c].call) \o Tail(todo) /\ UNCHANGED invocations
     ELSE IF ~IsOperation(c) /\ NeverEntered(c)
     THEN invocations' = Put(invocations, c, Instead({}, 0)) /\ todo' = Tail(todo) /\ UNCHANGED used_vars
     ELSE /\ todo' = Body(c) \o ArgItems(c) \o Tail(todo)
          /\ UNCHANGED <<used_vars, invocations>>
  /\ UNCHANGED <<replaced, used_funcs, used_labels, all_blks, stage>> /\ UNCHANGED Fixed

\* The arguments that are left are looked at one after the other.
Left(c, i) == IsOperation(c) \/ ~is_param_dropped(source.calls[c].func, i)

VisitArgument ==
  /\ todo # <<>> /\ Head(todo)[1] = "arg"
  /\ LET c == Head(todo)[2] i == Head(todo)[3] IN
     IF Left(c, i)
     THEN used_vars' = used_vars \cup source.calls[c].args[i] /\ todo' = CallItem(source.calls[c].inner[i]) \o Tail(todo)
     ELSE todo' = Tail(todo) /\ UNCHANGED used_vars
  /\ UNCHANGED <<replaced, invocations, used_funcs, used_labels, all_blks, stage>> /\ UNCHANGED Fixed

\* The function is known once its body was visited, a block is listed behind its statements.
FinishItem ==
  LET item == Head(todo) IN
  /\ todo # <<>> /\ item[1] \in {"function", "list"}
  /\ todo' = Tail(todo)
  /\ used_funcs' = (IF item[1] = "function" THEN Append(used_funcs, item[2]) ELSE used_funcs)
  /\ all_blks' = (IF item[1] = "list" /\ item[2] \notin Elements(all_blks) THEN Append(all_blks, item[2]) ELSE all_blks)
  /\ UNCHANGED <<replaced, invocations, used_vars, used_labels, stage>> /\ UNCHANGED Fixed

RECURSIVE expand_used_vars(_)
expand_used_vars(vars) ==
  LET more == {source.address[v] : v \in vars} \ (vars \cup {0})
  IN IF more = {} THEN vars ELSE expand_used_vars(vars \cup more)

-----------------------------------------------------------------------------
(* Output: a sequence of <<"var", v>>, <<"label", s>>, <<"goto", s>>, <<"call", f>>, <<"block", b>> *)

RECURSIVE Tokens(_, _)
Tokens(what, set) == IF set = {} THEN <<>> ELSE LET x == CHOOSE y \in set : TRUE IN <<<<what, x>>>> \o Tokens(what, set \ {x})

RECURSIVE output_call(_)
output_call(c) ==
  IF c = 0 THEN <<>>
  ELSE IF c \in DOMAIN invocations THEN Tokens("var", invocations[c].vars) \o output_call(invocations[c].call)
  ELSE LET call == source.calls[c]
           left == SelectSeq([i \in DOMAIN call.args |-> i], LAMBDA i : Left(c, i))
       IN (IF IsOperation(c) THEN <<>> ELSE <<<<"call", call.func>>>>)
          \o Flatten([k \in DOMAIN left |-> Tokens("var", call.args[left[k]]) \o output_call(call.inner[left[k]])])

Expressions(s) == Tokens("var", source.stms[s].uses) \o output_call(source.stms[s].call)

RECURSIVE output_block(_), output_stm(_), output_reduced_stm(_)

output_block(b) ==
  IF is_blk_deleted(b) THEN <<>>
  ELSE IF b \in DOMAIN replaced /\ replaced[b] = 0 THEN <<<<"block", b>>>> \o Tokens("var", Get(pre_assigns, b))
  ELSE LET q == source.blocks[b].stms IN <<<<"block", b>>>> \o Flatten([i \in DOMAIN q |-> output_stm(q[i])])

output_stm(s) ==
  Tokens("var", Get(pre_assigns, s)) \o
  (IF s \in DOMAIN replaced
   THEN Tokens("label", find_missing_labels(s, replaced[s])) \o (IF replaced[s] = 0 THEN <<>> ELSE output_block(replaced[s]))
   ELSE Tokens("label", used_labels \cap find_jump_label(s)) \o output_reduced_stm(s))

\* The labels of a loop over the variable in focus stay without its body.
OnlyLabels(s) ==
  IF source.stms[s].ctrl = monitored_var THEN used_labels \cap (find_contained_labels(SubBlocks(s)[1])) ELSE {}

output_reduced_stm(s) ==
  LET subs == SubBlocks(s) IN
  CASE Kind(s) = "return" ->
         (IF FuncOf(s) = 1 THEN Tokens("var", {monitored_var} \ {0}) ELSE Expressions(s))
    [] Kind(s) = "goto" -> Tokens("var", source.stms[s].uses) \o <<<<"goto", source.stms[s].dest>>>>
    [] Kind(s) = "if" -> Expressions(s) \o output_block(subs[1]) \o output_block(subs[2])
    [] Kind(s) = "for" ->
         IF ~is_blk_deleted(subs[1]) THEN Expressions(s) \o output_block(subs[1])
         ELSE IF OnlyLabels(s) # {} THEN Expressions(s) \o Tokens("label", OnlyLabels(s))
         ELSE <<<<"var", source.stms[s].ctrl>>>>
    [] Kind(s) = "array" -> IF is_blk_deleted(subs[1]) THEN <<>> ELSE Expressions(s) \o output_block(subs[1])
    [] OTHER -> Expressions(s)

\* Functions from the last one found to the first one, then main.
OutputProgram ==
  output_block(source.funcs[1].body) \o
  Flatten([i \in DOMAIN used_funcs |-> output_block(source.funcs[used_funcs[i]].body)])

EndWalk ==
  /\ stage = "walk" /\ todo = <<>>
  /\ used_vars' = expand_used_vars(used_vars)
  /\ stage' = "print"
  /\ UNCHANGED <<replaced, invocations, used_funcs, used_labels, all_blks, todo>> /\ UNCHANGED Fixed

Output ==
  /\ stage = "print" /\ stage' = "done"
  /\ output' = OutputProgram
  /\ UNCHANGED <<source, directives, monitored_var, drop_params, active_blks, replaced, pre_assigns, invocations, must_use, must_visit,
                 used_vars, used_funcs, used_labels, all_blks, todo>>

Done == stage = "done" /\ UNCHANGED redVars

Init ==
  /\ source \in Programs
  /\ \E s \in ActiveSets(source) : active_blks = [b \in s |-> 1]
  /\ directives = 0 /\ monitored_var = 0 /\ drop_params = FALSE
  /\ replaced = <<>> /\ pre_assigns = <<>> /\ invocations = <<>> /\ must_use = {} /\ must_visit = {}
  /\ used_vars = {} /\ used_funcs = <<>> /\ used_labels = {} /\ all_blks = <<>>
  /\ todo = <<>> /\ stage = "configure" /\ output = <<>>

Next ==
  \/ \E v \in source.focus : FocusVariable(v)
  \/ DropParameters
  \/ \E b \in Blks : RollBackBlock(b) \/ TakeDiffBranch(b)
  \/ \E s, t \in Stms : ReplaceStatements(s, t, {}) \/ (s = t /\ ReplaceStatements(s, t, {source.spare}))
  \/ \E s \in {t \in Stms : Kind(t) = "if"}, r \in BOOLEAN : ReplaceIf(s, r)
  \/ \E s \in Stms : DeleteCall(s) \/ ReplaceCondition(s)
  \/ \E s \in Stms, c \in DOMAIN source.calls :
       \/ ReplaceCall(s, c, {}, {source.spare}) \/ ReplaceCall(s, c, {source.spare}, {})
       \/ \E choice \in 1 .. 2, rollback \in BOOLEAN : ReplaceBinary(s, c, choice, rollback)
  \/ EndConfigure
  \/ \E n \in Stms \cup Blks : VisitNode(n)
  \/ \E c \in DOMAIN source.calls : VisitCall(c)
  \/ VisitArgument
  \/ FinishItem
  \/ EndWalk
  \/ Output
  \/ Done

Spec == Init /\ [][Next]_redVars

-----------------------------------------------------------------------------
(* Properties *)

Printed(what) == {output[i][2] : i \in {j \in DOMAIN output : output[j][1] = what}}

\* Arguments that were passed over when their parameter was not yet known to be used: its
\* address is the initial value of a variable, and these are followed only after the walk.
\* The reducer prints them, and may not have declared what they mention.
PassedOver ==
  UNION {LET call == source.calls[c] IN
         UNION {call.args[i] : i \in {j \in DOMAIN call.args :
                  \E v \in used_vars : source.address[v] = source.funcs[call.func].params[j]}} :
           c \in {d \in DOMAIN source.calls : ~IsOperation(d)}}

\* Every variable of the printed program is declared, except, with "drop parameters", those
\* that are used in arguments that were passed over; and the variables are declared whose
\* addresses initialise declared ones (Reducer.cpp:469).
UsesDeclared ==
  stage = "done" =>
    /\ Printed("var") \subseteq used_vars \cup (IF drop_params THEN PassedOver ELSE {})
    /\ {source.address[v] : v \in used_vars} \subseteq used_vars \cup {0}

\* Every function that is called is printed, with a body that was not deleted.
CallsDefined ==
  stage = "done" => \A f \in Printed("call") : f \in Elements(used_funcs) /\ ~is_blk_deleted(source.funcs[f].body)

\* The target is in a block that only the jump enters, or in one of two branches that became assignments.
RECURSIVE Lost(_)
Lost(b) == b # 0 /\ (is_blk_deleted(b) \/ (b \in DOMAIN replaced /\ b \in DOMAIN pre_assigns) \/ Lost(Holder(b)))

\* A jump that is printed has its label, once, whatever was put in the place of the target;
\* in the two cases of Lost the label may be missing, and the program does not compile.
JumpsKeepLabels ==
  stage = "done" =>
    \A s \in Printed("goto") :
      LET n == Cardinality({i \in DOMAIN output : output[i] = <<"label", s>>}) IN
      IF Lost(Holder(s)) THEN n <= 1 ELSE n = 1

\* The blocks that were printed are listed for the next poll, inner ones before outer ones.
BlocksListed ==
  stage = "done" =>
    /\ Printed("block") \subseteq Elements(all_blks)
    /\ \A i, j \in DOMAIN all_blks : Holder(all_blks[j]) = all_blks[i] => j < i

\* Variables, functions and labels that the program that is left of a reduction uses are
\* still there, but for arguments that were passed over and lost labels
\* (ReducerOutputMgr.cpp).
ReducedCompiles == UsesDeclared /\ CallsDefined /\ JumpsKeepLabels /\ BlocksListed
=============================================================================
