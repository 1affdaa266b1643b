------------------------------ MODULE Divergence ------------------------------
(***************************************************************************)
(* The analysis behind --track_divergence (CLSmith/Divergence.cpp and       *)
(* Walker.cpp): it walks through the functions of a program and marks the   *)
(* blocks that some threads of a group reach and others do not, so that no  *)
(* barrier is put there.  What is known of the variables is saved at every  *)
(* branch and merged behind it; a loop is walked until nothing changes.     *)
(*                                                                          *)
(* At the end the marks are compared with runs of two threads.              *)
(***************************************************************************)
EXTENDS Integers, Sequences, FiniteSets, TLC

CONSTANTS Programs,    \* programs: [blocks, bodies, params], see below
          GlobalVariables,     \* global variables, of which
          PointerVariables,    \* these, and other, variables are pointers
          Fuel         \* bound: iterations of a loop in a run

VARIABLES program, stack, saved_states, global_var_div, derefs_to, scope_levels,
          div_final, contexts, pc, exits, entered

dVars == <<program, stack, saved_states, global_var_div, derefs_to, scope_levels, div_final, contexts, pc, exits, entered>>

(***************************************************************************)
(* A program has blocks [locals, stms] of assignments and statements, the   *)
(* bodies of its functions, "main" among them, and their parameters.        *)
(* Statements: "assign" (lhs, rhs), "for" (init, test, incr, body), "if"    *)
(* (test, yes, no; 0 is no block), "jump" (kind, test, loop), "return"      *)
(* (value).  Expressions: "const" (value), "id" (an identifier of a thread),*)
(* "var" (var, deref), "addr" (var), "or" (left, right) and, as the right   *)
(* side of an assignment, "call" (func, args).                              *)
(***************************************************************************)
Block(b) == program.blocks[b]
Params(f) == program.params[f]

\* A frame is a FunctionDivergence that is at work.
Top == stack[Len(stack)]
Func == Top.func
SubBlock == Top.sub_block
SetTop(frame) == stack' = [stack EXCEPT ![Len(stack)] = frame]
AllBut(s) == SubSeq(s, 1, Len(s) - 1)
Last(s) == s[Len(s)]

\* operator[] of a map of flags.
Flag(map, key) == IF key \in DOMAIN map THEN map[key] ELSE FALSE

-----------------------------------------------------------------------------
(* The walker: the blocks around, each with the number of its statement and  *)
(* the branches of it that have not been entered                             *)

StatementAt(walker) == LET w == Last(walker) IN Block(w.block).stms[w.at]

Branches(s) == CASE s.type = "for" -> <<s.body>> [] s.type = "if" -> SelectSeq(<<s.yes, s.no>>, LAMBDA b : b # 0) [] OTHER -> <<>>

At(b, i) == [block |-> b, at |-> i, todo |-> IF i = 0 THEN <<>> ELSE Branches(Block(b).stms[i])]

\* CreateFunctionWalkerAtStatement: the statements around one are in one of their
\* branches; what is in front of that one is done.
WalkerAt(nested) ==
  [i \in DOMAIN nested |->
     LET at == At(nested[i].statement[1], nested[i].statement[2]) IN
     IF i < Len(nested) THEN [at EXCEPT !.todo = IF @[1] = nested[i + 1].statement[1] THEN Tail(@) ELSE <<>>] ELSE at]

Enter(walker) == Append([walker EXCEPT ![Len(walker)].todo = Tail(@)], At(Head(Last(walker).todo), 1))

\* Behind the end of a block: the other branch of the if, or what follows around it.
RECURSIVE Leave(_, _)
Leave(walker, n) ==
  LET w == Last(walker) IN
  CASE w.at < Len(Block(w.block).stms) -> [walker |-> Append(AllBut(walker), At(w.block, w.at + 1)), exited |-> n, entered |-> FALSE]
    [] Len(walker) = 1 -> [walker |-> <<>>, exited |-> n, entered |-> FALSE]
    [] Last(AllBut(walker)).todo # <<>> -> [walker |-> Enter(AllBut(walker)), exited |-> n + 1, entered |-> TRUE]
    [] OTHER -> Leave(AllBut(walker), n + 1)

Advance(walker) ==
  IF Last(walker).todo # <<>> THEN [walker |-> Enter(walker), exited |-> 0, entered |-> TRUE] ELSE Leave(walker, 0)

-----------------------------------------------------------------------------
(* What is known of variables: s has the maps, and what is around *)

Maps == [vars |-> Top.variable_div, globals |-> global_var_div, derefs |-> derefs_to, divergent |-> Top.divergent]

\* The saved states are not searched: for a mutant.
SearchMapHere(map, global, v) == Flag(map, v)

\* The map that is worked on, then the saved states from the last one on, those of
\* other functions for global variables only.
SearchMap(map, global, v) ==
  LET Of(i) == IF global THEN saved_states[i].globals ELSE saved_states[i].vars
      hits == {i \in DOMAIN saved_states : (global \/ saved_states[i].owner = Func) /\ v \in DOMAIN Of(i)}
  IN IF v \in DOMAIN map \/ hits = {} THEN Flag(map, v)
     ELSE Of(CHOOSE i \in hits : \A j \in hits : j <= i)[v]

IsVariableDivergent(s, v) == SearchMap(IF v \in GlobalVariables THEN s.globals ELSE s.vars, v \in GlobalVariables, v)

\* DereferencePointerVariable for no level or one: the variables, and if a pointer
\* that was followed is divergent.
Targets(s, v, deref) == IF deref THEN s.derefs[v] ELSE {v}
DerefDiv(s, v, deref) == deref /\ IsVariableDivergent(s, v)

RECURSIVE IsExpressionDivergent(_, _)
IsExpressionDivergent(s, e) ==
  CASE e.type = "const" -> FALSE
    [] e.type = "id" -> TRUE
    [] e.type = "var" -> DerefDiv(s, e.var, e.deref) \/ \E v \in Targets(s, e.var, e.deref) : IsVariableDivergent(s, v)
    [] e.type = "or" -> IsExpressionDivergent(s, e.left) \/ IsExpressionDivergent(s, e.right)

\* GetExpressionVariableReferences: what a pointer points to.
References(s, e) ==
  CASE e.type = "const" -> {} [] e.type = "addr" -> {e.var}
    [] e.type = "var" -> UNION {s.derefs[v] : v \in Targets(s, e.var, e.deref)}
ReferencesDiv(s, e) ==
  e.type = "var" /\ (IsVariableDivergent(s, e.var) \/ \E v \in Targets(s, e.var, e.deref) : IsVariableDivergent(s, v))

SetVariableDivergence(s, vs, d) ==
  [s EXCEPT !.globals = [v \in vs \cap GlobalVariables |-> d] @@ @, !.vars = [v \in vs \ GlobalVariables |-> d] @@ @]

\* IsAssignmentDivergent, with the divergence of a right side that is no pointer.
Assign(s, lhs, div) ==
  LET vs == Targets(s, lhs.var, lhs.deref) IN
  IF Cardinality(vs) <= 1 \/ div \/ s.divergent THEN SetVariableDivergence(s, vs, div \/ s.divergent) ELSE s

IsAssignmentDivergent(s, a) ==
  IF a.lhs.var \in PointerVariables /\ ~a.lhs.deref
    THEN SetVariableDivergence([s EXCEPT !.derefs[a.lhs.var] = @ \cup References(s, a.rhs)], {a.lhs.var},
                               ReferencesDiv(s, a.rhs) \/ s.divergent)
    ELSE Assign(s, a.lhs, IsExpressionDivergent(s, a.rhs))

RECURSIVE AssignAll(_, _)
AssignAll(s, as) == IF as = <<>> THEN s ELSE AssignAll(IsAssignmentDivergent(s, as[1]), Tail(as))

MergeMap(saved, merger) == [k \in DOMAIN saved \cup DOMAIN merger |-> Flag(saved, k) \/ Flag(merger, k)]

\* A change is a flag that comes up.
Comes(saved, merger) == \E k \in DOMAIN merger : merger[k] /\ ~Flag(saved, k)

\* SaveState moves the maps away.
SaveState(frame, s, statement) ==
  [owner |-> frame.func, statement |-> statement, sub |-> frame.sub_block_div, vars |-> s.vars, globals |-> s.globals]
Restored(state, frame, s) ==
  [sub |-> MergeMap(state.sub, frame.sub_block_div), vars |-> MergeMap(state.vars, s.vars),
   globals |-> MergeMap(state.globals, s.globals)]
Changed(state, frame, s) ==
  Comes(state.sub, frame.sub_block_div) \/ Comes(state.vars, s.vars) \/ Comes(state.globals, s.globals)

RECURSIVE Viral(_, _)
Viral(map, bs) ==
  LET new == {b \in bs : ~Flag(map, b)} IN
  IF new = {} THEN map
  ELSE Viral([b \in new |-> TRUE] @@ map, {sl[2] : sl \in {x \in scope_levels : x[1] \in new}})

Mark(map, b, d) == [x \in {b} |-> Flag(map, b) \/ d] @@ map

-----------------------------------------------------------------------------
(* Functions *)

NoState == [owner |-> "", statement |-> <<>>, sub |-> <<>>, vars |-> <<>>, globals |-> <<>>]

\* ProcessWithContext: the function starts from what it is given; what its parameters
\* point to is known of the caller.
Frame(f, divergent, div, lhs) ==
  [func |-> f, walker |-> <<At(program.bodies[f], 0)>>, nested |-> <<>>, ifs |-> <<>>,
   sub_block |-> program.bodies[f], sub_block_div |-> Mark(<<>>, program.bodies[f], divergent),
   variable_div |-> div, divergent |-> divergent, value |-> FALSE, lhs |-> lhs]

Start ==
  /\ pc = "start" /\ pc' = "walk"
  /\ stack' = <<Frame("main", FALSE, <<>>, <<>>)>>
  /\ UNCHANGED <<program, saved_states, global_var_div, derefs_to, scope_levels, div_final, contexts, exits, entered>>

Walk ==
  /\ pc = "walk" /\ pc' = "step"
  /\ LET a == Advance(Top.walker) IN
       SetTop([Top EXCEPT !.walker = a.walker]) /\ exits' = a.exited /\ entered' = a.entered
  /\ UNCHANGED <<program, saved_states, global_var_div, derefs_to, scope_levels, div_final, contexts>>

\* The walker enters the first block of a function without having left a branch.
Statement == StatementAt(Top.walker)
Here == <<Last(Top.walker).block, Last(Top.walker).at>>
First == Len(Top.walker) = 1 /\ Last(Top.walker).at = 1
Ready(type) == pc = "step" /\ exits = 0 /\ Top.walker # <<>> /\ Statement.type = type

\* ProcessBlockStart: local variables have initialisers.  Those of a function are
\* processed in the context that its last call ended with.
Started ==
  LET s == IF First THEN [Maps EXCEPT !.divergent = Flag(contexts, Func)] ELSE Maps IN
  IF entered \/ First THEN [AssignAll(s, Block(Last(Top.walker).block).locals) EXCEPT !.divergent = Top.divergent] ELSE Maps

Keep(frame, s) ==
  /\ SetTop([frame EXCEPT !.variable_div = s.vars])
  /\ global_var_div' = s.globals /\ derefs_to' = s.derefs
Advanced == pc' = "walk" /\ UNCHANGED <<program, exits, entered>>

ProcessStatementAssign ==
  /\ Ready("assign") /\ Statement.rhs.type # "call"
  /\ Keep(Top, IsAssignmentDivergent(Started, Statement))
  /\ Advanced /\ UNCHANGED <<saved_states, scope_levels, div_final, contexts>>

\* A parameter that points to a local variable of the caller comes with its mark, which
\* does not come back.
IsFunctionCallDivergent ==
  /\ Ready("assign") /\ Statement.rhs.type = "call"
  /\ LET call == Statement.rhs
         s == Started
         ps == Params(call.func)
         Arg(p) == call.args[CHOOSE i \in DOMAIN ps : ps[i] = p]
         all == {ps[i] : i \in DOMAIN ps}
         pointed == UNION {References(s, Arg(p)) : p \in all \cap PointerVariables} \ GlobalVariables
         div == [p \in all |-> IF p \in PointerVariables THEN ReferencesDiv(s, Arg(p)) ELSE IsExpressionDivergent(s, Arg(p))]
     IN /\ stack' = Append([stack EXCEPT ![Len(stack)].variable_div = s.vars],
                           Frame(call.func, Top.divergent, [v \in pointed |-> IsVariableDivergent(s, v)] @@ div, Statement.lhs))
        /\ derefs_to' = [p \in all \cap PointerVariables |-> References(s, Arg(p))] @@ s.derefs
        /\ global_var_div' = s.globals
  /\ Advanced /\ UNCHANGED <<saved_states, scope_levels, div_final, contexts>>

\* GetSubBlockForBranch, the state that is saved, and the context of the branch.
Branch(s, div, bs) ==
  LET sub == [b \in bs |-> Flag(Top.sub_block_div, b) \/ div \/ Top.divergent] @@ Top.sub_block_div
      first == Branches(Statement)[1]
  IN /\ saved_states' = Append(saved_states, SaveState([Top EXCEPT !.sub_block_div = sub], s, Here))
     /\ scope_levels' = scope_levels \cup {<<SubBlock, b>> : b \in bs}
     /\ SetTop([Top EXCEPT !.sub_block_div = <<>>, !.variable_div = <<>>, !.sub_block = first, !.divergent = sub[first],
                           !.nested = Append(@, [sub_block |-> SubBlock, statement |-> Here])])
     /\ global_var_div' = <<>> /\ derefs_to' = s.derefs

ProcessStatementFor ==
  /\ Ready("for")
  /\ LET s == IsAssignmentDivergent(Started, Statement.init) IN
       Branch(s, IsExpressionDivergent(s, Statement.test), {Statement.body})
  /\ Advanced /\ UNCHANGED <<div_final, contexts>>

ProcessStatementIf ==
  /\ Ready("if")
  /\ LET s == Started IN Branch(s, IsExpressionDivergent(s, Statement.test), {Statement.yes, Statement.no} \ {0})
  /\ Advanced /\ UNCHANGED <<div_final, contexts>>

ProcessStatementJump ==
  /\ Ready("jump")
  /\ LET s == Started IN
       Keep(IF IsExpressionDivergent(s, Statement.test) \/ Top.divergent
              THEN [Top EXCEPT !.sub_block_div = Viral(@, {Statement.loop})] ELSE Top, s)
  /\ Advanced /\ UNCHANGED <<saved_states, scope_levels, div_final, contexts>>

\* The block of a return that is divergent is marked already, and nothing behind it is.
ProcessStatementReturn ==
  /\ Ready("return")
  /\ LET s == Started IN
       Keep([Top EXCEPT !.value = @ \/ IsExpressionDivergent(s, Statement.value) \/ Top.divergent,
                        !.sub_block_div = IF Top.divergent THEN Viral(@, {SubBlock}) ELSE @], s)
  /\ Advanced /\ UNCHANGED <<saved_states, scope_levels, div_final, contexts>>

-----------------------------------------------------------------------------
(* The ends of blocks *)

Level == Last(Top.nested)
BranchedAt == Block(Level.statement[1]).stms[Level.statement[2]]
Exiting(type) == pc = "step" /\ exits > 0 /\ Top.nested # <<>> /\ BranchedAt.type = type

\* The flag of the block around is read from the map of this level; the block's own
\* flag may be in a saved state.
Pop(frame, sub) ==
  [frame EXCEPT !.sub_block_div = sub, !.sub_block = Level.sub_block, !.divergent = Flag(sub, Level.sub_block),
                !.nested = AllBut(@)]

\* The increment and the test once more; the walker goes back if a flag came up.  The
\* flag of the body is then read from a map that has been replaced, and is what its
\* memory holds: itself, or a flag of a map that grew in the meantime.
ProcessEndStatementFor ==
  /\ Exiting("for")
  /\ LET s == IsAssignmentDivergent(Maps, BranchedAt.incr)
         body == BranchedAt.body
         frame == [Top EXCEPT !.sub_block_div = Mark(@, body, IsExpressionDivergent(s, BranchedAt.test) \/ Top.divergent)]
         state == Last(saved_states)
         r == Restored(state, frame, s)
         merged == [s EXCEPT !.vars = r.vars, !.globals = r.globals]
     IN /\ derefs_to' = s.derefs
        /\ IF Changed(state, frame, s)
             THEN /\ saved_states' = Append(AllBut(saved_states), SaveState([frame EXCEPT !.sub_block_div = r.sub], merged, Level.statement))
                  /\ \E freed \in BOOLEAN :
                       SetTop([frame EXCEPT !.sub_block_div = <<>>, !.variable_div = <<>>, !.sub_block = body,
                                            !.divergent = freed, !.walker = WalkerAt(Top.nested)])
                  /\ global_var_div' = <<>> /\ pc' = "walk" /\ exits' = 0
             ELSE /\ saved_states' = AllBut(saved_states)
                  /\ SetTop([Pop(frame, r.sub) EXCEPT !.variable_div = r.vars])
                  /\ global_var_div' = r.globals /\ exits' = exits - 1 /\ UNCHANGED pc
  /\ UNCHANGED <<program, scope_levels, div_final, contexts, entered>>

\* Behind the first branch of two the state is put aside, and with it the flag that is
\* read for the second one.
ProcessEndTrueBranch ==
  /\ Exiting("if") /\ BranchedAt.no # 0
  /\ Top.ifs # <<>> => Last(Top.ifs).statement # Level.statement
  /\ SetTop([Top EXCEPT !.ifs = Append(@, SaveState(Top, Maps, Level.statement)), !.sub_block_div = <<>>,
                        !.variable_div = <<>>, !.sub_block = BranchedAt.no, !.divergent = Flag(<<>>, BranchedAt.no)])
  /\ global_var_div' = <<>> /\ exits' = exits - 1
  /\ UNCHANGED <<program, saved_states, derefs_to, scope_levels, div_final, contexts, pc, entered>>

ProcessEndStatementIf ==
  /\ Exiting("if")
  /\ BranchedAt.no = 0 \/ (Top.ifs # <<>> /\ Last(Top.ifs).statement = Level.statement)
  /\ LET two == BranchedAt.no # 0
         r1 == IF two THEN Restored(Last(Top.ifs), Top, Maps)
               ELSE [sub |-> Top.sub_block_div, vars |-> Top.variable_div, globals |-> global_var_div]
         r == Restored(Last(saved_states), [Top EXCEPT !.sub_block_div = r1.sub], [vars |-> r1.vars, globals |-> r1.globals])
     IN /\ SetTop([Pop(Top, r.sub) EXCEPT !.variable_div = r.vars, !.ifs = IF two THEN AllBut(@) ELSE @])
        /\ global_var_div' = r.globals
  /\ saved_states' = AllBut(saved_states) /\ exits' = exits - 1
  /\ UNCHANGED <<program, derefs_to, scope_levels, div_final, contexts, pc, entered>>

\* ProcessFinalise, and the assignment of the caller; parameters are forgotten.
ProcessFinalise ==
  /\ pc = "step" /\ Top.walker = <<>> /\ Top.nested = <<>>
  /\ div_final' = MergeMap(div_final, Top.sub_block_div)
  /\ contexts' = [f \in {Func} |-> Top.divergent] @@ contexts
  /\ IF Len(stack) = 1 THEN pc' = "done" /\ UNCHANGED <<stack, global_var_div>>
     ELSE LET caller == stack[Len(stack) - 1]
              s == Assign([vars |-> caller.variable_div, globals |-> global_var_div, derefs |-> derefs_to, divergent |-> caller.divergent],
                          Top.lhs, Top.value)
          IN /\ stack' = [AllBut(stack) EXCEPT ![Len(stack) - 1] = [caller EXCEPT !.variable_div = s.vars]]
             /\ global_var_div' = s.globals /\ pc' = "walk"
  /\ UNCHANGED <<program, saved_states, derefs_to, scope_levels, exits, entered>>

Done == pc = "done" /\ UNCHANGED dVars

Init ==
  /\ program \in Programs
  /\ stack = <<>> /\ saved_states = <<>> /\ scope_levels = {} /\ div_final = <<>> /\ contexts = <<>>
  /\ global_var_div = [g \in GlobalVariables |-> FALSE]
  /\ derefs_to = [v \in PointerVariables |-> {}]
  /\ pc = "start" /\ exits = 0 /\ entered = FALSE

Next ==
  \/ Start \/ Walk \/ ProcessStatementAssign \/ IsFunctionCallDivergent \/ ProcessStatementFor \/ ProcessStatementIf
  \/ ProcessStatementJump \/ ProcessStatementReturn \/ ProcessEndStatementFor \/ ProcessEndTrueBranch
  \/ ProcessEndStatementIf \/ ProcessFinalise \/ Done

Spec == Init /\ [][Next]_dVars

-----------------------------------------------------------------------------
(* Runs of a program, by a thread with an identifier: the values of the      *)
(* variables, how often a statement was reached, and what comes next         *)

Value(env, id, e) ==
  LET RECURSIVE Of(_)
      Of(x) == CASE x.type = "const" -> x.value
                 [] x.type = "id" -> id
                 [] x.type = "var" -> IF x.deref THEN env[env[x.var]] ELSE env[x.var]
                 [] x.type = "addr" -> x.var
                 [] x.type = "or" -> IF Of(x.left) # 0 THEN 1 ELSE Of(x.right)
  IN Of(e)

Stored(r, lhs, value) ==
  [r EXCEPT !.env = [v \in {IF lhs.deref THEN r.env[lhs.var] ELSE lhs.var} |-> value] @@ @]

RECURSIVE RunBlock(_, _, _, _), RunLoop(_, _, _, _), RunCall(_, _, _)

RunStatement(id, s, r) ==
  CASE s.type = "assign" -> IF s.rhs.type = "call" THEN RunCall(id, s, r) ELSE Stored(r, s.lhs, Value(r.env, id, s.rhs))
    [] s.type = "if" -> LET b == IF Value(r.env, id, s.test) # 0 THEN s.yes ELSE s.no IN
                        IF b = 0 THEN r ELSE RunBlock(id, b, 0, r)
    [] s.type = "for" -> RunLoop(id, s, Fuel, Stored(r, s.init.lhs, Value(r.env, id, s.init.rhs)))
    [] s.type = "jump" -> IF Value(r.env, id, s.test) # 0 THEN [r EXCEPT !.flow = s.kind] ELSE r
    [] s.type = "return" -> [r EXCEPT !.flow = "return", !.result = Value(r.env, id, s.value)]

\* Local variables are set at the start, 0 in front of the first statement.
RunBlock(id, b, i, r) ==
  CASE i = 0 -> LET RECURSIVE Set(_, _)
                    Set(x, as) == IF as = <<>> THEN x ELSE Set(Stored(x, as[1].lhs, Value(x.env, id, as[1].rhs)), Tail(as))
                IN RunBlock(id, b, 1, Set(r, Block(b).locals))
    [] i > Len(Block(b).stms) \/ r.flow # "next" -> r
    [] OTHER -> RunBlock(id, b, i + 1, RunStatement(id, Block(b).stms[i],
                  [r EXCEPT !.reached = [p \in {<<b, i>>} |-> 1 + (IF p \in DOMAIN @ THEN @[p] ELSE 0)] @@ @]))

RunLoop(id, s, fuel, r) ==
  IF fuel = 0 \/ Value(r.env, id, s.test) = 0 THEN r
  ELSE LET x == RunBlock(id, s.body, 0, r) IN
       CASE x.flow = "return" -> x
         [] x.flow = "break" -> [x EXCEPT !.flow = "next"]
         [] OTHER -> LET y == [x EXCEPT !.flow = "next"] IN
                     RunLoop(id, s, fuel - 1, Stored(y, s.incr.lhs, Value(y.env, id, s.incr.rhs)))

RunCall(id, s, r) ==
  LET ps == Params(s.rhs.func)
      given == [p \in {ps[i] : i \in DOMAIN ps} |-> Value(r.env, id, s.rhs.args[CHOOSE i \in DOMAIN ps : ps[i] = p])]
      x == RunBlock(id, program.bodies[s.rhs.func], 0, [r EXCEPT !.env = given @@ @])
  IN Stored([x EXCEPT !.flow = "next"], s.lhs, x.result)

Run(id) == RunBlock(id, program.bodies["main"], 0,
                    [env |-> [g \in GlobalVariables |-> 0], reached |-> <<>>, flow |-> "next", result |-> 0])

\* The blocks that are reported: one that is marked, or those of its branches.
RECURSIVE Reported(_)
Reported(b) ==
  LET branches == {sl[2] : sl \in {x \in scope_levels : x[1] = b}} IN
  IF Flag(div_final, b) THEN {b} \cup UNION {Reported(c) : c \in branches}
  ELSE UNION {Reported(c) : c \in branches}

-----------------------------------------------------------------------------
\* The saved states are those of the branches that are being walked through, in their
\* order and with the functions they belong to: the assertions in front of
\* RestoreAndMergeSavedState (Divergence.cpp:346), also while a loop in a loop is
\* walked through again.  At the end no branch is left (Divergence.cpp:119).
SavedStatesNest ==
  /\ LET RECURSIVE Levels(_)
         Levels(i) == IF i > Len(stack) THEN <<>>
                      ELSE [n \in DOMAIN stack[i].nested |-> <<stack[i].func, stack[i].nested[n].statement>>] \o Levels(i + 1)
     IN [i \in DOMAIN saved_states |-> <<saved_states[i].owner, saved_states[i].statement>>] = Levels(1)
  /\ pc = "step" /\ Top.walker = <<>> /\ exits = 0 => Top.nested = <<>> /\ Top.ifs = <<>>

\* "Any point that is divergent will be found" (Divergence.h:6): a statement that two
\* threads do not reach equally often is in a block that is reported.
DivergentPointsFound ==
  pc = "done" =>
    LET a == Run(0).reached
        b == Run(1).reached
        N(r, p) == IF p \in DOMAIN r THEN r[p] ELSE 0
    IN \A p \in DOMAIN a \cup DOMAIN b :
         N(a, p) # N(b, p) => p[1] \in UNION {Reported(program.bodies[f]) : f \in DOMAIN program.bodies}

\* The stack of saved states follows the branches, and so no statement is missed that
\* two threads reach differently often (Divergence.cpp:119, Divergence.h:6).
DivergenceSound == SavedStatesNest /\ DivergentPointsFound
=============================================================================
