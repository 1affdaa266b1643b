------------------------------ MODULE Variables ------------------------------
(***************************************************************************)
(* The variables of a function (VariableSelector, ArrayVariable): global, or *)
(* local to one of the blocks that are being generated, they are made when   *)
(* something needs them, while gotos between the blocks are made as well.    *)
(*                                                                          *)
(* A type is its level of indirection.  Whether an eligible variable is       *)
(* there depends on effects and facts (Effects, Facts): a choice here.        *)
(***************************************************************************)
EXTENDS Naturals, Sequences, FiniteSets, SequencesExt

CONSTANTS Tree,       \* block -> the block around it
          Body,       \* the block of the function
          ArrayLoops, \* blocks that traverse arrays
          ParamLevels,\* levels of the parameters
          Options,    \* sets of options: "ccomp", "no_addr_of_locals", "vectors"
          Levels,     \* options -> levels that are asked for, up to max_indirect_level
          MaxVars,    \* bound: variables
          MaxGotos    \* options -> bound: gotos

VARIABLES opts,    \* the options
          stack,   \* func->stack: the open blocks
          filled,  \* blocks that have statements
          gotos,   \* <<block of the goto, block of its label>>
          scopes,  \* block or "global" -> what is declared there, in order
          frames,  \* variables and values that are being made
          chosen   \* <<block, variable>>: expressions and left sides

variableVars == <<opts, stack, filled, gotos, scopes, frames, chosen>>

Blocks == DOMAIN Tree
Global == "global"
Scopes == Blocks \cup {Global}
RECURSIVE Around(_)
Around(b) == IF b = Body THEN {b} ELSE {b} \cup Around(Tree[b])
contains_stmt(b, c) == b \in Around(c)
Current == Last(stack)
Idle == frames = <<>> /\ chosen = {}
Named(S) == UNION {ToSet(scopes[s]) : s \in S}
Declared == Named(Scopes)
Declarations(b) == {v \in ToSet(scopes[b]) : v.kind # "item"}
NextId == Cardinality(Declared) + Len(frames) + 1

\* of: the array of an item; inits: the variables whose addresses it starts with.
Var(id, level, kind, inits, of) == [id |-> id, level |-> level, kind |-> kind, inits |-> inits, of |-> of]

\* find_all_visible_vars
find_all_visible_vars(b) == Named({Global} \cup (IF b = Global THEN {} ELSE Around(b)))

Parameters == {Var(0, n, "param", {}, 0) : n \in ParamLevels}

-----------------------------------------------------------------------------
(* Blocks and jumps *)

AddStatement == Idle /\ filled' = filled \cup {Current} /\ chosen' = {} /\ UNCHANGED <<opts, stack, gotos, scopes, frames>>

OpenBlock(b) ==
  /\ Idle /\ b # Body /\ Tree[b] = Current /\ b \notin filled
  /\ stack' = Append(stack, b) /\ chosen' = {} /\ UNCHANGED <<opts, filled, gotos, scopes, frames>>

CloseBlock ==
  /\ Idle /\ Len(stack) > 1 /\ Current \in filled
  /\ stack' = Front(stack) /\ filled' = filled \cup {Tree[Current]} /\ chosen' = {} /\ UNCHANGED <<opts, gotos, scopes, frames>>

\* Mutant: only variables of the block of the label.
SkippedInBlock(src, dest) == src # dest /\ scopes[dest] # <<>>

\* A jump into blocks that have variables skips their initialisation.
has_init_skipped_vars(src, dest) == \E b \in Around(dest) \ Around(src) : scopes[b] # <<>>

\* find_good_jump_block
GoodJump(src, dest) ==
  /\ {src, dest} \subseteq filled /\ dest \notin ArrayLoops
  /\ src # dest => ~has_init_skipped_vars(src, dest)

\* A goto back to a block, or one from a block to the last statement here.
MakeGoto(src, dest) ==
  /\ Idle /\ Cardinality(gotos) < MaxGotos[opts]
  /\ GoodJump(src, dest) /\ Current \in {src, dest}
  /\ gotos' = gotos \cup {<<src, dest>>} /\ chosen' = {} /\ UNCHANGED <<opts, stack, filled, scopes, frames>>

\* Mutant: variables stay where they are wanted.
NotExpanded(b) == b

\* The innermost block around b with every goto that leads into it.
expand_block_for_goto(b) ==
  LET Closed(c) == \A g \in gotos : contains_stmt(c, g[2]) => contains_stmt(c, g[1])
      Up(c) == {d \in Around(b) : contains_stmt(d, c)}
  IN CHOOSE c \in Around(b) : Closed(c) /\ \A d \in Around(b) \ Up(c) : ~Closed(d)

-----------------------------------------------------------------------------
(* New variables *)

\* want: what becomes of it: "use", "init" of the frame below, "value" is no variable at all.
Frame(want, level, scope, kind) == [want |-> want, level |-> level, scope |-> scope, kind |-> kind, inits |-> {}, ready |-> FALSE]
Making == frames # <<>>
Room == NextId <= MaxVars

\* GenerateNewGlobal and GenerateNewParentLocal; an aggregate with volatile members becomes global.
Make(want, level, scope, kind) ==
  /\ Room /\ (kind = "vector" => level = 0 /\ "vectors" \in opts)
  /\ LET place == IF scope = Global THEN Global ELSE expand_block_for_goto(scope)
     IN frames' = Append(frames, Frame(want, level, place, kind))

Kinds == {"plain", "array", "vector"}

\* A constant, for variables that are no pointers always.
InitConstant ==
  /\ Making /\ frames' = [frames EXCEPT ![Len(frames)].ready = TRUE]
  /\ chosen' = {} /\ UNCHANGED <<opts, stack, filled, gotos, scopes>>

Candidates(f) ==
  {v \in find_all_visible_vars(f.scope) :
     /\ v.level = f.level - 1
     /\ f.scope = Global /\ "ccomp" \in opts => v.kind \in {"plain", "param"}
     /\ "no_addr_of_locals" \in opts => v \in Named({Global})}

isVector(v) == \E u \in Declared : u.id = v.of /\ u.kind = "vector"

\* The address of a visible variable; a vector has none, and another try is made.
InitAddress(v) ==
  /\ Making /\ Last(frames).level > 0
  /\ v \in Candidates(Last(frames)) /\ ~isVector(v)
  /\ frames' = [frames EXCEPT ![Len(frames)].inits = @ \cup {v.id}, ![Len(frames)].ready = TRUE]
  /\ chosen' = {} /\ UNCHANGED <<opts, stack, filled, gotos, scopes>>

\* No variable fits: make_init_value makes one, local if it is a pointer of a local.
\* "ccomp": addresses of arrays are no initial values.
InitPlace(f) == f.scope

UseLocal(f) == f.scope # Global /\ f.level > 1 /\ "no_addr_of_locals" \notin opts
InitNew(kind, volatile) ==
  /\ Making /\ Last(frames).level > 0
  /\ LET f == Last(frames) IN
     IF UseLocal(f) /\ ~volatile THEN Make("init", f.level - 1, InitPlace(f), kind)
     ELSE ("ccomp" \in opts => kind = "plain") /\ Make("init", f.level - 1, Global, kind)
  /\ chosen' = {} /\ UNCHANGED <<opts, stack, filled, gotos, scopes>>

\* It joins its list when its initial values are there; of an array, an item follows, and is returned.
Declare ==
  /\ Making /\ Last(frames).ready /\ Last(frames).want # "value"
  /\ LET f == Last(frames)
         id == Cardinality(Declared) + 1
         var == Var(id, f.level, f.kind, f.inits, id)
         item == Var(id + 1, f.level, "item", {}, id)
         new == IF f.kind = "plain" THEN <<var>> ELSE <<var, item>>
         below == Front(frames)
     IN /\ scopes' = [scopes EXCEPT ![f.scope] = @ \o new]
        /\ IF f.want = "use"
           THEN frames' = below /\ chosen' = {<<Current, Last(new)>>}
           ELSE /\ frames' = (IF f.kind = "vector" THEN below
                              ELSE [below EXCEPT ![Len(below)].inits = @ \cup {Last(new).id}, ![Len(below)].ready = TRUE])
                /\ chosen' = {}
  /\ UNCHANGED <<opts, stack, filled, gotos>>

\* An initial value for an array that is there (make_random_array_init), in the scope of a block around.
MakeValue(level, b) ==
  /\ Idle /\ level > 0 /\ b \in Around(Current)
  /\ frames' = <<Frame("value", level, b, "plain")>> /\ chosen' = {} /\ UNCHANGED <<opts, stack, filled, gotos, scopes>>

UseValue ==
  /\ Making /\ Last(frames).want = "value" /\ Last(frames).ready
  /\ frames' = Front(frames)
  /\ chosen' = {<<Current, v>> : v \in {u \in Declared : u.id \in Last(frames).inits}}
  /\ UNCHANGED <<opts, stack, filled, gotos, scopes>>

-----------------------------------------------------------------------------
(* Selection *)

SelectGlobal == {Named({Global})}
SelectParentLocal == {ToSet(scopes[b]) : b \in Around(Current)}
SelectParentParam == {IF Parameters = {} THEN ToSet(scopes[b]) ELSE Parameters : b \in Around(Current)}
SelectLoopCtrlVar == {{v \in find_all_visible_vars(Current) : v.kind \in {"plain", "item"}}}

Choose(v) == chosen' = {<<Current, v>>} /\ UNCHANGED <<opts, stack, filled, gotos, scopes, frames>>

\* choose_var: a pointer may be dereferenced, an address taken.
select(level) ==
  /\ Idle
  /\ \E list \in SelectGlobal \cup SelectParentLocal \cup SelectParentParam \cup SelectLoopCtrlVar :
       \E v \in list : v.level + 1 >= level /\ Choose(v)

\* GenerateNewVariable, or nothing fits.
SelectNew(level, scope, kind) ==
  /\ Idle /\ scope \in {Global} \cup Around(Current)
  /\ Make("use", level, scope, kind) /\ chosen' = {} /\ UNCHANGED <<opts, stack, filled, gotos, scopes>>

\* A pointer to dereference, or a new one in this block; a volatile one is global.
select_deref_pointer(level, volatile) ==
  /\ Idle /\ level > 0
  /\ \/ \E v \in find_all_visible_vars(Current) \cup Parameters : v.level >= level /\ Choose(v)
     \/ /\ Make("use", level, IF volatile THEN Global ELSE Current, "plain")
        /\ chosen' = {} /\ UNCHANGED <<opts, stack, filled, gotos, scopes>>

Collectives == {v \in find_all_visible_vars(Current) : v.kind \in {"array", "vector"}}
select_array == Idle /\ \E av \in Collectives : Choose(av)

\* No array serves: one of constants is made in an open block, or global.
create_random_array(scope, level, kind) ==
  /\ Idle /\ Room /\ scope \in {Global} \cup Around(Current)
  /\ kind \in {"array", "vector"} /\ (kind = "vector" => level = 0 /\ "vectors" \in opts)
  /\ LET place == IF scope = Global THEN Global ELSE expand_block_for_goto(scope)
         av == Var(NextId, level, kind, {}, NextId)
     IN scopes' = [scopes EXCEPT ![place] = Append(@, av)] /\ chosen' = {<<Current, av>>}
  /\ UNCHANGED <<opts, stack, filled, gotos, frames>>

\* itemize_array: an item at the variables of the loops around, which belongs to the block.
Itemize(av) ==
  /\ Idle /\ Room /\ Around(Current) \cap ArrayLoops # {}
  /\ av \in find_all_visible_vars(Current) /\ av.kind = "array"
  /\ LET item == Var(NextId, av.level, "item", {}, av.id)
     IN scopes' = [scopes EXCEPT ![Current] = Append(@, item)] /\ chosen' = {<<Current, item>>}
  /\ UNCHANGED <<opts, stack, filled, gotos, frames>>

\* What was chosen has its place in an expression.
Use == chosen # {} /\ chosen' = {} /\ UNCHANGED <<opts, stack, filled, gotos, scopes, frames>>

Done == Idle /\ stack = <<Body>> /\ UNCHANGED variableVars

Init ==
  /\ opts \in Options /\ stack = <<Body>> /\ filled = {} /\ gotos = {}
  /\ scopes = [s \in Scopes |-> <<>>] /\ frames = <<>> /\ chosen = {}

Next ==
  \/ AddStatement \/ (\E b \in Blocks : OpenBlock(b)) \/ CloseBlock \/ (\E src, dest \in Blocks : MakeGoto(src, dest))
  \/ InitConstant \/ (\E v \in Declared : InitAddress(v)) \/ (\E k \in Kinds, volatile \in BOOLEAN : InitNew(k, volatile))
  \/ Declare \/ (\E n \in Levels[opts], b \in Blocks : MakeValue(n, b)) \/ UseValue
  \/ (\E n \in Levels[opts] : select(n)) \/ (\E n \in Levels[opts], s \in Scopes, k \in Kinds : SelectNew(n, s, k))
  \/ (\E av \in Declared : Itemize(av)) \/ select_array
  \/ (\E n \in Levels[opts], volatile \in BOOLEAN : select_deref_pointer(n, volatile))
  \/ (\E s \in Scopes, n \in Levels[opts], k \in Kinds : create_random_array(s, n, k)) \/ Use \/ Done

-----------------------------------------------------------------------------
(* Properties *)

ScopeOf(v) == CHOOSE s \in Scopes : \E u \in ToSet(scopes[s]) : u.id = v.id
Variable(id) == CHOOSE v \in Declared : v.id = id
Array(v) == Variable(v.of)
Visible(b, v) == v.kind = "param" \/ ScopeOf(v) = Global \/ contains_stmt(ScopeOf(v), b)

\* A goto never skips the initialisation of a variable: no block has declarations, the label of the goto and
\* not the goto, whichever was made first (has_init_skipped_vars, expand_block_for_goto).
DeclarationsReached == \A g \in gotos : \A b \in Blocks : contains_stmt(b, g[2]) /\ ~contains_stmt(b, g[1]) => Declarations(b) = {}

\* What is chosen is declared where the block sees it, and so is the array of an item.
UsesVisible == \A u \in chosen : Visible(u[1], u[2]) /\ (u[2].kind = "item" => Visible(u[1], Array(u[2])))

\* An initial value is declared before the variable it belongs to, in its list or in a scope around; a global
\* starts with the address of globals.
At(v) == CHOOSE i \in DOMAIN scopes[ScopeOf(v)] : scopes[ScopeOf(v)][i].id = v.id
InitsPrecede ==
  \A v \in Declared : \A id \in v.inits :
    LET u == Array(Variable(id)) IN
    IF ScopeOf(u) = ScopeOf(v) THEN At(u) < At(v)
    ELSE ScopeOf(v) # Global /\ Visible(ScopeOf(v), u)

\* Initial values respect the options: no vectors, for CompCert no arrays in globals, no locals if their addresses
\* are not to be taken.
InitsAllowed ==
  \A v \in Declared : \A id \in v.inits :
    LET u == Array(Variable(id)) IN
    /\ u.kind # "vector"
    /\ "ccomp" \in opts /\ ScopeOf(v) = Global => u.kind = "plain"
    /\ "no_addr_of_locals" \in opts => ScopeOf(u) = Global

\* Variables are found where they are declared, and declared where every way into the
\* block passes, although they are made on demand, in any block around, while others
\* are half made (VariableSelector.cpp:769, :1189).
VariablesInPlace == DeclarationsReached /\ UsesVisible /\ InitsPrecede /\ InitsAllowed
=============================================================================
