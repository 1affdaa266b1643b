------------------------------- MODULE Sections -------------------------------
(***************************************************************************)
(* Generating the blocks of a program with atomic sections (StatementIf.cpp,*)
(* Block.cpp, CLStatement.cpp, ExpressionAtomic.cpp).  One work-item of a   *)
(* group runs a section, nobody knows which: a section must neither wait    *)
(* for others nor leave it early, and assigns by names of its own.  The      *)
(* generator knows where it is by the flags of a context that is changed in *)
(* place, copied for loops and made anew for functions, and by two stacks.  *)
(***************************************************************************)
EXTENDS Naturals, Sequences, FiniteSets

CONSTANTS Options,      \* the features that are on, of "atomics", "reductions", "comm", "messages", "emi"
          NoBlocks,     \* bound: random blocks that are made
          NoStms,       \* bound: statements of sections that are not compound
          NoVars,       \* bound: variables of a block
          Counters      \* no_atomic_blocks

(* Block 0 stands for the globals.  A variable is <<home, number>>. *)

VARIABLES
  phase,          \* "build", "special", "done"
  frames,         \* the calls of Block::make_random in progress: [blk, kind]
  contexts,       \* the CGContexts in use: [atomic, emi, loop]
  blocks,         \* the blocks made: [parent, how], how = what the block belongs to
  vars,           \* number of local_vars of a block
  stms,           \* the statements of sections, and the jumps: [blk, kind, target]
  free,           \* free_counters
  block_vars,     \* stack of: block |-> variables that may be assigned to
  atomic_parent,  \* stack of blocks
  recorded,       \* atomic_blocks: [blk, counter]
  conditions,     \* counters of the conditions made and not yet recorded
  results         \* the result statements of a section: block |-> variables summed

sVars == <<phase, frames, contexts, blocks, vars, stms, free, block_vars, atomic_parent, recorded, conditions, results>>

-----------------------------------------------------------------------------
Top(s) == s[Len(s)]
Pop(s) == SubSeq(s, 1, Len(s) - 1)

Building == phase = "build" /\ frames # <<>>
Ctx == Top(contexts)
Cur == Top(frames).blk
SetCtx(c) == contexts' = Append(Pop(contexts), c)

Declared(b) == {<<b, i>> : i \in 1 .. vars[b]}

Returned(b) == \E s \in stms : s.blk = b /\ s.kind \in {"return", "break", "continue"}
More == Building /\ ~Returned(Cur)

Stm(kind, target) == [blk |-> Cur, kind |-> kind, target |-> target]
NoTarget == <<0, 0>>

RECURSIVE Enclosing(_)
Enclosing(b) == IF b = 0 THEN {} ELSE {b} \cup Enclosing(blocks[b].parent)
Within(how, b) == \E e \in Enclosing(b) : blocks[e].how = how

\* Bound.
MoreStms == More /\ Cardinality({s \in stms : s.kind # "loop"}) < NoStms

Record(kind, target) == stms' = IF Within("section", Cur) THEN stms \cup {Stm(kind, target)} ELSE stms

Visible == Declared(0) \cup UNION {Declared(b) : b \in Enclosing(Cur)}

\* Every statement that assigns may do so to a new variable.
Use(kind, v) ==
  /\ Record(kind, v)
  /\ vars' = IF v \in Declared(v[1]) THEN vars ELSE [vars EXCEPT ![v[1]] = @ + 1]

New(b) == IF vars[b] < NoVars THEN {<<b, vars[b] + 1>>} ELSE {}

-----------------------------------------------------------------------------
(* The variables of sections *)

\* What a new block may assign to besides its own variables: a copy of what its
\* parent may assign to now, and of the locals of its parent unless that is the
\* block outside of the section.
GenBlockVars(b, parent, locals, known, outer) ==
  [x \in DOMAIN known \cup {b} |->
     IF x # b THEN known[x]
     ELSE (IF parent # outer THEN locals ELSE {})
          \cup IF parent \in DOMAIN known THEN known[parent] ELSE {}]

\* Assignments of a section name variables of the blocks around, of the block, new ones;
\* the first two may be pointers that are dereferenced, and lead anywhere.
LhsInSection == Top(block_vars)[Cur] \cup Declared(Cur) \cup New(Cur)
Lhs == IF Ctx.atomic THEN LhsInSection
       ELSE Visible \cup New(0) \cup UNION {New(b) : b \in Enclosing(Cur)}

SelectLoopCtrlVar == IF Ctx.atomic THEN Declared(Cur) \cup New(Cur) ELSE Visible \cup New(0)

-----------------------------------------------------------------------------
(* Statements that are not compound *)

Rest == UNCHANGED <<phase, frames, contexts, blocks, free, block_vars, atomic_parent, recorded, conditions, results>>

Dereferenced == IF Ctx.atomic THEN Top(block_vars)[Cur] \cup Declared(Cur) ELSE Lhs

MakeAssign ==
  /\ MoreStms
  /\ (\E v \in Lhs : Use("assign", v)) \/ (\E p \in Dereferenced : Use("deref", p))
  /\ Rest

\* select_array knows nothing of sections.
MakeArrayInit == MoreStms /\ (\E v \in Visible \cup New(0) : Use("arrayOp", v)) /\ Rest

JumpAllowed(kind) == ~Ctx.atomic /\ (kind = "return" \/ Ctx.loop)

MakeJump ==
  /\ MoreStms
  /\ \E kind \in {"return", "break", "continue"} : JumpAllowed(kind) /\ stms' = stms \cup {Stm(kind, NoTarget)}
  /\ UNCHANGED vars /\ Rest

CLStatementAllowed(kind) ==
  /\ kind \in Options
  /\ kind \in {"reductions", "comm"} => ~Ctx.atomic

MakeCLStatement ==
  /\ MoreStms
  /\ \E kind \in {"reductions", "comm", "messages"} : CLStatementAllowed(kind) /\ Record(kind, NoTarget)
  /\ UNCHANGED vars /\ Rest

-----------------------------------------------------------------------------
(* Blocks *)

\* A random block: in a section it gets its variables.
Push(how, parent, others) ==
  LET b == Len(blocks) + 1
      reserved == Cardinality({i \in DOMAIN frames : frames[i].kind = "then"}) + IF how = "then" THEN 1 ELSE 0
  IN
  /\ b + reserved <= NoBlocks
  /\ blocks' = Append(blocks, [parent |-> parent, how |-> how])
  /\ frames' = Append(frames, [blk |-> b, kind |-> how])
  /\ others

WithBlockVars(parent, locals) ==
  IF Ctx.atomic
    THEN block_vars' = Append(Pop(block_vars),
                              GenBlockVars(Len(blocks) + 1, parent, locals, Top(block_vars), Top(atomic_parent)))
    ELSE UNCHANGED block_vars

Taken(c) == free \ {c}

\* An `if' that asks an atomic counter; without a free one it asks something else.
OpenSection ==
  /\ More /\ "atomics" \in Options /\ ~Ctx.atomic
  /\ IF free # {}
       THEN \E c \in free :
              /\ free' = Taken(c) /\ conditions' = Append(conditions, c)
              /\ atomic_parent' = Append(atomic_parent, Cur)
              /\ SetCtx([Ctx EXCEPT !.atomic = TRUE])
              /\ Push("section", Cur,
                      block_vars' = Append(block_vars, GenBlockVars(Len(blocks) + 1, Cur, Declared(Cur), <<>>, Cur)))
       ELSE /\ SetCtx([Ctx EXCEPT !.atomic = FALSE])
            /\ Push("then", Cur, TRUE)
            /\ UNCHANGED <<free, conditions, atomic_parent, block_vars>>
  /\ UNCHANGED <<phase, vars, stms, recorded, results>>

OpenIf ==
  /\ More /\ Push("then", Cur, WithBlockVars(Cur, Declared(Cur)))
  /\ UNCHANGED <<phase, contexts, vars, stms, free, atomic_parent, recorded, conditions, results>>

\* The body of a loop gets a context of its own.
OpenFor ==
  /\ More
  /\ \E v \in SelectLoopCtrlVar : Use("loop", v)
  /\ contexts' = Append(contexts, [Ctx EXCEPT !.loop = TRUE])
  /\ Push("loop", Cur, WithBlockVars(Cur, {<<Cur, i>> : i \in 1 .. vars'[Cur]}))
  /\ UNCHANGED <<phase, free, atomic_parent, recorded, conditions, results>>

OpenEMI ==
  /\ More /\ "emi" \in Options /\ ~Ctx.emi
  /\ SetCtx([Ctx EXCEPT !.emi = TRUE])
  /\ Push("emi", Cur, WithBlockVars(Cur, Declared(Cur)))
  /\ UNCHANGED <<phase, vars, stms, free, atomic_parent, recorded, conditions, results>>

\* An expression calls a new function: expressions of sections have no calls.
CallFunction ==
  /\ More /\ ~Ctx.atomic
  /\ contexts' = Append(contexts, [atomic |-> FALSE, emi |-> FALSE, loop |-> FALSE])
  /\ Push("body", 0, UNCHANGED block_vars)
  /\ UNCHANGED <<phase, vars, stms, free, atomic_parent, recorded, conditions, results>>

-----------------------------------------------------------------------------
(* The end of a block *)

Close(kind) == Building /\ Top(frames).kind = kind /\ UNCHANGED <<phase, vars, stms, free, results>>

\* The section ends; its other branch does nothing.
CloseSection ==
  /\ Close("section")
  /\ recorded' = recorded \cup {[blk |-> Cur, counter |-> Top(conditions)]}
  /\ conditions' = Pop(conditions)
  /\ block_vars' = Pop(block_vars) /\ atomic_parent' = Pop(atomic_parent)
  /\ SetCtx([Ctx EXCEPT !.atomic = FALSE])
  /\ frames' = Pop(frames) /\ UNCHANGED blocks

NothingRecorded == UNCHANGED <<recorded, conditions, atomic_parent>>

\* The flag cleared at the end of every `if': for a mutant.
CloseThenClearing ==
  /\ Close("then")
  /\ frames' = Append(Pop(frames), [blk |-> Len(blocks) + 1, kind |-> "else"])
  /\ blocks' = Append(blocks, [parent |-> blocks[Cur].parent, how |-> "else"])
  /\ WithBlockVars(blocks[Cur].parent, Declared(blocks[Cur].parent))
  /\ SetCtx([Ctx EXCEPT !.atomic = FALSE]) /\ NothingRecorded

\* The other branch of an `if' follows at once.
CloseThen ==
  /\ Close("then")
  /\ frames' = Append(Pop(frames), [blk |-> Len(blocks) + 1, kind |-> "else"])
  /\ blocks' = Append(blocks, [parent |-> blocks[Cur].parent, how |-> "else"])
  /\ WithBlockVars(blocks[Cur].parent, Declared(blocks[Cur].parent))
  /\ UNCHANGED contexts /\ NothingRecorded

CloseElse == Close("else") /\ frames' = Pop(frames) /\ UNCHANGED <<contexts, blocks, block_vars>> /\ NothingRecorded

CloseLoop ==
  /\ Close("loop")
  /\ frames' = Pop(frames) /\ contexts' = Pop(contexts)
  /\ UNCHANGED <<blocks, block_vars>> /\ NothingRecorded

CloseEMI ==
  /\ Close("emi")
  /\ frames' = Pop(frames) /\ SetCtx([Ctx EXCEPT !.emi = FALSE])
  /\ UNCHANGED <<blocks, block_vars>> /\ NothingRecorded

CloseBody ==
  /\ Close("body")
  /\ frames' = Pop(frames) /\ contexts' = Pop(contexts)
  /\ UNCHANGED <<blocks, block_vars>> /\ NothingRecorded

\* After generation every section sums the variables it declares.
GenSpecialVals ==
  /\ phase = "build" /\ frames = <<>> /\ phase' = "done"
  /\ results' = [b \in {r.blk : r \in recorded} |-> Declared(b)]
  /\ UNCHANGED <<frames, contexts, blocks, vars, stms, free, block_vars, atomic_parent, recorded, conditions>>

Init ==
  /\ phase = "build"
  /\ blocks = <<[parent |-> 0, how |-> "body"]>>
  /\ frames = <<[blk |-> 1, kind |-> "body"]>>
  /\ contexts = <<[atomic |-> FALSE, emi |-> FALSE, loop |-> FALSE]>>
  /\ vars = [b \in 0 .. NoBlocks |-> 0]
  /\ stms = {} /\ free = Counters /\ block_vars = <<>> /\ atomic_parent = <<>>
  /\ recorded = {} /\ conditions = <<>> /\ results = <<>>

Done == phase = "done" /\ UNCHANGED sVars

Next == \/ MakeAssign \/ MakeArrayInit \/ MakeJump \/ MakeCLStatement
        \/ OpenSection \/ OpenIf \/ OpenFor \/ OpenEMI \/ CallFunction
        \/ CloseSection \/ CloseThen \/ CloseElse \/ CloseLoop \/ CloseEMI \/ CloseBody
        \/ GenSpecialVals \/ Done

Spec == Init /\ [][Next]_sVars

-----------------------------------------------------------------------------
\* The flags of the context say where the generator is, whatever was opened and
\* closed before: the one of sections is cleared in place by their `if', the one
\* of EMI sections is restored (StatementIf.cpp:136, StatementEMI.cpp:43).
FlagsAreLexical ==
  (phase = "build" /\ frames # <<>>) =>
    /\ Ctx.atomic <=> Within("section", Cur)
    /\ Ctx.emi <=> Within("emi", Cur)
    /\ Ctx.loop <=> Within("loop", Cur)

\* A section has no statement that waits for the group, and none that leaves it
\* before its result is added (CLStatement.cpp:41, Statement.cpp:159).
SectionsRunAlone ==
  \A s \in stms : Within("section", s.blk) => s.kind \notin {"reductions", "comm", "return", "break", "continue"}

\* The variables on the left sides of a section, pointers that are dereferenced too,
\* are declared in it and seen by the statement: another work-item would have them
\* otherwise (Lhs.cpp:79, VariableSelector.cpp:1189).  What such a pointer leads to may
\* lie outside, and array initialisations do not keep to this.
SectionsNameTheirOwn ==
  \A s \in stms : (s.kind \in {"assign", "deref", "loop"} /\ Within("section", s.blk)) =>
    s.target[1] \in Enclosing(s.blk) /\ Within("section", s.target[1])

\* No counter lets two work-items into sections that were made for one, and the
\* section that is recorded is the one of the condition (ExpressionAtomic.cpp:88).
CountersAreOwned ==
  /\ \A r, s \in recorded : r.counter = s.counter => r = s
  /\ phase = "done" => /\ {r.blk : r \in recorded} = {b \in DOMAIN blocks : blocks[b].how = "section"}
                       /\ block_vars = <<>> /\ atomic_parent = <<>>

\* The generator knows when it is in a section, and so a section neither waits nor leaves,
\* assigns by the names of its own variables and is the only one of its counter
\* (StatementIf.cpp:76).
SectionsSound == FlagsAreLexical /\ SectionsRunAlone /\ SectionsNameTheirOwn /\ CountersAreOwned
=============================================================================
