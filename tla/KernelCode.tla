----------------------------- MODULE KernelCode -----------------------------
(***************************************************************************)
(* The code CLSmith emits for the statements through which the work-items  *)
(* of a group meet: inter-thread communication (StatementComm.cpp), atomic *)
(* reductions (StatementAtomicReduction.cpp), atomic sections              *)
(* (ExpressionAtomic.cpp, StatementAtomicResult.cpp), gated barriers       *)
(* (StatementBarrier.cpp), and the entry function around them              *)
(* (CLOutputMgr.cpp).                                                      *)
(*                                                                         *)
(* A program is a sequence of statements, each a record.  Every Output     *)
(* function of the source is an operator that returns the instructions its *)
(* text stands for.  An instruction is one access to memory, one barrier   *)
(* or one jump, so that the accesses of different work-items interleave.   *)
(* The operand of a statement is a random expression of the source: a      *)
(* constant plus one thing it may read.                                    *)
(***************************************************************************)
EXTENDS Naturals, Sequences

Spaces == {"local", "global"}

\* What the expressions of a program may read: nothing, the work-item's own
\* item of l_comm_values or g_comm_values, its group (GROUP_DIVERGE) or its
\* global id (real divergence).
Sources == Spaces \cup {"nothing", "group", "id"}

AtomicFunctions == {"add", "sub", "min", "max", "and", "or", "xor"}

Expression == [source : Sources, add : Nat]

\* The statements that meet others, and "nothing" for those that only use
\* variables of their own block.
Leaf ==
    [stm : {"nothing", "barrier"}]
      \cup [stm : {"assign"}, space : Spaces, expr : Expression]
      \cup [stm : {"comm"}, expr : Expression]
      \cup [stm : {"reduction"}, fn : AtomicFunctions, space : Spaces, expr : Expression,
            addGlobal : BOOLEAN]

\* Bounds: an atomic section holds one leaf, a branch and a loop one of either.
Section == [stm : {"section"}, space : Spaces, counter : Nat, at : Nat, result : Nat,
            body : Leaf]

Simple == Leaf \cup Section

Statement ==
    Simple
      \cup [stm : {"if"}, expr : Expression, body : Simple]
      \cup [stm : {"for"}, body : Simple]

Instruction ==
    [op : {"init", "barrier", "permute", "take", "give", "shut"}]
      \cup [op : {"eval"}, expr : Expression]
      \cup [op : {"store", "collect"}, space : Spaces]
      \cup [op : {"branch", "gate"}, skip : Nat]
      \cup [op : {"atomic"}, fn : AtomicFunctions, space : Spaces, addGlobal : BOOLEAN]
      \cup [op : {"section"}, space : Spaces, counter : Nat, at : Nat, skip : Nat]
      \cup [op : {"result"}, space : Spaces, counter : Nat, add : Nat]
      \cup [op : {"hash"},
            what : {"v_collective", "g_special_values", "l_special_values", "comm_values"}]

Barrier == [op |-> "barrier"]
Eval(e) == [op |-> "eval", expr |-> e]

\* var = expr, for an assignment that csmith generates to local_var or
\* global_var.
OutputAssign(s) == <<Eval(s.expr), [op |-> "store", space |-> s.space]>>

\* Mutant: without the barrier.
OutputCommUnfenced(s) == <<Eval(s.expr), [op |-> "permute"]>>

\* barrier; tid = group * size + permutations[rand_expr % 10][tid % size]
OutputComm(s) == <<Barrier, Eval(s.expr), [op |-> "permute"]>>

\* Mutant: without the last barrier.
OutputReductionUnfenced(s) ==
    <<Eval(s.expr),
      [op |-> "atomic", fn |-> s.fn, space |-> s.space, addGlobal |-> s.addGlobal],
      Barrier,
      [op |-> "collect", space |-> s.space]>>

\* atomic_fn(&target, expr [+ global id]); barrier;
\* if (local id == 0) v_collective += target; barrier
OutputReduction(s) ==
    <<Eval(s.expr),
      [op |-> "atomic", fn |-> s.fn, space |-> s.space, addGlobal |-> s.addGlobal],
      Barrier,
      [op |-> "collect", space |-> s.space],
      Barrier>>

\* if (atomic_inc(&counter) == at) { body; atomic_add(&special, result); }
OutputSection(s, body) ==
    <<[op |-> "section", space |-> s.space, counter |-> s.counter,
       at |-> s.at, skip |-> Len(body) + 1]>>
      \o body \o
    <<[op |-> "result", space |-> s.space, counter |-> s.counter, add |-> s.result]>>

\* if (!gate) { temp = lb[local id] * id0; barrier; lb[id0 ^ 1] = temp;
\*              barrier; gate = 1; }
OutputGatedBarrier ==
    <<[op |-> "gate", skip |-> 5],
      [op |-> "take"], Barrier, [op |-> "give"], Barrier, [op |-> "shut"]>>

OutputLeaf(s) ==
    CASE s.stm = "nothing"   -> <<>>
      [] s.stm = "assign"    -> OutputAssign(s)
      [] s.stm = "comm"      -> OutputComm(s)
      [] s.stm = "reduction" -> OutputReduction(s)
      [] s.stm = "barrier"   -> OutputGatedBarrier

OutputSimple(s) ==
    IF s.stm = "section" THEN OutputSection(s, OutputLeaf(s.body)) ELSE OutputLeaf(s)

\* if (expr) body
OutputIf(s) ==
    LET body == OutputSimple(s.body)
    IN  <<Eval(s.expr), [op |-> "branch", skip |-> Len(body)]>> \o body

\* A loop whose trip count is fixed, unrolled.  Bound: two iterations.
OutputFor(s) == OutputSimple(s.body) \o OutputSimple(s.body)

OutputStatement(s) ==
    IF s.stm = "if" THEN OutputIf(s)
    ELSE IF s.stm = "for" THEN OutputFor(s)
    ELSE OutputSimple(s)

\* OutputEntryFunction, before and after the call of func_1: initialise the
\* buffers of the group and wait; wait, then hash the private globals, the
\* special values and the work-item's own items.  The source emits the hashing of
\* special values with --atomics and that of the comm buffers with
\* --inter_thread_comm; here both are there in every kernel, and hash values that
\* nothing changes when the option is off.
Prologue == <<[op |-> "init"], Barrier>>

Epilogue ==
    <<Barrier, [op |-> "hash", what |-> "v_collective"],
      Barrier, [op |-> "hash", what |-> "g_special_values"],
      Barrier, [op |-> "hash", what |-> "l_special_values"],
      [op |-> "hash", what |-> "comm_values"]>>
=============================================================================
