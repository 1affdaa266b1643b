------------------------------- MODULE Effects -------------------------------
(***************************************************************************)
(* Random expressions under effect contexts (Expression, FunctionInvocation, *)
(* StatementAssign, Lhs, CGContext, Effect): an operand is generated knowing *)
(* what those it may be evaluated before or after have read and written, so  *)
(* that the result does not depend on the order the compiler takes.          *)
(*                                                                          *)
(* A term is [op, v, deref, subs].  Facts about pointers are external here:   *)
(* points is all a pointer may point to.                                     *)
(***************************************************************************)
EXTENDS Integers, Sequences, FiniteSets

CONSTANTS Object,       \* name -> [parent, shape, whole, index, points, volatile]
          Callees,      \* name -> [params, known, actual, revisit, made, before], effects of a function
          Counters,     \* iv_bounds: the variables of the loops around
          Contexts,     \* effect contexts the generation may start in
          Kinds,        \* operations that are generated
          Leaves,       \* <<variable, dereferenced>> that are read
          Targets,      \* <<variable, dereferenced>> that are assigned
          MaxExprDepth, \* max_expr_depth
          MaxOps        \* bound: operations of a term

VARIABLES cgs,        \* the CGContexts that are open: [context, accum, stm]
          frames,     \* the operations that are open: [kind, v, kids, running, saved]
          value,      \* <<>>, or the term that is finished, <<term>>
          expr_depth, \* variables, constants and calls so far
          ops,        \* operations so far
          finished    \* the term of the statement

effectVars == <<cgs, frames, value, expr_depth, ops, finished>>

None == "none"
Vars == DOMAIN Object
RECURSIVE Chain(_)
Chain(v) == IF v = None THEN {} ELSE {v} \cup Chain(Object[v].parent)
get_collective(v) == Object[v].whole
Unions(v) == {x \in Chain(v) : Object[x].shape = "union"}
has_field_var(v, x) == v \in Chain(x)

-----------------------------------------------------------------------------
(* Effect *)

Empty == [r |-> {}, w |-> {}, lhs |-> {}, free |-> TRUE]

RECURSIVE is_read(_, _)
is_read(e, v) == v \in e.r \/ (Object[v].parent # None /\ Object[Object[v].parent].shape = "struct" /\ is_read(e, Object[v].parent))
is_written(e, v) == Chain(v) \cap e.w # {}

Inner(v) == {x \in Vars : has_field_var(v, x) /\ x # v}
Sibling(v, set) == \E x \in set : Unions(v) # {} /\ Unions(get_collective(x)) \cap Unions(v) # {}
is_read_partially(e, v) == is_read(e, v) \/ (\E x \in Inner(v) : is_read(e, x)) \/ Sibling(v, e.r)
is_written_partially(e, v) == is_written(e, v) \/ (\E x \in Inner(v) : is_written(e, x)) \/ Sibling(v, e.w)

Volatile(S) == \E v \in S : Object[v].volatile
ReadAll(e, S) == [e EXCEPT !.r = @ \cup S, !.free = @ /\ ~Volatile(S)]
WriteAll(e, S) == [e EXCEPT !.w = @ \cup S, !.free = @ /\ ~Volatile(S)]

\* add_effect
Join(e, f, include_lhs) ==
  [r |-> e.r \cup f.r, w |-> e.w \cup f.w, lhs |-> IF include_lhs THEN e.lhs \cup f.lhs ELSE e.lhs, free |-> e.free /\ f.free]

-----------------------------------------------------------------------------
(* CGContext *)

Top == cgs[Len(cgs)]
Fresh(context) == [context |-> context, accum |-> Empty, stm |-> Empty]

is_nonwritable(v) == \E c \in Counters : has_field_var(c, v) \/ has_field_var(v, c) \/ Unions(c) \cap Unions(v) # {}

check_read_var(cg, v) ==
  /\ ~is_written_partially(cg.context, v)
  /\ Object[v].volatile => cg.context.free

check_write_var(cg, v) ==
  /\ ~is_nonwritable(v)
  /\ ~is_written_partially(cg.context, v) /\ ~is_read_partially(cg.context, v)
  /\ Object[v].volatile => cg.context.free

\* The variables that x reads: indices, the variable, and what it points to.
Read(x) == Object[x[1]].index \cup {get_collective(x[1])} \cup (IF x[2] THEN Object[x[1]].points ELSE {})
CanRead(cg, x) == \A v \in Read(x) : check_read_var(cg, v)
AfterRead(cg, x) == [cg EXCEPT !.accum = ReadAll(@, Read(x)), !.stm = ReadAll(@, Read(x))]

in_conflict(cg, e) == (\E v \in e.r : ~check_read_var(cg, v)) \/ (\E v \in e.w : ~check_write_var(cg, v))

\* Mutant: an assignment is no effect of the expression around it.
MergeStm(cg, e, include_lhs) == [cg EXCEPT !.stm = Join(@, e, FALSE)]

\* merge_param_context
Merge(cg, e, include_lhs) == [cg EXCEPT !.accum = Join(@, e, include_lhs), !.stm = Join(@, e, FALSE)]

-----------------------------------------------------------------------------
(* Expressions *)

Term(op, v, deref, subs) == [op |-> op, v |-> v, deref |-> deref, subs |-> subs]
Frame == frames[Len(frames)]
Push(s, x) == Append(s, x)
Pop(s) == SubSeq(s, 1, Len(s) - 1)
Replace(s, x) == [s EXCEPT ![Len(s)] = x]
Ready == value = <<>> /\ finished = <<>>

\* Operations whose operands are generated in contexts of their own.
OwnContext(kind) == kind \in {"add", "call", "assign", "compound"}
Arity(f) == IF f.kind = "call" THEN Callees[f.v].params ELSE IF f.kind \in {"assign", "compound"} THEN 1 ELSE IF f.kind = "incr" THEN 0 ELSE 2
Wanted == Ready /\ (IF frames = <<>> THEN TRUE ELSE Len(Frame.kids) < Arity(Frame))

\* Functions, assignments and comma expressions are filtered once an expression is deep enough.
MayOpen == Wanted /\ ops < MaxOps /\ expr_depth + 2 <= MaxExprDepth

Constant ==
  /\ Wanted
  /\ value' = <<Term("const", None, FALSE, <<>>)>> /\ expr_depth' = expr_depth + 1
  /\ UNCHANGED <<cgs, frames, ops, finished>>

\* ExpressionVariable::make_random: choices that are not valid are undone and tried again.
Variable(x) ==
  /\ Wanted /\ CanRead(Top, x)
  /\ cgs' = Replace(cgs, AfterRead(Top, x))
  /\ value' = <<Term("read", x[1], x[2], <<>>)>> /\ expr_depth' = expr_depth + 1
  /\ UNCHANGED <<frames, ops, finished>>

\* A function that exists is chosen if its effect fits; one that is made only needs its parameters first.
choose_func(f) == Callees[f].made \/ ~in_conflict(Top, Callees[f].known)

\* The operand is generated in the context of its operation, or one of its own.
Open(kind, v) ==
  /\ MayOpen /\ kind \in Kinds /\ (kind = "call" => choose_func(v))
  /\ LET f == [kind |-> kind, v |-> v, kids |-> <<>>, running |-> Top.context, saved |-> <<Top.accum, Top.stm>>]
     IN frames' = Push(frames, f) /\ cgs' = (IF OwnContext(kind) /\ Arity(f) > 0 THEN Push(cgs, Fresh(Top.context)) ELSE cgs)
  /\ ops' = ops + 1 /\ UNCHANGED <<value, expr_depth, finished>>

\* What the next operand of f has to be generated under.
RunningContext(f, e) ==
  CASE f.kind \in {"add", "call"} -> Join(f.running, e, FALSE)
    [] f.kind = "assign" -> WriteAll(f.running, e.lhs)
    [] f.kind = "compound" -> WriteAll(Join(f.running, e, FALSE), e.lhs)

\* The assignments in parameters are over when the function is called.
KeepsLhs(f) == f.kind # "call"

\* An operand is finished.
Operand ==
  /\ value # <<>> /\ frames # <<>> /\ value' = <<>>
  /\ LET kids == Push(Frame.kids, value[1])
         last == Len(kids) = Arity(Frame)
     IN IF OwnContext(Frame.kind)
        THEN LET e == Top.accum
                 run == RunningContext(Frame, e)
                 below == Pop(cgs)
                 merged == Replace(below, Merge(below[Len(below)], e, KeepsLhs(Frame)))
             IN /\ frames' = Replace(frames, [Frame EXCEPT !.kids = kids, !.running = run])
                /\ cgs' = (IF Frame.kind \in {"assign", "compound"} THEN Push(merged, [Fresh(run) EXCEPT !.stm = Top.stm])
                           ELSE IF last THEN merged ELSE Push(merged, Fresh(run)))
        ELSE frames' = Replace(frames, [Frame EXCEPT !.kids = kids]) /\ UNCHANGED cgs
  /\ UNCHANGED <<expr_depth, ops, finished>>

Complete == Ready /\ frames # <<>> /\ Len(Frame.kids) = Arity(Frame)
Return(term) == value' = <<term>> /\ frames' = Pop(frames) /\ UNCHANGED <<ops, finished>>

\* Binary operations, comma expressions, vector literals and calls of built-ins.
Combine ==
  /\ Complete /\ Frame.kind \in {"add", "and", "comma", "vector", "builtin"}
  /\ Return(Term(Frame.kind, None, FALSE, Frame.kids)) /\ UNCHANGED <<cgs, expr_depth>>

\* The body of a function that changes pointers is visited again, in the context of the call and of the
\* calls before; one that is just made was generated in that context.
Succeeds(f) ==
  LET c == Callees[f] IN ~c.revisit \/ ~in_conflict([Top EXCEPT !.context = Join(@, c.before, FALSE)], c.actual)

ExternalEffect(f) == IF Callees[f].revisit THEN Callees[f].actual ELSE Callees[f].known

Restored == [Top EXCEPT !.accum = [Frame.saved[1] EXCEPT !.lhs = Top.accum.lhs], !.stm = [Frame.saved[2] EXCEPT !.lhs = Top.stm.lhs]]

Call ==
  /\ Complete /\ Frame.kind = "call"
  /\ Callees[Frame.v].made => Succeeds(Frame.v)
  /\ IF Succeeds(Frame.v)
     THEN /\ cgs' = Replace(cgs, Merge(Top, ExternalEffect(Frame.v), FALSE))
          /\ Return(Term("call", Frame.v, FALSE, Frame.kids)) /\ expr_depth' = expr_depth + 1
     ELSE \* the effects of the parameters go with the call; a variable is read instead
          \E x \in Leaves :
            /\ CanRead(Restored, x) /\ cgs' = Replace(cgs, AfterRead(Restored, x))
            /\ Return(Term("read", x[1], x[2], <<>>)) /\ expr_depth' = expr_depth + 1

\* ptr_modified_in_rhs, and the same check in Lhs::make_random: for the variable as it is written.
ModifiedInRhs(cg, x) == is_written(cg.stm, x[1])

\* Lhs::visit_facts
ValidLhs(cg, x, compound) ==
  LET indices == [cg EXCEPT !.context = Join(@, cg.stm, FALSE)] IN
  /\ ~ModifiedInRhs(cg, x)
  /\ compound => CanRead(cg, x)
  /\ \A v \in Object[x[1]].index : check_read_var(indices, v) /\ check_read_var(cg, v)
  /\ IF x[2] THEN check_read_var(cg, get_collective(x[1])) /\ \A v \in Object[x[1]].points : check_write_var(cg, v)
     ELSE check_write_var(cg, get_collective(x[1]))

Written(x) == IF x[2] THEN Object[x[1]].points ELSE {get_collective(x[1])}
LhsReads(x, compound) ==
  Object[x[1]].index \cup (IF x[2] THEN {get_collective(x[1])} ELSE {}) \cup (IF compound THEN Read(x) ELSE {})

\* Pointers are only assigned.
Arithmetic(x) == \A v \in Written(x) : Object[v].points = {}
Fits(x) == Frame.kind # "assign" => Arithmetic(x)
LhsContext == IF Frame.kind = "incr" THEN Fresh(Top.context) ELSE Top

\* The target is chosen last, under what the right side assigns.
Assign(x) ==
  /\ Complete /\ Frame.kind \in {"assign", "compound", "incr"} /\ Fits(x)
  /\ LET e == WriteAll(ReadAll(Empty, LhsReads(x, Frame.kind # "assign")), Written(x))
         below == IF Frame.kind = "incr" THEN cgs ELSE Pop(cgs)
     IN /\ ValidLhs(LhsContext, x, Frame.kind # "assign")
        /\ cgs' = Replace(below, Merge(below[Len(below)], [e EXCEPT !.lhs = e.w], TRUE))
  /\ Return(Term(Frame.kind, x[1], x[2], Frame.kids)) /\ UNCHANGED expr_depth

Finish ==
  /\ value # <<>> /\ frames = <<>> /\ finished = <<>>
  /\ finished' = value /\ value' = <<>> /\ UNCHANGED <<cgs, frames, expr_depth, ops>>

\* The statement is over, or no choice is valid: a new variable would be made.
Stuck ==
  /\ Complete
  /\ IF Frame.kind \in {"assign", "compound", "incr"} THEN \A x \in Targets : ~Fits(x) \/ ~ValidLhs(LhsContext, x, Frame.kind # "assign")
     ELSE Frame.kind = "call" /\ ~Succeeds(Frame.v) /\ (Callees[Frame.v].made \/ \A x \in Leaves : ~CanRead(Restored, x))
Done == (finished # <<>> \/ Stuck) /\ UNCHANGED effectVars

Init ==
  /\ \E c \in Contexts : cgs = <<Fresh(c)>>
  /\ frames = <<>> /\ value = <<>> /\ expr_depth = 0 /\ ops = 0 /\ finished = <<>>

Next ==
  \/ Constant \/ (\E x \in Leaves : Variable(x))
  \/ (\E kind \in {"add", "and", "comma", "vector", "builtin", "assign", "compound", "incr"} : Open(kind, None))
  \/ (\E f \in DOMAIN Callees : Open("call", f))
  \/ Operand \/ Combine \/ Call \/ (\E x \in Targets : Assign(x)) \/ Finish \/ Done

Spec == Init /\ [][Next]_effectVars

-----------------------------------------------------------------------------
(* What the terms mean in C *)

Overlap(v, x) == v \in Chain(x) \/ x \in Chain(v) \/ Unions(v) \cap Unions(x) # {}
Clash(S, T) == \E v \in S, x \in T : Overlap(v, x)

RECURSIVE Reads(_), Writes(_), Pending(_)
OfSubs(t, F(_)) == UNION {F(t.subs[i]) : i \in DOMAIN t.subs}
IsAssign(t) == t.op \in {"assign", "compound", "incr"}

Reads(t) ==
  OfSubs(t, Reads) \cup
  CASE t.op = "read" -> Read(<<t.v, t.deref>>)
    [] t.op = "call" -> Callees[t.v].actual.r
    [] IsAssign(t) -> LhsReads(<<t.v, t.deref>>, t.op # "assign")
    [] OTHER -> {}
Writes(t) ==
  OfSubs(t, Writes) \cup
  CASE t.op = "call" -> Callees[t.v].actual.w
    [] IsAssign(t) -> Written(<<t.v, t.deref>>)
    [] OTHER -> {}
\* Objects whose assignments may still be outstanding when the value is there.
Pending(t) ==
  CASE t.op \in {"const", "read", "call"} -> {}
    [] t.op \in {"and", "comma"} -> Pending(t.subs[2])
    [] IsAssign(t) -> OfSubs(t, Pending) \cup Written(<<t.v, t.deref>>)
    [] OTHER -> OfSubs(t, Pending)

Conflict(s, t) == Clash(Writes(s), Reads(t) \cup Writes(t)) \/ Clash(Reads(s), Writes(t))
Unsequenced(s, t) ==
  \/ Conflict(s, t)
  \/ Volatile(Reads(s) \cup Writes(s)) /\ Volatile(Reads(t) \cup Writes(t))

\* Two operands that interfere, or a target that interferes with the right side, at the root of t.
Interferes(t) ==
  CASE t.op \in {"add", "call", "vector", "builtin"} -> \E i, j \in DOMAIN t.subs : i < j /\ Unsequenced(t.subs[i], t.subs[j])
    [] IsAssign(t) /\ t.op # "incr" ->
         \/ Clash(LhsReads(<<t.v, t.deref>>, t.op = "compound"), Writes(t.subs[1]))
         \/ Clash(Written(<<t.v, t.deref>>), Pending(t.subs[1]))
    [] OTHER -> FALSE

RECURSIVE Terms(_)
Terms(t) == {t} \cup OfSubs(t, Terms)

\* Not generated under contexts: the parts of vectors and the arguments of built-ins; and the pointer
\* of *a[i], which the check for the right side does not find by its array.
Unchecked(t) ==
  \/ t.op \in {"vector", "builtin"}
  \/ IsAssign(t) /\ t.deref /\ get_collective(t.v) # t.v

-----------------------------------------------------------------------------
(* Properties *)

\* The result of a statement does not depend on the order of evaluation.
ResultsDetermined == \A i \in DOMAIN finished : \A t \in Terms(finished[i]) : ~Unchecked(t) => ~Interferes(t)

\* No part of a vector, or argument of a built-in function, changes what another accesses
\* ("the RHS must be generated under the combined effect"): not so.
PartsDetermined ==
  \A i \in DOMAIN finished : \A t \in Terms(finished[i]) :
    t.op \in {"vector", "builtin"} => \A k, l \in DOMAIN t.subs : k < l => ~Conflict(t.subs[k], t.subs[l])

\* The same of pointers assigned through, found by array instead of item: not so.
PointersDetermined == \A i \in DOMAIN finished : \A t \in Terms(finished[i]) : t.op \notin {"vector", "builtin"} => ~Interferes(t)

\* What a statement does is in its effect, for the callers and the operands that follow.
EffectsComplete ==
  \A i \in DOMAIN finished :
    /\ Reads(finished[i]) \subseteq cgs[1].accum.r /\ Writes(finished[i]) \subseteq cgs[1].accum.w
    /\ Volatile(Reads(finished[i]) \cup Writes(finished[i])) => ~cgs[1].accum.free

\* The context it is generated in is respected, and the loops around keep their variables.
ContextKept ==
  \A i \in DOMAIN finished :
    /\ ~Clash(Writes(finished[i]), cgs[1].context.r \cup cgs[1].context.w \cup Counters)
    /\ ~Clash(Reads(finished[i]), cgs[1].context.w)

\* Effects add up to what expressions do, and so an operand that is generated under the
\* effect of those before it does not depend on which is evaluated first
\* (FunctionInvocation.cpp, Effect.cpp).
EvaluationSound == ResultsDetermined /\ EffectsComplete /\ ContextKept
=============================================================================
