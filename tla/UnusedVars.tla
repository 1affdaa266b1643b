----------------------------- MODULE UnusedVars -----------------------------
(***************************************************************************)
(* ParseUnusedVars (CLVariable.cpp): with --small, the local variables that *)
(* no statement of a registered block accesses are dropped before a program *)
(* is printed.  The sweep runs over a vector from which it erases.          *)
(***************************************************************************)
EXTENDS Naturals, Sequences, FiniteSets

CONSTANTS Codes,    \* sequences of the blocks of all functions
          NamedVar  \* the variable that a variable or a field of one belongs to

(* A block is [locals, init, stms]: local_vars in order, the expressions that
   initialise each of them, one or, for an array, several, and its statements.
   A statement is [kind, targets, exprs], an expression [term, var, args]. *)

VARIABLES code,       \* the blocks, as printed before the sweep
          accesses,   \* the variables recorded
          blk,        \* the block that is swept, 0 while accesses are recorded
          slots,      \* the memory of its local_vars, which erasing does not clear
          size,       \* local_vars.size()
          at          \* where the range-for stands, up to the end it started with

varsU == <<code, accesses, blk, slots, size, at>>

-----------------------------------------------------------------------------
(* What is recorded *)

RECURSIVE GetVarsFromExpr(_)
GetVarsFromExpr(e) ==
  CASE e.term = "variable" -> {e.var}
    [] e.term \in {"function", "comma", "vector"} ->
         UNION {GetVarsFromExpr(e.args[i]) : i \in DOMAIN e.args}
    [] e.term = "assignment" -> {e.var} \cup GetVarsFromExpr(e.args[1])
    [] e.term \in {"constant", "clExpression"} -> {}

\* As if only what is read were needed: for a mutant.
RecordedReads(s) ==
  IF s.kind \in {"clStatement", "block"} THEN {}
  ELSE UNION {GetVarsFromExpr(s.exprs[i]) : i \in DOMAIN s.exprs}

Recorded(s) ==
  IF s.kind \in {"clStatement", "block"} THEN {}
  ELSE s.targets \cup UNION {GetVarsFromExpr(s.exprs[i]) : i \in DOMAIN s.exprs}

\* Only v->init: the further initial values of an array are in init_values.
RecordVarInitialisation(b) == UNION {GetVarsFromExpr(b.init[v][1]) : v \in DOMAIN b.init}

Record ==
  /\ blk = 0
  /\ accesses' = UNION {RecordVarInitialisation(code[i]) \cup
                         UNION {Recorded(code[i].stms[j]) : j \in DOMAIN code[i].stms} : i \in DOMAIN code}
  /\ blk' = 1
  /\ slots' = code[1].locals
  /\ size' = Len(code[1].locals)
  /\ at' = 1
  /\ UNCHANGED code

-----------------------------------------------------------------------------
(* The sweep *)

Locals == SubSeq(slots, 1, size)

\* std::remove moves what stays to the front, erase cuts the rest off: the
\* memory behind the new end keeps what it held.
Without(v) == SelectSeq(Locals, LAMBDA w : w # v)
Erased(v) == LET rest == Without(v) IN rest \o SubSeq(slots, Len(rest) + 1, Len(slots))

Unused(v) == v \notin accesses

Visit ==
  /\ blk \in DOMAIN code /\ at <= Len(slots)
  /\ IF Unused(slots[at])
       THEN slots' = Erased(slots[at]) /\ size' = Len(Without(slots[at]))
       ELSE UNCHANGED <<slots, size>>
  /\ at' = at + 1
  /\ UNCHANGED <<code, accesses, blk>>

EndBlock ==
  /\ blk \in DOMAIN code /\ at > Len(slots)
  /\ blk' = blk + 1
  /\ LET next == IF blk < Len(code) THEN code[blk + 1].locals ELSE <<>>
     IN  slots' = next /\ size' = Len(next)
  /\ at' = 1
  /\ UNCHANGED <<code, accesses>>

Init ==
  /\ code \in Codes
  /\ accesses = {} /\ blk = 0 /\ slots = <<>> /\ size = 0 /\ at = 1

Done == blk > Len(code) /\ UNCHANGED varsU

Next == Record \/ Visit \/ EndBlock \/ Done

Spec == Init /\ [][Next]_varsU

-----------------------------------------------------------------------------
\* What is mentioned in the program that is printed, wherever it stands in an expression.
RECURSIVE Mentioned(_)
Mentioned(e) == (IF e.term \in {"variable", "assignment"} THEN {e.var} ELSE {})
                \cup UNION {Mentioned(e.args[i]) : i \in DOMAIN e.args}

MentionedIn(es) == UNION {Mentioned(es[i]) : i \in DOMAIN es}

NeededBy(b) ==
  UNION {MentionedIn(b.init[v]) : v \in DOMAIN b.init}
    \cup UNION {b.stms[j].targets \cup MentionedIn(b.stms[j].exprs) : j \in DOMAIN b.stms}

(* Three kinds of use are overlooked: in the further initial values of an     *)
(* array, in a statement of CLSmith, like an atomic reduction, and of a field *)
(* instead of the variable it belongs to.  Here is what is used otherwise.    *)
SeenIn(b) ==
  UNION {Mentioned(b.init[v][1]) : v \in DOMAIN b.init}
    \cup UNION {b.stms[j].targets \cup MentionedIn(b.stms[j].exprs) :
                  j \in {k \in DOMAIN b.stms : b.stms[k].kind # "clStatement"}}

InAllBlocks(Op(_)) == UNION {Op(code[i]) : i \in DOMAIN code}
Needed == {NamedVar[v] : v \in InAllBlocks(NeededBy)}
Overlooked == {v \in Needed : v \notin InAllBlocks(SeenIn)}

\* Whatever the sweep reads behind the end of a vector, the variables that the
\* program needs stay declared, in order, except those whose every use is one of
\* the three kinds that are overlooked (CLVariable.cpp:104, 116, 178).
NeededStayDeclared ==
  blk \in DOMAIN code =>
    LET kept == Needed \ Overlooked
    IN  SelectSeq(Locals, LAMBDA v : v \in kept) = SelectSeq(code[blk].locals, LAMBDA v : v \in kept)

\* The sweep misses an unused variable only right behind another unused one:
\* the erasing moved it to the slot the iterator had passed (CLVariable.cpp:118).
SurvivorsFollowUnused ==
  (blk \in DOMAIN code /\ at > Len(slots)) =>
    \A i \in 1 .. Len(code[blk].locals) :
      LET v == code[blk].locals[i] IN
      (Unused(v) /\ \E j \in 1 .. size : slots[j] = v) =>
         i > 1 /\ Unused(code[blk].locals[i - 1])

\* The sweep of unused variables drops none that is used elsewhere than where the search
\* for uses does not look, and misses one only behind another that it drops
\* (CLVariable.cpp:117).
UnusedOnlyDropped == NeededStayDeclared /\ SurvivorsFollowUnused
=============================================================================
