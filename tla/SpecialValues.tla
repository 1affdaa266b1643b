---------------------------- MODULE SpecialValues ----------------------------
(***************************************************************************)
(* The statements that sum the variables of an atomic section into its      *)
(* special value (StatementAtomicResult.cpp).  The items of a vector are    *)
(* enumerated from the last to the first by counting indices down; the      *)
(* enumeration ends with reads in front of the indices, and writes there.   *)
(***************************************************************************)
EXTENDS Integers, Sequences, FiniteSets

CONSTANTS Locals,   \* the local_vars of a block to choose from: [name, kind, sizes]
          Front     \* bound: integers in front of the indices that are read

(* kind: "scalar", "pointer", "array", "vector", or "item", a member of one of these. *)

VARIABLES block,      \* the local variables of the block of the section, in order
          next,       \* the variable that is looked at
          curr_index, \* the indices
          overwritten, \* the places in front of them (0, -1, ..) that got what is in front of accesses
          index,      \* the dimension that is counted down
          pc,         \* "vars", "emit", "carry", "done"
          stms        \* statements: "decl", "special" or <<variable, indices>>

spVars == <<block, next, curr_index, overwritten, index, pc, stms>>

Var == block[next]
Dims == Len(Var.sizes)

\* The last index of every dimension.
Accesses == [d \in 1 .. Dims |-> Var.sizes[d] - 1]

Indices == [d \in 1 .. Dims |-> curr_index[d]]
Emit(what) == stms' = Append(stms, what)

-----------------------------------------------------------------------------
\* Members are not left out: for a mutant.
OnlyPointersSkipped(v) == v.kind = "pointer"

\* Members of a collective, and pointers, are not summed.
Skipped(v) == v.kind \in {"item", "pointer"}

Skip ==
  /\ pc = "vars" /\ next \in DOMAIN block /\ Skipped(Var)
  /\ next' = next + 1 /\ UNCHANGED <<block, curr_index, overwritten, index, pc, stms>>

\* A scalar, or an array: the statement for an array loops over its items.
AddVariable ==
  /\ pc = "vars" /\ next \in DOMAIN block /\ ~Skipped(Var) /\ Var.kind # "vector"
  /\ Emit(<<Var.name, <<>>>>)
  /\ next' = next + 1 /\ UNCHANGED <<block, curr_index, overwritten, index, pc>>

EnumerateVector ==
  /\ pc = "vars" /\ next \in DOMAIN block /\ ~Skipped(Var) /\ Var.kind = "vector"
  /\ curr_index' = Accesses /\ index' = Dims /\ pc' = "emit"
  /\ UNCHANGED <<block, next, overwritten, stms>>

AddItem ==
  /\ pc = "emit" /\ curr_index[index] >= 0
  /\ Emit(<<Var.name, Indices>>)
  /\ curr_index' = [curr_index EXCEPT ![index] = @ - 1]
  /\ UNCHANGED <<block, next, overwritten, index, pc>>

\* The index that is used up stays below 0: for a mutant.
NoReset(d) == IF d > 0 THEN UNCHANGED <<curr_index, overwritten>> ELSE overwritten' = overwritten \cup {d} /\ UNCHANGED curr_index

\* curr_index[index] = accesses[index]: also where neither has an item.
Reset(d) ==
  IF d > 0 THEN curr_index' = [curr_index EXCEPT ![d] = Accesses[d]] /\ UNCHANGED overwritten
  ELSE overwritten' = overwritten \cup {d} /\ UNCHANGED curr_index

UsedUp ==
  /\ pc = "emit" /\ curr_index[index] < 0
  /\ Reset(index) /\ index' = index - 1 /\ pc' = "carry"
  /\ UNCHANGED <<block, next, stms>>

\* A dimension at 0 is used up as well.  In front of the first one anything may be read.
Carry ==
  /\ pc = "carry" /\ index > -Front
  /\ IF index > 0 THEN curr_index[index] = 0 ELSE TRUE
  /\ Reset(index) /\ index' = index - 1
  /\ UNCHANGED <<block, next, pc, stms>>

CountDown ==
  /\ pc = "carry"
  /\ IF index > 0
       THEN /\ curr_index[index] # 0
            /\ curr_index' = [curr_index EXCEPT ![index] = @ - 1]
            /\ index' = Dims /\ pc' = "emit" /\ UNCHANGED next
       ELSE pc' = "vars" /\ next' = next + 1 /\ UNCHANGED <<curr_index, index>>
  /\ UNCHANGED <<block, overwritten, stms>>

AddSpecial ==
  /\ pc = "vars" /\ next = Len(block) + 1
  /\ Emit("special") /\ pc' = "done" /\ UNCHANGED <<block, next, curr_index, overwritten, index>>

Done == pc = "done" /\ UNCHANGED spVars

Init ==
  /\ block \in {b \in UNION {[1 .. n -> Locals] : n \in 0 .. 2} : \A i, j \in DOMAIN b : i # j => b[i] # b[j]}
  /\ next = 1 /\ curr_index = <<>> /\ overwritten = {} /\ index = 0 /\ pc = "vars" /\ stms = <<"decl">>

Next == Skip \/ AddVariable \/ EnumerateVector \/ AddItem \/ UsedUp \/ Carry \/ CountDown \/ AddSpecial \/ Done

Spec == Init /\ [][Next]_spVars

-----------------------------------------------------------------------------
Tuples(sizes) == {t \in [DOMAIN sizes -> 0 .. 15] : \A d \in DOMAIN sizes : t[d] < sizes[d]}
Meant(v) == CASE v.kind = "vector" -> {<<v.name, t>> : t \in Tuples(v.sizes)}
              [] v.kind \in {"scalar", "array"} -> {<<v.name, <<>>>>}
              [] OTHER -> {}

\* The special value sums every variable of the section and every item of its
\* vectors exactly once, whatever the memory in front of the indices holds
\* (StatementAtomicResult.cpp:64); the declaration comes first, the use last.  That the
\* generator survives the writes to that memory (overwritten) is not claimed.
EverySummandOnce ==
  pc = "done" =>
    LET summands == SubSeq(stms, 2, Len(stms) - 1) IN
    /\ {summands[i] : i \in DOMAIN summands} = UNION {Meant(block[i]) : i \in DOMAIN block}
    /\ \A i, j \in DOMAIN summands : i # j => summands[i] # summands[j]
=============================================================================
