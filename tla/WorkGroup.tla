------------------------------ MODULE WorkGroup ------------------------------
(***************************************************************************)
(* Work-items that run a generated kernel.                                 *)
(*                                                                         *)
(* First the generator adds statements one by one, as far as the options   *)
(* and the counters left for atomic sections allow, and emits their code   *)
(* (KernelCode).  Then every work-item runs the code, one instruction at a *)
(* time, in any order the barriers of its group permit.                    *)
(*                                                                         *)
(* Bounds: unsigned values are below Modulus; groups and work-items are    *)
(* numbered linearly; a program has at most MaxStatements statements out   *)
(* of the menu Statements and one gated barrier.                           *)
(***************************************************************************)
EXTENDS KernelCode, FiniteSets

CONSTANTS
    NGroups,       \* work-groups of the kernel
    Size,          \* get_threads_per_group(): work-items of a group
    Dim0,          \* the first dimension of a group's shape
    Modulus,       \* values of an unsigned integer, a power of two
    NRows,         \* kPermCount: rows of permutations (10)
    Shuffles,      \* the permutations of 0 .. Size - 1 a shuffle may produce
    NCounters,     \* no_atomic_blocks
    NItems,        \* items of the buffer of a gated barrier (32)
    OptionSets,    \* the command lines: sets of options that are on
    Statements,    \* what the random choices of the generator may produce
    MaxStatements, \* bound: statements of a program
    Junk           \* what local memory holds before it is initialised

UInt == 0 .. Modulus - 1

\* The bits of a value, and the value that has these bits.
BitsOfWord == {i \in 0 .. Modulus - 1 : 2 ^ i < Modulus}
Bits(n) == {i \in BitsOfWord : (n \div 2 ^ i) % 2 = 1}
OfBits(bits) == CHOOSE n \in UInt : Bits(n) = bits

Groups == 0 .. NGroups - 1
Lids == 0 .. Size - 1
WorkItems == Groups \X Lids
Counters == 0 .. NCounters - 1
Items == 0 .. NItems - 1

Group(t) == t[1]
Lid(t) == t[2]
GlobalId(t) == Group(t) * Size + Lid(t)
Lid0(t) == Lid(t) % Dim0
Members(g) == {t \in WorkItems : Group(t) = g}

\* get_local_id(0) ^ 1
Pair(t) == IF Lid0(t) % 2 = 0 THEN Lid0(t) + 1 ELSE Lid0(t) - 1

\* The combinations of options that CLSmith refuses.
Conflict(opts) ==
    \/ {"barriers", "divergence"} \subseteq opts /\ "track_divergence" \notin opts
    \/ {"vectors", "track_divergence"} \subseteq opts
    \/ {"divergence", "fake_divergence"} \subseteq opts
    \/ {"divergence", "inter_thread_comm"} \subseteq opts

ASSUME SizesAssumption ==
    /\ NGroups \in Nat \ {0} /\ Size \in Nat \ {0} /\ Dim0 \in 1 .. Size
    /\ Modulus \in Nat \ {0, 1} /\ NRows \in Nat \ {0} /\ NCounters \in Nat \ {0}
    /\ MaxStatements \in Nat /\ Junk \in UInt

\* Modulus is a power of two.
ASSUME BitsAssumption == \A bits \in SUBSET BitsOfWord : \E n \in UInt : Bits(n) = bits

\* A group may have more work-items than the buffer has items.
ASSUME ItemsAssumption == NItems \in Nat

ASSUME ShufflesAssumption ==
    \A p \in Shuffles : /\ p \in [Lids -> Lids]
                        /\ \A i, j \in Lids : p[i] = p[j] => i = j
                        /\ \A j \in Lids : \E i \in Lids : p[i] = j

ASSUME OptionsAssumption == \A opts \in OptionSets : ~Conflict(opts)

ASSUME StatementsAssumption == Statements \subseteq Statement

VARIABLES
    cl_options,    \* the options that are on
    phase,         \* "generate" or "run"
    prog,          \* the statements of func_1
    free_counters, \* counters no atomic section uses yet
    permutations,  \* the constant array of shuffled ids
    code,          \* the instructions emitted
    ip,            \* of each work-item, the instruction it executes next
    reg,           \* of each work-item, the value it evaluated last
    tid,           \* of each work-item, the items it may use
    v_collective,  \* of each work-item, what it collected of the reductions
    gate,          \* of each work-item, whether it passed the gated barrier
    digest,        \* of each work-item, the values it has hashed
    entered,       \* the work-items inside an atomic section, with its counter
    l_comm_values, g_comm_values,
    reduction,     \* l_atomic_reduction and g_atomic_reduction
    counter,       \* l_atomic_input and g_atomic_input
    special,       \* l_special_values and g_special_values
    lb             \* the buffer of the gated barrier

generator == <<cl_options, phase, prog, free_counters, permutations, code>>
private == <<reg, tid, v_collective, gate, digest, entered>>
comm == <<l_comm_values, g_comm_values>>
atomics == <<reduction, counter, special>>
vars == <<generator, ip, private, comm, atomics, lb>>

-----------------------------------------------------------------------------
(* Generation                                                              *)

HasBody(s) == s.stm \in {"if", "for", "section"}

\* A statement and the statements in it.
Parts(s) ==
    LET inner(q) == IF HasBody(q) THEN {q.body} ELSE {}
    IN  {s} \cup inner(s) \cup UNION {inner(q) : q \in inner(s)}

\* The option an expression needs.
NeedsOfExpr(e) ==
    CASE e.source \in Spaces  -> {"inter_thread_comm"}
      [] e.source = "id"      -> {"divergence"}
      [] e.source = "group"   -> {"group_divergence"}
      [] e.source = "nothing" -> {}

\* The options without which the generator refuses a statement.
Needs(s) ==
    CASE s.stm \in {"assign", "comm"} -> {"inter_thread_comm"} \cup NeedsOfExpr(s.expr)
      [] s.stm = "reduction" -> {"atomic_reductions"} \cup NeedsOfExpr(s.expr)
      [] s.stm = "section"   -> {"atomics"}
      [] s.stm = "barrier"   -> {"barriers", "divergence"}
      [] s.stm = "if"        -> NeedsOfExpr(s.expr)
      [] s.stm \in {"for", "nothing"} -> {}

\* Mutant: atomic_context is not looked at.
AllowedAnywhere(s) == TRUE

\* In an atomic context the generator refuses communication, reductions and
\* another section, and uses variables of the blocks in the section only.  A
\* gated barrier is not refused: it is placed when all code is there.
AllowedInSection(s) == s.stm \in {"nothing", "barrier"}

\* Whether the divergence analysis takes work-items to part at a statement: at a
\* condition that reads an id or a group, but not at that of a section.
Divergent(s) == s.stm = "if" /\ s.expr.source \in {"group", "id"}

\* The counters the atomic sections of a statement take out of free_counters.
CountersOf(s) == {q.counter : q \in {r \in Parts(s) : r.stm = "section"}}

HasGatedBarrier(p) == \E i \in DOMAIN p : \E q \in Parts(p[i]) : q.stm = "barrier"

\* Block::make_random adds a random statement.  GenerateBarriers adds at most
\* one gated barrier to a function, and not inside code it takes to be divergent.
AddStatement(s) ==
    /\ phase = "generate"
    /\ Len(prog) < MaxStatements
    /\ \A q \in Parts(s) : Needs(q) \subseteq cl_options
    /\ \A q \in Parts(s) : q.stm = "section" => AllowedInSection(q.body)
    /\ CountersOf(s) \subseteq free_counters
    /\ HasGatedBarrier(<<s>>) => ~Divergent(s) /\ ~HasGatedBarrier(prog)
    /\ prog' = Append(prog, s)
    /\ free_counters' = free_counters \ CountersOf(s)
    /\ code' = code \o OutputStatement(s)
    /\ UNCHANGED <<cl_options, phase, permutations, ip, private, comm, atomics, lb>>

\* OutputEntryFunction ends the kernel; the host enqueues it.
Launch ==
    /\ phase = "generate"
    /\ phase' = "run"
    /\ code' = code \o Epilogue
    /\ UNCHANGED <<cl_options, prog, free_counters, permutations, ip, private, comm, atomics, lb>>

-----------------------------------------------------------------------------
(* Execution                                                               *)

At(t, op) ==
    /\ phase = "run"
    /\ ip[t] <= Len(code)
    /\ code[ip[t]].op = op

Goto(t, i) == ip' = [ip EXCEPT ![t] = i]
Step(t) == Goto(t, ip[t] + 1)

LocalItem(t) == tid[t] % Size

\* The value of a random expression.
Value(t, e) ==
    LET read == CASE e.source = "nothing" -> 0
                  [] e.source = "local"   -> l_comm_values[Group(t)][LocalItem(t)]
                  [] e.source = "global"  -> g_comm_values[tid[t]]
                  [] e.source = "group"   -> Group(t)
                  [] e.source = "id"      -> GlobalId(t)
    IN  (read + e.add) % Modulus

\* The atomic functions of AtomicOp on unsigned values.
Apply(fn, a, b) ==
    CASE fn = "add" -> (a + b) % Modulus
      [] fn = "sub" -> (a + Modulus - b) % Modulus
      [] fn = "min" -> IF a < b THEN a ELSE b
      [] fn = "max" -> IF a < b THEN b ELSE a
      [] fn = "and" -> OfBits(Bits(a) \cap Bits(b))
      [] fn = "or"  -> OfBits(Bits(a) \cup Bits(b))
      [] fn = "xor" -> OfBits((Bits(a) \cup Bits(b)) \ (Bits(a) \cap Bits(b)))

\* The first work-item of a group initialises its buffers in local memory.
InitBuffers(t) ==
    /\ At(t, "init")
    /\ IF Lid(t) = 0
         THEN /\ l_comm_values' = [l_comm_values EXCEPT ![Group(t)] = [i \in Lids |-> 1]]
              /\ lb' = [lb EXCEPT ![Group(t)] = [i \in Items |-> 1]]
              /\ reduction' = [reduction EXCEPT !["local"][Group(t)] = 0]
              /\ counter' = [counter EXCEPT !["local"][Group(t)] = [c \in Counters |-> 0]]
              /\ special' = [special EXCEPT !["local"][Group(t)] = [c \in Counters |-> 0]]
         ELSE UNCHANGED <<l_comm_values, lb, atomics>>
    /\ Step(t)
    /\ UNCHANGED <<generator, private, g_comm_values>>

\* A barrier lets a group go once all its work-items wait.
PassBarrier(g) ==
    /\ \A t \in Members(g) : At(t, "barrier")
    /\ ip' = [t \in WorkItems |-> IF Group(t) = g THEN ip[t] + 1 ELSE ip[t]]
    /\ UNCHANGED <<generator, private, comm, atomics, lb>>

Evaluate(t) ==
    /\ At(t, "eval")
    /\ reg' = [reg EXCEPT ![t] = Value(t, code[ip[t]].expr)]
    /\ Step(t)
    /\ UNCHANGED <<generator, tid, v_collective, gate, digest, entered, comm, atomics, lb>>

Store(t) ==
    /\ At(t, "store")
    /\ IF code[ip[t]].space = "local"
         THEN /\ l_comm_values' = [l_comm_values EXCEPT ![Group(t)][LocalItem(t)] = reg[t]]
              /\ UNCHANGED g_comm_values
         ELSE /\ g_comm_values' = [g_comm_values EXCEPT ![tid[t]] = reg[t]]
              /\ UNCHANGED l_comm_values
    /\ Step(t)
    /\ UNCHANGED <<generator, private, atomics, lb>>

Branch(t) ==
    /\ At(t, "branch")
    /\ Goto(t, ip[t] + 1 + IF reg[t] # 0 THEN 0 ELSE code[ip[t]].skip)
    /\ UNCHANGED <<generator, private, comm, atomics, lb>>

\* Mutants: the row is picked by the old id, the group is left out.
PermutedByOwnRow(t, row, old) == Group(t) * Size + permutations[old % NRows][old % Size]
\* The id a row of permutations gives to a work-item whose id is old.
Permuted(t, row, old) == Group(t) * Size + permutations[row][old % Size]

Permute(t) ==
    /\ At(t, "permute")
    /\ tid' = [tid EXCEPT ![t] = Permuted(t, reg[t] % NRows, tid[t])]
    /\ Step(t)
    /\ UNCHANGED <<generator, reg, v_collective, gate, digest, entered, comm, atomics, lb>>

Reduce(t) ==
    /\ At(t, "atomic")
    /\ LET i == code[ip[t]]
           operand == (reg[t] + IF i.addGlobal THEN GlobalId(t) ELSE 0) % Modulus
       IN  reduction' = [reduction EXCEPT ![i.space][Group(t)] = Apply(i.fn, @, operand)]
    /\ Step(t)
    /\ UNCHANGED <<generator, private, comm, counter, special, lb>>

\* Mutant: v_collective is wider than an unsigned value.
CollectUncut(t) ==
    /\ At(t, "collect")
    /\ v_collective' =
         IF Lid(t) = 0
           THEN [v_collective EXCEPT ![t] = @ + reduction[code[ip[t]].space][Group(t)]]
           ELSE v_collective
    /\ Step(t)
    /\ UNCHANGED <<generator, reg, tid, gate, digest, entered, comm, atomics, lb>>

\* Mutant: v_collective = target
CollectLast(t) ==
    /\ At(t, "collect")
    /\ v_collective' =
         IF Lid(t) = 0
           THEN [v_collective EXCEPT ![t] = reduction[code[ip[t]].space][Group(t)]]
           ELSE v_collective
    /\ Step(t)
    /\ UNCHANGED <<generator, reg, tid, gate, digest, entered, comm, atomics, lb>>

\* v_collective += target, by the first work-item of a group
Collect(t) ==
    /\ At(t, "collect")
    /\ v_collective' =
         IF Lid(t) = 0
           THEN [v_collective EXCEPT
                   ![t] = (@ + reduction[code[ip[t]].space][Group(t)]) % Modulus]
           ELSE v_collective
    /\ Step(t)
    /\ UNCHANGED <<generator, reg, tid, gate, digest, entered, comm, atomics, lb>>

\* Mutant: lets every later work-item in too.
EntersFrom(old, at) == old >= at

\* Whether the old value of the counter lets a work-item into the section.
Enters(old, at) == old = at

\* if (atomic_inc(&counter) == at)
EnterSection(t) ==
    /\ At(t, "section")
    /\ LET i == code[ip[t]]
       IN  /\ counter' = [counter EXCEPT ![i.space][Group(t)][i.counter] = @ + 1]
           /\ IF Enters(counter[i.space][Group(t)][i.counter], i.at)
                THEN /\ entered' = entered \cup {<<t, i.space, i.counter>>}
                     /\ Step(t)
                ELSE /\ Goto(t, ip[t] + 1 + i.skip)
                     /\ UNCHANGED entered
    /\ UNCHANGED <<generator, reg, tid, v_collective, gate, digest, comm, reduction, special, lb>>

\* atomic_add(&special, result), the last statement of the section.
LeaveSection(t) ==
    /\ At(t, "result")
    /\ LET i == code[ip[t]]
       IN  /\ special' = [special EXCEPT ![i.space][Group(t)][i.counter] = (@ + i.add) % Modulus]
           /\ entered' = entered \ {<<t, i.space, i.counter>>}
    /\ Step(t)
    /\ UNCHANGED <<generator, reg, tid, v_collective, gate, digest, comm, reduction, counter, lb>>

\* if (!gate)
TestGate(t) ==
    /\ At(t, "gate")
    /\ Goto(t, ip[t] + 1 + IF gate[t] = 0 THEN 0 ELSE code[ip[t]].skip)
    /\ UNCHANGED <<generator, private, comm, atomics, lb>>

\* temp = lb[local id] * get_local_id(0); behind its buffer a group reads anything.
TakeItem(t) ==
    /\ At(t, "take")
    /\ \E item \in (IF Lid(t) \in Items THEN {lb[Group(t)][Lid(t)]} ELSE UInt) :
          reg' = [reg EXCEPT ![t] = (item * Lid0(t)) % Modulus]
    /\ Step(t)
    /\ UNCHANGED <<generator, tid, v_collective, gate, digest, entered, comm, atomics, lb>>

\* A write behind the buffer: to another item of the group's local memory, or to none.
Overwrite(g, value) ==
    \/ UNCHANGED <<l_comm_values, atomics>>
    \/ /\ \E l \in Lids : l_comm_values' = [l_comm_values EXCEPT ![g][l] = value]
       /\ UNCHANGED atomics
    \/ /\ reduction' = [reduction EXCEPT !["local"][g] = value]
       /\ UNCHANGED <<l_comm_values, counter, special>>
    \/ /\ \E c \in Counters : counter' = [counter EXCEPT !["local"][g][c] = value]
       /\ UNCHANGED <<l_comm_values, reduction, special>>
    \/ /\ \E c \in Counters : special' = [special EXCEPT !["local"][g][c] = value]
       /\ UNCHANGED <<l_comm_values, reduction, counter>>

\* lb[get_local_id(0) ^ 1] = temp
GiveItem(t) ==
    /\ At(t, "give")
    /\ IF Pair(t) \in Items
         THEN lb' = [lb EXCEPT ![Group(t)][Pair(t)] = reg[t]] /\ UNCHANGED <<comm, atomics>>
         ELSE Overwrite(Group(t), reg[t]) /\ UNCHANGED <<g_comm_values, lb>>
    /\ Step(t)
    /\ UNCHANGED <<generator, private>>

ShutGate(t) ==
    /\ At(t, "shut")
    /\ gate' = [gate EXCEPT ![t] = 1]
    /\ Step(t)
    /\ UNCHANGED <<generator, reg, tid, v_collective, digest, entered, comm, atomics, lb>>

\* What a work-item adds to its hash: its own v_collective; as the first of the
\* kernel, the special values in global memory; as the first of its group, those
\* in local memory; the items of the comm buffers at its own ids.
Hashed(t, what) ==
    CASE what = "v_collective"     -> <<v_collective[t]>>
      [] what = "g_special_values" ->
           IF GlobalId(t) = 0 THEN <<special["global"][Group(t)]>> ELSE <<>>
      [] what = "l_special_values" ->
           IF Lid(t) = 0 THEN <<special["local"][Group(t)]>> ELSE <<>>
      [] what = "comm_values"      ->
           <<l_comm_values[Group(t)][Lid(t)], g_comm_values[GlobalId(t)]>>

Hash(t) ==
    /\ At(t, "hash")
    /\ digest' = [digest EXCEPT ![t] = @ \o Hashed(t, code[ip[t]].what)]
    /\ Step(t)
    /\ UNCHANGED <<generator, reg, tid, v_collective, gate, entered, comm, atomics, lb>>

-----------------------------------------------------------------------------

Finished(t) == phase = "run" /\ ip[t] > Len(code)
AllFinished == \A t \in WorkItems : Finished(t)

\* The host has initialised the buffers in global memory.
Init ==
    /\ cl_options \in OptionSets
    /\ phase = "generate"
    /\ prog = <<>>
    /\ free_counters = Counters
    /\ permutations \in [0 .. NRows - 1 -> Shuffles]
    /\ code = Prologue
    /\ ip = [t \in WorkItems |-> 1]
    /\ reg = [t \in WorkItems |-> 0]
    /\ tid = [t \in WorkItems |-> Group(t) * Size + permutations[0][Lid(t)]]
    /\ v_collective = [t \in WorkItems |-> 0]
    /\ gate = [t \in WorkItems |-> 0]
    /\ digest = [t \in WorkItems |-> <<>>]
    /\ entered = {}
    /\ l_comm_values = [g \in Groups |-> [i \in Lids |-> Junk]]
    /\ g_comm_values = [i \in 0 .. NGroups * Size - 1 |-> 1]
    /\ LET start(sp) == IF sp = "local" THEN Junk ELSE 0
           all(n) == [c \in Counters |-> n]
       IN  /\ reduction = [sp \in Spaces |-> [g \in Groups |-> start(sp)]]
           /\ counter = [sp \in Spaces |-> [g \in Groups |-> all(start(sp))]]
           /\ special = [sp \in Spaces |-> [g \in Groups |-> all(start(sp))]]
    /\ lb = [g \in Groups |-> [i \in Items |-> Junk]]

RunItem(t) ==
    \/ InitBuffers(t) \/ Evaluate(t) \/ Store(t) \/ Branch(t) \/ Permute(t)
    \/ Reduce(t) \/ Collect(t) \/ EnterSection(t) \/ LeaveSection(t)
    \/ TestGate(t) \/ TakeItem(t) \/ GiveItem(t) \/ ShutGate(t) \/ Hash(t)

\* The kernel has ended.
Rest == AllFinished /\ UNCHANGED vars

Next ==
    \/ \E s \in Statements : AddStatement(s)
    \/ Launch
    \/ \E t \in WorkItems : RunItem(t)
    \/ \E g \in Groups : PassBarrier(g)
    \/ Rest

Spec == Init /\ [][Next]_vars

-----------------------------------------------------------------------------
(* What a kernel means: the values its statements compute when the         *)
(* work-items of a group take every statement together.                    *)

\* What a group has before its first statement; its work-items have equal items.
Fresh ==
    [local |-> 1, global |-> 1, collected |-> 0,
     reduction |-> [sp \in Spaces |-> 0],
     counter |-> [c \in Counters |-> 0],
     special |-> [sp \in Spaces |-> [c \in Counters |-> 0]]]

\* What the expression e is for the work-item l of the group g.
Meant(m, g, l, e) ==
    ((CASE e.source = "local"  -> m.local
        [] e.source = "global" -> m.global
        [] e.source = "group"  -> g
        [] e.source = "id"     -> g * Size + l
        [] OTHER               -> 0) + e.add) % Modulus

\* base with the operands of the work-items in L.
Combined(fn, base, operands, L) ==
    LET upto[n \in 0 .. Size] ==
            IF n = 0 THEN base
            ELSE IF n - 1 \in L THEN Apply(fn, upto[n - 1], operands[n - 1])
            ELSE upto[n - 1]
    IN  upto[Size]

\* The operands of a reduction.
Operands(m, g, s) ==
    [l \in Lids |->
        (Meant(m, g, l, s.expr) + IF s.addGlobal THEN g * Size + l ELSE 0) % Modulus]

AfterReduction(m, g, L, s) ==
    LET total == Combined(s.fn, m.reduction[s.space], Operands(m, g, s), L)
    IN  [m EXCEPT !.reduction[s.space] = total, !.collected = (@ + total) % Modulus]

AfterSection(m, L, s) ==
    LET passed == m.counter[s.counter] + Cardinality(L)
        once == m.counter[s.counter] <= s.at /\ s.at < passed
    IN  [m EXCEPT !.counter[s.counter] = passed,
                  !.special[s.space][s.counter] = IF once THEN s.result % Modulus ELSE @]

\* After the work-items in L have taken s.  No assignment reads an id.
AfterSimple(m, g, L, s) ==
    CASE s.stm = "assign" /\ s.space = "local"  -> [m EXCEPT !.local = Meant(m, g, 0, s.expr)]
      [] s.stm = "assign" /\ s.space = "global" -> [m EXCEPT !.global = Meant(m, g, 0, s.expr)]
      [] s.stm = "reduction" -> AfterReduction(m, g, L, s)
      [] s.stm = "section"   -> AfterSection(m, L, s)
      [] OTHER               -> m

\* The work-items of g that take a branch on e.
Takers(m, g, e) == {l \in Lids : Meant(m, g, l, e) # 0}

After(m, g, s) ==
    CASE s.stm = "if"  -> IF Takers(m, g, s.expr) = {} THEN m
                          ELSE AfterSimple(m, g, Takers(m, g, s.expr), s.body)
      [] s.stm = "for" -> AfterSimple(AfterSimple(m, g, Lids, s.body), g, Lids, s.body)
      [] OTHER         -> AfterSimple(m, g, Lids, s)

MeantAfter(g) ==
    LET after[n \in 0 .. Len(prog)] ==
            IF n = 0 THEN Fresh ELSE After(after[n - 1], g, prog[n])
    IN  after[Len(prog)]

\* What a work-item should have hashed when the kernel ends.
Meaning(t) ==
    LET m == MeantAfter(Group(t))
    IN  <<IF Lid(t) = 0 THEN m.collected ELSE 0>>
          \o (IF GlobalId(t) = 0 THEN <<m.special["global"]>> ELSE <<>>)
          \o (IF Lid(t) = 0 THEN <<m.special["local"]>> ELSE <<>>)
          \o <<m.local, m.global>>

-----------------------------------------------------------------------------
(* Properties                                                              *)

\* The generator and the work-items keep to their types.
TypeOK ==
    /\ cl_options \in OptionSets /\ phase \in {"generate", "run"}
    /\ free_counters \subseteq Counters
    /\ permutations \in [0 .. NRows - 1 -> Shuffles]
    /\ prog \in Seq(Statement) /\ code \in Seq(Instruction)
    /\ ip \in [WorkItems -> Nat \ {0}]
    /\ reg \in [WorkItems -> UInt]
    /\ tid \in [WorkItems -> 0 .. NGroups * Size - 1]
    /\ v_collective \in [WorkItems -> UInt]
    /\ gate \in [WorkItems -> {0, 1}]
    /\ entered \subseteq WorkItems \X Spaces \X Counters
    /\ l_comm_values \in [Groups -> [Lids -> UInt]]
    /\ g_comm_values \in [0 .. NGroups * Size - 1 -> UInt]
    /\ reduction \in [Spaces -> [Groups -> UInt]]
    /\ counter \in [Spaces -> [Groups -> [Counters -> Nat]]]
    /\ special \in [Spaces -> [Groups -> [Counters -> UInt]]]
    /\ lb \in [Groups -> [Items -> UInt]]

\* What may lie behind the buffer of a group.
Neighbours(g) == {<<"l_comm_values", g, l>> : l \in Lids} \cup {<<"reduction", "local", g>>}

\* The accesses the next instruction of a work-item makes: what, and how.  One that
\* is behind the buffer may be to anything there.
Accesses(t) ==
    LET i == code[ip[t]]
        g == Group(t)
        own(space) == IF space = "local" THEN <<"l_comm_values", g, LocalItem(t)>>
                                         ELSE <<"g_comm_values", 0, tid[t]>>
        target(space) == <<"reduction", space, g>>
        places(l) == IF l \in Items THEN {<<"lb", g, l>>} ELSE Neighbours(g)
    IN  IF phase # "run" \/ ip[t] > Len(code) THEN {}
        ELSE CASE i.op = "eval" /\ i.expr.source \in Spaces -> {<<own(i.expr.source), "read">>}
               [] i.op = "store"   -> {<<own(i.space), "write">>}
               [] i.op = "atomic"  -> {<<target(i.space), "atomic">>}
               [] i.op = "collect" /\ Lid(t) = 0 -> {<<target(i.space), "read">>}
               [] i.op = "take"    -> {<<x, "read">> : x \in places(Lid(t))}
               [] i.op = "give"    -> {<<x, "write">> : x \in places(Pair(t))}
               [] i.op = "init" /\ Lid(t) = 0 ->
                    {<<target("local"), "write">>}
                      \cup {<<<<"l_comm_values", g, l>>, "write">> : l \in Lids}
                      \cup {<<<<"lb", g, l>>, "write">> : l \in Items}
               [] i.op = "hash" /\ i.what = "comm_values" ->
                    {<<<<"l_comm_values", g, Lid(t)>>, "read">>,
                     <<<<"g_comm_values", 0, GlobalId(t)>>, "read">>}
               [] OTHER -> {}

\* Two work-items are never about to access the same item when one of them
\* writes it and they are not both atomic: the items of the comm buffers change
\* hands at barriers, and a reduction is collected between two barriers.
NoDataRace ==
    \A t, u \in WorkItems : t # u =>
        \A a \in Accesses(t), b \in Accesses(u) :
            a[1] = b[1] => a[2] = b[2] /\ a[2] # "write"

\* The work-items of a group that wait at a barrier wait at the same one, and
\* none has left the kernel: the emitted barriers are in code all of them run.
BarriersConverge ==
    \A g \in Groups : \A t, u \in Members(g) :
        At(t, "barrier") => ~Finished(u) /\ (At(u, "barrier") => ip[t] = ip[u])

\* A work-item holds an id of its own group, so groups never touch each other's
\* items of g_comm_values.
TidsInGroup ==
    \A t \in WorkItems : tid[t] \in Group(t) * Size .. Group(t) * Size + Size - 1

\* Work-items of a group that are at the same instruction hold different ids: a
\* StatementComm hands the items of the buffers on, and never to two at once.
TidsArePermutation ==
    /\ TidsInGroup
    /\ \A t \in WorkItems : \A u \in Members(Group(t)) :
            u # t /\ ip[u] = ip[t] => tid[u] # tid[t]

\* A loop or a group of work-items passes an atomic section many times, but the
\* body runs only on the pass its counter picks: the special value holds its
\* result once, or nothing while no work-item has entered or one is inside.
SectionsRunOnce ==
    \A g \in Groups : \A i \in DOMAIN code : code[i].op = "section" =>
        LET s == code[i]
            inside == {t \in Members(g) : <<t, s.space, s.counter>> \in entered}
            initialised == s.space = "global" \/ ip[<<g, 0>>] > 1
        IN  /\ \A t, u \in inside : t = u
            /\ initialised =>
                 special[s.space][g][s.counter] =
                    IF counter[s.space][g][s.counter] > s.at /\ inside = {}
                      THEN code[i + s.skip].add % Modulus ELSE 0

\* Each work-item has stored its product in the item of its pair, once, however
\* often the gated barrier was reached: work-items pair by the last bit of their
\* ids in the group.  Work-items without an item in the buffer exchange nothing.
ItemsExchanged ==
    HasGatedBarrier(prog) =>
        \A t \in WorkItems : Finished(t) =>
            LET pair == IF Lid(t) % 2 = 0 THEN Lid(t) + 1 ELSE Lid(t) - 1
            IN  {Lid(t), pair} \subseteq Items => lb[Group(t)][pair] = Lid0(t) % Modulus

\* The result of a work-item does not depend on the schedule, on the shuffles or
\* on the ids it was given: it is what the statements compute one after the other.
ResultsAreMeant == \A t \in WorkItems : Finished(t) => digest[t] = Meaning(t)
=============================================================================
