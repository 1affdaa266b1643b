----------------------- MODULE WorkGroupBarrierProofs -----------------------
(***************************************************************************)
(* Proofs about WorkGroup, for any number of groups and work-items: the    *)
(* work-items of a group run the same barriers, they hand the items of the *)
(* buffers on without giving one to two, and they never race.              *)
(*                                                                         *)
(* The argument: however the work-items of a group interleave, each is     *)
(* somewhere on one and the same way through the code, and what the        *)
(* branches depend on is a function of the place on that way.  Only        *)
(* branches on an id take work-items apart, for the length of a section.   *)
(***************************************************************************)
EXTENDS WorkGroupProofs

\* The row of a StatementComm is computed from constants and groups.  The generator
\* also prints rows that read the buffers, and then two work-items may get one id
\* (run comm_random_row): the theorems are about the kernels without them.
RowsReadNoBuffer ==
    \A opts \in OptionSets : "inter_thread_comm" \in opts =>
        \A s \in Statements : \A q \in Parts(s) : q.stm = "comm" => q.expr.source \notin Spaces

\* No reduction is the body of a branch on an id.  The generator does not look at
\* the branch when both kinds are on, and the work-items that do not take it never
\* come to the barriers of the reduction: such kernels are left out as well.  Of
\* options that do not ask for both, nothing is required.
NoDivergentReductions ==
    \A opts \in OptionSets : {"divergence", "atomic_reductions"} \subseteq opts =>
        \A s \in Statements : s.stm = "if" /\ s.expr.source = "id" => s.body.stm # "reduction"

-----------------------------------------------------------------------------
(* How statements are laid out                                             *)

\* Instructions that follow another of their statement.
Inner == {"init", "store", "branch", "permute", "atomic", "collect", "result", "take", "give", "shut",
          "hash"}

\* A statement may begin here, and jumps may lead here.
HeadAt(c, i) ==
    /\ c[i].op \notin Inner
    /\ i < Len(c) => c[i + 1].op \notin {"permute", "collect"}

\* The instruction i of c is among those its statement puts around it.
LaidAt(c, i) ==
    /\ c[i].op \in {"branch", "gate"} =>
         /\ i + c[i].skip <= Len(c)
         /\ i + c[i].skip < Len(c) => HeadAt(c, i + c[i].skip + 1)
         /\ c[i].skip # 0 => c[i + c[i].skip].op # "branch"
    /\ c[i].op \in {"store", "branch", "permute", "atomic"} => i > 1 /\ c[i - 1].op = "eval"
    /\ c[i].op = "store" => c[i - 1].expr.source # "id"
    /\ c[i].op = "permute" =>
         i > 2 /\ c[i - 2].op = "barrier" /\ c[i - 1].expr.source \in {"nothing", "group"}
    /\ c[i].op \in {"collect", "give", "shut"} => i > 1 /\ c[i - 1].op = "barrier"
    /\ c[i].op = "collect" => i > 2 /\ c[i - 2].op = "atomic"
    /\ c[i].op = "atomic" => i + 1 < Len(c) /\ c[i + 1].op = "barrier" /\ c[i + 2].op = "collect"
    /\ c[i].op = "take" => i > 1 /\ c[i - 1].op = "gate"
    /\ c[i].op \in {"collect", "give", "take"} => i < Len(c) /\ c[i + 1].op = "barrier"
    /\ c[i].op = "branch" /\ c[i - 1].expr.source = "id" =>
         c[i].skip = 0 \/ (c[i].skip = 2 /\ i < Len(c) /\ c[i + 1].op = "section")
    /\ c[i].op = "hash" => i > 1 /\ c[i - 1].op \in {"barrier", "hash"}
    /\ c[i].op = "hash" /\ c[i].what = "comm_values" =>
         /\ i > 2 /\ c[i - 2].op = "barrier"
         /\ c[i - 1].op = "hash"

\* Every instruction of c is among those its statement puts around it.
Laid(c) == c \in Seq(Instruction) /\ \A i \in 1 .. Len(c) : LaidAt(c, i)

\* What a statement prints.
Block(d) ==
    /\ Laid(d)
    /\ Len(d) > 0 => HeadAt(d, 1)
    /\ \A i \in 1 .. Len(d) : d[i].op # "hash"

\* The statements for which that holds.
LaidOut(s) ==
    /\ \A q \in Parts(s) :
          /\ q.stm = "section" => q.body.stm = "nothing"
          /\ q.stm = "assign" => q.expr.source # "id"
          /\ q.stm = "comm" => q.expr.source \in {"nothing", "group"}
    /\ s.stm = "if" /\ s.expr.source = "id" => s.body.stm \in {"nothing", "section"}

-----------------------------------------------------------------------------
(* The place of a work-item on the way of its group                        *)

\* A branch that takes the work-items of a group apart, on an id, and the section
\* that only some of them come to.
Divided(i) == i > 1 /\ code[i].op = "branch" /\ code[i - 1].expr.source = "id"
\* The section a divided branch leads only some work-items to.
PassedBy(i) == code[i].op = "section" /\ i > 1 /\ Divided(i - 1) /\ code[i - 1].skip # 0

\* A work-item in a section, or at one the others pass by, is as far as those
\* behind it.
Home(i) ==
    IF i > Len(code) THEN i
    ELSE IF code[i].op = "result" THEN i + 1
    ELSE IF PassedBy(i) THEN i + 2
    ELSE i

\* What the work-items of a group have in common when they are at a place: the
\* values of their own items of the buffers, of the gate and of the last
\* expression, and the last barrier they have passed.
States ==
    [place : Nat \ {0}, local : UInt, global : UInt, gate : {0, 1}, reg : UInt, bar : Nat]

\* What a group has in common before it runs.
Start == [place |-> 1, local |-> 1, global |-> 1, gate |-> 0, reg |-> 0, bar |-> 0]

\* What the expression e, not on an id, is for all of the group g.
GroupValue(g, s, e) ==
    ((CASE e.source = "local"  -> s.local
        [] e.source = "global" -> s.global
        [] e.source = "group"  -> g
        [] OTHER               -> 0) + e.add) % Modulus

\* Where they go from there, unless the branch is divided.
Skips(s) ==
    LET i == s.place
    IN  \/ code[i].op = "branch" /\ ~Divided(i) /\ s.reg = 0
        \/ code[i].op = "gate" /\ s.gate # 0

\* The next place of the group: a jump when its branch skips.
NextPlace(s) == Home(s.place + 1 + IF Skips(s) THEN code[s.place].skip ELSE 0)

\* What the group has in common after the instruction at the place of s.
Effect(g, s) ==
    LET i == code[s.place]
    IN  [place  |-> NextPlace(s),
         local  |-> IF i.op = "store" /\ i.space = "local" THEN s.reg ELSE s.local,
         global |-> IF i.op = "store" /\ i.space = "global" THEN s.reg ELSE s.global,
         gate   |-> IF i.op = "shut" THEN 1 ELSE s.gate,
         reg    |-> IF i.op = "eval" THEN GroupValue(g, s, i.expr) ELSE s.reg,
         bar    |-> IF i.op = "barrier" THEN s.place ELSE s.bar]

\* Between the barrier of a StatementComm and the new id: the item of the buffers
\* is already the one of the new id.
Pending(i) ==
    i <= Len(code) /\ (code[i].op = "permute" \/ (i < Len(code) /\ code[i + 1].op = "permute"))

\* The row that is computed at i or was computed just before it.
PendingExpr(i) == IF code[i].op = "permute" THEN code[i - 1].expr ELSE code[i].expr

\* The row of permutations that a work-item of g reads.
RowOf(g, e) == (((IF e.source = "group" THEN g ELSE 0) + e.add) % Modulus) % NRows

\* The id that a work-item at i with the id old owns the items of.
OwnAt(t, i, old) == IF Pending(i) THEN Permuted(t, RowOf(Group(t), PendingExpr(i)), old) ELSE old

\* The id whose items of the buffers t owns.
Own(t) == OwnAt(t, ip[t], tid[t])

\* The value evaluated last decides what the group has in common from here.
UsesReg(i) == code[i].op = "store" \/ (code[i].op = "branch" /\ ~Divided(i))

\* The work-item t is as s says.
InStep(t, s) ==
    /\ Home(ip[t]) = s.place
    /\ gate[t] = s.gate
    /\ g_comm_values[Own(t)] = s.global
    /\ ip[<<Group(t), 0>>] > 1 => l_comm_values[Group(t)][Own(t) % Size] = s.local
    /\ s.place <= Len(code) =>
         /\ UsesReg(s.place) => reg[t] = s.reg
         /\ code[s.place].op = "permute" =>
              reg[t] % NRows = RowOf(Group(t), code[s.place - 1].expr)

\* path lists what the work-items of g have in common at the places on their way.
TraceOK(g, n, path) ==
    /\ path[1] = Start
    /\ \A k \in 1 .. n :
          /\ path[k].place <= Len(code) + 1 /\ path[k].bar < path[k].place
          /\ path[k].place <= Len(code) => code[path[k].place].op # "result"
          /\ path[k].bar = 0 => path[k].place <= 2 /\ path[k].local = 1
    /\ \A k \in 1 .. n - 1 : path[k].place <= Len(code) /\ path[k + 1] = Effect(g, path[k])
    /\ \A k, m \in 1 .. n : k < m =>
          /\ path[k].place < path[m].place
          /\ code[path[k].place].op = "barrier" => path[m].bar >= path[k].place

\* The work-items of g are on that way, all behind the same barrier.
Way(g, n, path, at) ==
    /\ TraceOK(g, n, path)
    /\ \A t \in Members(g) : InStep(t, path[at[t]])
    /\ \A t, u \in Members(g) : path[at[t]].bar = path[at[u]].bar

\* There is such a way for the group g.
Follows(g) ==
    \E n \in Nat \ {0} : \E path \in [1 .. n -> States] : \E at \in [Members(g) -> 1 .. n] :
        Way(g, n, path, at)

\* They share out the items of the group in the buffers.
Owns(g) ==
    /\ \A t \in Members(g) : Own(t) \in g * Size .. g * Size + Size - 1
    /\ \A t, u \in Members(g) : t # u => Own(t) # Own(u)
    /\ \A x \in g * Size .. g * Size + Size - 1 : \E t \in Members(g) : Own(t) = x

\* Nothing has run before the launch.
Unstarted ==
    /\ \A t \in WorkItems :
          gate[t] = 0 /\ tid[t] = Group(t) * Size + permutations[0][Lid(t)]
    /\ \A x \in 0 .. NGroups * Size - 1 : g_comm_values[x] = 1

\* The work-items of every group share one way and share out the buffers.
WayInv ==
    /\ phase = "generate" => Unstarted
    /\ phase = "run" => \A g \in Groups : Follows(g) /\ Owns(g)

-----------------------------------------------------------------------------
(* The code of statements                                                  *)

\* Heads and layout depend on the neighbours only: they are kept when code is put
\* into code, if what comes behind it is a head.
LEMMA HeadShift ==
    ASSUME NEW c \in Seq(Instruction), NEW e \in Seq(Instruction), NEW n \in Nat,
           n + Len(c) <= Len(e), \A k \in 1 .. Len(c) : e[n + k] = c[k],
           n + Len(c) < Len(e) => HeadAt(e, n + Len(c) + 1),
           NEW i \in 1 .. Len(c), HeadAt(c, i)
    PROVE  HeadAt(e, n + i)
<1>1. Len(c) \in Nat /\ Len(e) \in Nat /\ e[n + i] = c[i]
  BY LenProperties
<1>2. ASSUME n + i < Len(e) PROVE e[n + i + 1].op \notin {"permute", "collect"}
  <2>1. CASE i < Len(c)
    <3>1. i + 1 \in 1 .. Len(c) /\ n + (i + 1) = n + i + 1
      BY <1>1, <2>1
    <3>2. e[n + i + 1] = c[i + 1]
      BY <3>1
    <3> QED BY <2>1, <3>2 DEF HeadAt
  <2>2. CASE i = Len(c)
    BY <1>2, <2>2 DEF HeadAt, Inner
  <2> QED BY <1>1, <2>1, <2>2
<1> QED BY <1>1, <1>2 DEF HeadAt

\* The layout of an instruction is kept when its code is put into longer code.
LEMMA LaidShift ==
    ASSUME NEW c \in Seq(Instruction), NEW e \in Seq(Instruction), NEW n \in Nat,
           n + Len(c) <= Len(e), \A k \in 1 .. Len(c) : e[n + k] = c[k],
           n + Len(c) < Len(e) => HeadAt(e, n + Len(c) + 1),
           NEW i \in 1 .. Len(c), LaidAt(c, i)
    PROVE  LaidAt(e, n + i)
<1> DEFINE x == c[i]
           skip == x.skip
           before == c[i - 1]
<1>1. Len(c) \in Nat /\ Len(e) \in Nat /\ e[n + i] = x /\ n + i <= Len(e) /\ n + i \in Nat
  BY LenProperties
<1>2. i > 1 => n + i > 1 /\ e[n + i - 1] = before
  <2>1. i > 1 => i - 1 \in 1 .. Len(c) /\ n + (i - 1) = n + i - 1
    BY <1>1
  <2> QED BY <1>1, <2>1
<1>3. i > 2 => n + i > 2 /\ e[n + i - 2] = c[i - 2]
  <2>1. i > 2 => i - 2 \in 1 .. Len(c) /\ n + (i - 2) = n + i - 2
    BY <1>1
  <2> QED BY <1>1, <2>1
<1>4. i < Len(c) => n + i < Len(e) /\ e[n + i + 1] = c[i + 1]
  <2>1. i < Len(c) => i + 1 \in 1 .. Len(c) /\ n + (i + 1) = n + i + 1
    BY <1>1
  <2> QED BY <1>1, <2>1
<1>10. i + 1 < Len(c) => n + i + 1 < Len(e) /\ e[n + i + 2] = c[i + 2]
  <2>1. i + 1 < Len(c) => i + 2 \in 1 .. Len(c) /\ n + (i + 2) = n + i + 2
    BY <1>1
  <2> QED BY <1>1, <2>1
<1>5. ASSUME x.op \in {"branch", "gate"}
      PROVE  /\ n + i + skip <= Len(e)
             /\ n + i + skip < Len(e) => HeadAt(e, n + i + skip + 1)
             /\ skip # 0 => e[n + i + skip].op # "branch"
  <2>1. skip \in Nat
    <3>1. x \in Instruction
      BY <1>1, ElementOfSeq
    <3> QED BY <1>5, <3>1, InstructionFields
  <2>2. i + skip <= Len(c) /\ (i + skip < Len(c) => HeadAt(c, i + skip + 1))
    BY <1>5 DEF LaidAt
  <2>5. skip # 0 => c[i + skip].op # "branch"
    BY <1>5 DEF LaidAt
  <2> HIDE DEF skip
  <2>6. skip # 0 => e[n + i + skip].op # "branch"
    <3>1. i + skip \in 1 .. Len(c) /\ n + (i + skip) = n + i + skip
      BY <1>1, <2>1, <2>2
    <3>2. e[n + i + skip] = c[i + skip]
      BY <3>1
    <3> QED BY <2>5, <3>2
  <2>3. CASE i + skip < Len(c)
    <3>1. i + skip + 1 \in 1 .. Len(c) /\ n + (i + skip + 1) = n + i + skip + 1
      BY <1>1, <2>1, <2>3
    <3>2. HeadAt(e, n + (i + skip + 1))
      BY <2>2, <2>3, <3>1, HeadShift
    <3> QED BY <1>1, <2>1, <2>3, <3>1, <3>2, <2>6
  <2>4. CASE i + skip = Len(c)
    <3>1. n + i + skip = n + (i + skip)
      BY <1>1, <2>1
    <3>2. n + i + skip = n + Len(c)
      BY <2>4, <3>1
    <3> QED BY <2>6, <3>2
  <2> QED BY <1>1, <2>1, <2>2, <2>3, <2>4, <2>6
<1> HIDE DEF x, skip, before
<1>6. /\ x.op \in {"store", "branch", "permute", "atomic"} => n + i > 1 /\ e[n + i - 1].op = "eval"
      /\ x.op = "store" => e[n + i - 1].expr.source # "id"
      /\ x.op = "permute" => /\ n + i > 2 /\ e[n + i - 2].op = "barrier"
                             /\ e[n + i - 1].expr.source \in {"nothing", "group"}
      /\ x.op \in {"collect", "give", "shut"} => n + i > 1 /\ e[n + i - 1].op = "barrier"
      /\ x.op = "take" => n + i > 1 /\ e[n + i - 1].op = "gate"
      /\ x.op \in {"collect", "give", "take"} => n + i < Len(e) /\ e[n + i + 1].op = "barrier"
  BY <1>2, <1>3, <1>4 DEF LaidAt, x, before
<1>9. /\ x.op = "collect" => n + i > 2 /\ e[n + i - 2].op = "atomic"
      /\ x.op = "atomic" => n + i + 1 < Len(e) /\ e[n + i + 1].op = "barrier"
                             /\ e[n + i + 2].op = "collect"
  <2>1. i + 1 < Len(c) => i < Len(c)
    BY <1>1
  <2> QED BY <1>3, <1>4, <1>10, <2>1 DEF LaidAt, x
<1>7. x.op = "branch" /\ e[n + i - 1].expr.source = "id" =>
            skip = 0 \/ (skip = 2 /\ n + i < Len(e) /\ e[n + i + 1].op = "section")
  <2>1. ASSUME x.op = "branch", e[n + i - 1].expr.source = "id"
        PROVE  before.expr.source = "id"
    BY <1>2, <2>1 DEF LaidAt, x
  <2>2. ASSUME x.op = "branch", before.expr.source = "id"
        PROVE  skip = 0 \/ (skip = 2 /\ i < Len(c) /\ c[i + 1].op = "section")
    BY <2>2 DEF LaidAt, x, skip, before
  <2> QED BY <1>4, <2>1, <2>2
<1>8. /\ x.op = "hash" => n + i > 1 /\ e[n + i - 1].op \in {"barrier", "hash"}
      /\ x.op = "hash" /\ x.what = "comm_values" =>
            /\ n + i > 2 /\ e[n + i - 2].op = "barrier"
            /\ e[n + i - 1].op = "hash"
  BY <1>2, <1>3 DEF LaidAt, x, before
<1> QED BY <1>1, <1>5, <1>6, <1>7, <1>8, <1>9 DEF LaidAt, skip

\* Code put behind code.
LEMMA JoinLaid ==
    ASSUME NEW c, NEW d, Laid(c), Laid(d), Len(d) > 0 => HeadAt(d, 1)
    PROVE  /\ Laid(c \o d)
           /\ Len(c) > 0 /\ HeadAt(c, 1) => HeadAt(c \o d, 1)
<1> DEFINE e == c \o d
<1>1. c \in Seq(Instruction) /\ d \in Seq(Instruction) /\ Len(c) \in Nat /\ Len(d) \in Nat
  BY LenProperties DEF Laid
<1>2. /\ e \in Seq(Instruction)
      /\ Len(e) = Len(c) + Len(d)
      /\ \A i \in 1 .. Len(c) + Len(d) : e[i] = IF i <= Len(c) THEN c[i] ELSE d[i - Len(c)]
  BY <1>1, ConcatProperties
<1> HIDE DEF e
<1>3. \A k \in 1 .. Len(c) : e[0 + k] = c[k]
  BY <1>1, <1>2
<1>4. \A k \in 1 .. Len(d) : e[Len(c) + k] = d[k]
  <2> TAKE k \in 1 .. Len(d)
  <2>1. Len(c) + k \in 1 .. Len(c) + Len(d) /\ ~(Len(c) + k <= Len(c)) /\ Len(c) + k - Len(c) = k
    BY <1>1
  <2> QED BY <1>2, <2>1
<1>5. Len(c) < Len(e) => HeadAt(e, Len(c) + 1)
  <2> SUFFICES ASSUME Len(c) < Len(e) PROVE HeadAt(e, Len(c) + 1)
    OBVIOUS
  <2>1. 1 \in 1 .. Len(d) /\ HeadAt(d, 1) /\ ~(Len(c) + Len(d) < Len(e))
        /\ Len(c) + Len(d) <= Len(e)
    BY <1>1, <1>2
  <2> QED BY <1>1, <1>2, <1>4, <2>1, HeadShift
<1>6. ASSUME NEW i \in 1 .. Len(e) PROVE LaidAt(e, i)
  <2>1. CASE i <= Len(c)
    <3>1. i \in 1 .. Len(c) /\ LaidAt(c, i) /\ 0 + Len(c) <= Len(e) /\ 0 + i = i
          /\ (0 + Len(c) < Len(e) => HeadAt(e, 0 + Len(c) + 1)) /\ 0 \in Nat
      BY <1>1, <1>2, <1>5, <2>1 DEF Laid
    <3>2. LaidAt(e, 0 + i)
      BY ONLY <1>1, <1>2, <1>3, <3>1, LaidShift
    <3> QED BY <3>1, <3>2
  <2>2. CASE ~(i <= Len(c))
    <3> DEFINE k == i - Len(c)
    <3>1. k \in 1 .. Len(d) /\ LaidAt(d, k) /\ Len(c) + Len(d) <= Len(e) /\ Len(c) + k = i
          /\ ~(Len(c) + Len(d) < Len(e))
      BY <1>1, <1>2, <2>2 DEF Laid
    <3> HIDE DEF k
    <3>2. LaidAt(e, Len(c) + k)
      BY <1>1, <1>2, <1>4, <3>1, LaidShift
    <3> QED BY <3>1, <3>2
  <2> QED BY <2>1, <2>2
<1>7. ASSUME Len(c) > 0, HeadAt(c, 1) PROVE HeadAt(e, 1)
  <2>1. 1 \in 1 .. Len(c) /\ 0 + Len(c) <= Len(e) /\ 0 + 1 = 1 /\ 0 \in Nat
        /\ (0 + Len(c) < Len(e) => HeadAt(e, 0 + Len(c) + 1))
    BY <1>1, <1>2, <1>5, <1>7
  <2>2. HeadAt(e, 0 + 1)
    BY ONLY <1>1, <1>2, <1>3, <1>7, <2>1, HeadShift
  <2> QED BY <2>1, <2>2
<1> QED BY <1>2, <1>6, <1>7 DEF Laid, e

\* Leaves are blocks.
LEMMA LeafBlock ==
    ASSUME NEW s \in Leaf, s.stm = "assign" => s.expr.source # "id",
           s.stm = "comm" => s.expr.source \in {"nothing", "group"}
    PROVE  Block(OutputLeaf(s))
<1>1. CASE s \in [stm : {"nothing", "barrier"}]
  <2>1. CASE s.stm = "nothing"
    <3>1. OutputLeaf(s) = <<>> /\ <<>> \in Seq(Instruction) /\ Len(<<>>) = 0
      BY <2>1, LeafCases
    <3> QED BY <3>1 DEF Laid, Block
  <2>2. CASE s.stm = "barrier"
    <3> DEFINE c == <<[op |-> "gate", skip |-> 5], [op |-> "take"], [op |-> "barrier"],
                      [op |-> "give"], [op |-> "barrier"], [op |-> "shut"]>>
    <3>1. OutputLeaf(s) = c
      BY <2>2, LeafCases DEF OutputGatedBarrier, Barrier
    <3>2. c \in Seq(Instruction) /\ Len(c) = 6
      BY DEF Instruction
    <3>3. /\ c[1].op = "gate" /\ c[1].skip = 5 /\ c[2].op = "take" /\ c[3].op = "barrier"
          /\ c[4].op = "give" /\ c[5].op = "barrier" /\ c[6].op = "shut"
      OBVIOUS
    <3> HIDE DEF c
    <3>4. \A i \in 1 .. 6 : LaidAt(c, i) /\ c[i].op # "hash"
      BY <3>2, <3>3 DEF LaidAt
    <3>5. HeadAt(c, 1)
      BY <3>2, <3>3 DEF HeadAt, Inner
    <3> QED BY <3>1, <3>2, <3>4, <3>5 DEF Laid, Block
  <2> QED BY <1>1, <2>1, <2>2
<1>2. CASE s \in [stm : {"assign"}, space : Spaces, expr : Expression]
  <2> DEFINE c == <<[op |-> "eval", expr |-> s.expr], [op |-> "store", space |-> s.space]>>
  <2>1. OutputLeaf(s) = c
    BY <1>2, LeafCases DEF OutputAssign, Eval
  <2>2. c \in Seq(Instruction) /\ Len(c) = 2
    BY <1>2 DEF Instruction
  <2>3. c[1].op = "eval" /\ c[1].expr.source # "id" /\ c[2].op = "store"
    BY <1>2
  <2> HIDE DEF c
  <2>4. \A i \in 1 .. 2 : LaidAt(c, i) /\ c[i].op # "hash"
    BY <2>2, <2>3 DEF LaidAt
  <2>5. HeadAt(c, 1)
    BY <2>2, <2>3 DEF HeadAt, Inner
  <2> QED BY <2>1, <2>2, <2>4, <2>5 DEF Laid, Block
<1>3. CASE s \in [stm : {"comm"}, expr : Expression]
  <2> DEFINE c == <<[op |-> "barrier"], [op |-> "eval", expr |-> s.expr], [op |-> "permute"]>>
  <2>1. OutputLeaf(s) = c
    BY <1>3, LeafCases DEF OutputComm, Eval, Barrier
  <2>2. c \in Seq(Instruction) /\ Len(c) = 3
    BY <1>3 DEF Instruction
  <2>3. /\ c[1].op = "barrier" /\ c[2].op = "eval" /\ c[2].expr.source \in {"nothing", "group"}
        /\ c[3].op = "permute"
    BY <1>3
  <2> HIDE DEF c
  <2>4. \A i \in 1 .. 3 : LaidAt(c, i) /\ c[i].op # "hash"
    BY <2>2, <2>3 DEF LaidAt
  <2>5. HeadAt(c, 1)
    BY <2>2, <2>3 DEF HeadAt, Inner
  <2> QED BY <2>1, <2>2, <2>4, <2>5 DEF Laid, Block
<1>4. CASE s \in [stm : {"reduction"}, fn : AtomicFunctions, space : Spaces,
                  expr : Expression, addGlobal : BOOLEAN]
  <2> DEFINE c == <<[op |-> "eval", expr |-> s.expr],
                    [op |-> "atomic", fn |-> s.fn, space |-> s.space, addGlobal |-> s.addGlobal],
                    [op |-> "barrier"],
                    [op |-> "collect", space |-> s.space],
                    [op |-> "barrier"]>>
  <2>1. OutputLeaf(s) = c
    BY <1>4, LeafCases DEF OutputReduction, Eval, Barrier
  <2>2. c \in Seq(Instruction) /\ Len(c) = 5
    BY <1>4 DEF Instruction
  <2>3. /\ c[1].op = "eval" /\ c[2].op = "atomic" /\ c[3].op = "barrier"
        /\ c[4].op = "collect" /\ c[5].op = "barrier"
    OBVIOUS
  <2> HIDE DEF c
  <2>4. \A i \in 1 .. 5 : LaidAt(c, i) /\ c[i].op # "hash"
    BY <2>2, <2>3 DEF LaidAt
  <2>5. HeadAt(c, 1)
    BY <2>2, <2>3 DEF HeadAt, Inner
  <2> QED BY <2>1, <2>2, <2>4, <2>5 DEF Laid, Block
<1> QED BY <1>1, <1>2, <1>3, <1>4 DEF Leaf

\* Sections are blocks of two instructions.
LEMMA SectionBlock ==
    ASSUME NEW s \in Section, s.body.stm = "nothing"
    PROVE  /\ Block(OutputSimple(s)) /\ Len(OutputSimple(s)) = 2
           /\ OutputSimple(s)[1].op = "section"
<1> DEFINE c == SectionCode(s)
<1>1. OutputSimple(s) = c
  BY SectionOutput
<1>2. c \in Seq(Instruction) /\ Len(c) = 2
  BY DEF Instruction, Section, SectionCode
<1>3. c[1].op = "section" /\ c[2].op = "result"
  BY DEF SectionCode
<1> HIDE DEF c
<1>4. \A i \in 1 .. 2 : LaidAt(c, i) /\ c[i].op # "hash"
  BY <1>2, <1>3 DEF LaidAt
<1>5. HeadAt(c, 1)
  BY <1>2, <1>3 DEF HeadAt, Inner
<1> QED BY <1>1, <1>2, <1>3, <1>4, <1>5 DEF Laid, Block

\* So are branches around blocks; a branch on an id is around a section at most.
LEMMA IfBlock ==
    ASSUME NEW b, Block(b), \A k \in 1 .. Len(b) : b[k].op # "branch", NEW e \in Expression,
           e.source = "id" => Len(b) = 0 \/ (Len(b) = 2 /\ b[1].op = "section")
    PROVE  Block(<<Eval(e), [op |-> "branch", skip |-> Len(b)]>> \o b)
<1> DEFINE h == <<Eval(e), [op |-> "branch", skip |-> Len(b)]>>
           c == h \o b
<1>1. b \in Seq(Instruction) /\ Len(b) \in Nat
  BY LenProperties DEF Block, Laid
<1>2. h \in Seq(Instruction) /\ Len(h) = 2
  BY <1>1 DEF Instruction, Eval
<1>3. h[1].op = "eval" /\ h[1].expr = e /\ h[2].op = "branch" /\ h[2].skip = Len(b)
  BY DEF Eval
<1> HIDE DEF h
<1>4. /\ c \in Seq(Instruction)
      /\ Len(c) = 2 + Len(b)
      /\ \A i \in 1 .. 2 + Len(b) : c[i] = IF i <= 2 THEN h[i] ELSE b[i - 2]
  <2>1. /\ c \in Seq(Instruction) /\ Len(c) = Len(h) + Len(b)
        /\ \A i \in 1 .. Len(h) + Len(b) : c[i] = IF i <= Len(h) THEN h[i] ELSE b[i - Len(h)]
    BY <1>1, <1>2, ConcatProperties
  <2> HIDE DEF c
  <2> QED BY <1>2, <2>1
<1> HIDE DEF c
<1>5. c[1] = h[1] /\ c[2] = h[2]
  BY <1>1, <1>4
<1>6. \A k \in 1 .. Len(b) : c[2 + k] = b[k]
  <2> TAKE k \in 1 .. Len(b)
  <2>1. 2 + k \in 1 .. 2 + Len(b) /\ ~(2 + k <= 2) /\ 2 + k - 2 = k
    BY <1>1
  <2> QED BY <1>4, <2>1
<1>7. LaidAt(c, 1) /\ HeadAt(c, 1) /\ c[1].op # "hash" /\ c[2].op # "hash"
  BY <1>1, <1>3, <1>4, <1>5 DEF LaidAt, HeadAt, Inner
<1>8. LaidAt(c, 2)
  <2>1. Len(b) = 2 => c[2 + 1] = b[1]
    BY <1>6
  <2>2. /\ c[2].op = "branch" /\ c[2].skip = Len(b) /\ c[2 - 1].op = "eval" /\ c[2 - 1].expr = e
        /\ 2 + Len(b) = Len(c) /\ (Len(b) = 2 => 2 < Len(c))
    BY <1>1, <1>3, <1>4, <1>5
  <2>3. Len(b) # 0 => c[2 + Len(b)].op # "branch"
    <3>1. Len(b) # 0 => Len(b) \in 1 .. Len(b)
      BY <1>1
    <3> QED BY <1>6, <3>1
  <2> QED BY <1>1, <2>1, <2>2, <2>3 DEF LaidAt
<1>9. ASSUME NEW i \in 1 .. Len(c), i # 1, i # 2 PROVE LaidAt(c, i) /\ c[i].op # "hash"
  <2> DEFINE k == i - 2
  <2>1. k \in 1 .. Len(b) /\ 2 + k = i /\ 2 + Len(b) <= Len(c) /\ ~(2 + Len(b) < Len(c)) /\ 2 \in Nat
    BY <1>1, <1>4, <1>9
  <2> HIDE DEF k
  <2>2. LaidAt(b, k) /\ b[k].op # "hash"
    BY <2>1 DEF Block, Laid
  <2>3. LaidAt(c, 2 + k)
    BY <1>1, <1>4, <1>6, <2>1, <2>2, LaidShift
  <2> QED BY <1>6, <2>1, <2>2, <2>3
<1> QED BY <1>4, <1>7, <1>8, <1>9 DEF Block, Laid, c, h

\* The code of a statement that is neither a branch nor a loop has no branch.
LEMMA SimpleCode ==
    ASSUME NEW b \in Simple, b.stm = "section" => b.body.stm = "nothing"
    PROVE  /\ OutputSimple(b) \in Seq(Instruction)
           /\ \A k \in 1 .. Len(OutputSimple(b)) : OutputSimple(b)[k].op # "branch"
<1>1. CASE b.stm = "section"
  <2>1. b \in Section
    BY <1>1 DEF Simple, Leaf
  <2>2. OutputSimple(b) = SectionCode(b)
    BY <1>1, <2>1, SectionOutput
  <2>3. OutputSimple(b) \in Seq(Instruction)
    <3>1. b.counter \in {b.counter}
      OBVIOUS
    <3> QED BY <1>1, <2>1, <3>1, SectionPiece DEF Piece, Sound, Shape
  <2>4. Len(SectionCode(b)) = 2 /\ SectionCode(b)[1].op # "branch" /\ SectionCode(b)[2].op # "branch"
    BY DEF SectionCode
  <2>5. \A k \in 1 .. 2 : k = 1 \/ k = 2
    OBVIOUS
  <2> QED BY <2>2, <2>3, <2>4, <2>5
<1>2. CASE b.stm # "section"
  <2>1. b \in Leaf /\ OutputSimple(b) = OutputLeaf(b)
    BY <1>2 DEF Simple, Section, OutputSimple
  <2>2. OutputLeaf(b) \in Seq(Instruction)
    BY <2>1, LeafShape DEF Shape
  <2>3. \A k \in 1 .. Len(OutputLeaf(b)) : OutputLeaf(b)[k].op # "branch"
    <3>1. CASE b.stm = "nothing"
      BY <3>1, LeafCases
    <3>2. CASE b.stm = "assign"
      BY <3>2, LeafCases DEF OutputAssign, Eval
    <3>3. CASE b.stm = "comm"
      BY <3>3, LeafCases DEF OutputComm, Eval, Barrier
    <3>4. CASE b.stm = "reduction"
      BY <3>4, LeafCases DEF OutputReduction, Eval, Barrier
    <3>5. CASE b.stm = "barrier"
      BY <3>5, LeafCases DEF OutputGatedBarrier, Barrier
    <3> QED BY <2>1, <3>1, <3>2, <3>3, <3>4, <3>5 DEF Leaf
  <2> QED BY <2>1, <2>2, <2>3
<1> QED BY <1>1, <1>2

\* What the generator prints for a statement is a block.
LEMMA StatementBlock ==
    ASSUME NEW s \in Statement, LaidOut(s)
    PROVE  Block(OutputStatement(s))
<1>1. s \in Parts(s) /\ (HasBody(s) => s.body \in Parts(s))
  BY DEF Parts
<1>2. ASSUME NEW q \in Simple, q \in Parts(s) PROVE Block(OutputSimple(q))
  <2>1. CASE q \in Section
    <3>1. q.stm = "section"
      BY <2>1 DEF Section
    <3> QED BY <1>2, <2>1, <3>1, SectionBlock DEF LaidOut
  <2>2. CASE q \in Leaf
    <3>1. q.stm # "section"
      BY <2>2 DEF Leaf
    <3>2. OutputSimple(q) = OutputLeaf(q)
      BY <3>1 DEF OutputSimple
    <3> QED BY <1>2, <2>2, <3>2, LeafBlock DEF LaidOut
  <2> QED BY <1>2, <2>1, <2>2 DEF Simple
<1>3. CASE s \in Simple
  <2>1. s.stm \notin {"if", "for"}
    BY <1>3 DEF Simple, Leaf, Section
  <2> QED BY <1>1, <1>2, <1>3, <2>1 DEF OutputStatement
<1>4. CASE s \in [stm : {"if"}, expr : Expression, body : Simple]
  <2> DEFINE b == OutputSimple(s.body)
  <2>1. s.stm = "if" /\ s.expr \in Expression /\ s.body \in Simple /\ s.body \in Parts(s)
    BY <1>1, <1>4 DEF HasBody
  <2>2. Block(b)
    BY <1>2, <2>1
  <2>5. \A k \in 1 .. Len(b) : b[k].op # "branch"
    BY <2>1, SimpleCode DEF LaidOut
  <2>3. OutputStatement(s) = <<Eval(s.expr), [op |-> "branch", skip |-> Len(b)]>> \o b
    BY <2>1 DEF OutputStatement, OutputIf
  <2>4. s.expr.source = "id" => Len(b) = 0 \/ (Len(b) = 2 /\ b[1].op = "section")
    <3> SUFFICES ASSUME s.expr.source = "id"
                 PROVE  Len(b) = 0 \/ (Len(b) = 2 /\ b[1].op = "section")
      OBVIOUS
    <3>1. s.body.stm \in {"nothing", "section"}
      BY <2>1 DEF LaidOut
    <3>2. CASE s.body.stm = "nothing"
      <4>1. b = <<>>
        BY <3>2, LeafCases DEF OutputSimple
      <4> QED BY <4>1
    <3>3. CASE s.body.stm = "section"
      <4>1. s.body \in Section
        BY <2>1, <3>3 DEF Simple, Leaf
      <4> QED BY <2>1, <3>3, <4>1, SectionBlock DEF LaidOut
    <3> QED BY <3>1, <3>2, <3>3
  <2> HIDE DEF b
  <2> QED BY <2>1, <2>2, <2>3, <2>4, <2>5, IfBlock
<1>5. CASE s \in [stm : {"for"}, body : Simple]
  <2> DEFINE b == OutputSimple(s.body)
  <2>1. s.stm = "for" /\ s.body \in Simple /\ s.body \in Parts(s)
    BY <1>1, <1>5 DEF HasBody
  <2>2. Block(b)
    BY <1>2, <2>1
  <2>3. OutputStatement(s) = b \o b
    BY <2>1 DEF OutputStatement, OutputFor
  <2> HIDE DEF b
  <2>4. b \in Seq(Instruction) /\ Len(b) \in Nat
    BY <2>2, LenProperties DEF Block, Laid
  <2>5. Laid(b \o b) /\ (Len(b) > 0 => HeadAt(b \o b, 1))
    BY <2>2, JoinLaid DEF Block
  <2>6. /\ Len(b \o b) = Len(b) + Len(b)
        /\ \A i \in 1 .. Len(b) + Len(b) : (b \o b)[i] = IF i <= Len(b) THEN b[i] ELSE b[i - Len(b)]
    BY <2>4, ConcatProperties
  <2> DEFINE e == b \o b
  <2> HIDE DEF e
  <2>7. \A i \in 1 .. Len(e) : e[i].op # "hash"
    <3> TAKE i \in 1 .. Len(e)
    <3>1. i \in 1 .. Len(b) + Len(b) /\ e[i] = IF i <= Len(b) THEN b[i] ELSE b[i - Len(b)]
      BY <2>6 DEF e
    <3>2. CASE i <= Len(b)
      BY <2>2, <2>4, <3>1, <3>2 DEF Block
    <3>3. CASE ~(i <= Len(b))
      <4>1. i - Len(b) \in 1 .. Len(b)
        BY <2>4, <3>1, <3>3
      <4> QED BY <2>2, <3>1, <3>3, <4>1 DEF Block
    <3> QED BY <3>2, <3>3
  <2>8. Laid(e) /\ (Len(e) > 0 => HeadAt(e, 1))
    BY <2>4, <2>5, <2>6 DEF e
  <2> QED BY <2>3, <2>7, <2>8 DEF Block, e
<1> QED BY <1>3, <1>4, <1>5 DEF Statement

\* The statements in a statement are statements.
LEMMA PartsAreStatements ==
    ASSUME NEW s \in Statement, NEW q \in Parts(s)
    PROVE  q \in Statement
<1>1. q = s \/ (HasBody(s) /\ q = s.body) \/ (HasBody(s) /\ HasBody(s.body) /\ q = s.body.body)
  BY DEF Parts
<1>2. ASSUME HasBody(s) PROVE s.body \in Simple \cup Leaf
  BY <1>2 DEF HasBody, Statement, Simple, Leaf, Section
<1>3. ASSUME HasBody(s), HasBody(s.body) PROVE s.body.body \in Leaf
  <2>1. s.body \in Section
    BY <1>2, <1>3 DEF HasBody, Simple, Leaf
  <2> QED BY <2>1 DEF Section
<1> QED BY <1>1, <1>2, <1>3 DEF Statement, Simple

\* The generator refuses the statements that are not laid out: divergence and
\* inter-thread communication exclude each other.
LEMMA GeneratedAreLaidOut ==
    ASSUME NoBarrierInSections, RowsReadNoBuffer, NoDivergentReductions,
           cl_options \in OptionSets, NEW s \in Statements, AddStatement(s)
    PROVE  LaidOut(s)
<1>1. s \in Statement /\ ~Conflict(cl_options)
  BY StatementsAssumption, OptionsAssumption
<1>2. \A q \in Parts(s) : q \in Statement /\ Needs(q) \subseteq cl_options
  BY <1>1, PartsAreStatements DEF AddStatement
<1>3. ~({"divergence", "inter_thread_comm"} \subseteq cl_options)
  BY <1>1 DEF Conflict
<1>4. s \in Parts(s) /\ (HasBody(s) => s.body \in Parts(s))
  BY DEF Parts
<1>5. ASSUME NEW q \in Parts(s)
      PROVE  /\ q.stm \in {"assign", "comm"} =>
                   /\ "inter_thread_comm" \in cl_options
                   /\ q.expr.source \in Sources /\ q.expr.source # "id"
  <2> SUFFICES ASSUME q.stm \in {"assign", "comm"}
               PROVE  /\ "inter_thread_comm" \in cl_options
                      /\ q.expr.source \in Sources /\ q.expr.source # "id"
    OBVIOUS
  <2>1. Needs(q) = {"inter_thread_comm"} \cup NeedsOfExpr(q.expr)
    BY DEF Needs
  <2>2. q.expr.source \in Sources
    <3>1. q \in [stm : {"assign"}, space : Spaces, expr : Expression]
            \/ q \in [stm : {"comm"}, expr : Expression]
      BY <1>2, <1>5 DEF Statement, Simple, Leaf, Section
    <3>2. q.expr \in Expression
      BY <3>1
    <3> QED BY <3>2 DEF Expression
  <2>3. q.expr.source = "id" => "divergence" \in cl_options
    <3>1. q.expr.source = "id" => NeedsOfExpr(q.expr) = {"divergence"}
      BY DEF NeedsOfExpr, Spaces
    <3> QED BY <1>2, <1>5, <2>1, <3>1
  <2> QED BY <1>2, <1>3, <1>5, <2>1, <2>2, <2>3
<1>6. ASSUME NEW q \in Parts(s), q.stm = "comm" PROVE q.expr.source \in {"nothing", "group"}
  BY <1>5, <1>6 DEF RowsReadNoBuffer, Sources
<1>7. ASSUME s.stm = "if", s.expr.source = "id" PROVE s.body.stm \in {"nothing", "section"}
  <2>1. s.body \in Simple /\ s.body \in Parts(s)
    BY <1>1, <1>4, <1>7 DEF HasBody, Statement, Simple, Leaf, Section
  <2>2. "divergence" \in cl_options
    <3>1. Needs(s) = NeedsOfExpr(s.expr) /\ NeedsOfExpr(s.expr) = {"divergence"}
      BY <1>7 DEF Needs, NeedsOfExpr, Spaces
    <3> QED BY <1>2, <1>4, <3>1
  <2>3. s.body.stm \notin {"assign", "comm"}
    BY <1>3, <1>5, <2>1, <2>2
  <2>4. s.body.stm # "barrier"
    <3>1. s.body.stm = "barrier" => HasGatedBarrier(<<s>>)
      <4>1. 1 \in DOMAIN <<s>> /\ <<s>>[1] = s
        OBVIOUS
      <4> QED BY <2>1, <4>1 DEF HasGatedBarrier
    <3> QED BY <1>7, <3>1 DEF AddStatement, Divergent
  <2>5. s.body.stm # "reduction"
    <3>1. s.body.stm = "reduction" => "atomic_reductions" \in cl_options
      BY <1>2, <2>1 DEF Needs
    <3> QED BY <1>7, <2>2, <3>1 DEF NoDivergentReductions
  <2>6. s.body.stm \in {"nothing", "barrier", "assign", "comm", "reduction", "section"}
    BY <2>1 DEF Simple, Leaf, Section
  <2> QED BY <2>3, <2>4, <2>5, <2>6
<1>8. ASSUME NEW q \in Parts(s) PROVE q.stm = "section" => q.body.stm = "nothing"
  BY SectionsAreEmpty
<1> QED BY <1>5, <1>6, <1>7, <1>8 DEF LaidOut

\* The code is laid out, and the comm buffers are hashed at the very end only.
CodeLaid ==
    /\ Laid(code)
    /\ phase = "generate" => \A i \in 1 .. Len(code) : code[i].op # "hash"
    /\ \A i \in 1 .. Len(code) :
          code[i].op = "hash" /\ code[i].what = "comm_values" => i = Len(code)

\* The prologue is laid out.
LEMMA InitLaid == Init => CodeLaid
<1> SUFFICES ASSUME Init PROVE CodeLaid
  OBVIOUS
<1>1. code = <<[op |-> "init"], [op |-> "barrier"]>>
  BY DEF Init, Prologue, Barrier
<1>2. code \in Seq(Instruction) /\ Len(code) = 2
  BY <1>1 DEF Instruction
<1>3. code[1].op = "init" /\ code[2].op = "barrier"
  BY <1>1
<1>4. \A i \in 1 .. 2 : LaidAt(code, i) /\ code[i].op # "hash"
  BY <1>2, <1>3 DEF LaidAt
<1> QED BY <1>2, <1>4 DEF CodeLaid, Laid

\* A statement added to laid out code leaves it laid out.
LEMMA AddStatementLaid ==
    ASSUME NoBarrierInSections, RowsReadNoBuffer, NoDivergentReductions, CodeInv, CodeLaid,
           NEW s \in Statements, AddStatement(s)
    PROVE  CodeLaid'
<1> DEFINE d == OutputStatement(s)
           e == code \o d
<1>1. phase = "generate" /\ phase' = phase /\ code' = e
  BY DEF AddStatement
<1>2. Block(d)
  BY GeneratedAreLaidOut, StatementBlock, StatementsAssumption DEF CodeInv
<1> HIDE DEF d
<1>3. Laid(e)
  BY <1>2, JoinLaid DEF CodeLaid, Block
<1>4. code \in Seq(Instruction) /\ d \in Seq(Instruction) /\ Len(code) \in Nat /\ Len(d) \in Nat
  BY <1>2, LenProperties DEF CodeLaid, Laid, Block
<1>5. /\ Len(e) = Len(code) + Len(d)
      /\ \A i \in 1 .. Len(code) + Len(d) : e[i] = IF i <= Len(code) THEN code[i] ELSE d[i - Len(code)]
  BY <1>4, ConcatProperties
<1> HIDE DEF e
<1>6. \A i \in 1 .. Len(e) : e[i].op # "hash"
  <2> TAKE i \in 1 .. Len(e)
  <2>1. CASE i <= Len(code)
    BY <1>1, <1>4, <1>5, <2>1 DEF CodeLaid
  <2>2. CASE ~(i <= Len(code))
    <3>1. i - Len(code) \in 1 .. Len(d) /\ e[i] = d[i - Len(code)]
      BY <1>4, <1>5, <2>2
    <3> QED BY <1>2, <3>1 DEF Block
  <2> QED BY <2>1, <2>2
<1> QED BY <1>1, <1>3, <1>6 DEF CodeLaid

\* So does the epilogue.
LEMMA LaunchLaid ==
    ASSUME CodeLaid, Launch
    PROVE  CodeLaid'
<1> DEFINE d == Epilogue
           e == code \o d
<1>1. phase = "generate" /\ phase' = "run" /\ code' = e
  BY DEF Launch
<1>2. d \in Seq(Instruction) /\ Len(d) = 7
  BY DEF Epilogue, Instruction, Barrier
<1>3. /\ d[1].op = "barrier" /\ d[2].op = "hash" /\ d[3].op = "barrier" /\ d[4].op = "hash"
      /\ d[5].op = "barrier" /\ d[6].op = "hash" /\ d[7].op = "hash"
      /\ d[2].what = "v_collective" /\ d[4].what = "g_special_values"
      /\ d[6].what = "l_special_values" /\ d[7].what = "comm_values"
  BY DEF Epilogue, Barrier
<1> HIDE DEF d
<1>4. \A i \in 1 .. 7 : LaidAt(d, i)
  <2> TAKE i \in 1 .. 7
  <2>1. \/ i = 1 \/ i = 2 \/ i = 3 \/ i = 4 \/ i = 5 \/ i = 6 \/ i = 7
    OBVIOUS
  <2> QED BY <1>2, <1>3, <2>1 DEF LaidAt
<1>5. HeadAt(d, 1)
  BY <1>2, <1>3 DEF HeadAt, Inner
<1>6. Laid(e)
  BY <1>2, <1>4, <1>5, JoinLaid DEF CodeLaid, Laid
<1>7. code \in Seq(Instruction) /\ Len(code) \in Nat
  BY LenProperties DEF CodeLaid, Laid
<1>8. /\ Len(e) = Len(code) + 7
      /\ \A i \in 1 .. Len(code) + 7 : e[i] = IF i <= Len(code) THEN code[i] ELSE d[i - Len(code)]
  <2>1. /\ Len(e) = Len(code) + Len(d)
        /\ \A i \in 1 .. Len(code) + Len(d) : e[i] = IF i <= Len(code) THEN code[i] ELSE d[i - Len(code)]
    BY <1>2, <1>7, ConcatProperties
  <2> HIDE DEF e
  <2> QED BY <1>2, <2>1
<1> HIDE DEF e
<1>9. ASSUME NEW i \in 1 .. Len(e), e[i].op = "hash", e[i].what = "comm_values" PROVE i = Len(e)
  <2>1. ~(i <= Len(code))
    BY <1>1, <1>7, <1>8, <1>9 DEF CodeLaid
  <2> DEFINE k == i - Len(code)
  <2>2. k \in 1 .. 7 /\ e[i] = d[k] /\ i = Len(code) + k
    BY <1>7, <1>8, <2>1
  <2> HIDE DEF k
  <2>3. k = 7
    BY <1>3, <1>9, <2>2
  <2> QED BY <1>7, <1>8, <2>2, <2>3
<1> QED BY <1>1, <1>6, <1>9 DEF CodeLaid

-----------------------------------------------------------------------------
(* Places                                                                  *)

\* What is known of the code while it runs.
Ready == Inv /\ CodeLaid

\* What is known of every instruction of the code.
LEMMA CodeFacts ==
    ASSUME Ready
    PROVE  /\ code \in Seq(Instruction) /\ Len(code) \in Nat /\ Len(code) >= 2
           /\ \A i \in 1 .. Len(code) : ShapeAt(code, i) /\ LaidAt(code, i) /\ code[i] \in Instruction
           /\ \A i \in 1 .. Len(code) : code[i].op = "init" <=> i = 1
           /\ code[2].op = "barrier"
<1>1. code \in Seq(Instruction) /\ Len(code) \in Nat
  BY LenProperties DEF Ready, CodeLaid, Laid
<1>2. \A i \in 1 .. Len(code) : code[i] \in Instruction
  BY <1>1, ElementOfSeq
<1> QED BY <1>1, <1>2 DEF Ready, CodeLaid, Laid, Inv, CodeInv, Sound, Shape

\* Nothing that belongs to a statement follows the end of a section.
LEMMA BehindResult ==
    ASSUME Ready, NEW i \in 1 .. Len(code), code[i].op = "result", i + 1 <= Len(code)
    PROVE  HeadAt(code, i + 1)
<1>1. i + 1 \in 1 .. Len(code) /\ i + 1 - 1 = i /\ i + 1 # 1
  BY CodeFacts
<1>2. ShapeAt(code, i + 1) /\ LaidAt(code, i + 1) /\ code[i + 1].op # "init"
  BY <1>1, CodeFacts
<1>3. code[i + 1].op \notin Inner
  BY <1>1, <1>2 DEF ShapeAt, LaidAt, Inner
<1>5. ASSUME i + 1 < Len(code) PROVE code[i + 1 + 1].op \notin {"permute", "collect"}
  <2>1. i + 1 + 1 \in 1 .. Len(code) /\ i + 1 + 1 - 2 = i
    BY <1>5, CodeFacts
  <2>2. LaidAt(code, i + 1 + 1)
    BY <2>1, CodeFacts
  <2> QED BY <2>1, <2>2 DEF LaidAt
<1> QED BY <1>3, <1>5 DEF HeadAt

\* Where a work-item in a section or at one is at home.
LEMMA HomeBehindResult ==
    ASSUME Ready, NEW i \in 1 .. Len(code), code[i].op = "result"
    PROVE  Home(i) = i + 1 /\ Home(i + 1) = i + 1
<1>1. Home(i) = i + 1
  BY CodeFacts DEF Home
<1>2. i + 1 <= Len(code) => code[i + 1].op # "result"
  BY BehindResult DEF HeadAt, Inner
<1>3. ~PassedBy(i + 1)
  <2>1. i + 1 - 1 = i
    BY CodeFacts
  <2> QED BY <2>1 DEF PassedBy, Divided
<1> QED BY <1>1, <1>2, <1>3 DEF Home

\* The place of a group at a section.
LEMMA HomeAtSection ==
    ASSUME Ready, NEW i \in 1 .. Len(code), code[i].op = "section"
    PROVE  /\ i + 1 \in 1 .. Len(code) /\ code[i + 1].op = "result" /\ code[i].skip = 1
           /\ Home(i + 1) = i + 2 /\ Home(i + 2) = i + 2
<1>1. i + 1 \in 1 .. Len(code) /\ code[i + 1].op = "result" /\ code[i].skip = 1
  BY CodeFacts DEF ShapeAt
<1>2. Home(i + 1) = i + 1 + 1 /\ Home(i + 1 + 1) = i + 1 + 1
  BY <1>1, HomeBehindResult
<1> QED BY <1>1, <1>2, CodeFacts

\* Homes are in the code or behind it, and not in a section.
LEMMA HomeFacts ==
    ASSUME Ready, NEW i \in 1 .. Len(code) + 1
    PROVE  /\ Home(i) \in 1 .. Len(code) + 1 /\ Home(i) >= i
           /\ Home(i) <= Len(code) => code[Home(i)].op # "result"
           /\ Home(i) # i => (Home(i) <= Len(code) => HeadAt(code, Home(i)))
           /\ Home(i) # i => code[i].op = "result" \/ PassedBy(i)
<1>1. CASE i = Len(code) + 1
  BY <1>1, CodeFacts DEF Home
<1>2. CASE i \in 1 .. Len(code) /\ code[i].op = "result"
  <2>1. Home(i) = i + 1 /\ (i + 1 <= Len(code) => HeadAt(code, i + 1))
    BY <1>2, HomeBehindResult, BehindResult
  <2> QED BY <1>2, <2>1, CodeFacts DEF HeadAt, Inner
<1>3. CASE i \in 1 .. Len(code) /\ PassedBy(i)
  <2>1. code[i].op = "section" /\ Home(i) = i + 2
    BY <1>3, CodeFacts DEF PassedBy, Home
  <2>2. i + 1 \in 1 .. Len(code) /\ code[i + 1].op = "result" /\ i + 2 = i + 1 + 1
    BY <1>3, <2>1, HomeAtSection
  <2>3. i + 2 <= Len(code) => HeadAt(code, i + 2)
    BY <2>2, BehindResult
  <2> QED BY <1>3, <2>1, <2>2, <2>3, CodeFacts DEF HeadAt, Inner
<1>4. CASE i \in 1 .. Len(code) /\ code[i].op # "result" /\ ~PassedBy(i)
  BY <1>4, CodeFacts DEF Home
<1> QED BY <1>1, <1>2, <1>3, <1>4, CodeFacts

\* The instruction next to one that neither jumps nor is in a section.
LEMMA StraightOn ==
    ASSUME Ready, NEW i \in 1 .. Len(code), code[i].op \notin {"section", "result", "branch"}
    PROVE  Home(i) = i /\ Home(i + 1) = i + 1
<1>1. i + 1 \in 1 .. Len(code) + 1 /\ i \in 1 .. Len(code) + 1 /\ i + 1 - 1 = i
  BY CodeFacts
<1>2. i + 1 <= Len(code) => code[i + 1].op # "result"
  <2> SUFFICES ASSUME i + 1 <= Len(code) PROVE code[i + 1].op # "result"
    OBVIOUS
  <2>1. ShapeAt(code, i + 1)
    BY <1>1, CodeFacts
  <2> QED BY <1>1, <2>1 DEF ShapeAt
<1>3. ~PassedBy(i + 1) /\ ~PassedBy(i)
  BY <1>1 DEF PassedBy, Divided
<1> QED BY <1>1, <1>2, <1>3, CodeFacts DEF Home

\* The next place is further on; what does not begin a statement is reached from
\* the instruction in front of it only.
LEMMA NextPlaceFacts ==
    ASSUME Ready, NEW s, s.place \in 1 .. Len(code)
    PROVE  /\ NextPlace(s) \in 1 .. Len(code) + 1 /\ NextPlace(s) > s.place
           /\ NextPlace(s) <= Len(code) => code[NextPlace(s)].op # "result"
           /\ NextPlace(s) <= Len(code) =>
                NextPlace(s) = s.place + 1 \/ HeadAt(code, NextPlace(s))
<1> DEFINE i == s.place
           j == i + 1 + IF Skips(s) THEN code[i].skip ELSE 0
<1>1. NextPlace(s) = Home(j)
  BY DEF NextPlace
<1>2. CASE ~Skips(s)
  <2>1. j = i + 1 /\ j \in 1 .. Len(code) + 1
    BY <1>2, CodeFacts
  <2> HIDE DEF j
  <2>2. /\ Home(j) \in 1 .. Len(code) + 1 /\ Home(j) >= j
        /\ Home(j) <= Len(code) => code[Home(j)].op # "result"
        /\ Home(j) # j => (Home(j) <= Len(code) => HeadAt(code, Home(j)))
    BY <2>1, HomeFacts
  <2> QED BY <1>1, <2>1, <2>2, CodeFacts
<1>3. CASE Skips(s)
  <2>1. code[i].op \in {"branch", "gate"} /\ j = i + 1 + code[i].skip
    BY <1>3 DEF Skips
  <2>2. code[i].skip \in Nat
    BY <2>1, CodeFacts, InstructionFields
  <2>3. i + code[i].skip <= Len(code)
        /\ (i + code[i].skip < Len(code) => HeadAt(code, i + code[i].skip + 1))
    BY <2>1, CodeFacts DEF LaidAt
  <2>4. j = i + code[i].skip + 1 /\ j \in 1 .. Len(code) + 1 /\ j > i
        /\ (j <= Len(code) => i + code[i].skip < Len(code))
    <3>1. PICK k \in Nat : k = code[i].skip
      BY <2>2
    <3>2. i \in Nat /\ Len(code) \in Nat /\ j = i + 1 + k /\ i + k <= Len(code)
      BY <2>1, <2>3, <3>1, CodeFacts
    <3> HIDE DEF j, i
    <3>3. j = i + k + 1 /\ j \in 1 .. Len(code) + 1 /\ j > i /\ (j <= Len(code) => i + k < Len(code))
      BY <3>2
    <3> QED BY <3>1, <3>3
  <2> HIDE DEF j
  <2>5. j <= Len(code) => HeadAt(code, j)
    BY <2>3, <2>4
  <2>6. /\ Home(j) \in 1 .. Len(code) + 1 /\ Home(j) >= j
        /\ Home(j) <= Len(code) => code[Home(j)].op # "result"
        /\ Home(j) # j => (Home(j) <= Len(code) => HeadAt(code, Home(j)))
    BY <2>4, HomeFacts
  <2> QED BY <1>1, <2>4, <2>5, <2>6, CodeFacts
<1> QED BY <1>2, <1>3

-----------------------------------------------------------------------------
(* The way of a group                                                      *)

\* An expression has a value.
LEMMA GroupValueType ==
    ASSUME NEW g \in Groups, NEW s \in States, NEW e \in Expression
    PROVE  GroupValue(g, s, e) \in UInt
<1> DEFINE read == CASE e.source = "local"  -> s.local
                     [] e.source = "global" -> s.global
                     [] e.source = "group"  -> g
                     [] OTHER               -> 0
<1>1. s.local \in Int /\ s.global \in Int /\ g \in Int /\ e.add \in Nat
  BY SizesAssumption DEF States, UInt, Groups, Expression
<1>2. read \in Int
  <2>1. CASE e.source = "local"
    BY <1>1, <2>1
  <2>2. CASE e.source = "global"
    BY <1>1, <2>2
  <2>3. CASE e.source = "group"
    BY <1>1, <2>3
  <2>4. CASE e.source \notin {"local", "global", "group"}
    BY <2>4
  <2> QED BY <2>1, <2>2, <2>3, <2>4
<1>3. GroupValue(g, s, e) = (read + e.add) % Modulus
  BY DEF GroupValue
<1> HIDE DEF read
<1> QED BY <1>1, <1>2, <1>3, Reduced

\* The parts of an instruction that the effect depends on.
LEMMA InstructionParts ==
    ASSUME NEW x \in Instruction
    PROVE  /\ x.op = "eval" => x.expr \in Expression
           /\ x.op = "store" => x.space \in Spaces
<1>1. x.op = "eval" => x.expr \in Expression
  BY SMTT(30) DEF Instruction
<1>2. x.op = "store" => x.space \in Spaces
  BY SMTT(30) DEF Instruction
<1> QED BY <1>1, <1>2

\* An instruction takes states of a group to states.
LEMMA EffectType ==
    ASSUME Ready, NEW g \in Groups, NEW s \in States, s.place <= Len(code)
    PROVE  Effect(g, s) \in States
<1> DEFINE i == code[s.place]
           place == NextPlace(s)
           local == IF i.op = "store" /\ i.space = "local" THEN s.reg ELSE s.local
           global == IF i.op = "store" /\ i.space = "global" THEN s.reg ELSE s.global
           gt == IF i.op = "shut" THEN 1 ELSE s.gate
           rg == IF i.op = "eval" THEN GroupValue(g, s, i.expr) ELSE s.reg
           bar == IF i.op = "barrier" THEN s.place ELSE s.bar
<1>1. s.place \in 1 .. Len(code) /\ i \in Instruction /\ s.reg \in UInt /\ s.local \in UInt
      /\ s.global \in UInt /\ s.gate \in {0, 1} /\ s.bar \in Nat
  BY CodeFacts DEF States
<1>2. place \in Nat \ {0}
  BY <1>1, NextPlaceFacts, CodeFacts
<1>3. local \in UInt /\ global \in UInt /\ gt \in {0, 1}
  BY <1>1
<1>4. rg \in UInt
  BY <1>1, GroupValueType, InstructionParts
<1>5. bar \in Nat
  BY <1>1
<1>6. Effect(g, s) = [place |-> place, local |-> local, global |-> global, gate |-> gt,
                      reg |-> rg, bar |-> bar]
  BY DEF Effect
<1> HIDE DEF place, local, global, gt, rg, bar
<1> QED BY <1>2, <1>3, <1>4, <1>5, <1>6 DEF States

\* A way can be gone on with.
LEMMA Longer ==
    ASSUME Ready, NEW g \in Groups, NEW n \in Nat \ {0}, NEW path \in [1 .. n -> States],
           TraceOK(g, n, path), path[n].place <= Len(code)
    PROVE  \E longer \in [1 .. n + 1 -> States] :
              /\ TraceOK(g, n + 1, longer)
              /\ \A k \in 1 .. n : longer[k] = path[k]
<1> DEFINE s == path[n]
           r == Effect(g, s)
           longer == [k \in 1 .. n + 1 |-> IF k <= n THEN path[k] ELSE r]
<1>0. n \in 1 .. n /\ n + 1 \in 1 .. n + 1 /\ 1 \in 1 .. n
  OBVIOUS
<1>1. s \in States /\ r \in States /\ s.place \in 1 .. Len(code) /\ s.bar \in Nat
  BY <1>0, EffectType, CodeFacts DEF States
<1>2. longer \in [1 .. n + 1 -> States]
  BY <1>1
<1>3. longer[n + 1] = r /\ \A k \in 1 .. n : longer[k] = path[k]
  OBVIOUS
<1> HIDE DEF longer
<1>4. r.place \in 1 .. Len(code) + 1 /\ r.place > s.place
      /\ (r.place <= Len(code) => code[r.place].op # "result")
  BY <1>1, NextPlaceFacts DEF Effect
<1>5. r.bar = IF code[s.place].op = "barrier" THEN s.place ELSE s.bar
  BY DEF Effect
<1>6. s.bar < s.place /\ (s.bar = 0 => s.place <= 2 /\ s.local = 1)
  BY <1>0 DEF TraceOK
<1>7. r.bar < r.place
  BY <1>1, <1>4, <1>5, <1>6
<1>8. ASSUME r.bar = 0 PROVE r.place <= 2 /\ r.local = 1
  <2>1. code[s.place].op # "barrier" /\ s.bar = 0
    BY <1>1, <1>5, <1>8
  <2>2. s.place = 1 /\ code[1].op = "init" /\ s.local = 1
    BY <1>1, <1>6, <2>1, CodeFacts
  <2>3. ~Skips(s) /\ Home(1 + 1) = 1 + 1
    BY <2>2, StraightOn, CodeFacts DEF Skips
  <2>4. r.place = 2
    BY <2>2, <2>3 DEF Effect, NextPlace
  <2> QED BY <2>2, <2>4 DEF Effect
<1> HIDE DEF r
<1>9. \A k \in 1 .. n + 1 :
          /\ longer[k].place <= Len(code) + 1 /\ longer[k].bar < longer[k].place
          /\ longer[k].place <= Len(code) => code[longer[k].place].op # "result"
          /\ longer[k].bar = 0 => longer[k].place <= 2 /\ longer[k].local = 1
  <2> TAKE k \in 1 .. n + 1
  <2>1. CASE k = n + 1
    BY <1>3, <1>4, <1>7, <1>8, <2>1
  <2>2. CASE k \in 1 .. n
    BY <1>3, <2>2 DEF TraceOK
  <2> QED BY <2>1, <2>2
<1>10. \A k \in 1 .. n : longer[k].place <= Len(code) /\ longer[k + 1] = Effect(g, longer[k])
  <2> TAKE k \in 1 .. n
  <2>1. CASE k = n
    BY <1>3, <2>1 DEF r
  <2>2. CASE k # n
    <3>1. k \in 1 .. n - 1 /\ k + 1 \in 1 .. n
      BY <2>2
    <3> QED BY <1>3, <3>1 DEF TraceOK
  <2> QED BY <2>1, <2>2
<1>11. \A k, m \in 1 .. n + 1 : k < m =>
          /\ longer[k].place < longer[m].place
          /\ code[longer[k].place].op = "barrier" => longer[m].bar >= longer[k].place
  <2> SUFFICES ASSUME NEW k \in 1 .. n + 1, NEW m \in 1 .. n + 1, k < m
               PROVE  /\ longer[k].place < longer[m].place
                      /\ code[longer[k].place].op = "barrier" => longer[m].bar >= longer[k].place
    OBVIOUS
  <2>1. k \in 1 .. n /\ longer[k] = path[k] /\ path[k] \in States
    BY <1>3
  <2>2. CASE m \in 1 .. n
    BY <1>3, <2>1, <2>2 DEF TraceOK
  <2>3. CASE m = n + 1
    <3>1. longer[m] = r
      BY <1>3, <2>3
    <3>2. CASE k = n
      BY <1>1, <1>4, <1>5, <2>1, <3>1, <3>2
    <3>3. CASE k # n
      <4>1. /\ path[k].place < s.place
            /\ code[path[k].place].op = "barrier" => s.bar >= path[k].place
        BY <1>0, <2>1, <3>3 DEF TraceOK
      <4>2. path[k].place \in Nat /\ s.place \in Nat /\ r.place \in Nat /\ s.bar \in Nat
        BY <1>1, <2>1 DEF States
      <4> QED BY <1>4, <1>5, <2>1, <3>1, <4>1, <4>2
    <3> QED BY <3>2, <3>3
  <2> QED BY <2>2, <2>3
<1>12. longer[1] = Start
  BY <1>0, <1>3 DEF TraceOK
<1>13. TraceOK(g, n + 1, longer)
  BY <1>9, <1>10, <1>11, <1>12 DEF TraceOK
<1> QED BY <1>2, <1>3, <1>13

\* A longer way, with the state behind a state k of path.
GoesOn(g, n, path, k, m, longer) ==
    /\ m >= n /\ k + 1 <= m /\ TraceOK(g, m, longer)
    /\ \A j \in 1 .. n : longer[j] = path[j]
    /\ longer[k + 1] = Effect(g, path[k])

\* The state behind a state on the way is on it, or on a longer one.
LEMMA NextState ==
    ASSUME Ready, NEW g \in Groups, NEW n \in Nat \ {0}, NEW path \in [1 .. n -> States],
           TraceOK(g, n, path), NEW k \in 1 .. n, path[k].place <= Len(code)
    PROVE  \E m \in Nat \ {0} : \E longer \in [1 .. m -> States] :
              GoesOn(g, n, path, k, m, longer)
<1>1. CASE k < n
  <2>1. k \in 1 .. n - 1 /\ path[k + 1] = Effect(g, path[k])
    BY <1>1 DEF TraceOK
  <2> QED BY <1>1, <2>1 DEF GoesOn
<1>2. CASE k = n
  <2>1. PICK longer \in [1 .. n + 1 -> States] :
          TraceOK(g, n + 1, longer) /\ \A j \in 1 .. n : longer[j] = path[j]
    BY <1>2, Longer
  <2>2. n \in 1 .. (n + 1) - 1 /\ n + 1 \in Nat \ {0}
    OBVIOUS
  <2>3. longer[n + 1] = Effect(g, longer[n])
    BY <2>1, <2>2 DEF TraceOK
  <2> QED BY <1>2, <2>1, <2>2, <2>3 DEF GoesOn
<1> QED BY <1>1, <1>2

\* Places are those of the code.
LEMMA SameCode ==
    ASSUME code' = code
    PROVE  /\ \A i : Home(i)' = Home(i) /\ Pending(i)' = Pending(i)
           /\ \A i : Divided(i)' = Divided(i) /\ UsesReg(i)' = UsesReg(i)
                     /\ PendingExpr(i)' = PendingExpr(i)
           /\ \A g, s : Effect(g, s)' = Effect(g, s)
           /\ \A g, n, path : TraceOK(g, n, path)' = TraceOK(g, n, path)
<1>1. \A i : Divided(i)' = Divided(i) /\ PassedBy(i)' = PassedBy(i)
  BY DEF Divided, PassedBy
<1>2. \A i : Home(i)' = Home(i)
  BY <1>1 DEF Home
<1>3. \A i : Pending(i)' = Pending(i) /\ PendingExpr(i)' = PendingExpr(i) /\ UsesReg(i)' = UsesReg(i)
  BY <1>1 DEF Pending, PendingExpr, UsesReg
<1>4. \A s : Skips(s)' = Skips(s)
  BY <1>1 DEF Skips
<1>5. \A s : NextPlace(s)' = NextPlace(s)
  BY <1>2, <1>4 DEF NextPlace
<1>6. \A g, s : Effect(g, s)' = Effect(g, s)
  BY <1>5 DEF Effect, GroupValue
<1>7. \A g, n, path : TraceOK(g, n, path)' = TraceOK(g, n, path)
  BY <1>6 DEF TraceOK
<1> QED BY <1>1, <1>2, <1>3, <1>6, <1>7

-----------------------------------------------------------------------------
(* Steps on the way                                                        *)

\* A work-item that goes to the next place, when the others stay where they are.
LEMMA Advance ==
    ASSUME Ready, code' = code, NEW g \in Groups, NEW n \in Nat \ {0},
           NEW path \in [1 .. n -> States], NEW at \in [Members(g) -> 1 .. n],
           Way(g, n, path, at), NEW t \in Members(g),
           path[at[t]].place <= Len(code), code[path[at[t]].place].op # "barrier",
           \A u \in Members(g) : u # t => InStep(u, path[at[u]])',
           \A r : r = Effect(g, path[at[t]]) => InStep(t, r)'
    PROVE  Follows(g)'
<1>0. PICK k \in 1 .. n : k = at[t]
  OBVIOUS
<1>1. TraceOK(g, n, path) /\ path[k].place <= Len(code)
  BY <1>0 DEF Way
<1>2. PICK m \in Nat \ {0} : \E longer \in [1 .. m -> States] : GoesOn(g, n, path, k, m, longer)
  BY <1>1, NextState
<1>3. PICK longer \in [1 .. m -> States] :
              /\ m >= n /\ at[t] + 1 <= m /\ TraceOK(g, m, longer)
              /\ \A j \in 1 .. n : longer[j] = path[j]
              /\ longer[at[t] + 1] = Effect(g, path[at[t]])
  BY <1>0, <1>2 DEF GoesOn
<1>4. PICK now : now = [u \in Members(g) |-> IF u = t THEN at[t] + 1 ELSE at[u]]
  OBVIOUS
<1>5. \A u \in Members(g) : at[u] \in 1 .. n
  OBVIOUS
<1>6. now \in [Members(g) -> 1 .. m]
  BY <1>3, <1>4, <1>5
<1>7. TraceOK(g, m, longer)'
  BY <1>3, SameCode
<1>8. ASSUME NEW u \in Members(g)
      PROVE  InStep(u, longer[now[u]])' /\ longer[now[u]].bar = path[at[u]].bar
  <2>1. CASE u = t
    <3>1. longer[now[u]] = Effect(g, path[at[t]])
      BY <1>3, <1>4, <2>1
    <3>2. InStep(t, longer[now[u]])'
      BY <3>1
    <3>3. PICK s : s = path[at[t]]
      OBVIOUS
    <3>4. Effect(g, s).bar = s.bar
      BY <3>3 DEF Effect
    <3>5. longer[now[u]].bar = path[at[t]].bar
      BY <3>1, <3>3, <3>4
    <3> QED BY <2>1, <3>2, <3>5
  <2>2. CASE u # t
    <3>1. now[u] = at[u] /\ at[u] \in 1 .. n
      BY <1>4, <1>5, <2>2
    <3>2. longer[now[u]] = path[at[u]]
      BY <1>3, <3>1
    <3> QED BY <2>2, <3>2
  <2> QED BY <2>1, <2>2
<1>9. Members(g)' = Members(g)
  BY DEF Members
<1>10. \A u, v \in Members(g) : longer[now[u]].bar = longer[now[v]].bar
  BY <1>8 DEF Way
<1>11. Way(g, m, longer, now)'
  BY <1>7, <1>8, <1>9, <1>10 DEF Way
<1> QED BY <1>6, <1>9, <1>11 DEF Follows

\* Nobody of the group gets further.
LEMMA Stay ==
    ASSUME Ready, code' = code, NEW g \in Groups, NEW n \in Nat \ {0},
           NEW path \in [1 .. n -> States], NEW at \in [Members(g) -> 1 .. n],
           Way(g, n, path, at), \A u \in Members(g) : InStep(u, path[at[u]])'
    PROVE  Follows(g)'
<1>1. Members(g)' = Members(g)
  BY DEF Members
<1>2. TraceOK(g, n, path)'
  BY SameCode DEF Way
<1>3. Way(g, n, path, at)'
  BY <1>1, <1>2 DEF Way
<1> QED BY <1>1, <1>3 DEF Follows

\* A work-item that the step leaves alone is as it was.
LEMMA Untouched ==
    ASSUME NEW u \in WorkItems, code' = code, permutations' = permutations,
           ip'[u] = ip[u], tid'[u] = tid[u], gate'[u] = gate[u], reg'[u] = reg[u]
    PROVE  /\ Own(u)' = Own(u)
           /\ \A s : InStep(u, s) /\ g_comm_values'[Own(u)] = g_comm_values[Own(u)]
                     /\ (ip'[<<Group(u), 0>>] > 1 =>
                           l_comm_values'[Group(u)][Own(u) % Size] = s.local)
                     => InStep(u, s)'
<1>1. Own(u)' = Own(u)
  BY SameCode DEF Own, OwnAt, Permuted, Group
<1>2. Home(ip[u])' = Home(ip[u])
  BY SameCode
<1>3. ASSUME NEW s, InStep(u, s), g_comm_values'[Own(u)] = g_comm_values[Own(u)],
             ip'[<<Group(u), 0>>] > 1 => l_comm_values'[Group(u)][Own(u) % Size] = s.local
      PROVE  InStep(u, s)'
  <2>1. Home(ip[u])' = s.place /\ gate'[u] = s.gate
    BY <1>2, <1>3 DEF InStep
  <2>2. g_comm_values'[Own(u)'] = s.global
    BY <1>1, <1>3 DEF InStep
  <2>3. ip'[<<Group(u), 0>>] > 1 => l_comm_values'[Group(u)][Own(u)' % Size] = s.local
    BY <1>1, <1>3
  <2>4. s.place <= Len(code) =>
         /\ UsesReg(s.place)' => reg'[u] = s.reg
         /\ code[s.place].op = "permute" =>
              reg'[u] % NRows = RowOf(Group(u), code[s.place - 1].expr)
    BY <1>3, SameCode DEF InStep
  <2> QED BY <2>1, <2>2, <2>3, <2>4 DEF InStep, RowOf, Group
<1> QED BY <1>1, <1>3

\* The item of a work-item is one of its group.
LEMMA OwnItem ==
    ASSUME DataOK, NEW g \in Groups, Owns(g), NEW t \in Members(g)
    PROVE  /\ t \in WorkItems /\ Group(t) = g /\ g \in Nat /\ g * Size \in Nat
           /\ Own(t) \in 0 .. NGroups * Size - 1 /\ Own(t) \in Nat
           /\ Own(t) \in g * Size .. g * Size + Size - 1
           /\ Own(t) % Size \in Lids
<1>1. t \in WorkItems /\ Group(t) = g /\ Own(t) \in g * Size .. g * Size + Size - 1
      /\ g \in Nat /\ Size \in Nat \ {0}
  BY SizesAssumption DEF Members, Owns, Groups
<1>2. g * Size \in Nat /\ Own(t) \in 0 .. NGroups * Size - 1
  BY <1>1, GroupIds
<1>3. Own(t) \in Nat
  BY <1>1, <1>2
<1> QED BY <1>1, <1>2, <1>3 DEF Lids

\* Where an id is pending.
LEMMA PendingFacts ==
    ASSUME Ready, NEW i \in 1 .. Len(code)
    PROVE  /\ HeadAt(code, i) => ~Pending(i)
           /\ Pending(i) /\ code[i].op # "permute" =>
                i < Len(code) /\ code[i].op = "eval" /\ code[i + 1].op = "permute"
           /\ code[i].op # "barrier" /\ Pending(i + 1) =>
                i < Len(code) /\ code[i].op = "eval" /\ code[i + 1].op = "permute"
           /\ code[i].op = "permute" =>
                i - 1 \in 1 .. Len(code) /\ code[i - 1].expr.source \in {"nothing", "group"}
           /\ i < Len(code) /\ code[i + 1].op = "permute" =>
                code[i].op = "eval" /\ code[i].expr.source \in {"nothing", "group"}
<1>1. HeadAt(code, i) => ~Pending(i)
  BY DEF HeadAt, Pending, Inner
<1>2. ASSUME i < Len(code), code[i + 1].op = "permute"
      PROVE  code[i].op = "eval" /\ code[i].expr.source \in {"nothing", "group"}
  <2>1. i + 1 \in 1 .. Len(code) /\ i + 1 - 1 = i
    BY <1>2, CodeFacts
  <2>2. LaidAt(code, i + 1)
    BY <2>1, CodeFacts
  <2> QED BY <1>2, <2>1, <2>2 DEF LaidAt
<1>3. ASSUME code[i].op # "barrier", Pending(i + 1)
      PROVE  i < Len(code) /\ code[i].op = "eval" /\ code[i + 1].op = "permute"
  <2>1. i + 1 \in 1 .. Len(code) /\ i < Len(code)
    BY <1>3, CodeFacts DEF Pending
  <2>2. code[i + 1].op = "permute"
    <3> SUFFICES ASSUME i + 1 < Len(code), code[i + 1 + 1].op = "permute" PROVE FALSE
      BY <1>3 DEF Pending
    <3>1. i + 1 + 1 \in 1 .. Len(code) /\ i + 1 + 1 - 2 = i
      BY CodeFacts
    <3>2. LaidAt(code, i + 1 + 1)
      BY <3>1, CodeFacts
    <3> QED BY <1>3, <3>1, <3>2 DEF LaidAt
  <2> QED BY <1>2, <2>1, <2>2
<1>4. ASSUME code[i].op = "permute"
      PROVE  i - 1 \in 1 .. Len(code) /\ code[i - 1].expr.source \in {"nothing", "group"}
  BY <1>4, CodeFacts DEF LaidAt
<1> QED BY <1>1, <1>2, <1>3, <1>4 DEF Pending

\* A work-item keeps its item on any step but that over a barrier.
LEMMA OwnStep ==
    ASSUME Ready, code' = code, permutations' = permutations, NEW t \in WorkItems,
           ip[t] \in 1 .. Len(code), code[ip[t]].op \notin {"barrier", "permute"},
           tid'[t] = tid[t],
           \/ ip'[t] = ip[t] + 1
           \/ code[ip[t]].op # "eval" /\ ~Pending(ip'[t])
    PROVE  Own(t)' = Own(t)
<1> DEFINE i == ip[t]
<1>0. PICK j : j = ip'[t]
  OBVIOUS
<1>1. CASE Pending(i)
  <2>1. i < Len(code) /\ code[i].op = "eval" /\ code[i + 1].op = "permute" /\ j = i + 1
        /\ i + 1 <= Len(code) /\ i + 1 - 1 = i
    BY <1>0, <1>1, PendingFacts, CodeFacts
  <2>2. Pending(j) /\ PendingExpr(j) = code[i].expr /\ PendingExpr(i) = code[i].expr
    BY <2>1 DEF Pending, PendingExpr
  <2>3. Pending(j)' /\ PendingExpr(j)' = code[i].expr
    BY <2>2, SameCode
  <2>4. Pending(ip[t])' /\ PendingExpr(ip[t])' = code[i].expr
    BY <1>0, <2>3
  <2> QED BY <1>1, <2>2, <2>4 DEF Own, OwnAt, Permuted, RowOf, Group
<1>2. CASE ~Pending(i)
  <2>1. ~Pending(j)
    <3>1. CASE j = i + 1
      <4>1. i < Len(code) /\ code[i + 1].op = "permute" => Pending(i)
        BY DEF Pending
      <4> QED BY <1>2, <3>1, <4>1, PendingFacts
    <3> QED BY <1>0, <3>1
  <2>2. ~Pending(j)'
    BY <2>1, SameCode
  <2>3. ~Pending(ip[t])'
    BY <1>0, <2>2
  <2> QED BY <1>2, <2>3 DEF Own, OwnAt
<1> QED BY <1>1, <1>2

\* The value of an expression that reads no id is the same for the whole group.
LEMMA SharedValue ==
    ASSUME Ready, NEW g \in Groups, NEW t \in Members(g), NEW s, InStep(t, s),
           ip[t] <= Len(code), code[ip[t]].op = "eval"
    PROVE  LET e == code[ip[t]].expr
           IN  /\ e.source \in {"nothing", "group"} =>
                    Value(t, e) = ((IF e.source = "group" THEN g ELSE 0) + e.add) % Modulus
               /\ e.source # "id" /\ ~Pending(ip[t]) => Value(t, e) = GroupValue(g, s, e)
<1> DEFINE e == code[ip[t]].expr
<1>1. t \in WorkItems /\ Group(t) = g
  BY DEF Members
<1>2. ip[t] \in 1 .. Len(code) /\ code[ip[t]] \in Instruction
  BY <1>1, Started, CodeFacts DEF Ready
<1>3. e.source \in {"nothing", "local", "global", "group", "id"}
  <2>1. e \in Expression
    BY <1>2, InstructionParts
  <2> HIDE DEF e
  <2> QED BY <2>1 DEF Expression, Sources, Spaces
<1>4. ip[<<g, 0>>] > 1
  <2>1. Initialised(g, "local")
    BY <1>1, Started DEF Ready, Spaces
  <2> QED BY <2>1 DEF Initialised
<1> HIDE DEF e
<1>5. e.source \in {"nothing", "group"} =>
         Value(t, e) = ((IF e.source = "group" THEN g ELSE 0) + e.add) % Modulus
  BY <1>1 DEF Value
<1>6. ASSUME e.source # "id", ~Pending(ip[t])
      PROVE  Value(t, e) = GroupValue(g, s, e)
  <2>1. Own(t) = tid[t]
    BY <1>6 DEF Own, OwnAt
  <2>2. g_comm_values[tid[t]] = s.global /\ l_comm_values[g][LocalItem(t)] = s.local
    BY <1>1, <1>4, <2>1 DEF InStep, LocalItem
  <2>3. CASE e.source = "nothing"
    BY <2>3 DEF Value, GroupValue
  <2>4. CASE e.source = "local"
    BY <1>1, <2>2, <2>4 DEF Value, GroupValue
  <2>5. CASE e.source = "global"
    BY <2>2, <2>5 DEF Value, GroupValue
  <2>6. CASE e.source = "group"
    BY <1>1, <2>6 DEF Value, GroupValue
  <2> QED BY <1>3, <1>6, <2>3, <2>4, <2>5, <2>6
<1> QED BY <1>5, <1>6 DEF e

\* A work-item that does what the group has in common is at its next place.
LEMMA MoveOn ==
    ASSUME Ready, code' = code, NEW g \in Groups, NEW t \in Members(g),
           NEW s \in States, InStep(t, s), NEW i \in 1 .. Len(code), ip[t] = i, s.place = i,
           Own(t)' = Own(t), Home(ip'[t]) = NextPlace(s),
           gate'[t] = IF code[i].op = "shut" THEN 1 ELSE s.gate,
           g_comm_values'[Own(t)] =
              IF code[i].op = "store" /\ code[i].space = "global" THEN s.reg ELSE s.global,
           ip'[<<g, 0>>] > 1 =>
              l_comm_values'[g][Own(t) % Size] =
                IF code[i].op = "store" /\ code[i].space = "local" THEN s.reg ELSE s.local,
           code[i].op = "eval" => reg'[t] = Value(t, code[i].expr),
           NEW r, r = Effect(g, s)
    PROVE  InStep(t, r)'
<1>0. PICK q : q = NextPlace(s)
  OBVIOUS
<1>1. t \in WorkItems /\ Group(t) = g
  BY DEF Members
<1>2. /\ r.place = q
      /\ gate'[t] = r.gate
      /\ g_comm_values'[Own(t)] = r.global
      /\ ip'[<<g, 0>>] > 1 => l_comm_values'[g][Own(t) % Size] = r.local
      /\ code[i].op = "eval" => r.reg = GroupValue(g, s, code[i].expr)
  BY <1>0 DEF Effect
<1>3. Home(ip[t])' = q
  <2>1. PICK j : j = ip'[t]
    OBVIOUS
  <2>2. Home(j)' = q
    BY <1>0, <2>1, SameCode
  <2> QED BY <1>0, <2>1, <2>2
<1>4. q \in 1 .. Len(code) + 1 /\ (q <= Len(code) => q = i + 1 \/ HeadAt(code, q))
  BY <1>0, NextPlaceFacts
<1>5. ASSUME q <= Len(code), code[q].op \in {"store", "branch", "permute"}
      PROVE  /\ code[i].op = "eval" /\ q = i + 1 /\ q - 1 = i
             /\ UsesReg(q) => reg'[t] = r.reg
             /\ code[q].op = "permute" => reg'[t] % NRows = RowOf(g, code[q - 1].expr)
  <2>1. q = i + 1 /\ q \in 1 .. Len(code) /\ q - 1 = i /\ q > 1
    BY <1>4, <1>5, CodeFacts DEF HeadAt, Inner
  <2>2. LaidAt(code, q)
    BY <2>1, CodeFacts
  <2>3. code[i].op = "eval"
    BY <1>5, <2>1, <2>2 DEF LaidAt
  <2>4. ASSUME UsesReg(q) PROVE reg'[t] = r.reg
    <3>1. code[i].expr.source # "id" /\ code[q].op # "permute"
      BY <2>1, <2>2, <2>4 DEF UsesReg, Divided, LaidAt
    <3>2. ~Pending(i)
      BY <2>1, <2>3, <3>1 DEF Pending
    <3>3. Value(t, code[i].expr) = GroupValue(g, s, code[i].expr)
      BY <2>3, <3>1, <3>2, SharedValue
    <3> QED BY <1>2, <2>3, <3>3
  <2>5. ASSUME code[q].op = "permute" PROVE reg'[t] % NRows = RowOf(g, code[q - 1].expr)
    <3>1. code[i].expr.source \in {"nothing", "group"}
      BY <2>1, <2>2, <2>5 DEF LaidAt
    <3>2. Value(t, code[i].expr) =
             ((IF code[i].expr.source = "group" THEN g ELSE 0) + code[i].expr.add) % Modulus
      BY <2>3, <3>1, SharedValue
    <3> QED BY <2>1, <2>3, <3>2 DEF RowOf
  <2> QED BY <2>1, <2>3, <2>4, <2>5
<1>6. q <= Len(code) =>
         /\ UsesReg(q)' => reg'[t] = r.reg
         /\ code[q].op = "permute" => reg'[t] % NRows = RowOf(g, code[q - 1].expr)
  <2>1. UsesReg(q)' = UsesReg(q)
    BY SameCode
  <2>2. UsesReg(q) => code[q].op \in {"store", "branch", "permute"}
    BY DEF UsesReg
  <2> QED BY <1>5, <2>1, <2>2
<1>7. /\ Home(ip[t])' = r.place
      /\ gate'[t] = r.gate
      /\ g_comm_values'[Own(t)'] = r.global
      /\ ip'[<<Group(t), 0>>] > 1 => l_comm_values'[Group(t)][Own(t)' % Size] = r.local
      /\ r.place <= Len(code') =>
            /\ UsesReg(r.place)' => reg'[t] = r.reg
            /\ code'[r.place].op = "permute" =>
                 reg'[t] % NRows = RowOf(Group(t), code'[r.place - 1].expr)
  BY <1>1, <1>2, <1>3, <1>6
<1> QED BY <1>7 DEF InStep, RowOf, Group


\* The position of an item within the items of its group.
LEMMA ItemPosition ==
    ASSUME NEW g \in Groups, NEW x \in g * Size .. g * Size + Size - 1
    PROVE  x \in Nat /\ x % Size \in Lids /\ x = g * Size + (x % Size)
<1>1. g \in Nat /\ Size \in Nat \ {0} /\ g * Size \in Nat /\ x \in Nat
  BY GroupIds, SizesAssumption DEF Groups
<1>2. PICK d \in 0 .. Size - 1 : x = g * Size + d
  <2>1. x - g * Size \in 0 .. Size - 1 /\ x = g * Size + (x - g * Size)
    BY <1>1
  <2> QED BY <2>1
<1>3. x % Size = d
  BY <1>1, <1>2, SMTT(30)
<1> QED BY <1>1, <1>2, <1>3 DEF Lids

\* The items of two groups are apart.
LEMMA GroupsApart ==
    ASSUME NEW g \in Groups, NEW h \in Groups, g # h,
           NEW x \in g * Size .. g * Size + Size - 1,
           NEW y \in h * Size .. h * Size + Size - 1
    PROVE  x # y
<1>1. g \in Nat /\ h \in Nat /\ Size \in Nat \ {0} /\ x \in Nat /\ y \in Nat
      /\ g * Size \in Nat /\ h * Size \in Nat
  BY GroupIds, SizesAssumption DEF Groups
<1>2. ASSUME NEW a \in Nat, NEW b \in Nat, a < b PROVE a * Size + Size <= b * Size
  <2>1. PICK d \in Nat : b = a + 1 + d
    <3>1. b - a - 1 \in Nat /\ b = a + 1 + (b - a - 1)
      BY <1>2
    <3> QED BY <3>1
  <2>2. b * Size = a * Size + Size + d * Size /\ d * Size \in Nat /\ a * Size \in Nat
    BY <1>1, <2>1
  <2> QED BY <1>1, <2>2
<1>3. CASE g < h
  BY <1>1, <1>2, <1>3
<1>4. CASE h < g
  BY <1>1, <1>2, <1>4
<1> QED BY <1>1, <1>3, <1>4

\* The kernel runs, and its groups are on their ways.
Running ==
    /\ Ready /\ DataOK /\ phase = "run"
    /\ \A g \in Groups : Follows(g) /\ Owns(g)

\* A step of t, behind the initialisation, in which t changes no items but its own.
Alone(t) ==
    /\ code' = code /\ permutations' = permutations /\ ip[t] > 1
    /\ \A u \in WorkItems : u # t =>
          ip'[u] = ip[u] /\ tid'[u] = tid[u] /\ gate'[u] = gate[u] /\ reg'[u] = reg[u]
    /\ \A x \in 0 .. NGroups * Size - 1 : x # Own(t) => g_comm_values'[x] = g_comm_values[x]
    /\ \A h \in Groups : h # Group(t) => l_comm_values'[h] = l_comm_values[h]
    /\ \A i \in Lids : i # Own(t) % Size =>
          l_comm_values'[Group(t)][i] = l_comm_values[Group(t)][i]

\* Such a step does not disturb the other work-items.
LEMMA Others ==
    ASSUME Running, NEW t \in WorkItems, Alone(t), Own(t)' = Own(t)
    PROVE  /\ \A h \in Groups : Owns(h)'
           /\ \A u \in WorkItems : \A s : u # t /\ InStep(u, s) => InStep(u, s)'
<1>1. \A u \in WorkItems : Own(u)' = Own(u)
  BY Untouched DEF Alone
<1>2. ASSUME NEW h \in Groups PROVE Owns(h)'
  <2>1. Members(h)' = Members(h) /\ \A u \in Members(h) : u \in WorkItems
    BY DEF Members
  <2>2. /\ \A u \in Members(h) : Own(u)' \in h * Size .. h * Size + Size - 1
        /\ \A u, v \in Members(h) : u # v => Own(u)' # Own(v)'
        /\ \A x \in h * Size .. h * Size + Size - 1 : \E u \in Members(h) : Own(u)' = x
    BY <1>1, <2>1 DEF Running, Owns
  <2> QED BY <2>1, <2>2 DEF Owns
<1>3. ASSUME NEW u \in WorkItems, NEW s, u # t, InStep(u, s) PROVE InStep(u, s)'
  <2>1. t \in Members(Group(t)) /\ u \in Members(Group(u)) /\ Group(t) \in Groups /\ Group(u) \in Groups
    BY ItemIds DEF Members
  <2>2. /\ Own(t) \in Group(t) * Size .. Group(t) * Size + Size - 1
        /\ Own(u) \in Group(u) * Size .. Group(u) * Size + Size - 1
        /\ Own(u) \in 0 .. NGroups * Size - 1
    BY <2>1, OwnItem DEF Running
  <2>3. Own(u) # Own(t)
    <3>1. CASE Group(u) = Group(t)
      BY <1>3, <2>1, <3>1 DEF Running, Owns
    <3>2. CASE Group(u) # Group(t)
      BY <2>1, <2>2, <3>2, GroupsApart
    <3> QED BY <3>1, <3>2
  <2>4. g_comm_values'[Own(u)] = g_comm_values[Own(u)]
    BY <2>2, <2>3 DEF Alone
  <2>5. l_comm_values'[Group(u)][Own(u) % Size] = l_comm_values[Group(u)][Own(u) % Size]
    <3>1. CASE Group(u) = Group(t)
      <4>1. Own(u) % Size \in Lids /\ Own(u) = Group(t) * Size + (Own(u) % Size)
            /\ Own(t) = Group(t) * Size + (Own(t) % Size)
        BY <2>1, <2>2, <3>1, ItemPosition
      <4>2. Own(u) % Size # Own(t) % Size
        BY <2>3, <4>1
      <4> QED BY <3>1, <4>1, <4>2 DEF Alone
    <3>2. CASE Group(u) # Group(t)
      BY <2>1, <3>2 DEF Alone
    <3> QED BY <3>1, <3>2
  <2>6. ip'[<<Group(u), 0>>] > 1 => ip[<<Group(u), 0>>] > 1
    <3>1. <<Group(u), 0>> \in WorkItems
      BY <2>1, SizesAssumption DEF WorkItems, Lids
    <3> QED BY <3>1 DEF Alone
  <2>7. ip'[<<Group(u), 0>>] > 1 => l_comm_values'[Group(u)][Own(u) % Size] = s.local
    BY <1>3, <2>5, <2>6 DEF InStep
  <2>8. ip'[u] = ip[u] /\ tid'[u] = tid[u] /\ gate'[u] = gate[u] /\ reg'[u] = reg[u]
        /\ code' = code /\ permutations' = permutations
    BY <1>3 DEF Alone
  <2> QED BY <1>3, <2>4, <2>7, <2>8, Untouched
<1> QED BY <1>2, <1>3

\* A group none of whose work-items is disturbed.
LEMMA Undisturbed ==
    ASSUME Running, code' = code, NEW g \in Groups,
           \A u \in Members(g) : \A s : InStep(u, s) => InStep(u, s)'
    PROVE  Follows(g)'
<1>1. PICK n \in Nat \ {0} : \E path \in [1 .. n -> States] : \E at \in [Members(g) -> 1 .. n] :
          Way(g, n, path, at)
  BY DEF Running, Follows
<1>2. PICK path \in [1 .. n -> States] : \E at \in [Members(g) -> 1 .. n] : Way(g, n, path, at)
  BY <1>1
<1>3. PICK at \in [Members(g) -> 1 .. n] : Way(g, n, path, at)
  BY <1>2
<1>4. \A u \in Members(g) : InStep(u, path[at[u]])'
  BY <1>3 DEF Way
<1> QED BY <1>3, <1>4, Stay DEF Running

\* What t does is what its group has in common at this place.
AsOne(t, i) ==
    /\ Home(ip'[t]) =
          Home(i + 1 + IF \/ code[i].op = "branch" /\ ~Divided(i) /\ reg[t] = 0
                          \/ code[i].op = "gate" /\ gate[t] # 0
                       THEN code[i].skip ELSE 0)
    /\ gate'[t] = IF code[i].op = "shut" THEN 1 ELSE gate[t]
    /\ g_comm_values'[Own(t)] =
          IF code[i].op = "store" /\ code[i].space = "global"
            THEN reg[t] ELSE g_comm_values[Own(t)]
    /\ l_comm_values'[Group(t)][Own(t) % Size] =
          IF code[i].op = "store" /\ code[i].space = "local"
            THEN reg[t] ELSE l_comm_values[Group(t)][Own(t) % Size]
    /\ code[i].op = "eval" => reg'[t] = Value(t, code[i].expr)

\* A step from a place of the whole group goes on along the way.
LEMMA OnStep ==
    ASSUME Running, NEW t \in WorkItems, Alone(t), Own(t)' = Own(t),
           NEW i \in 1 .. Len(code), ip[t] = i, Home(i) = i, code[i].op # "barrier",
           AsOne(t, i)
    PROVE  Follows(Group(t))'
<1>0. PICK g \in Groups : g = Group(t)
  BY ItemIds
<1>1. t \in Members(g) /\ \A u \in Members(g) : u \in WorkItems
  BY <1>0 DEF Members
<1>2. PICK n \in Nat \ {0} : \E path \in [1 .. n -> States] : \E at \in [Members(g) -> 1 .. n] :
          Way(g, n, path, at)
  BY DEF Running, Follows
<1>3. PICK path \in [1 .. n -> States] : \E at \in [Members(g) -> 1 .. n] : Way(g, n, path, at)
  BY <1>2
<1>4. PICK at \in [Members(g) -> 1 .. n] : Way(g, n, path, at)
  BY <1>3
<1>5. PICK s \in States : s = path[at[t]]
  BY <1>1
<1>6. InStep(t, s) /\ s.place = i
  BY <1>1, <1>4, <1>5 DEF Way, InStep
<1>7. code' = code /\ Ready /\ <<g, 0>> \in WorkItems
  BY SizesAssumption DEF Alone, Running, WorkItems, Lids
<1>8. gate[t] = s.gate /\ g_comm_values[Own(t)] = s.global
      /\ (UsesReg(i) => reg[t] = s.reg)
      /\ (ip[<<g, 0>>] > 1 => l_comm_values[g][Own(t) % Size] = s.local)
  BY <1>0, <1>6, CodeFacts, <1>7 DEF InStep
<1>9. Home(ip'[t]) = NextPlace(s)
  BY <1>6, <1>8 DEF AsOne, NextPlace, Skips, UsesReg
<1>10. gate'[t] = IF code[i].op = "shut" THEN 1 ELSE s.gate
  BY <1>8 DEF AsOne
<1>11. g_comm_values'[Own(t)] =
              IF code[i].op = "store" /\ code[i].space = "global" THEN s.reg ELSE s.global
  BY <1>8 DEF AsOne, UsesReg
<1>12. ip'[<<g, 0>>] > 1 => ip[<<g, 0>>] > 1
  BY <1>7 DEF Alone
<1>13. ip'[<<g, 0>>] > 1 =>
              l_comm_values'[g][Own(t) % Size] =
                IF code[i].op = "store" /\ code[i].space = "local" THEN s.reg ELSE s.local
  BY <1>0, <1>8, <1>12 DEF AsOne, UsesReg
<1>14. code[i].op = "eval" => reg'[t] = Value(t, code[i].expr)
  BY DEF AsOne
<1>15. ASSUME NEW r, r = Effect(g, s) PROVE InStep(t, r)'
  BY <1>1, <1>6, <1>7, <1>9, <1>10, <1>11, <1>13, <1>14, <1>15, MoveOn
<1>16. ASSUME NEW u \in Members(g), u # t PROVE InStep(u, path[at[u]])'
  <2>1. InStep(u, path[at[u]])
    BY <1>4 DEF Way
  <2>2. PICK k \in 1 .. n : k = at[u]
    OBVIOUS
  <2>3. PICK q : q = path[k]
    OBVIOUS
  <2>4. InStep(u, q)'
    BY <1>1, <1>16, <2>1, <2>2, <2>3, Others
  <2> QED BY <2>2, <2>3, <2>4
<1>17. path[at[t]].place <= Len(code) /\ code[path[at[t]].place].op # "barrier"
  BY <1>5, <1>6, CodeFacts, <1>7
<1>18. \A r : r = Effect(g, path[at[t]]) => InStep(t, r)'
  BY <1>5, <1>15
<1>19. Follows(g)'
  BY <1>1, <1>4, <1>7, <1>16, <1>17, <1>18, Advance
<1> QED BY <1>0, <1>19 DEF Group

\* A step within a section, or past one that the group has in part passed by.
LEMMA OffStep ==
    ASSUME Running, NEW t \in WorkItems, Alone(t), Own(t)' = Own(t),
           Home(ip'[t]) = Home(ip[t]), gate'[t] = gate[t], reg'[t] = reg[t],
           g_comm_values' = g_comm_values, l_comm_values' = l_comm_values
    PROVE  Follows(Group(t))'
<1>0. PICK g \in Groups : g = Group(t)
  BY ItemIds
<1>1. code' = code /\ <<g, 0>> \in WorkItems
  BY SizesAssumption DEF Alone, WorkItems, Lids
<1>2. ASSUME NEW s, InStep(t, s) PROVE InStep(t, s)'
  <2>1. PICK j : j = ip'[t]
    OBVIOUS
  <2>2. Home(j)' = s.place
    BY <1>1, <1>2, <2>1, SameCode DEF InStep
  <2>3. Home(ip[t])' = s.place
    BY <2>1, <2>2
  <2>4. gate'[t] = s.gate /\ g_comm_values'[Own(t)'] = s.global
    BY <1>2 DEF InStep
  <2>5. ip'[<<g, 0>>] > 1 => ip[<<g, 0>>] > 1
    BY <1>1 DEF Alone
  <2>6. ip'[<<Group(t), 0>>] > 1 => l_comm_values'[Group(t)][Own(t)' % Size] = s.local
    BY <1>0, <1>2, <2>5 DEF InStep
  <2>7. s.place <= Len(code') =>
         /\ UsesReg(s.place)' => reg'[t] = s.reg
         /\ code'[s.place].op = "permute" =>
              reg'[t] % NRows = RowOf(Group(t), code'[s.place - 1].expr)
    BY <1>1, <1>2, SameCode DEF InStep
  <2> QED BY <2>3, <2>4, <2>6, <2>7 DEF InStep, RowOf, Group
<1>3. \A u \in Members(g) : \A s : InStep(u, s) => InStep(u, s)'
  <2> SUFFICES ASSUME NEW u \in Members(g), NEW s, InStep(u, s) PROVE InStep(u, s)'
    OBVIOUS
  <2>1. u \in WorkItems
    BY DEF Members
  <2> QED BY <1>2, <2>1, Others
<1>4. Follows(g)'
  BY <1>1, <1>3, Undisturbed
<1> QED BY <1>0, <1>4 DEF Group

\* Such steps keep every group on its way.
LEMMA Kept ==
    ASSUME Running, NEW t \in WorkItems, Alone(t), Own(t)' = Own(t), Follows(Group(t))'
    PROVE  \A g \in Groups : Follows(g)' /\ Owns(g)'
<1>1. ASSUME NEW g \in Groups, g # Group(t) PROVE Follows(g)'
  <2>1. \A u \in Members(g) : u \in WorkItems /\ u # t
    BY <1>1 DEF Members
  <2>2. \A u \in Members(g) : \A s : InStep(u, s) => InStep(u, s)'
    BY <2>1, Others
  <2> QED BY <2>2, Undisturbed DEF Alone
<1>2. ASSUME NEW g \in Groups, g = Group(t) PROVE Follows(g)'
  BY <1>2 DEF Group
<1> QED BY <1>1, <1>2, Others

\* Instructions that a work-item carries out and goes on behind.
Straight == {"eval", "store", "atomic", "collect", "take", "give", "shut", "hash"}

\* The steps that carry one out.
LEMMA StraightSteps ==
    ASSUME Running, NEW t \in WorkItems,
           \/ Evaluate(t) \/ Store(t) \/ Reduce(t) \/ Collect(t)
           \/ TakeInside(t) \/ GiveInside(t) \/ ShutGate(t) \/ Hash(t)
    PROVE  Alone(t) /\ Own(t)' = Own(t) /\ Follows(Group(t))'
<1>0. Ready /\ Inv /\ DataOK /\ ip \in [WorkItems -> Nat \ {0}]
  BY DEF Running, Ready, Inv, TypeInv
<1>1. PICK i \in 1 .. Len(code) : ip[t] = i /\ code[i].op \in Straight
  <2>1. \E op \in Straight : At(t, op)
    BY DEF Straight, Evaluate, Store, Reduce, Collect, TakeInside, GiveInside, ShutGate, Hash
  <2>2. ip[t] \in 1 .. Len(code) /\ code[ip[t]].op \in Straight
    BY <1>0, <2>1, InstructionType
  <2> QED BY <2>2
<1>2. code[i].op \notin {"init", "barrier", "permute", "section", "result", "branch", "gate"}
  BY <1>1 DEF Straight
<1>3. i > 1 /\ Home(i) = i /\ Home(i + 1) = i + 1
  BY <1>0, <1>2, CodeFacts, StraightOn
<1>4. code' = code /\ permutations' = permutations /\ ip' = [ip EXCEPT ![t] = i + 1] /\ tid' = tid
  BY <1>1 DEF Evaluate, Store, Reduce, Collect, TakeInside, GiveInside, ShutGate, Hash,
              Step, Goto, generator, private
<1>5. ip'[t] = i + 1 /\ \A u \in WorkItems : u # t => ip'[u] = ip[u]
  BY <1>0, <1>4
<1>6. Own(t)' = Own(t)
  BY <1>0, <1>1, <1>2, <1>4, <1>5, OwnStep
<1>7. t \in Members(Group(t)) /\ Group(t) \in Groups
  BY ItemIds DEF Members
<1>8. Own(t) \in 0 .. NGroups * Size - 1 /\ Own(t) % Size \in Lids
  BY <1>0, <1>7, OwnItem DEF Running
<1>9. reg \in [WorkItems -> UInt] /\ gate \in [WorkItems -> {0, 1}]
      /\ l_comm_values \in [Groups -> [Lids -> UInt]]
      /\ g_comm_values \in [0 .. NGroups * Size - 1 -> UInt]
  BY <1>0 DEF DataOK
<1>10. /\ \A u \in WorkItems : u # t => gate'[u] = gate[u] /\ reg'[u] = reg[u]
       /\ gate'[t] = IF code[i].op = "shut" THEN 1 ELSE gate[t]
       /\ code[i].op = "eval" => reg'[t] = Value(t, code[i].expr)
  <2>1. CASE Evaluate(t)
    BY <1>1, <1>9, <2>1 DEF Evaluate, At
  <2>2. CASE Store(t)
    BY <1>1, <2>2 DEF Store, At, private
  <2>3. CASE Reduce(t)
    BY <1>1, <2>3 DEF Reduce, At, private
  <2>4. CASE Collect(t)
    BY <1>1, <2>4 DEF Collect, At
  <2>5. CASE TakeInside(t)
    BY <1>1, <1>9, <2>5 DEF TakeInside, At
  <2>6. CASE GiveInside(t)
    BY <1>1, <2>6 DEF GiveInside, At, private
  <2>7. CASE ShutGate(t)
    BY <1>1, <1>9, <2>7 DEF ShutGate, At
  <2>8. CASE Hash(t)
    BY <1>1, <2>8 DEF Hash, At
  <2> QED BY <2>1, <2>2, <2>3, <2>4, <2>5, <2>6, <2>7, <2>8
<1>11. CASE ~Store(t)
  <2>1. UNCHANGED comm /\ code[i].op # "store"
    BY <1>1, <1>11 DEF Evaluate, Reduce, Collect, TakeInside, GiveInside, ShutGate, Hash, At
  <2>2. Alone(t)
    BY <1>1, <1>3, <1>4, <1>5, <1>10, <2>1 DEF Alone, comm
  <2>3. AsOne(t, i)
    BY <1>2, <1>5, <1>10, <1>3, <2>1 DEF AsOne, comm
  <2> QED BY <1>1, <1>2, <1>3, <1>6, <2>2, <2>3, OnStep
<1>12. CASE Store(t)
  <2>1. code[i].op = "store" /\ code[i].space \in Spaces
    BY <1>0, <1>1, <1>12, CodeFacts, InstructionParts DEF Store, At
  <2>2. Own(t) = tid[t]
    <3>1. ~Pending(i)
      BY <1>0, <2>1, PendingFacts
    <3> QED BY <1>1, <3>1 DEF Own, OwnAt
  <2>3. CASE code[i].space = "local"
    <3>1. l_comm_values' = [l_comm_values EXCEPT ![Group(t)][Own(t) % Size] = reg[t]]
          /\ g_comm_values' = g_comm_values
      BY <1>1, <1>12, <2>2, <2>3 DEF Store, LocalItem
    <3>2. /\ l_comm_values'[Group(t)][Own(t) % Size] = reg[t]
          /\ \A h \in Groups : h # Group(t) => l_comm_values'[h] = l_comm_values[h]
          /\ \A k \in Lids : k # Own(t) % Size =>
                l_comm_values'[Group(t)][k] = l_comm_values[Group(t)][k]
      BY <1>7, <1>8, <1>9, <3>1
    <3>3. Alone(t)
      BY <1>1, <1>3, <1>4, <1>5, <1>10, <3>1, <3>2 DEF Alone
    <3>4. AsOne(t, i)
      BY <1>2, <1>5, <1>10, <1>3, <2>1, <2>3, <3>1, <3>2 DEF AsOne
    <3> QED BY <1>1, <1>2, <1>3, <1>6, <3>3, <3>4, OnStep
  <2>4. CASE code[i].space # "local"
    <3>1. g_comm_values' = [g_comm_values EXCEPT ![Own(t)] = reg[t]]
          /\ l_comm_values' = l_comm_values /\ code[i].space = "global"
      BY <1>1, <1>12, <2>1, <2>2, <2>4 DEF Store, Spaces
    <3>2. /\ g_comm_values'[Own(t)] = reg[t]
          /\ \A x \in 0 .. NGroups * Size - 1 :
                x # Own(t) => g_comm_values'[x] = g_comm_values[x]
      BY <1>8, <1>9, <3>1
    <3>3. Alone(t)
      BY <1>1, <1>3, <1>4, <1>5, <1>10, <3>1, <3>2 DEF Alone
    <3>4. AsOne(t, i)
      BY <1>2, <1>5, <1>10, <1>3, <2>1, <2>4, <3>1, <3>2 DEF AsOne
    <3> QED BY <1>1, <1>2, <1>3, <1>6, <3>3, <3>4, OnStep
  <2> QED BY <2>3, <2>4
<1> QED BY <1>11, <1>12

\* Where a jump lands no id is pending.
LEMMA Landing ==
    ASSUME Ready, NEW i \in 1 .. Len(code), code[i].op \in {"branch", "gate"},
           NEW j, j = i + 1 + code[i].skip
    PROVE  ~Pending(j)
<1>1. PICK k \in Nat : k = code[i].skip
  BY CodeFacts, InstructionFields
<1>2. i + k <= Len(code) /\ (i + k < Len(code) => HeadAt(code, i + k + 1))
  BY <1>1, CodeFacts DEF LaidAt
<1>3. j = i + k + 1 /\ j \in Nat /\ j >= 1 /\ Len(code) \in Nat
  BY <1>1, CodeFacts
<1>4. CASE j > Len(code)
  BY <1>3, <1>4 DEF Pending
<1>5. CASE j <= Len(code)
  <2>1. j \in 1 .. Len(code) /\ HeadAt(code, j)
    BY <1>2, <1>3, <1>5
  <2> QED BY <2>1, PendingFacts
<1> QED BY <1>3, <1>4, <1>5

\* A branch, or the test of the gate.
LEMMA JumpSteps ==
    ASSUME Running, NEW t \in WorkItems, Branch(t) \/ TestGate(t)
    PROVE  Alone(t) /\ Own(t)' = Own(t) /\ Follows(Group(t))'
<1>0. Ready /\ Inv /\ DataOK /\ ip \in [WorkItems -> Nat \ {0}]
  BY DEF Running, Ready, Inv, TypeInv
<1>1. PICK i \in 1 .. Len(code) : ip[t] = i /\ code[i].op \in {"branch", "gate"}
  <2>1. \E op \in {"branch", "gate"} : At(t, op)
    BY DEF Branch, TestGate
  <2> QED BY <1>0, <2>1, InstructionType
<1>2. PICK n : /\ n = i + 1 \/ n = i + 1 + code[i].skip
               /\ code[i].op = "branch" => n = i + 1 + IF reg[t] # 0 THEN 0 ELSE code[i].skip
               /\ code[i].op = "gate" => n = i + 1 + IF gate[t] = 0 THEN 0 ELSE code[i].skip
               /\ ip' = [ip EXCEPT ![t] = n]
  <2>1. i + 1 + 0 = i + 1
    BY <1>0, CodeFacts
  <2>2. CASE code[i].op = "branch"
    <3>1. Branch(t)
      BY <1>1, <2>2 DEF TestGate, At
    <3>2. Goto(t, i + 1 + IF reg[t] # 0 THEN 0 ELSE code[i].skip)
      BY <1>1, <3>1 DEF Branch
    <3> QED BY <2>1, <2>2, <3>2 DEF Goto
  <2>3. CASE code[i].op = "gate"
    <3>1. TestGate(t)
      BY <1>1, <2>3 DEF Branch, At
    <3>2. Goto(t, i + 1 + IF gate[t] = 0 THEN 0 ELSE code[i].skip)
      BY <1>1, <3>1 DEF TestGate
    <3> QED BY <2>1, <2>3, <3>2 DEF Goto
  <2> QED BY <1>1, <2>2, <2>3
<1>3. code' = code /\ permutations' = permutations /\ tid' = tid /\ gate' = gate /\ reg' = reg
      /\ l_comm_values' = l_comm_values /\ g_comm_values' = g_comm_values
  BY DEF Branch, TestGate, generator, private, comm
<1>4. ip'[t] = n /\ \A u \in WorkItems : u # t => ip'[u] = ip[u]
  <2>1. ip' = [ip EXCEPT ![t] = n]
    BY <1>2
  <2> QED BY <1>0, <2>1
<1>5. code[i].op \in {"branch", "gate"} /\ i > 1
  BY <1>0, <1>1, CodeFacts
<1>6. Home(i) = i
  BY <1>0, <1>5, CodeFacts DEF Home, PassedBy
<1>7. n = i + 1 \/ n = i + 1 + code[i].skip
  BY <1>2
<1>8. Own(t)' = Own(t)
  <2>1. n = ip[t] + 1 \/ ~Pending(n)
    BY <1>0, <1>1, <1>5, <1>7, Landing
  <2>2. \/ ip'[t] = ip[t] + 1
        \/ code[ip[t]].op # "eval" /\ ~Pending(ip'[t])
    BY <1>1, <1>4, <1>5, <2>1
  <2> QED BY <1>0, <1>1, <1>3, <1>5, <2>2, OwnStep
<1>9. Alone(t)
  BY <1>1, <1>3, <1>4, <1>5 DEF Alone
<1>10. Home(n) =
          Home(i + 1 + IF \/ code[i].op = "branch" /\ ~Divided(i) /\ reg[t] = 0
                          \/ code[i].op = "gate" /\ gate[t] # 0
                       THEN code[i].skip ELSE 0)
  <2>1. CASE code[i].op = "gate"
    BY <1>2, <2>1
  <2>2. CASE code[i].op = "branch" /\ ~Divided(i)
    BY <1>2, <2>2
  <2>3. CASE code[i].op = "branch" /\ Divided(i)
    <3>1. code[i].op = "branch" /\ code[i - 1].expr.source = "id"
      BY <2>3 DEF Divided
    <3>2. code[i].skip = 0 \/ (code[i].skip = 2 /\ i < Len(code) /\ code[i + 1].op = "section")
      BY <1>0, <3>1, CodeFacts DEF LaidAt
    <3>3. i + 1 + 0 = i + 1 /\ i + 1 - 1 = i /\ i + 1 > 1
      BY <1>0, CodeFacts
    <3>4. Home(n) = Home(i + 1)
      <4>1. CASE n = i + 1
        BY <4>1
      <4>2. CASE n # i + 1
        <5>1. code[i].skip = 2 /\ i < Len(code) /\ code[i + 1].op = "section" /\ n = i + 1 + 2
          BY <1>7, <3>2, <3>3, <4>2
        <5>2. i + 1 \in 1 .. Len(code)
          BY <1>0, <5>1, CodeFacts
        <5>3. Home(i + 1 + 2) = i + 1 + 2
          BY <1>0, <5>1, <5>2, HomeAtSection
        <5>4. PassedBy(i + 1)
          BY <2>3, <3>3, <5>1 DEF PassedBy
        <5>5. Home(i + 1) = i + 1 + 2
          BY <1>0, <5>1, <5>2, <5>4, CodeFacts DEF Home
        <5> QED BY <5>1, <5>3, <5>5
      <4> QED BY <4>1, <4>2
    <3> QED BY <2>3, <3>1, <3>3, <3>4
  <2> QED BY <1>5, <2>1, <2>2, <2>3
<1>11. AsOne(t, i)
  BY <1>3, <1>4, <1>5, <1>10 DEF AsOne
<1> QED BY <1>1, <1>5, <1>6, <1>8, <1>9, <1>11, OnStep

\* The new id comes into force.
LEMMA PermuteStep ==
    ASSUME Running, NEW t \in WorkItems, Permute(t)
    PROVE  Alone(t) /\ Own(t)' = Own(t) /\ Follows(Group(t))'
<1>0. Ready /\ Inv /\ DataOK /\ ip \in [WorkItems -> Nat \ {0}] /\ tid \in [WorkItems -> Nat]
  BY DEF Running, Ready, Inv, TypeInv, DataOK
<1>1. PICK i \in 1 .. Len(code) : ip[t] = i /\ code[i].op = "permute"
  <2>1. At(t, "permute")
    BY DEF Permute
  <2> QED BY <1>0, <2>1, InstructionType
<1>2. i > 1 /\ Home(i) = i /\ Home(i + 1) = i + 1 /\ i + 1 + 0 = i + 1
  BY <1>0, <1>1, CodeFacts, StraightOn
<1>3. ip' = [ip EXCEPT ![t] = i + 1] /\ tid' = [tid EXCEPT ![t] = Permuted(t, reg[t] % NRows, tid[t])]
      /\ code' = code /\ permutations' = permutations /\ gate' = gate /\ reg' = reg
      /\ l_comm_values' = l_comm_values /\ g_comm_values' = g_comm_values
  BY <1>1 DEF Permute, Step, Goto, generator, comm
<1>4. ip'[t] = i + 1 /\ tid'[t] = Permuted(t, reg[t] % NRows, tid[t])
      /\ \A u \in WorkItems : u # t => ip'[u] = ip[u] /\ tid'[u] = tid[u]
  BY <1>0, <1>3
<1>5. reg[t] % NRows = RowOf(Group(t), code[i - 1].expr)
  <2>1. PICK g \in Groups : g = Group(t) /\ t \in Members(g)
    BY ItemIds DEF Members
  <2>2. PICK n \in Nat \ {0} : \E path \in [1 .. n -> States] : \E at \in [Members(g) -> 1 .. n] :
            Way(g, n, path, at)
    BY DEF Running, Follows
  <2>3. PICK path \in [1 .. n -> States] : \E at \in [Members(g) -> 1 .. n] : Way(g, n, path, at)
    BY <2>2
  <2>4. PICK at \in [Members(g) -> 1 .. n] : Way(g, n, path, at)
    BY <2>3
  <2>5. InStep(t, path[at[t]])
    BY <2>1, <2>4 DEF Way
  <2> QED BY <1>0, <1>1, <1>2, <2>5, CodeFacts DEF InStep
<1>6. Own(t) = Permuted(t, reg[t] % NRows, tid[t])
  <2>1. i <= Len(code) /\ Pending(i)
    BY <1>1, <1>0, CodeFacts DEF Pending
  <2> QED BY <1>1, <1>5, <2>1 DEF Own, OwnAt, PendingExpr
<1>7. Own(t)' = Own(t)
  <2>1. ~Pending(i + 1)
    BY <1>0, <1>1, PendingFacts
  <2>2. PICK j : j = i + 1
    OBVIOUS
  <2>3. ~Pending(j)'
    BY <1>3, <2>1, <2>2, SameCode
  <2>4. ~Pending(ip[t])'
    BY <1>4, <2>2, <2>3
  <2>5. Own(t)' = tid'[t]
    BY <2>4 DEF Own, OwnAt
  <2> QED BY <1>4, <1>6, <2>5
<1>8. Alone(t)
  BY <1>1, <1>2, <1>3, <1>4 DEF Alone
<1>9. AsOne(t, i)
  BY <1>1, <1>2, <1>3, <1>4 DEF AsOne
<1> QED BY <1>1, <1>2, <1>7, <1>8, <1>9, OnStep

\* Into an atomic section, or past it.
LEMMA EnterWay ==
    ASSUME Running, NEW t \in WorkItems, EnterSection(t)
    PROVE  Alone(t) /\ Own(t)' = Own(t) /\ Follows(Group(t))'
<1>0. Ready /\ Inv /\ DataOK /\ ip \in [WorkItems -> Nat \ {0}]
  BY DEF Running, Ready, Inv, TypeInv
<1>1. PICK i \in 1 .. Len(code) : ip[t] = i /\ code[i].op = "section"
  <2>1. At(t, "section")
    BY DEF EnterSection
  <2> QED BY <1>0, <2>1, InstructionType
<1>2. /\ i + 1 \in 1 .. Len(code) /\ code[i + 1].op = "result" /\ code[i].skip = 1
      /\ Home(i + 1) = i + 2 /\ Home(i + 2) = i + 2 /\ i > 1
      /\ i + 1 + 1 = i + 2 /\ i + 1 + 0 = i + 1
  BY <1>0, <1>1, HomeAtSection, CodeFacts
<1>3. PICK n \in {i + 1, i + 2} : ip' = [ip EXCEPT ![t] = n]
  BY <1>1, <1>2 DEF EnterSection, Step, Goto
<1>4. code' = code /\ permutations' = permutations /\ tid' = tid /\ gate' = gate /\ reg' = reg
      /\ l_comm_values' = l_comm_values /\ g_comm_values' = g_comm_values
  BY DEF EnterSection, generator, comm
<1>5. ip'[t] = n /\ \A u \in WorkItems : u # t => ip'[u] = ip[u]
  BY <1>0, <1>3
<1>6. Own(t)' = Own(t)
  <2>1. n = i + 1 \/ ~Pending(n)
    <3>1. CASE i + 2 <= Len(code)
      <4>1. HeadAt(code, i + 1 + 1) /\ i + 1 + 1 \in 1 .. Len(code)
        BY <1>0, <1>2, <3>1, BehindResult, CodeFacts
      <4>2. ~Pending(i + 1 + 1)
        BY <1>0, <4>1, PendingFacts
      <4> QED BY <1>2, <4>2
    <3>2. CASE ~(i + 2 <= Len(code))
      BY <3>2 DEF Pending
    <3> QED BY <3>1, <3>2
  <2>2. \/ ip'[t] = ip[t] + 1
        \/ code[ip[t]].op # "eval" /\ ~Pending(ip'[t])
    BY <1>1, <1>5, <2>1
  <2> QED BY <1>0, <1>1, <1>4, <2>2, OwnStep
<1>7. Alone(t)
  BY <1>1, <1>2, <1>4, <1>5 DEF Alone
<1>8. Home(n) = i + 2
  BY <1>2
<1>9. CASE PassedBy(i)
  <2>1. Home(i) = i + 2
    BY <1>0, <1>1, <1>9, CodeFacts DEF Home
  <2> QED BY <1>1, <1>4, <1>5, <1>6, <1>7, <1>8, <2>1, OffStep
<1>10. CASE ~PassedBy(i)
  <2>1. Home(i) = i
    BY <1>0, <1>1, <1>10, CodeFacts DEF Home
  <2>2. AsOne(t, i)
    BY <1>1, <1>2, <1>4, <1>5, <1>8 DEF AsOne
  <2> QED BY <1>1, <1>6, <1>7, <2>1, <2>2, OnStep
<1> QED BY <1>9, <1>10

\* Out of an atomic section.
LEMMA LeaveWay ==
    ASSUME Running, NEW t \in WorkItems, LeaveSection(t)
    PROVE  Alone(t) /\ Own(t)' = Own(t) /\ Follows(Group(t))'
<1>0. Ready /\ Inv /\ DataOK /\ ip \in [WorkItems -> Nat \ {0}]
  BY DEF Running, Ready, Inv, TypeInv
<1>1. PICK i \in 1 .. Len(code) : ip[t] = i /\ code[i].op = "result"
  <2>1. At(t, "result")
    BY DEF LeaveSection
  <2> QED BY <1>0, <2>1, InstructionType
<1>2. Home(i) = i + 1 /\ Home(i + 1) = i + 1 /\ i > 1
  BY <1>0, <1>1, HomeBehindResult, CodeFacts
<1>3. ip' = [ip EXCEPT ![t] = i + 1] /\ code' = code /\ permutations' = permutations
      /\ tid' = tid /\ gate' = gate /\ reg' = reg
      /\ l_comm_values' = l_comm_values /\ g_comm_values' = g_comm_values
  BY <1>1 DEF LeaveSection, Step, Goto, generator, comm
<1>4. ip'[t] = i + 1 /\ \A u \in WorkItems : u # t => ip'[u] = ip[u]
  BY <1>0, <1>3
<1>5. Own(t)' = Own(t)
  BY <1>0, <1>1, <1>3, <1>4, OwnStep
<1>6. Alone(t)
  BY <1>1, <1>2, <1>3, <1>4 DEF Alone
<1> QED BY <1>1, <1>2, <1>3, <1>4, <1>5, <1>6, OffStep

\* Nobody of a group is past the first barrier while one of its work-items has
\* not begun, and all they own holds 1.
LEMMA InitWay ==
    ASSUME Running, NEW t \in WorkItems, InitBuffers(t)
    PROVE  \A g \in Groups : Follows(g)' /\ Owns(g)'
<1>0. Ready /\ Inv /\ DataOK /\ ip \in [WorkItems -> Nat \ {0}]
      /\ l_comm_values \in [Groups -> [Lids -> UInt]]
  BY DEF Running, Ready, Inv, TypeInv, DataOK
<1>1. ip[t] = 1 /\ 1 \in 1 .. Len(code) /\ code[1].op = "init" /\ 1 + 1 = 2 /\ 1 + 1 + 0 = 2
  <2>1. At(t, "init")
    BY DEF InitBuffers
  <2>2. ip[t] \in 1 .. Len(code) /\ code[ip[t]].op = "init"
    BY <1>0, <2>1, InstructionType
  <2> QED BY <1>0, <2>2, CodeFacts
<1>2. PICK g \in Groups : g = Group(t) /\ t \in Members(g)
  BY ItemIds DEF Members
<1>3. <<g, 0>> \in WorkItems /\ \A u \in Members(g) : u \in WorkItems /\ Group(u) = g
  BY SizesAssumption DEF WorkItems, Lids, Members
<1>4. code' = code /\ permutations' = permutations /\ tid' = tid /\ gate' = gate /\ reg' = reg
      /\ g_comm_values' = g_comm_values /\ ip' = [ip EXCEPT ![t] = 2]
  BY <1>1 DEF InitBuffers, generator, private, Step, Goto
<1>5. ip'[t] = 2 /\ \A u \in WorkItems : u # t => ip'[u] = ip[u]
  BY <1>0, <1>4
<1>6. /\ \A h \in Groups : h # g => l_comm_values'[h] = l_comm_values[h]
      /\ t = <<g, 0>> => \A k \in Lids : l_comm_values'[g][k] = 1
      /\ t # <<g, 0>> => l_comm_values' = l_comm_values
  <2>1. CASE Lid(t) = 0
    <3>1. l_comm_values' = [l_comm_values EXCEPT ![g] = [k \in Lids |-> 1]]
      BY <1>2, <2>1 DEF InitBuffers
    <3>2. t = <<g, 0>>
      BY <1>2, <2>1 DEF WorkItems, Group, Lid
    <3> QED BY <1>0, <3>1, <3>2
  <2>2. CASE Lid(t) # 0
    <3>1. l_comm_values' = l_comm_values
      BY <2>2 DEF InitBuffers
    <3>2. t # <<g, 0>>
      BY <2>2 DEF Lid
    <3> QED BY <3>1, <3>2
  <2> QED BY <2>1, <2>2
<1>7. Own(t)' = Own(t)
  BY <1>0, <1>1, <1>4, <1>5, OwnStep
<1>8. \A u \in WorkItems : Own(u)' = Own(u)
  BY <1>4, <1>5, <1>7, Untouched
<1>9. \A h \in Groups : Owns(h)'
  <2> TAKE h \in Groups
  <2>1. Members(h)' = Members(h) /\ \A u \in Members(h) : u \in WorkItems
    BY DEF Members
  <2>2. /\ \A u \in Members(h) : Own(u)' \in h * Size .. h * Size + Size - 1
        /\ \A u, v \in Members(h) : u # v => Own(u)' # Own(v)'
        /\ \A x \in h * Size .. h * Size + Size - 1 : \E u \in Members(h) : Own(u)' = x
    BY <1>8, <2>1 DEF Running, Owns
  <2> QED BY <2>1, <2>2 DEF Owns
<1>10. \A h \in Groups : \A u \in Members(h) : Own(u) % Size \in Lids
  BY <1>0, OwnItem DEF Running
<1>11. ASSUME NEW u \in WorkItems, NEW s, u # t, InStep(u, s), Group(u) = g => s.local = 1
       PROVE  InStep(u, s)'
  <2>1. ip'[u] = ip[u] /\ tid'[u] = tid[u] /\ gate'[u] = gate[u] /\ reg'[u] = reg[u]
        /\ g_comm_values'[Own(u)] = g_comm_values[Own(u)]
    BY <1>4, <1>5, <1>11
  <2>2. Group(u) \in Groups /\ u \in Members(Group(u)) /\ <<Group(u), 0>> \in WorkItems
    BY ItemIds, SizesAssumption DEF Members, WorkItems, Lids
  <2>3. ip'[<<Group(u), 0>>] > 1 => l_comm_values'[Group(u)][Own(u) % Size] = s.local
    <3>1. CASE Group(u) # g
      <4>1. <<Group(u), 0>> # t /\ l_comm_values'[Group(u)] = l_comm_values[Group(u)]
        BY <1>2, <1>6, <2>2, <3>1 DEF Group
      <4> QED BY <1>5, <1>11, <2>2, <4>1 DEF InStep
    <3>2. CASE Group(u) = g /\ t = <<g, 0>>
      BY <1>6, <1>10, <1>11, <2>2, <3>2
    <3>3. CASE Group(u) = g /\ t # <<g, 0>>
      BY <1>5, <1>6, <1>11, <2>2, <3>3 DEF InStep
    <3> QED BY <3>1, <3>2, <3>3
  <2> QED BY <1>4, <1>11, <2>1, <2>3, Untouched
<1>12. ASSUME NEW h \in Groups, h # g PROVE Follows(h)'
  <2>1. \A u \in Members(h) : u \in WorkItems /\ u # t /\ Group(u) # g
    BY <1>2, <1>12 DEF Members
  <2>2. \A u \in Members(h) : \A s : InStep(u, s) => InStep(u, s)'
    BY <1>11, <2>1
  <2> QED BY <1>4, <2>2, Undisturbed
<1>13. Follows(g)'
  <2>1. PICK n \in Nat \ {0} : \E path \in [1 .. n -> States] : \E at \in [Members(g) -> 1 .. n] :
            Way(g, n, path, at)
    BY DEF Running, Follows
  <2>2. PICK path \in [1 .. n -> States] : \E at \in [Members(g) -> 1 .. n] : Way(g, n, path, at)
    BY <2>1
  <2>3. PICK at \in [Members(g) -> 1 .. n] : Way(g, n, path, at)
    BY <2>2
  <2>4. PICK s \in States : s = path[at[t]]
    BY <1>2
  <2>5. Home(1) = 1 /\ Home(2) = 2
    BY <1>0, <1>1, StraightOn
  <2>6. InStep(t, s) /\ s.place = 1
    BY <1>1, <1>2, <2>3, <2>4, <2>5 DEF Way, InStep
  <2>7. s.bar = 0
    <3>1. s.bar < s.place /\ s.bar \in Nat
      BY <1>2, <2>3, <2>4 DEF Way, TraceOK, States
    <3> QED BY <2>6, <3>1
  <2>8. \A u \in Members(g) : path[at[u]].local = 1
    <3> TAKE u \in Members(g)
    <3>1. path[at[u]].bar = 0
      BY <1>2, <2>3, <2>4, <2>7 DEF Way
    <3> QED BY <2>3, <3>1 DEF Way, TraceOK
  <2>9. \A u \in Members(g) : u # t => InStep(u, path[at[u]])'
    <3> SUFFICES ASSUME NEW u \in Members(g), u # t PROVE InStep(u, path[at[u]])'
      OBVIOUS
    <3>1. PICK k \in 1 .. n : k = at[u]
      OBVIOUS
    <3>2. PICK q : q = path[k]
      OBVIOUS
    <3>3. InStep(u, q) /\ q.local = 1
      BY <2>3, <2>8, <3>1, <3>2 DEF Way
    <3>4. InStep(u, q)'
      BY <1>3, <1>11, <3>3
    <3> QED BY <3>1, <3>2, <3>4
  <2>10. Home(ip'[t]) = NextPlace(s)
    BY <1>1, <1>5, <2>5, <2>6 DEF NextPlace, Skips
  <2>11. ip'[<<g, 0>>] > 1 => l_comm_values'[g][Own(t) % Size] = s.local
    <3>1. CASE t = <<g, 0>>
      BY <1>2, <1>6, <1>10, <2>4, <2>8, <3>1
    <3>2. CASE t # <<g, 0>>
      BY <1>2, <1>3, <1>5, <1>6, <2>6, <3>2 DEF InStep
    <3> QED BY <3>1, <3>2
  <2>12. gate'[t] = s.gate /\ g_comm_values'[Own(t)] = s.global
    BY <1>4, <2>6 DEF InStep
  <2>13. ASSUME NEW r, r = Effect(g, s) PROVE InStep(t, r)'
    BY <1>0, <1>1, <1>2, <1>4, <1>7, <2>6, <2>10, <2>11, <2>12, <2>13, MoveOn
  <2>14. path[at[t]].place <= Len(code) /\ code[path[at[t]].place].op # "barrier"
    BY <1>0, <1>1, <2>4, <2>6, CodeFacts
  <2>15. \A r : r = Effect(g, path[at[t]]) => InStep(t, r)'
    BY <2>4, <2>13
  <2> QED BY <1>0, <1>2, <1>4, <2>3, <2>9, <2>14, <2>15, Advance
<1> QED BY <1>9, <1>12, <1>13

\* Every step of a work-item keeps the groups on their ways.
LEMMA ItemWay ==
    ASSUME Running, NEW t \in WorkItems, RunInside(t)
    PROVE  \A g \in Groups : Follows(g)' /\ Owns(g)'
<1>1. CASE InitBuffers(t)
  BY <1>1, InitWay
<1>2. CASE Branch(t) \/ TestGate(t)
  BY <1>2, JumpSteps, Kept
<1>3. CASE Permute(t)
  BY <1>3, PermuteStep, Kept
<1>4. CASE EnterSection(t)
  BY <1>4, EnterWay, Kept
<1>5. CASE LeaveSection(t)
  BY <1>5, LeaveWay, Kept
<1>6. CASE \/ Evaluate(t) \/ Store(t) \/ Reduce(t) \/ Collect(t)
           \/ TakeInside(t) \/ GiveInside(t) \/ ShutGate(t) \/ Hash(t)
  BY <1>6, StraightSteps, Kept
<1> QED BY <1>1, <1>2, <1>3, <1>4, <1>5, <1>6 DEF RunInside

-----------------------------------------------------------------------------
(* Barriers                                                                *)

\* Nobody is ahead of a work-item that waits at a barrier.
LEMMA NobodyAhead ==
    ASSUME Ready, NEW g \in Groups, NEW n \in Nat \ {0}, NEW path \in [1 .. n -> States],
           NEW at \in [Members(g) -> 1 .. n], Way(g, n, path, at),
           NEW t \in Members(g), NEW u \in Members(g),
           code[path[at[t]].place].op = "barrier"
    PROVE  at[u] <= at[t]
<1>1. PICK k \in 1 .. n, m \in 1 .. n : k = at[t] /\ m = at[u]
  OBVIOUS
<1>2. path[k].bar \in Nat /\ path[m].bar \in Nat /\ path[k].place \in Nat
  BY DEF States
<1>3. path[k].bar < path[k].place /\ path[k].bar = path[m].bar
  BY <1>1 DEF Way, TraceOK
<1>4. k < m => path[m].bar >= path[k].place
  BY <1>1 DEF Way, TraceOK
<1> QED BY <1>1, <1>2, <1>3, <1>4

\* The id that a row gives is another one for each id, and each is given.
LEMMA Shuffled ==
    ASSUME Running, NEW g \in Groups, NEW e \in Expression
    PROVE  /\ \A t \in Members(g) :
                 Permuted(t, RowOf(g, e), Own(t)) \in g * Size .. g * Size + Size - 1
           /\ \A t, u \in Members(g) : t # u =>
                 Permuted(t, RowOf(g, e), Own(t)) # Permuted(u, RowOf(g, e), Own(u))
           /\ \A x \in g * Size .. g * Size + Size - 1 :
                 \E t \in Members(g) : Permuted(t, RowOf(g, e), Own(t)) = x
<1>1. PICK k : k = RowOf(g, e)
  OBVIOUS
<1>2. k \in 0 .. NRows - 1
  <2>1. g \in Nat /\ e.add \in Nat
    BY SizesAssumption DEF Groups, Expression
  <2>2. PICK v \in Nat : v = (IF e.source = "group" THEN g ELSE 0) + e.add
    BY <2>1
  <2>3. v % Modulus \in UInt
    BY <2>2, Reduced
  <2>4. PICK w \in Nat : w = v % Modulus
    BY <2>3, SizesAssumption DEF UInt
  <2>5. w % NRows \in 0 .. NRows - 1
    BY <2>4, SizesAssumption
  <2> QED BY <1>1, <2>2, <2>4, <2>5 DEF RowOf
<1>3. PICK p : p = permutations[k]
  OBVIOUS
<1>4. p \in Shuffles
  BY <1>2, <1>3 DEF Running, DataOK
<1>5. /\ p \in [Lids -> Lids]
      /\ \A i, j \in Lids : p[i] = p[j] => i = j
      /\ \A j \in Lids : \E i \in Lids : p[i] = j
  BY <1>4, ShufflesAssumption
<1>6. g \in Nat /\ g * Size \in Nat /\ Size \in Nat
  BY SizesAssumption DEF Groups
<1>7. ASSUME NEW t \in Members(g)
      PROVE  /\ Own(t) % Size \in Lids /\ Own(t) = g * Size + (Own(t) % Size)
             /\ Permuted(t, k, Own(t)) = g * Size + p[Own(t) % Size]
  <2>1. Own(t) \in g * Size .. g * Size + Size - 1 /\ Group(t) = g
    BY DEF Running, Owns, Members
  <2> QED BY <1>3, <2>1, ItemPosition DEF Permuted
<1>8. \A i \in Lids : p[i] \in Nat /\ p[i] < Size
  BY <1>5, <1>6 DEF Lids
<1>9. ASSUME NEW t \in Members(g)
      PROVE  Permuted(t, k, Own(t)) \in g * Size .. g * Size + Size - 1
  <2>1. PICK y \in Nat : y = p[Own(t) % Size] /\ y < Size
    BY <1>7, <1>8
  <2>2. Permuted(t, k, Own(t)) = g * Size + y
    BY <1>7, <2>1
  <2>3. PICK b \in Nat : b = g * Size
    BY <1>6
  <2> QED BY <1>6, <2>1, <2>2, <2>3
<1>10. ASSUME NEW t \in Members(g), NEW u \in Members(g), t # u
       PROVE  Permuted(t, k, Own(t)) # Permuted(u, k, Own(u))
  <2>1. Own(t) # Own(u)
    BY <1>10 DEF Running, Owns
  <2>2. Own(t) % Size # Own(u) % Size
    BY <1>7, <2>1
  <2>3. p[Own(t) % Size] # p[Own(u) % Size]
    BY <1>5, <1>7, <2>2
  <2>4. p[Own(t) % Size] \in Nat /\ p[Own(u) % Size] \in Nat
    BY <1>7, <1>8
  <2>5. PICK y \in Nat, z \in Nat : y = p[Own(t) % Size] /\ z = p[Own(u) % Size] /\ y # z
    BY <2>3, <2>4
  <2>6. Permuted(t, k, Own(t)) = g * Size + y /\ Permuted(u, k, Own(u)) = g * Size + z
    BY <1>7, <2>5
  <2>7. PICK b \in Nat : b = g * Size
    BY <1>6
  <2> QED BY <2>5, <2>6, <2>7
<1>11. ASSUME NEW x \in g * Size .. g * Size + Size - 1
       PROVE  \E t \in Members(g) : Permuted(t, k, Own(t)) = x
  <2>1. x % Size \in Lids /\ x = g * Size + (x % Size)
    BY ItemPosition
  <2>2. PICK i \in Lids : p[i] = x % Size
    BY <1>5, <2>1
  <2>3. PICK b \in Nat : b = g * Size
    BY <1>6
  <2>4. b + i \in b .. b + Size - 1
    BY <1>6, <2>3 DEF Lids
  <2>5. PICK t \in Members(g) : Own(t) = b + i
    BY <2>3, <2>4 DEF Running, Owns
  <2>6. Own(t) % Size = i
    <3>1. PICK j \in Lids : j = Own(t) % Size /\ Own(t) = b + j
      BY <1>7, <2>3
    <3> QED BY <2>3, <2>5, <3>1 DEF Lids
  <2> QED BY <1>7, <2>1, <2>2, <2>6
<1> QED BY <1>1, <1>9, <1>10, <1>11

\* A barrier lets the work-items go on as one, and hands the items on where an id
\* is pending behind it.
LEMMA BarrierWay ==
    ASSUME Running, NEW g \in Groups, PassBarrier(g)
    PROVE  \A h \in Groups : Follows(h)' /\ Owns(h)'
<1>0. Ready /\ Inv /\ DataOK /\ ip \in [WorkItems -> Nat \ {0}] /\ g \in Nat
  BY SizesAssumption DEF Running, Ready, Inv, TypeInv, Groups
<1>1. <<g, 0>> \in Members(g) /\ <<g, 0>> \in WorkItems
      /\ \A u \in Members(g) : u \in WorkItems /\ Group(u) = g
  BY SizesAssumption DEF WorkItems, Lids, Members, Group
<1>2. code' = code /\ permutations' = permutations /\ tid' = tid /\ gate' = gate /\ reg' = reg
      /\ g_comm_values' = g_comm_values /\ l_comm_values' = l_comm_values
      /\ \A u \in WorkItems : ip'[u] = IF Group(u) = g THEN ip[u] + 1 ELSE ip[u]
  BY DEF PassBarrier, generator, private, comm
<1>3. \A u \in Members(g) : ip[u] \in 1 .. Len(code) /\ code[ip[u]].op = "barrier"
  <2> TAKE u \in Members(g)
  <2>1. At(u, "barrier")
    BY DEF PassBarrier
  <2> QED BY <1>0, <1>1, <2>1, InstructionType
<1>4. \A u \in Members(g) : Home(ip[u]) = ip[u] /\ Home(ip[u] + 1) = ip[u] + 1
  BY <1>0, <1>3, StraightOn
<1>5. PICK n \in Nat \ {0} : \E path \in [1 .. n -> States] : \E at \in [Members(g) -> 1 .. n] :
          Way(g, n, path, at)
  BY DEF Running, Follows
<1>6. PICK path \in [1 .. n -> States] : \E at \in [Members(g) -> 1 .. n] : Way(g, n, path, at)
  BY <1>5
<1>7. PICK at \in [Members(g) -> 1 .. n] : Way(g, n, path, at)
  BY <1>6
<1>8. \A u \in Members(g) : InStep(u, path[at[u]]) /\ path[at[u]].place = ip[u]
  BY <1>4, <1>7 DEF Way, InStep
<1>9. PICK k \in 1 .. n : k = at[<<g, 0>>]
  BY <1>1
<1>10. \A u \in Members(g) : at[u] = k
  <2> TAKE u \in Members(g)
  <2>0. PICK l \in Members(g) : l = <<g, 0>> /\ k = at[l]
    BY <1>1, <1>9
  <2>3. code[path[at[l]].place].op = "barrier" /\ code[path[at[u]].place].op = "barrier"
    BY <1>3, <1>8
  <2>4. at[u] <= at[l]
    BY <1>0, <1>7, <2>3, NobodyAhead
  <2>5. at[l] <= at[u]
    BY <1>0, <1>7, <2>3, NobodyAhead
  <2>1. at[u] <= k /\ k <= at[u]
    BY <2>0, <2>4, <2>5
  <2>2. at[u] \in 1 .. n
    OBVIOUS
  <2> QED BY <2>1, <2>2
<1>11. PICK s \in States : s = path[k]
  OBVIOUS
<1>12. PICK i \in 1 .. Len(code) : i = s.place /\ code[i].op = "barrier"
  BY <1>1, <1>3, <1>8, <1>10, <1>11
<1>13. \A u \in Members(g) : InStep(u, s) /\ ip[u] = i /\ ip'[u] = i + 1
  BY <1>1, <1>2, <1>8, <1>10, <1>11, <1>12
<1>14. i > 1 /\ ip[<<g, 0>>] > 1 /\ Home(i + 1) = i + 1 /\ ~Pending(i) /\ i + 1 + 0 = i + 1
  <2>1. i # 1 /\ i + 1 + 0 = i + 1
    BY <1>0, <1>12, CodeFacts
  <2>2. Home(i + 1) = i + 1
    BY <1>0, <1>12, StraightOn
  <2>3. ~Pending(i)
    BY <1>0, <1>12, PendingFacts
  <2>4. ip[<<g, 0>>] = i
    BY <1>1, <1>13
  <2> QED BY <1>12, <2>1, <2>2, <2>3, <2>4
<1>15. \A u \in Members(g) : Own(u) = tid[u] /\ g_comm_values[Own(u)] = s.global
          /\ l_comm_values[g][Own(u) % Size] = s.local /\ gate[u] = s.gate
  BY <1>1, <1>13, <1>14 DEF Own, OwnAt, InStep
<1>16. Pending(i + 1) => PendingExpr(i + 1) \in Expression
  <2> SUFFICES ASSUME Pending(i + 1) PROVE PendingExpr(i + 1) \in Expression
    OBVIOUS
  <2>1. i + 1 \in 1 .. Len(code) /\ i + 1 - 1 = i
    BY <1>0, CodeFacts DEF Pending
  <2>2. code[i + 1].op # "permute"
    BY <1>0, <1>12, <2>1, CodeFacts DEF LaidAt
  <2>3. code[i + 1].op = "eval"
    BY <1>0, <2>1, <2>2, PendingFacts
  <2> QED BY <1>0, <2>1, <2>2, <2>3, CodeFacts, InstructionParts DEF PendingExpr
<1>17. \A u \in Members(g) : Own(u)' =
          IF Pending(i + 1) THEN Permuted(u, RowOf(g, PendingExpr(i + 1)), Own(u)) ELSE Own(u)
  <2> TAKE u \in Members(g)
  <2>1. PICK j : j = i + 1
    OBVIOUS
  <2>2. Pending(j)' = Pending(j) /\ PendingExpr(j)' = PendingExpr(j)
    BY <1>2, SameCode
  <2>3. Pending(ip[u])' = Pending(j) /\ PendingExpr(ip[u])' = PendingExpr(j)
    BY <1>13, <2>1, <2>2
  <2>4. Own(u)' = IF Pending(j) THEN Permuted(u, RowOf(g, PendingExpr(j)), tid[u]) ELSE tid[u]
    BY <1>1, <1>2, <2>3 DEF Own, OwnAt, Permuted, RowOf, Group
  <2> QED BY <1>15, <2>1, <2>4
<1>18. Owns(g)'
  <2>1. Members(g)' = Members(g)
    BY DEF Members
  <2>2. CASE Pending(i + 1)
    <3>1. PICK e \in Expression : e = PendingExpr(i + 1)
      BY <1>16, <2>2
    <3>2. \A u \in Members(g) : Own(u)' = Permuted(u, RowOf(g, e), Own(u))
      BY <1>17, <2>2, <3>1
    <3>3. /\ \A u \in Members(g) : Own(u)' \in g * Size .. g * Size + Size - 1
          /\ \A u, v \in Members(g) : u # v => Own(u)' # Own(v)'
          /\ \A x \in g * Size .. g * Size + Size - 1 : \E u \in Members(g) : Own(u)' = x
      BY <3>2, Shuffled
    <3> QED BY <2>1, <3>3 DEF Owns
  <2>3. CASE ~Pending(i + 1)
    <3>1. \A u \in Members(g) : Own(u)' = Own(u)
      BY <1>17, <2>3
    <3>2. /\ \A u \in Members(g) : Own(u)' \in g * Size .. g * Size + Size - 1
          /\ \A u, v \in Members(g) : u # v => Own(u)' # Own(v)'
          /\ \A x \in g * Size .. g * Size + Size - 1 : \E u \in Members(g) : Own(u)' = x
      BY <3>1 DEF Running, Owns
    <3> QED BY <2>1, <3>2 DEF Owns
  <2> QED BY <2>2, <2>3
<1>19. \A u \in Members(g) : g_comm_values[Own(u)'] = s.global /\ l_comm_values[g][Own(u)' % Size] = s.local
  <2> SUFFICES ASSUME NEW u \in Members(g)
               PROVE  g_comm_values[Own(u)'] = s.global /\ l_comm_values[g][Own(u)' % Size] = s.local
    OBVIOUS
  <2>1. Members(g)' = Members(g)
    BY DEF Members
  <2>2. PICK x \in g * Size .. g * Size + Size - 1 : x = Own(u)'
    BY <1>18, <2>1 DEF Owns
  <2>3. PICK v \in Members(g) : Own(v) = x
    BY DEF Running, Owns
  <2> QED BY <1>15, <2>2, <2>3
<1>20. ASSUME NEW r, r = Effect(g, s), NEW u \in Members(g) PROVE InStep(u, r)'
  <2>1. r.place = i + 1 /\ r.local = s.local /\ r.global = s.global /\ r.gate = s.gate
    BY <1>12, <1>14, <1>20 DEF Effect, NextPlace, Skips
  <2>2. PICK j : j = i + 1
    OBVIOUS
  <2>3. Home(j)' = j
    BY <1>2, <1>14, <2>2, SameCode
  <2>4. Home(ip[u])' = r.place
    BY <1>13, <2>1, <2>2, <2>3
  <2>5. ASSUME j <= Len(code) PROVE code[j].op \notin {"store", "branch", "permute"}
    <3>1. j \in 1 .. Len(code) /\ j - 1 = i
      BY <1>0, <2>2, <2>5, CodeFacts
    <3>2. LaidAt(code, j)
      BY <1>0, <3>1, CodeFacts
    <3> QED BY <1>12, <3>1, <3>2 DEF LaidAt
  <2>6. UsesReg(j)' = UsesReg(j) /\ (UsesReg(j) => code[j].op \in {"store", "branch"})
    BY <1>2, SameCode DEF UsesReg
  <2>7. r.place <= Len(code') =>
          /\ UsesReg(r.place)' => reg'[u] = r.reg
          /\ code'[r.place].op = "permute" =>
               reg'[u] % NRows = RowOf(Group(u), code'[r.place - 1].expr)
    <3>1. r.place <= Len(code') => ~UsesReg(j)' /\ code'[j].op # "permute"
      BY <1>2, <2>1, <2>2, <2>5, <2>6
    <3> QED BY <2>1, <2>2, <3>1
  <2>8. gate'[u] = r.gate /\ g_comm_values'[Own(u)'] = r.global
        /\ l_comm_values'[Group(u)][Own(u)' % Size] = r.local
    BY <1>1, <1>2, <1>15, <1>19, <2>1
  <2> QED BY <2>4, <2>7, <2>8 DEF InStep, RowOf, Group
<1>21. Follows(g)'
  <2>1. TraceOK(g, n, path) /\ path[k].place <= Len(code)
    BY <1>0, <1>7, <1>11, <1>12, CodeFacts DEF Way
  <2>2. PICK m \in Nat \ {0} : \E longer \in [1 .. m -> States] : GoesOn(g, n, path, k, m, longer)
    BY <1>0, <2>1, NextState
  <2>3. PICK longer \in [1 .. m -> States] : GoesOn(g, n, path, k, m, longer)
    BY <2>2
  <2>4. PICK r : r = longer[k + 1]
    OBVIOUS
  <2>5. r = Effect(g, s) /\ k + 1 \in 1 .. m /\ TraceOK(g, m, longer)
    BY <1>11, <2>3, <2>4 DEF GoesOn
  <2>6. PICK now : now = [u \in Members(g) |-> k + 1]
    OBVIOUS
  <2>7. now \in [Members(g) -> 1 .. m] /\ \A u \in Members(g) : longer[now[u]] = r
    BY <2>4, <2>5, <2>6
  <2>8. \A u \in Members(g) : InStep(u, r)'
    BY <1>20, <2>5
  <2>9. Members(g)' = Members(g)
    BY DEF Members
  <2>10. TraceOK(g, m, longer)'
    BY <1>2, <2>5, SameCode
  <2>11. \A u \in Members(g) : InStep(u, longer[now[u]])'
    BY <2>7, <2>8
  <2>12. \A u, v \in Members(g) : longer[now[u]].bar = longer[now[v]].bar
    BY <2>7
  <2>13. Way(g, m, longer, now)'
    BY <2>9, <2>10, <2>11, <2>12 DEF Way
  <2> QED BY <2>7, <2>9, <2>13 DEF Follows
<1>22. ASSUME NEW h \in Groups, h # g PROVE Follows(h)' /\ Owns(h)'
  <2>1. \A u \in Members(h) : u \in WorkItems /\ Group(u) = h
    BY DEF Members
  <2>2. \A u \in Members(h) : ip'[u] = ip[u] /\ tid'[u] = tid[u] /\ gate'[u] = gate[u] /\ reg'[u] = reg[u]
    BY <1>2, <1>22, <2>1
  <2>3. ip'[<<h, 0>>] = ip[<<h, 0>>]
    BY <1>2, <1>22, SizesAssumption DEF WorkItems, Lids, Group
  <2>4. ASSUME NEW u \in Members(h), NEW s2, InStep(u, s2) PROVE InStep(u, s2)'
    <3>1. ip'[<<Group(u), 0>>] > 1 => l_comm_values'[Group(u)][Own(u) % Size] = s2.local
      BY <1>2, <2>1, <2>3, <2>4 DEF InStep
    <3> QED BY <1>2, <2>1, <2>2, <2>4, <3>1, Untouched
  <2>5. Follows(h)'
    BY <1>2, <2>4, Undisturbed
  <2>6. Members(h)' = Members(h) /\ \A u \in Members(h) : Own(u)' = Own(u)
    BY <1>2, <2>1, <2>2, Untouched DEF Members
  <2>7. /\ \A u \in Members(h) : Own(u)' \in h * Size .. h * Size + Size - 1
        /\ \A u, v \in Members(h) : u # v => Own(u)' # Own(v)'
        /\ \A x \in h * Size .. h * Size + Size - 1 : \E u \in Members(h) : Own(u)' = x
    BY <2>6 DEF Running, Owns
  <2>8. Owns(h)'
    BY <2>6, <2>7 DEF Owns
  <2> QED BY <2>5, <2>8
<1> QED BY <1>18, <1>21, <1>22

-----------------------------------------------------------------------------
(* The invariant                                                           *)

\* Before the first step every group is at the start of its way.
LEMMA Begun ==
    Ready /\ DataOK /\ Unstarted /\ (\A t \in WorkItems : ip[t] = 1)
      => \A g \in Groups : Follows(g) /\ Owns(g)
<1> SUFFICES ASSUME Ready, DataOK, Unstarted, \A t \in WorkItems : ip[t] = 1, NEW g \in Groups
             PROVE  Follows(g) /\ Owns(g)
  OBVIOUS
<1>1. 1 \in 1 .. Len(code) /\ code[1].op = "init" /\ code[2].op = "barrier" /\ Len(code) >= 2
      /\ Len(code) \in Nat /\ 1 + 1 = 2
  BY CodeFacts
<1>2. ~Pending(1) /\ Home(1) = 1 /\ ~UsesReg(1)
  BY <1>1, StraightOn DEF Pending, UsesReg
<1>3. \A t \in Members(g) : t \in WorkItems /\ Group(t) = g /\ ip[t] = 1 /\ Own(t) = tid[t]
  BY <1>2 DEF Members, Own, OwnAt
<1>4. PICK p \in Shuffles : p = permutations[0]
  BY SizesAssumption DEF DataOK
<1>5. /\ p \in [Lids -> Lids]
      /\ \A i, j \in Lids : p[i] = p[j] => i = j
      /\ \A j \in Lids : \E i \in Lids : p[i] = j
  BY <1>4, ShufflesAssumption
<1>6. PICK b \in Nat : b = g * Size
  BY SizesAssumption DEF Groups
<1>7. \A t \in Members(g) : Own(t) = b + p[Lid(t)] /\ Lid(t) \in Lids /\ p[Lid(t)] \in Nat
  <2> TAKE t \in Members(g)
  <2>1. Lid(t) \in Lids
    BY <1>3, ItemIds
  <2>2. Own(t) = g * Size + p[Lid(t)]
    BY <1>3, <1>4 DEF Unstarted
  <2>3. p[Lid(t)] \in Lids
    BY <1>5, <2>1
  <2> QED BY <1>6, <2>1, <2>2, <2>3 DEF Lids
<1>8. \A t \in Members(g) : Own(t) \in b .. b + Size - 1
  BY <1>3, <1>6 DEF DataOK, TidsInGroup
<1>9. ASSUME NEW t \in Members(g), NEW u \in Members(g), t # u PROVE Own(t) # Own(u)
  <2>1. Lid(t) # Lid(u)
    BY <1>9 DEF Members, WorkItems, Group, Lid
  <2>2. p[Lid(t)] # p[Lid(u)]
    BY <1>5, <1>7, <2>1
  <2>3. PICK y \in Nat, z \in Nat : y = p[Lid(t)] /\ z = p[Lid(u)]
    BY <1>7
  <2> QED BY <1>7, <2>2, <2>3
<1>10. ASSUME NEW x \in b .. b + Size - 1 PROVE \E t \in Members(g) : Own(t) = x
  <2>1. x % Size \in Lids /\ x = b + (x % Size)
    BY <1>6, ItemPosition
  <2>2. PICK i \in Lids : p[i] = x % Size
    BY <1>5, <2>1
  <2>3. <<g, i>> \in Members(g) /\ Lid(<<g, i>>) = i
    BY DEF Members, WorkItems, Group, Lid
  <2> QED BY <1>7, <2>1, <2>2, <2>3
<1>11. Owns(g)
  BY <1>6, <1>8, <1>9, <1>10 DEF Owns
<1>12. PICK path : path = [k \in 1 .. 1 |-> Start]
  OBVIOUS
<1>13. PICK at : at = [t \in Members(g) |-> 1]
  OBVIOUS
<1>14. Start \in States
  BY SizesAssumption DEF Start, States, UInt
<1>15. path \in [1 .. 1 -> States] /\ at \in [Members(g) -> 1 .. 1] /\ 1 \in Nat \ {0}
       /\ \A k \in 1 .. 1 : path[k] = Start
  BY <1>12, <1>13, <1>14
<1>16. TraceOK(g, 1, path)
  BY <1>1, <1>15 DEF TraceOK, Start
<1>17. \A t \in Members(g) : InStep(t, Start)
  <2> TAKE t \in Members(g)
  <2>1. g_comm_values[Own(t)] = 1
    <3>1. Own(t) \in 0 .. NGroups * Size - 1
      BY <1>11, OwnItem
    <3> QED BY <3>1 DEF Unstarted
  <2>2. ip[<<Group(t), 0>>] = 1
    <3>1. <<g, 0>> \in WorkItems
      BY SizesAssumption DEF WorkItems, Lids
    <3> QED BY <1>3, <3>1
  <2> QED BY <1>1, <1>2, <1>3, <2>1, <2>2 DEF InStep, Start, Unstarted
<1>18. Way(g, 1, path, at)
  BY <1>13, <1>15, <1>16, <1>17 DEF Way
<1> QED BY <1>11, <1>15, <1>18 DEF Follows

\* The work-items run what the generator has emitted.
LEMMA InitWayInv == Init => WayInv
BY DEF Init, WayInv, Unstarted

\* All the invariants, of kernels that keep to their buffers.
Whole == GatedBarriersFit /\ Inv /\ DataOK /\ CodeLaid /\ WayInv

\* The invariant is inductive.
LEMMA NextWhole ==
    ASSUME NoBarrierInSections, RowsReadNoBuffer, NoDivergentReductions
    PROVE  Whole /\ [Next]_vars => Whole'
<1> SUFFICES ASSUME Whole, [Next]_vars PROVE Whole'
  OBVIOUS
<1>1. GatedBarriersFit' /\ Inv' /\ DataOK'
  <2>1. GatedBarriersFit'
    BY DEF Whole, GatedBarriersFit
  <2> QED BY <2>1, NextInv, DataStep DEF Whole
<1>2. Ready /\ DataOK /\ CodeInv
  BY DEF Whole, Ready, Inv
<1>3. CASE \E s \in Statements : AddStatement(s)
  <2>1. PICK s \in Statements : AddStatement(s)
    BY <1>3
  <2>2. CodeLaid'
    BY <1>2, <2>1, AddStatementLaid DEF Ready
  <2>3. phase = "generate" /\ phase' = "generate" /\ UNCHANGED <<gate, tid, permutations, g_comm_values>>
    BY <2>1 DEF AddStatement, private, comm
  <2>4. WayInv'
    BY <2>3 DEF Whole, WayInv, Unstarted
  <2> QED BY <1>1, <2>2, <2>4 DEF Whole
<1>4. CASE Launch
  <2>1. CodeLaid'
    BY <1>2, <1>4, LaunchLaid DEF Ready
  <2>2. phase = "generate" /\ phase' = "run"
        /\ UNCHANGED <<gate, tid, permutations, g_comm_values, ip>>
    BY <1>4 DEF Launch, private, comm
  <2>3. Unstarted' /\ (\A t \in WorkItems : ip[t] = 1)'
    BY <2>2 DEF Whole, WayInv, Unstarted, Inv, GenerateInv
  <2>4. Ready'
    BY <1>1, <2>1 DEF Ready
  <2>5. (\A g \in Groups : Follows(g) /\ Owns(g))'
    BY <1>1, <2>3, <2>4, Begun, PTL
  <2>6. WayInv'
    BY <2>2, <2>5 DEF WayInv
  <2> QED BY <1>1, <2>1, <2>6 DEF Whole
<1>5. ASSUME phase = "run", UNCHANGED generator, \A g \in Groups : Follows(g)' /\ Owns(g)'
      PROVE  Whole'
  <2>1. CodeLaid'
    BY <1>2, <1>5 DEF Ready, CodeLaid, generator
  <2>2. WayInv'
    BY <1>5 DEF WayInv, generator
  <2> QED BY <1>1, <2>1, <2>2 DEF Whole
<1>6. ASSUME NEW t \in WorkItems, RunInside(t) PROVE Whole'
  <2>1. phase = "run" /\ UNCHANGED generator
    BY <1>6 DEF RunInside, InitBuffers, Evaluate, Store, Branch, Permute, Reduce, Collect,
                EnterSection, LeaveSection, TestGate, TakeInside, GiveInside, ShutGate, Hash, At
  <2>2. Running
    BY <1>2, <2>1 DEF Running, Whole, WayInv
  <2> QED BY <1>5, <1>6, <2>1, <2>2, ItemWay
<1>7. ASSUME NEW g \in Groups, PassBarrier(g) PROVE Whole'
  <2>1. phase = "run" /\ UNCHANGED generator
    <3>1. <<g, 0>> \in Members(g)
      BY SizesAssumption DEF WorkItems, Lids, Members, Group
    <3> QED BY <1>7, <3>1 DEF PassBarrier, At
  <2>2. Running
    BY <1>2, <2>1 DEF Running, Whole, WayInv
  <2> QED BY <1>5, <1>7, <2>1, <2>2, BarrierWay
<1>8. CASE UNCHANGED vars
  <2>2. UNCHANGED <<code, phase, gate, tid, reg, permutations, g_comm_values, l_comm_values, ip>>
    BY <1>8 DEF vars, generator, private, comm
  <2>3. CodeLaid'
    BY <1>2, <2>2 DEF Ready, CodeLaid
  <2>4. CASE phase = "generate"
    BY <1>1, <2>2, <2>3, <2>4 DEF Whole, WayInv, Unstarted
  <2>5. CASE phase = "run"
    <3>1. Running
      BY <1>2, <2>5 DEF Running, Whole, WayInv
    <3>2. ASSUME NEW g \in Groups PROVE Follows(g)' /\ Owns(g)'
      <4>1. ASSUME NEW u \in Members(g)
            PROVE  Own(u)' = Own(u) /\ \A s : InStep(u, s) => InStep(u, s)'
        <5>1. u \in WorkItems
          BY DEF Members
        <5>2. Own(u)' = Own(u)
          BY <2>2, <5>1, Untouched
        <5>3. ASSUME NEW s, InStep(u, s) PROVE InStep(u, s)'
          <6>1. ip'[<<Group(u), 0>>] > 1 => l_comm_values'[Group(u)][Own(u) % Size] = s.local
            BY <2>2, <5>3 DEF InStep
          <6> QED BY <2>2, <5>1, <5>3, <6>1, Untouched
        <5> QED BY <5>2, <5>3
      <4>2. Follows(g)'
        BY <2>2, <3>1, <4>1, Undisturbed
      <4>3. Members(g)' = Members(g)
        BY DEF Members
      <4>4. /\ \A u \in Members(g) : Own(u)' \in g * Size .. g * Size + Size - 1
            /\ \A u, v \in Members(g) : u # v => Own(u)' # Own(v)'
            /\ \A x \in g * Size .. g * Size + Size - 1 : \E u \in Members(g) : Own(u)' = x
        BY <3>1, <4>1 DEF Running, Owns
      <4> QED BY <4>2, <4>3, <4>4 DEF Owns
    <3> QED BY <2>2, <2>3, <2>5, <3>2, <1>1 DEF Whole, WayInv
  <2> QED BY <2>4, <2>5, <1>2 DEF Whole, Inv, TypeInv
<1>9. \A t \in WorkItems : ~TakeBeyond(t) /\ ~GiveBeyond(t)
  BY NobodyBeyond DEF Whole
<1> QED BY <1>3, <1>4, <1>6, <1>7, <1>8, <1>9, NextCases DEF Rest

-----------------------------------------------------------------------------
(* Meeting                                                                 *)

\* Where two work-items of a group are on its way.
LEMMA OnTheWay ==
    ASSUME Running, NEW g \in Groups
    PROVE  \E n \in Nat \ {0} : \E path \in [1 .. n -> States] :
              \E at \in [Members(g) -> 1 .. n] :
                 /\ Way(g, n, path, at)
                 /\ \A t \in Members(g) : Home(ip[t]) = path[at[t]].place
<1>1. PICK n \in Nat \ {0} : \E path \in [1 .. n -> States] : \E at \in [Members(g) -> 1 .. n] :
          Way(g, n, path, at)
  BY DEF Running, Follows
<1>2. PICK path \in [1 .. n -> States] : \E at \in [Members(g) -> 1 .. n] : Way(g, n, path, at)
  BY <1>1
<1>3. PICK at \in [Members(g) -> 1 .. n] : Way(g, n, path, at)
  BY <1>2
<1>4. \A t \in Members(g) : Home(ip[t]) = path[at[t]].place
  BY <1>3 DEF Way, InStep
<1> QED BY <1>3, <1>4

\* The barriers are in code that all work-items of a group run.
LEMMA Converged == Whole => BarriersConverge
<1> SUFFICES ASSUME Whole, NEW g \in Groups, NEW t \in Members(g), NEW u \in Members(g),
                    At(t, "barrier")
             PROVE  ~Finished(u) /\ (At(u, "barrier") => ip[t] = ip[u])
  BY DEF BarriersConverge
<1>1. Running /\ Ready /\ Inv
  BY DEF Running, Ready, Whole, WayInv, At
<1>2. t \in WorkItems /\ u \in WorkItems /\ ip[u] \in Nat \ {0} /\ ip[t] \in Nat \ {0}
      /\ Len(code) \in Nat
  BY <1>1, CodeFacts DEF Members, Inv, TypeInv
<1>3. PICK n \in Nat \ {0} : \E path \in [1 .. n -> States] :
              \E at \in [Members(g) -> 1 .. n] :
                 /\ Way(g, n, path, at)
                 /\ \A v \in Members(g) : Home(ip[v]) = path[at[v]].place
  BY <1>1, OnTheWay
<1>4. PICK path \in [1 .. n -> States] : \E at \in [Members(g) -> 1 .. n] :
                 /\ Way(g, n, path, at)
                 /\ \A v \in Members(g) : Home(ip[v]) = path[at[v]].place
  BY <1>3
<1>5. PICK at \in [Members(g) -> 1 .. n] :
                 /\ Way(g, n, path, at)
                 /\ \A v \in Members(g) : Home(ip[v]) = path[at[v]].place
  BY <1>4
<1>6. PICK k \in 1 .. n, m \in 1 .. n : k = at[t] /\ m = at[u]
  OBVIOUS
<1>7. ASSUME NEW v \in Members(g), At(v, "barrier")
      PROVE  ip[v] \in 1 .. Len(code) /\ path[at[v]].place = ip[v]
             /\ code[path[at[v]].place].op = "barrier"
  <2>1. v \in WorkItems
    BY DEF Members
  <2>2. ip[v] \in 1 .. Len(code) /\ code[ip[v]].op = "barrier"
    BY <1>1, <1>7, <2>1, InstructionType
  <2>3. Home(ip[v]) = ip[v]
    BY <1>1, <2>2, StraightOn
  <2> QED BY <1>5, <2>2, <2>3
<1>8. m <= k
  BY <1>1, <1>5, <1>6, <1>7, NobodyAhead
<1>9. path[m].place <= path[k].place
  <2>1. CASE m = k
    BY <2>1 DEF States
  <2>2. CASE m < k
    <3>1. path[m].place < path[k].place
      BY <1>5, <2>2 DEF Way, TraceOK
    <3> QED BY <3>1 DEF States
  <2> QED BY <1>8, <2>1, <2>2
<1>10. ~Finished(u)
  <2> SUFFICES ASSUME ip[u] > Len(code) PROVE FALSE
    BY DEF Finished
  <2>1. Home(ip[u]) = ip[u]
    BY DEF Home
  <2>2. path[m].place = ip[u]
    BY <1>5, <1>6, <2>1
  <2> QED BY <1>2, <1>6, <1>7, <1>9, <2>2
<1>11. ASSUME At(u, "barrier") PROVE ip[t] = ip[u]
  <2>1. k <= m
    BY <1>1, <1>5, <1>6, <1>7, <1>11, NobodyAhead
  <2>2. k = m
    BY <1>8, <2>1
  <2> QED BY <1>6, <1>7, <1>11, <2>2
<1> QED BY <1>10, <1>11

\* The work-items of a group share out its items at all times.
LEMMA SharedOut ==
    ASSUME Whole, NEW g \in Groups
    PROVE  Owns(g)
<1>1. CASE phase = "run"
  BY <1>1 DEF Whole, WayInv
<1>2. CASE phase = "generate"
  <2>1. Ready /\ DataOK /\ Unstarted /\ (\A t \in WorkItems : ip[t] = 1)
    BY <1>2 DEF Whole, Ready, WayInv, Inv, GenerateInv
  <2> QED BY <2>1, Begun
<1> QED BY <1>1, <1>2 DEF Whole, Inv, TypeInv

\* Work-items of a group at the same instruction hold different ids.
LEMMA IdsDiffer == Whole => TidsArePermutation
<1> SUFFICES ASSUME Whole, NEW t \in WorkItems, NEW u \in Members(Group(t)), u # t, ip[u] = ip[t],
                    tid[u] = tid[t]
             PROVE  FALSE
  BY DEF TidsArePermutation, Whole, DataOK
<1>1. PICK g \in Groups : g = Group(t) /\ t \in Members(g) /\ Group(u) = g
  BY ItemIds DEF Members
<1>2. Owns(g)
  BY SharedOut
<1>3. Own(u) = Own(t)
  BY <1>1 DEF Own, OwnAt, Permuted
<1> QED BY <1>1, <1>2, <1>3 DEF Owns

\* The place in front of place i, the k-th on the way.
From(n, path, k, i) ==
    /\ k - 1 \in 1 .. n /\ path[k - 1].place = i - 1
    /\ path[k].bar = IF code[i - 1].op = "barrier" THEN i - 1 ELSE path[k - 1].bar

\* What does not begin a statement is reached from in front of it.
LEMMA Came ==
    ASSUME Ready, NEW g \in Groups, NEW n \in Nat \ {0}, NEW path \in [1 .. n -> States],
           TraceOK(g, n, path), NEW k \in 1 .. n, NEW i \in 1 .. Len(code), path[k].place = i,
           i > 1, ~HeadAt(code, i)
    PROVE  From(n, path, k, i)
<1>1. k # 1
  BY DEF TraceOK, Start
<1>2. k - 1 \in 1 .. n - 1 /\ k - 1 \in 1 .. n /\ k - 1 + 1 = k
  BY <1>1
<1>3. PICK s \in States : s = path[k - 1]
  BY <1>2
<1>4. s.place <= Len(code) /\ path[k] = Effect(g, s)
  BY <1>2, <1>3 DEF TraceOK
<1>5. s.place \in 1 .. Len(code)
  BY <1>4, CodeFacts DEF States
<1>6. NextPlace(s) = i
  BY <1>4 DEF Effect
<1>7. s.place + 1 = i
  BY <1>5, <1>6, NextPlaceFacts
<1>8. s.place = i - 1
  BY <1>5, <1>7
<1> QED BY <1>2, <1>3, <1>4, <1>8 DEF Effect, From

\* While a work-item is between two barriers that enclose one instruction, so is
\* every other of its group that is not at a barrier.
LEMMA Fenced ==
    ASSUME Ready, NEW g \in Groups, NEW n \in Nat \ {0}, NEW path \in [1 .. n -> States],
           NEW at \in [Members(g) -> 1 .. n], Way(g, n, path, at),
           NEW t \in Members(g), NEW u \in Members(g),
           path[at[u]].place <= Len(code), code[path[at[u]].place].op \in {"collect", "give"},
           path[at[t]].place <= Len(code), code[path[at[t]].place].op # "barrier"
    PROVE  path[at[t]].place = path[at[u]].place
<1>1. PICK k \in 1 .. n, m \in 1 .. n : k = at[t] /\ m = at[u]
  OBVIOUS
<1>0. PICK i \in 1 .. Len(code), j \in 1 .. Len(code) :
        /\ path[at[u]].place = i /\ code[i].op \in {"collect", "give"}
        /\ path[at[t]].place = j /\ code[j].op # "barrier"
  <2>1. path[k].place \in Nat \ {0} /\ path[m].place \in Nat \ {0}
    BY DEF States
  <2>2. path[at[u]].place \in 1 .. Len(code) /\ path[at[t]].place \in 1 .. Len(code)
    BY <1>1, <2>1, CodeFacts
  <2> QED BY <2>2
<1>2. TraceOK(g, n, path) /\ path[k].bar = path[m].bar /\ path[m].place = i /\ path[k].place = j
  BY <1>0, <1>1 DEF Way
<1>3. LaidAt(code, i) /\ ~HeadAt(code, i)
  BY <1>0, CodeFacts DEF HeadAt, Inner
<1>4. i > 1 /\ i < Len(code) /\ code[i - 1].op = "barrier" /\ code[i + 1].op = "barrier"
  BY <1>0, <1>3, CodeFacts DEF LaidAt
<1>5. m - 1 \in 1 .. n /\ path[m - 1].place = i - 1 /\ path[m].bar = i - 1
  <2>1. From(n, path, m, i)
    BY <1>2, <1>3, <1>4, Came
  <2> QED BY <1>4, <2>1 DEF From
<1>6. path[k].bar < j /\ path[k].bar = i - 1 /\ i \in Nat /\ j \in Nat /\ Len(code) \in Nat
  BY <1>2, <1>5, CodeFacts DEF TraceOK
<1>7. CASE k < m
  <2>1. j < i
    BY <1>2, <1>7 DEF TraceOK
  <2> QED BY <1>6, <2>1
<1>8. CASE k > m
  <2>1. m \in 1 .. n - 1 /\ m + 1 \in 1 .. n /\ k >= m + 1
    BY <1>8
  <2>2. PICK s \in States : s = path[m]
    OBVIOUS
  <2>3. path[m + 1] = Effect(g, s) /\ s.place = i
    BY <1>2, <2>1, <2>2 DEF TraceOK
  <2>4. ~Skips(s) /\ Home(i + 1) = i + 1 /\ i + 1 + 0 = i + 1
    BY <1>0, <1>4, <2>3, StraightOn DEF Skips
  <2>5. path[m + 1].place = i + 1
    BY <2>3, <2>4 DEF Effect, NextPlace
  <2>6. CASE k = m + 1
    BY <1>0, <1>2, <1>4, <2>5, <2>6
  <2>7. CASE k > m + 1
    <3>1. path[k].bar >= i + 1
      BY <1>2, <1>4, <2>1, <2>5, <2>7 DEF TraceOK
    <3> QED BY <1>6, <3>1
  <2> QED BY <2>1, <2>6, <2>7
<1>9. CASE k = m
  BY <1>1, <1>9
<1> QED BY <1>7, <1>8, <1>9

\* While a work-item hashes the comm buffers no other is in front of the last
\* barrier.
LEMMA AtTheEnd ==
    ASSUME Ready, NEW g \in Groups, NEW n \in Nat \ {0}, NEW path \in [1 .. n -> States],
           NEW at \in [Members(g) -> 1 .. n], Way(g, n, path, at),
           NEW t \in Members(g), NEW u \in Members(g),
           NEW i \in 1 .. Len(code), path[at[u]].place = i,
           code[i].op = "hash", code[i].what = "comm_values",
           NEW j \in 1 .. Len(code), path[at[t]].place = j
    PROVE  code[j].op = "hash"
<1>1. PICK k \in 1 .. n, m \in 1 .. n : k = at[t] /\ m = at[u]
  OBVIOUS
<1>2. TraceOK(g, n, path) /\ path[k].bar = path[m].bar /\ path[m].place = i /\ path[k].place = j
  BY <1>1 DEF Way
<1>3. i = Len(code) /\ i > 2 /\ code[i - 2].op = "barrier" /\ code[i - 1].op = "hash"
  BY CodeFacts DEF LaidAt, Ready, CodeLaid
<1>4. i - 1 \in 1 .. Len(code) /\ i - 1 > 1 /\ ~HeadAt(code, i) /\ ~HeadAt(code, i - 1)
      /\ i - 1 - 1 = i - 2 /\ i \in Nat /\ j \in Nat
  BY <1>3, CodeFacts DEF HeadAt, Inner
<1>5. PICK l \in 1 .. n : l = m - 1 /\ path[l].place = i - 1 /\ path[m].bar = path[l].bar
  <2>1. TraceOK(g, n, path) /\ path[m].place = i /\ i > 1 /\ ~HeadAt(code, i)
    BY <1>2, <1>3, <1>4
  <2>2. From(n, path, m, i)
    BY <2>1, Came
  <2> QED BY <1>3, <2>2 DEF From
<1>6. path[l].bar = i - 2
  <2>1. From(n, path, l, i - 1)
    BY <1>2, <1>4, <1>5, Came
  <2> QED BY <1>3, <1>4, <2>1 DEF From
<1>7. path[k].bar < j
  BY <1>2 DEF TraceOK
<1>8. j > i - 2 /\ j <= i
  BY <1>2, <1>3, <1>4, <1>5, <1>6, <1>7
<1>9. j = i - 1 \/ j = i
  BY <1>4, <1>8
<1> QED BY <1>3, <1>9

-----------------------------------------------------------------------------
(* Races                                                                   *)

\* The items of the arrays in local memory of the group g.
LocalOf(g) == {<<"l_comm_values", g, l>> : l \in Lids}
BufferOf(g) == {<<"lb", g, l>> : l \in Items}

\* The work-item t is about to access the item x: its own item of a comm buffer.
OwnAccess(t, x, how) ==
    LET i == code[ip[t]]
    IN  /\ \/ how = "read" /\ i.op = "eval" /\ i.expr.source \in Spaces
           \/ how = "write" /\ i.op = "store"
        /\ x \in {<<"l_comm_values", Group(t), tid[t] % Size>>, <<"g_comm_values", 0, tid[t]>>}

\* Accesses of a reduction to its target.
ReductionAccess(t, x, how) ==
    LET i == code[ip[t]]
    IN  /\ \/ how = "atomic" /\ i.op = "atomic"
           \/ how = "read" /\ i.op = "collect"
        /\ x \in {<<"reduction", sp, Group(t)>> : sp \in Spaces}

\* Accesses of gated barriers to l_buffer.
BufferAccess(t, x, how) ==
    LET i == code[ip[t]]
    IN  \/ how = "read" /\ i.op = "take" /\ x = <<"lb", Group(t), Lid(t)>>
        \/ how = "write" /\ i.op = "give" /\ x = <<"lb", Group(t), Pair(t)>>

\* Accesses of the prologue, by one work-item of a group.
InitAccess(t, x, how) ==
    /\ how = "write" /\ code[ip[t]].op = "init" /\ Lid(t) = 0
    /\ x \in {<<"reduction", "local", Group(t)>>} \cup LocalOf(Group(t)) \cup BufferOf(Group(t))

\* Accesses of the epilogue, to the item of the local or global id.
HashAccess(t, x, how) ==
    /\ how = "read" /\ code[ip[t]].op = "hash" /\ code[ip[t]].what = "comm_values"
    /\ x \in {<<"l_comm_values", Group(t), Lid(t)>>, <<"g_comm_values", 0, GlobalId(t)>>}

\* Those are all accesses.
LEMMA AccessKinds ==
    ASSUME Whole, NEW t \in WorkItems, NEW a \in Accesses(t)
    PROVE  /\ Running /\ ip[t] \in 1 .. Len(code)
           /\ \/ OwnAccess(t, a[1], a[2]) \/ ReductionAccess(t, a[1], a[2])
              \/ BufferAccess(t, a[1], a[2]) \/ InitAccess(t, a[1], a[2])
              \/ HashAccess(t, a[1], a[2])
<1>0. Ready /\ Inv /\ ip[t] \in Nat \ {0} /\ Len(code) \in Nat
  BY CodeFacts DEF Ready, Whole, Inv, TypeInv
<1>1. phase = "run" /\ ip[t] <= Len(code)
  <2>1. ~(phase # "run" \/ ip[t] > Len(code))
    BY DEF Accesses
  <2> QED BY <1>0, <2>1
<1>2. Running /\ Ready
  BY <1>1 DEF Running, Ready, Whole, WayInv
<1>3. ip[t] \in 1 .. Len(code)
  BY <1>0, <1>1
<1>4. PICK i : i = code[ip[t]]
  OBVIOUS
<1>5. i \in Instruction
  BY <1>2, <1>3, <1>4, CodeFacts
<1>6. CASE i.op = "eval"
  <2>1. i.expr.source \in Spaces
    BY <1>1, <1>4, <1>6 DEF Accesses
  <2>2. a = IF i.expr.source = "local" THEN <<<<"l_comm_values", Group(t), LocalItem(t)>>, "read">>
            ELSE <<<<"g_comm_values", 0, tid[t]>>, "read">>
    BY <1>1, <1>4, <1>6, <2>1 DEF Accesses
  <2>3. OwnAccess(t, a[1], a[2])
    BY <1>4, <1>6, <2>1, <2>2 DEF OwnAccess, LocalItem
  <2> QED BY <1>2, <1>3, <2>3
<1>7. CASE i.op = "store"
  <2>1. a = IF i.space = "local" THEN <<<<"l_comm_values", Group(t), LocalItem(t)>>, "write">>
            ELSE <<<<"g_comm_values", 0, tid[t]>>, "write">>
    BY <1>1, <1>4, <1>7 DEF Accesses
  <2>2. OwnAccess(t, a[1], a[2])
    BY <1>4, <1>7, <2>1 DEF OwnAccess, LocalItem
  <2> QED BY <1>2, <1>3, <2>2
<1>8. CASE i.op = "atomic" \/ i.op = "collect"
  <2>1. i.space \in Spaces
    BY <1>5, <1>8, SMTT(30) DEF Instruction
  <2>2. a = <<<<"reduction", i.space, Group(t)>>, IF i.op = "atomic" THEN "atomic" ELSE "read">>
    BY <1>1, <1>4, <1>8 DEF Accesses
  <2>3. ReductionAccess(t, a[1], a[2])
    BY <1>4, <1>8, <2>1, <2>2 DEF ReductionAccess
  <2> QED BY <1>2, <1>3, <2>3
<1>9. CASE i.op = "take" \/ i.op = "give"
  <2>0. Lid(t) \in Items /\ Pair(t) \in Items
    <3>1. ~NoGifts(code)
      BY <1>3, <1>4, <1>9 DEF NoGifts
    <3> QED BY <1>0, <3>1 DEF Whole, GatedBarriersFit, CodeInv, Inv
  <2>1. a = IF i.op = "take" THEN <<<<"lb", Group(t), Lid(t)>>, "read">>
            ELSE <<<<"lb", Group(t), Pair(t)>>, "write">>
    BY <1>1, <1>4, <1>9, <2>0 DEF Accesses
  <2>2. BufferAccess(t, a[1], a[2])
    BY <1>4, <1>9, <2>1 DEF BufferAccess
  <2> QED BY <1>2, <1>3, <2>2
<1>10. CASE i.op = "init"
  <2>1. Lid(t) = 0
    BY <1>1, <1>4, <1>10 DEF Accesses
  <2>2. a \in {<<<<"reduction", "local", Group(t)>>, "write">>}
               \cup {<<<<"l_comm_values", Group(t), l>>, "write">> : l \in Lids}
               \cup {<<<<"lb", Group(t), l>>, "write">> : l \in Items}
    BY <1>1, <1>4, <1>10, <2>1 DEF Accesses
  <2>3. InitAccess(t, a[1], a[2])
    BY <1>4, <1>10, <2>1, <2>2 DEF InitAccess, LocalOf, BufferOf
  <2> QED BY <1>2, <1>3, <2>3
<1>11. CASE i.op = "hash"
  <2>1. i.what = "comm_values"
    BY <1>1, <1>4, <1>11 DEF Accesses
  <2>2. a \in {<<<<"l_comm_values", Group(t), Lid(t)>>, "read">>,
               <<<<"g_comm_values", 0, GlobalId(t)>>, "read">>}
    BY <1>1, <1>4, <1>11, <2>1 DEF Accesses
  <2>3. HashAccess(t, a[1], a[2])
    BY <1>4, <1>11, <2>1, <2>2 DEF HashAccess
  <2> QED BY <1>2, <1>3, <2>3
<1>12. i.op \in {"eval", "store", "atomic", "collect", "take", "give", "init", "hash"}
  BY <1>1, <1>4 DEF Accesses
<1> QED BY <1>6, <1>7, <1>8, <1>9, <1>10, <1>11, <1>12

\* Where an item is tells the group of those that access it.
LEMMA Location ==
    ASSUME Whole, NEW t \in WorkItems, NEW a \in Accesses(t)
    PROVE  /\ a[1][1] \in {"l_comm_values", "lb", "reduction", "g_comm_values"}
           /\ a[1][1] \in {"l_comm_values", "lb"} => a[1][2] = Group(t)
           /\ a[1][1] = "reduction" => a[1][3] = Group(t)
           /\ a[1][1] = "g_comm_values" =>
                a[1][3] \in Group(t) * Size .. Group(t) * Size + Size - 1
<1>1. PICK x : x = a[1]
  OBVIOUS
<1>2. tid[t] \in Group(t) * Size .. Group(t) * Size + Size - 1
  BY DEF Whole, DataOK, TidsInGroup
<1>3. GlobalId(t) \in Group(t) * Size .. Group(t) * Size + Size - 1
  <2>1. Lid(t) \in Nat /\ Lid(t) < Size /\ Size \in Nat /\ Group(t) * Size \in Nat
    BY ItemIds, SizesAssumption DEF Lids
  <2>2. PICK b \in Nat : b = Group(t) * Size
    BY <2>1
  <2> QED BY <2>1, <2>2 DEF GlobalId
<1>4. \/ OwnAccess(t, x, a[2]) \/ ReductionAccess(t, x, a[2]) \/ BufferAccess(t, x, a[2])
      \/ InitAccess(t, x, a[2]) \/ HashAccess(t, x, a[2])
  BY <1>1, AccessKinds
<1>5. CASE OwnAccess(t, x, a[2])
  <2>1. x = <<"l_comm_values", Group(t), tid[t] % Size>> \/ x = <<"g_comm_values", 0, tid[t]>>
    BY <1>5 DEF OwnAccess
  <2> QED BY <1>1, <1>2, <2>1
<1>6. CASE ReductionAccess(t, x, a[2])
  <2>1. PICK sp \in Spaces : x = <<"reduction", sp, Group(t)>>
    BY <1>6 DEF ReductionAccess
  <2> QED BY <1>1, <2>1
<1>7. CASE BufferAccess(t, x, a[2])
  <2>1. x = <<"lb", Group(t), Lid(t)>> \/ x = <<"lb", Group(t), Pair(t)>>
    BY <1>7 DEF BufferAccess
  <2> QED BY <1>1, <2>1
<1>8. CASE InitAccess(t, x, a[2])
  <2>1. \/ x = <<"reduction", "local", Group(t)>>
        \/ \E l : x = <<"l_comm_values", Group(t), l>>
        \/ \E l : x = <<"lb", Group(t), l>>
    BY <1>8 DEF InitAccess, LocalOf, BufferOf
  <2> QED BY <1>1, <2>1
<1>9. CASE HashAccess(t, x, a[2])
  <2>1. x = <<"l_comm_values", Group(t), Lid(t)>> \/ x = <<"g_comm_values", 0, GlobalId(t)>>
    BY <1>9 DEF HashAccess
  <2> QED BY <1>1, <1>3, <2>1
<1> QED BY <1>4, <1>5, <1>6, <1>7, <1>8, <1>9

\* Work-items that access one item are of one group.
LEMMA SameGroup ==
    ASSUME Whole, NEW t \in WorkItems, NEW u \in WorkItems, NEW a \in Accesses(t),
           NEW b \in Accesses(u), a[1] = b[1]
    PROVE  Group(t) = Group(u)
<1>1. PICK x : x = a[1] /\ x = b[1]
  OBVIOUS
<1>2. Group(t) \in Groups /\ Group(u) \in Groups
  BY ItemIds
<1>3. CASE x[1] = "g_comm_values"
  <2>1. x[3] \in Group(t) * Size .. Group(t) * Size + Size - 1
    BY <1>1, <1>3, Location
  <2>2. x[3] \in Group(u) * Size .. Group(u) * Size + Size - 1
    BY <1>1, <1>3, Location
  <2> QED BY <1>2, <2>1, <2>2, GroupsApart
<1>4. CASE x[1] # "g_comm_values"
  <2>1. /\ x[1] \in {"l_comm_values", "lb", "reduction"}
        /\ x[1] \in {"l_comm_values", "lb"} => x[2] = Group(t)
        /\ x[1] = "reduction" => x[3] = Group(t)
    BY <1>1, <1>4, Location
  <2>2. /\ x[1] \in {"l_comm_values", "lb"} => x[2] = Group(u)
        /\ x[1] = "reduction" => x[3] = Group(u)
    BY <1>1, Location
  <2> QED BY <2>1, <2>2
<1> QED BY <1>3, <1>4

\* The instructions of two work-items that access the same item.
LEMMA Together ==
    ASSUME Whole, NEW t \in WorkItems, NEW u \in WorkItems, NEW a \in Accesses(t),
           NEW b \in Accesses(u), a[1] = b[1], t # u
    PROVE  /\ code[ip[t]].op # "init"
           /\ code[ip[t]].op \in {"collect", "give"} => ip[u] = ip[t]
           /\ code[ip[t]].op = "hash" => code[ip[u]].op = "hash"
<1>1. PICK g \in Groups : g = Group(t) /\ g = Group(u) /\ t \in Members(g) /\ u \in Members(g)
  BY SameGroup, ItemIds DEF Members
<1>2. Running /\ Ready /\ Inv
  BY AccessKinds DEF Running, Ready
<1>3. PICK i \in 1 .. Len(code), j \in 1 .. Len(code) : ip[t] = i /\ ip[u] = j
  BY AccessKinds
<1>4. /\ code[i].op \in Straight \/ (code[i].op = "init" /\ Lid(t) = 0)
      /\ code[i].op = "hash" => code[i].what = "comm_values"
  BY <1>3, AccessKinds DEF OwnAccess, ReductionAccess, BufferAccess, InitAccess, HashAccess, Straight
<1>5. code[j].op \in Straight \/ (code[j].op = "init" /\ Lid(u) = 0)
  BY <1>3, AccessKinds DEF OwnAccess, ReductionAccess, BufferAccess, InitAccess, HashAccess, Straight
<1>6. ASSUME code[i].op = "init" PROVE FALSE
  <2>1. i = 1 /\ Len(code) >= 2 /\ Len(code) \in Nat
    BY <1>2, <1>6, CodeFacts
  <2>2. CASE code[j].op = "init"
    <3>1. Lid(u) = 0 /\ Lid(t) = 0
      BY <1>4, <1>5, <1>6, <2>2 DEF Straight
    <3>2. t = <<Group(t), Lid(t)>> /\ u = <<Group(u), Lid(u)>>
      BY DEF Group, Lid, WorkItems
    <3> QED BY <1>1, <3>1, <3>2
  <2>3. CASE code[j].op # "init"
    <3>1. code[j].op \notin {"init", "barrier"} /\ ip[u] <= Len(code)
      BY <1>3, <1>5, <2>3, <2>1 DEF Straight
    <3>2. ip[u] > 2
      BY <1>2, <1>3, <3>1, Started
    <3>3. ip[t] >= 2
      BY <1>1, <1>2, <3>2 DEF Inv, StartInv
    <3> QED BY <1>3, <2>1, <3>3
  <2> QED BY <2>2, <2>3
<1>7. ASSUME code[j].op = "init" PROVE FALSE
  <2>1. j = 1 /\ Len(code) >= 2 /\ Len(code) \in Nat
    BY <1>2, <1>7, CodeFacts
  <2>2. code[i].op \notin {"init", "barrier"} /\ ip[t] <= Len(code)
    BY <1>3, <1>4, <1>6, <2>1 DEF Straight
  <2>3. ip[t] > 2
    BY <1>2, <1>3, <2>2, Started
  <2>4. ip[u] >= 2
    BY <1>1, <1>2, <2>3 DEF Inv, StartInv
  <2> QED BY <1>3, <2>1, <2>4
<1>8. code[i].op \in Straight /\ code[j].op \in Straight
  BY <1>4, <1>5, <1>6, <1>7
<1>9. Home(i) = i /\ Home(j) = j
  BY <1>2, <1>8, StraightOn DEF Straight
<1>10. PICK n \in Nat \ {0} : \E path \in [1 .. n -> States] :
              \E at \in [Members(g) -> 1 .. n] :
                 /\ Way(g, n, path, at)
                 /\ \A v \in Members(g) : Home(ip[v]) = path[at[v]].place
  BY <1>2, OnTheWay
<1>11. PICK path \in [1 .. n -> States] : \E at \in [Members(g) -> 1 .. n] :
                 /\ Way(g, n, path, at)
                 /\ \A v \in Members(g) : Home(ip[v]) = path[at[v]].place
  BY <1>10
<1>12. PICK at \in [Members(g) -> 1 .. n] :
                 /\ Way(g, n, path, at)
                 /\ \A v \in Members(g) : Home(ip[v]) = path[at[v]].place
  BY <1>11
<1>13. path[at[t]].place = i /\ path[at[u]].place = j
  BY <1>1, <1>3, <1>9, <1>12
<1>14. ASSUME code[i].op \in {"collect", "give"} PROVE j = i
  <2>1. code[j].op # "barrier"
    BY <1>8 DEF Straight
  <2>2. Ready /\ Way(g, n, path, at) /\ t \in Members(g) /\ u \in Members(g)
    BY <1>1, <1>2, <1>12
  <2>3. path[at[u]].place = path[at[t]].place
    <3>1. path[at[t]].place <= Len(code) /\ code[path[at[t]].place].op \in {"collect", "give"}
      BY <1>2, <1>13, <1>14, CodeFacts
    <3>2. path[at[u]].place <= Len(code) /\ code[path[at[u]].place].op # "barrier"
      BY <1>2, <1>13, <2>1, CodeFacts
    <3> QED BY <2>2, <3>1, <3>2, Fenced, ZenonT(90)
  <2> QED BY <1>13, <2>3
<1>15. ASSUME code[i].op = "hash" PROVE code[j].op = "hash"
  <2>1. Ready /\ Way(g, n, path, at) /\ t \in Members(g) /\ u \in Members(g)
    BY <1>1, <1>2, <1>12
  <2>2. code[i].what = "comm_values"
    BY <1>4, <1>15
  <2> QED BY <1>13, <1>15, <2>1, <2>2, AtTheEnd, ZenonT(90)
<1> QED BY <1>3, <1>6, <1>14, <1>15

\* With two dimensions the gated barrier lets work-items share an item: Pair looks
\* at the first dimension of their ids only.
GatedInOneDimension == Dim0 = Size \/ \A opts \in OptionSets : "barriers" \notin opts

-----------------------------------------------------------------------------

\* Even and odd ids.
LEMMA Parity ==
    ASSUME NEW p \in Nat
    PROVE  \E k \in Nat, r \in {0, 1} : p = 2 * k + r /\ p % 2 = r
<1>1. p % 2 \in {0, 1} /\ p \div 2 \in Nat /\ p = 2 * (p \div 2) + (p % 2)
  BY SMTT(30)
<1> QED BY <1>1

\* Who writes an item is the only one to access it.
LEMMA WriteAlone ==
    ASSUME GatedInOneDimension, Whole,
           NEW t \in WorkItems, NEW u \in WorkItems, t # u,
           NEW a \in Accesses(t), NEW b \in Accesses(u), a[1] = b[1], a[2] = "write"
    PROVE  FALSE
<1>1. PICK g \in Groups : g = Group(t) /\ g = Group(u) /\ t \in Members(g) /\ u \in Members(g)
  BY SameGroup, ItemIds DEF Members
<1>2. Running /\ Ready /\ DataOK /\ g \in Nat /\ g * Size \in Nat
  BY AccessKinds, SizesAssumption DEF Running, Groups
<1>3. PICK i \in 1 .. Len(code), j \in 1 .. Len(code) : ip[t] = i /\ ip[u] = j
  BY AccessKinds
<1>4. PICK x : x = a[1] /\ x = b[1]
  OBVIOUS
<1>5. /\ code[i].op # "init" /\ code[j].op # "init"
      /\ code[i].op = "give" => j = i
      /\ code[j].op = "hash" => code[i].op = "hash"
  <2>1. /\ code[ip[t]].op # "init" /\ (code[ip[t]].op \in {"collect", "give"} => ip[u] = ip[t])
    BY Together
  <2>2. /\ code[ip[u]].op # "init" /\ (code[ip[u]].op = "hash" => code[ip[t]].op = "hash")
    BY Together
  <2> QED BY <1>3, <2>1, <2>2
<1>6. \/ OwnAccess(t, x, "write") \/ BufferAccess(t, x, "write")
  <2>1. \/ OwnAccess(t, x, "write") \/ ReductionAccess(t, x, "write")
        \/ BufferAccess(t, x, "write") \/ InitAccess(t, x, "write")
        \/ HashAccess(t, x, "write")
    BY <1>4, AccessKinds
  <2> QED BY <1>3, <1>5, <2>1 DEF ReductionAccess, InitAccess, HashAccess
<1>7. \/ OwnAccess(u, x, b[2]) \/ ReductionAccess(u, x, b[2]) \/ BufferAccess(u, x, b[2])
      \/ HashAccess(u, x, b[2])
  <2>1. \/ OwnAccess(u, x, b[2]) \/ ReductionAccess(u, x, b[2])
        \/ BufferAccess(u, x, b[2]) \/ InitAccess(u, x, b[2])
        \/ HashAccess(u, x, b[2])
    BY <1>4, AccessKinds
  <2> QED BY <1>3, <1>5, <2>1 DEF InitAccess
<1>8. CASE OwnAccess(t, x, "write")
  <2>1. code[i].op = "store" /\ x[1] \in {"l_comm_values", "g_comm_values"}
        /\ (x[1] = "l_comm_values" => x[3] = tid[t] % Size)
        /\ (x[1] = "g_comm_values" => x[3] = tid[t])
    BY <1>3, <1>8 DEF OwnAccess
  <2>2. CASE OwnAccess(u, x, b[2])
    <3>1. /\ code[j].op = "store" \/ (code[j].op = "eval" /\ code[j].expr.source \in Spaces)
          /\ x[1] = "l_comm_values" => x[3] = tid[u] % Size
          /\ x[1] = "g_comm_values" => x[3] = tid[u]
      BY <1>3, <2>2 DEF OwnAccess
    <3>2. ~Pending(i) /\ ~Pending(j)
      BY <1>2, <2>1, <3>1, PendingFacts DEF Spaces
    <3>3. Own(t) = tid[t] /\ Own(u) = tid[u]
      BY <1>3, <3>2 DEF Own, OwnAt
    <3>4. tid[t] \in g * Size .. g * Size + Size - 1 /\ tid[u] \in g * Size .. g * Size + Size - 1
          /\ tid[t] # tid[u]
      BY <1>1, <1>2, <3>3 DEF Running, Owns
    <3>5. CASE x[1] = "g_comm_values"
      BY <2>1, <3>1, <3>4, <3>5
    <3>6. CASE x[1] = "l_comm_values"
      <4>1. tid[t] = g * Size + (tid[t] % Size) /\ tid[u] = g * Size + (tid[u] % Size)
        BY <3>4, ItemPosition
      <4> QED BY <2>1, <3>1, <3>4, <3>6, <4>1
    <3> QED BY <2>1, <3>5, <3>6
  <2>3. CASE ReductionAccess(u, x, b[2])
    BY <2>1, <2>3 DEF ReductionAccess
  <2>4. CASE BufferAccess(u, x, b[2])
    BY <2>1, <2>4 DEF BufferAccess
  <2>5. CASE HashAccess(u, x, b[2])
    BY <1>3, <1>5, <2>1, <2>5 DEF HashAccess
  <2> QED BY <1>7, <2>2, <2>3, <2>4, <2>5
<1>9. CASE BufferAccess(t, x, "write")
  <2>1. code[i].op = "give" /\ x = <<"lb", g, Pair(t)>>
    BY <1>1, <1>3, <1>9 DEF BufferAccess
  <2>2. code[j].op = "give"
    BY <1>5, <2>1
  <2>3. x = <<"lb", g, Pair(u)>>
    BY <1>1, <1>3, <1>7, <2>2 DEF OwnAccess, ReductionAccess, BufferAccess, HashAccess
  <2>4. Pair(t) = Pair(u)
    BY <2>1, <2>3
  <2>5. Dim0 = Size
    <3>1. ~NoGifts(code)
      BY <2>1 DEF NoGifts
    <3> QED BY <3>1 DEF GatedInOneDimension, Whole, Inv, CodeInv
  <2>6. Lid(t) \in Nat /\ Lid(t) < Size /\ Lid(u) \in Nat /\ Lid(u) < Size /\ Size \in Nat \ {0}
    BY ItemIds, SizesAssumption DEF Lids
  <2>7. Lid0(t) = Lid(t) /\ Lid0(u) = Lid(u)
    BY <2>5, <2>6 DEF Lid0
  <2>8. PICK p \in Nat, q \in Nat : p = Lid(t) /\ q = Lid(u)
    BY <2>6
  <2>9. Pair(t) = (IF p % 2 = 0 THEN p + 1 ELSE p - 1)
        /\ Pair(u) = (IF q % 2 = 0 THEN q + 1 ELSE q - 1)
    BY <2>7, <2>8 DEF Pair
  <2>10. p = q
    <3>1. PICK k \in Nat, r \in {0, 1} : p = 2 * k + r /\ p % 2 = r
      BY <2>8, Parity
    <3>2. PICK l \in Nat, s \in {0, 1} : q = 2 * l + s /\ q % 2 = s
      BY <2>8, Parity
    <3> DEFINE other(n, m) == IF m = 0 THEN n + 1 ELSE n - 1
    <3>3. other(p, r) = other(q, s)
      BY <2>4, <2>9, <3>1, <3>2
    <3>4. r = s /\ k = l
      BY <3>1, <3>2, <3>3
    <3> QED BY <3>1, <3>2, <3>4
  <2>11. t = <<Group(t), Lid(t)>> /\ u = <<Group(u), Lid(u)>>
    BY DEF Group, Lid, WorkItems
  <2> QED BY <1>1, <2>8, <2>10, <2>11
<1> QED BY <1>6, <1>8, <1>9

\* While a reduction goes on nobody reads its target.
LEMMA AtomicAlone ==
    ASSUME Whole, NEW t \in WorkItems, NEW u \in WorkItems, t # u,
           NEW a \in Accesses(t), NEW b \in Accesses(u), a[1] = b[1],
           a[2] = "atomic", b[2] = "read"
    PROVE  FALSE
<1>1. PICK x : x = a[1] /\ x = b[1]
  OBVIOUS
<1>2. ReductionAccess(t, x, "atomic")
  <2>1. \/ OwnAccess(t, x, "atomic") \/ ReductionAccess(t, x, "atomic")
        \/ BufferAccess(t, x, "atomic") \/ InitAccess(t, x, "atomic")
        \/ HashAccess(t, x, "atomic")
    BY <1>1, AccessKinds
  <2> QED BY <2>1 DEF OwnAccess, BufferAccess, InitAccess, HashAccess
<1>3. code[ip[t]].op = "atomic" /\ x[1] = "reduction"
  BY <1>2 DEF ReductionAccess
<1>4. \/ OwnAccess(u, x, "read") \/ ReductionAccess(u, x, "read")
      \/ BufferAccess(u, x, "read") \/ InitAccess(u, x, "read")
      \/ HashAccess(u, x, "read")
  BY <1>1, AccessKinds
<1>5. code[ip[u]].op = "collect"
  BY <1>3, <1>4 DEF OwnAccess, ReductionAccess, BufferAccess, InitAccess, HashAccess
<1>6. ip[t] = ip[u]
  BY <1>5, Together
<1> QED BY <1>3, <1>5, <1>6

\* No two work-items race.
LEMMA RaceFree ==
    ASSUME GatedInOneDimension
    PROVE  Whole => NoDataRace
<1> SUFFICES ASSUME Whole, NEW t \in WorkItems, NEW u \in WorkItems, t # u,
                    NEW a \in Accesses(t), NEW b \in Accesses(u), a[1] = b[1]
             PROVE  a[2] = b[2] /\ a[2] # "write"
  BY DEF NoDataRace
<1>1. a[2] \in {"read", "write", "atomic"} /\ b[2] \in {"read", "write", "atomic"}
  BY AccessKinds DEF OwnAccess, ReductionAccess, BufferAccess, InitAccess, HashAccess
<1>2. a[2] # "write"
  BY WriteAlone
<1>3. b[2] # "write"
  BY WriteAlone
<1>4. ~(a[2] = "atomic" /\ b[2] = "read")
  BY AtomicAlone
<1>5. ~(b[2] = "atomic" /\ a[2] = "read")
  BY AtomicAlone
<1> QED BY <1>1, <1>2, <1>3, <1>4, <1>5

-----------------------------------------------------------------------------

\* The work-items of a group meet at the barriers the code prints: nobody waits at
\* one barrier while another of the group waits at a different one or has left the
\* kernel. Barriers must not stand in sections, the rows of a CommStatement must not
\* be taken from the shared arrays, a reduction must not be divergent, and a group with
\* gated barriers must not be larger than their buffer.
THEOREM BarriersMeet ==
    ASSUME NoBarrierInSections, RowsReadNoBuffer, NoDivergentReductions, GatedBarriersFit
    PROVE  Spec => []BarriersConverge
<1>1. Init => Whole
  BY InitInv, InitData, InitLaid, InitWayInv DEF Whole
<1>2. Whole /\ [Next]_vars => Whole'
  BY NextWhole
<1>3. Whole => BarriersConverge
  BY Converged
<1> QED BY <1>1, <1>2, <1>3, PTL DEF Spec

\* A work-item holds a comm id of its own group, and no two of a group hold the same
\* id while they are at the same instruction: a StatementComm deals the ids out anew.
THEOREM TidsPermute ==
    ASSUME NoBarrierInSections, RowsReadNoBuffer, NoDivergentReductions, GatedBarriersFit
    PROVE  Spec => []TidsArePermutation
<1>1. Init => Whole
  BY InitInv, InitData, InitLaid, InitWayInv DEF Whole
<1>2. Whole /\ [Next]_vars => Whole'
  BY NextWhole
<1>3. Whole => TidsArePermutation
  BY IdsDiffer
<1> QED BY <1>1, <1>2, <1>3, PTL DEF Spec

\* No two work-items are ever about to access the same item of a shared array when
\* one of them writes it, and none reads the target of a reduction that another is
\* about to combine with. Gated barriers share items when a group has a second
\* dimension, and leave their buffer of 32 items when it is larger: CLSmith prevents
\* neither, so the option must be off then. Without it groups may be of any size.
THEOREM RacesNever ==
    ASSUME NoBarrierInSections, RowsReadNoBuffer, NoDivergentReductions, GatedInOneDimension,
           GatedBarriersFit
    PROVE  Spec => []NoDataRace
<1>1. Init => Whole
  BY InitInv, InitData, InitLaid, InitWayInv DEF Whole
<1>2. Whole /\ [Next]_vars => Whole'
  BY NextWhole
<1>3. Whole => NoDataRace
  BY RaceFree
<1> QED BY <1>1, <1>2, <1>3, PTL DEF Spec
=============================================================================
