--------------------------- MODULE WorkGroupProofs ---------------------------
(***************************************************************************)
(* Proofs about WorkGroup, for any number of groups and work-items and any *)
(* program: the body of an atomic section runs once, and work-items keep   *)
(* to the items of their group.                                            *)
(*                                                                         *)
(* The theorems are about the kernels in which no gated barrier lands in a *)
(* section: the others may stop (run barrier_in_section), and their        *)
(* sections are longer than the two instructions the argument is about.    *)
(***************************************************************************)
EXTENDS WorkGroup, TLAPS, SequenceTheorems

\* With both options on, no section has a gated barrier for its body.
NoBarrierInSections ==
    \A opts \in OptionSets : {"atomics", "barriers"} \subseteq opts =>
        \A s \in Statements : \A q \in Parts(s) : q.stm = "section" => q.body.stm # "barrier"

\* With gated barriers a group is no larger than their buffer: 32 items, where
\* CLSmith makes groups of up to 256 work-items.
GatedBarriersFit ==
    \/ \A t \in WorkItems : Lid(t) \in Items /\ Pair(t) \in Items
    \/ \A opts \in OptionSets : "barriers" \notin opts

-----------------------------------------------------------------------------
(* The exchange of items inside the buffer, and behind it                  *)

\* Taking an item that the work-item has, and giving one that its pair has.
TakeInside(t) ==
    /\ At(t, "take") /\ Lid(t) \in Items
    /\ reg' = [reg EXCEPT ![t] = (lb[Group(t)][Lid(t)] * Lid0(t)) % Modulus]
    /\ Step(t)
    /\ UNCHANGED <<generator, tid, v_collective, gate, digest, entered, comm, atomics, lb>>

GiveInside(t) ==
    /\ At(t, "give") /\ Pair(t) \in Items
    /\ lb' = [lb EXCEPT ![Group(t)][Pair(t)] = reg[t]]
    /\ Step(t)
    /\ UNCHANGED <<generator, private, comm, atomics>>

\* The same where there is no such item.
TakeBeyond(t) ==
    /\ At(t, "take") /\ Lid(t) \notin Items
    /\ \E junk \in UInt : reg' = [reg EXCEPT ![t] = (junk * Lid0(t)) % Modulus]
    /\ Step(t)
    /\ UNCHANGED <<generator, tid, v_collective, gate, digest, entered, comm, atomics, lb>>

GiveBeyond(t) ==
    /\ At(t, "give") /\ Pair(t) \notin Items
    /\ Overwrite(Group(t), reg[t])
    /\ Step(t)
    /\ UNCHANGED <<generator, private, g_comm_values, lb>>

\* An instruction that keeps to the buffer.
RunInside(t) ==
    \/ InitBuffers(t) \/ Evaluate(t) \/ Store(t) \/ Branch(t) \/ Permute(t)
    \/ Reduce(t) \/ Collect(t) \/ EnterSection(t) \/ LeaveSection(t)
    \/ TestGate(t) \/ TakeInside(t) \/ GiveInside(t) \/ ShutGate(t) \/ Hash(t)

\* A work-item takes and gives inside its buffer or behind it.
LEMMA ExchangeCases ==
    ASSUME NEW t
    PROVE  /\ TakeItem(t) => TakeInside(t) \/ TakeBeyond(t)
           /\ GiveItem(t) => GiveInside(t) \/ GiveBeyond(t)
<1>1. ASSUME TakeItem(t), Lid(t) \in Items PROVE TakeInside(t)
  BY <1>1 DEF TakeItem, TakeInside
<1>2. ASSUME TakeItem(t), Lid(t) \notin Items PROVE TakeBeyond(t)
  BY <1>2 DEF TakeItem, TakeBeyond
<1>3. ASSUME GiveItem(t), Pair(t) \in Items PROVE GiveInside(t)
  BY <1>3 DEF GiveItem, GiveInside
<1>4. ASSUME GiveItem(t), Pair(t) \notin Items PROVE GiveBeyond(t)
  BY <1>4 DEF GiveItem, GiveBeyond
<1> QED BY <1>1, <1>2, <1>3, <1>4

\* A step is one that keeps to the buffers, or an exchange behind one of them.
LEMMA NextCases ==
    ASSUME Next
    PROVE  \/ \E s \in Statements : AddStatement(s)
           \/ Launch
           \/ \E t \in WorkItems : RunInside(t)
           \/ \E t \in WorkItems : TakeBeyond(t) \/ GiveBeyond(t)
           \/ \E g \in Groups : PassBarrier(g)
           \/ Rest
<1>1. ASSUME NEW t \in WorkItems, RunItem(t) PROVE RunInside(t) \/ TakeBeyond(t) \/ GiveBeyond(t)
  BY <1>1, ExchangeCases DEF RunItem, RunInside
<1> QED BY <1>1 DEF Next

-----------------------------------------------------------------------------
(* The shape of emitted code                                               *)

\* A section is two instructions, and the second is reached from the first only:
\* jumps stay in the code or end right behind it, and never lead to a "result".
ShapeAt(c, i) ==
    /\ c[i].op = "section" =>
         /\ i < Len(c) /\ c[i].skip = 1
         /\ c[i + 1].op = "result"
         /\ c[i + 1].space = c[i].space /\ c[i + 1].counter = c[i].counter
    /\ c[i].op = "result" => i > 1 /\ c[i - 1].op = "section"
    /\ c[i].op \in {"branch", "gate"} =>
         /\ i + c[i].skip <= Len(c)
         /\ i + c[i].skip < Len(c) => c[i + c[i].skip + 1].op # "result"

Shape(c) == c \in Seq(Instruction) /\ \A i \in 1 .. Len(c) : ShapeAt(c, i)

NoSections(c) == \A i \in 1 .. Len(c) : c[i].op \notin {"section", "result"}

NoInit(c) == \A i \in 1 .. Len(c) : c[i].op # "init"

\* The code of an atomic section whose body uses its own variables only.
SectionCode(s) ==
    <<[op |-> "section", space |-> s.space, counter |-> s.counter, at |-> s.at, skip |-> 1],
      [op |-> "result", space |-> s.space, counter |-> s.counter, add |-> s.result]>>

\* The fields of the instructions that have a jump or a result.
LEMMA InstructionFields ==
    ASSUME NEW x \in Instruction
    PROVE  /\ x.op \in {"branch", "gate", "section"} => x.skip \in Nat
           /\ x.op = "result" => x.space \in Spaces /\ x.counter \in Nat /\ x.add \in Nat
<1>1. x.op \in {"branch", "gate", "section"} => x.skip \in Nat
  BY SMTT(30) DEF Instruction
<1>2. x.op = "result" => x.space \in Spaces /\ x.counter \in Nat /\ x.add \in Nat
  BY SMTT(30) DEF Instruction
<1> QED BY <1>1, <1>2

\* What OutputLeaf prints for each kind of leaf.
LEMMA LeafCases ==
    ASSUME NEW s
    PROVE  /\ s.stm = "nothing" => OutputLeaf(s) = <<>>
           /\ s.stm = "assign" => OutputLeaf(s) = OutputAssign(s)
           /\ s.stm = "comm" => OutputLeaf(s) = OutputComm(s)
           /\ s.stm = "reduction" => OutputLeaf(s) = OutputReduction(s)
           /\ s.stm = "barrier" => OutputLeaf(s) = OutputGatedBarrier
  BY DEF OutputLeaf

\* Leaves are code without sections.
LEMMA LeafShape ==
    ASSUME NEW s \in Leaf
    PROVE  Shape(OutputLeaf(s)) /\ NoSections(OutputLeaf(s)) /\ NoInit(OutputLeaf(s))
<1>1. CASE s \in [stm : {"nothing", "barrier"}]
  <2>1. CASE s.stm = "nothing"
    <3>1. OutputLeaf(s) = <<>> /\ <<>> \in Seq(Instruction) /\ Len(<<>>) = 0
      BY <2>1, LeafCases
    <3> QED BY <3>1 DEF Shape, NoSections, NoInit
  <2>2. CASE s.stm = "barrier"
    <3> DEFINE c == <<[op |-> "gate", skip |-> 5], [op |-> "take"], [op |-> "barrier"],
                      [op |-> "give"], [op |-> "barrier"], [op |-> "shut"]>>
    <3>1. OutputLeaf(s) = c
      BY <2>2, LeafCases DEF OutputGatedBarrier, Barrier
    <3>2. c \in Seq(Instruction) /\ Len(c) = 6
      BY DEF Instruction
    <3>3. \A i \in 1 .. 6 : ShapeAt(c, i) /\ c[i].op \notin {"section", "result", "init"}
      BY DEF ShapeAt
    <3> QED BY <3>1, <3>2, <3>3 DEF Shape, NoSections, NoInit
  <2> QED BY <1>1, <2>1, <2>2
<1>2. CASE s \in [stm : {"assign"}, space : Spaces, expr : Expression]
  <2> DEFINE c == <<[op |-> "eval", expr |-> s.expr], [op |-> "store", space |-> s.space]>>
  <2>1. OutputLeaf(s) = c
    BY <1>2, LeafCases DEF OutputAssign, Eval
  <2>2. c \in Seq(Instruction) /\ Len(c) = 2
    BY <1>2 DEF Instruction
  <2>3. \A i \in 1 .. 2 : ShapeAt(c, i) /\ c[i].op \notin {"section", "result", "init"}
    BY DEF ShapeAt
  <2> QED BY <2>1, <2>2, <2>3 DEF Shape, NoSections, NoInit
<1>3. CASE s \in [stm : {"comm"}, expr : Expression]
  <2> DEFINE c == <<[op |-> "barrier"], [op |-> "eval", expr |-> s.expr], [op |-> "permute"]>>
  <2>1. OutputLeaf(s) = c
    BY <1>3, LeafCases DEF OutputComm, Eval, Barrier
  <2>2. c \in Seq(Instruction) /\ Len(c) = 3
    BY <1>3 DEF Instruction
  <2>3. \A i \in 1 .. 3 : ShapeAt(c, i) /\ c[i].op \notin {"section", "result", "init"}
    BY DEF ShapeAt
  <2> QED BY <2>1, <2>2, <2>3 DEF Shape, NoSections, NoInit
<1>4. CASE s \in [stm : {"reduction"}, fn : AtomicFunctions, space : Spaces,
                  expr : Expression, addGlobal : BOOLEAN]
  <2> DEFINE c == <<[op |-> "eval", expr |-> s.expr],
                    [op |-> "atomic", fn |-> s.fn, space |-> s.space, addGlobal |-> s.addGlobal],
                    [op |-> "barrier"],
                    [op |-> "collect", space |-> s.space],
                    [op |-> "barrier"]>>
  <2>1. OutputLeaf(s) = c
    BY <1>4, LeafCases DEF OutputReduction, Eval, Barrier
  <2>2. c \in Seq(Instruction) /\ Len(c) = 5
    BY <1>4 DEF Instruction
  <2>3. \A i \in 1 .. 5 : ShapeAt(c, i) /\ c[i].op \notin {"section", "result", "init"}
    BY DEF ShapeAt
  <2> QED BY <2>1, <2>2, <2>3 DEF Shape, NoSections, NoInit
<1> QED BY <1>1, <1>2, <1>3, <1>4 DEF Leaf

\* The counters of the sections of c are in S.
SectionsIn(c, S) == \A i \in 1 .. Len(c) : c[i].op = "section" => c[i].counter \in S

\* Sections of c and d that share a counter are the same section.
Agree(c, d) ==
    \A i \in 1 .. Len(c), j \in 1 .. Len(d) :
        c[i].op = "section" /\ d[j].op = "section" /\ c[i].counter = d[j].counter =>
            c[i] = d[j] /\ c[i + 1] = d[j + 1]

\* Code whose sections have counters in S, one section to a counter.
Sound(c, S) == Shape(c) /\ SectionsIn(c, S) /\ Agree(c, c)

\* What a statement prints.
Piece(c, S) == Sound(c, S) /\ NoInit(c)

\* Code put after code keeps its shape: no jump of the first part leads into a
\* section of the second.
LEMMA JoinShape ==
    ASSUME NEW c, NEW d, Shape(c), Shape(d)
    PROVE  Shape(c \o d)
<1> DEFINE e == c \o d
<1>1. c \in Seq(Instruction) /\ d \in Seq(Instruction) /\ Len(c) \in Nat /\ Len(d) \in Nat
  BY LenProperties DEF Shape
<1>2. /\ e \in Seq(Instruction)
      /\ Len(e) = Len(c) + Len(d)
      /\ \A i \in 1 .. Len(c) + Len(d) : e[i] = IF i <= Len(c) THEN c[i] ELSE d[i - Len(c)]
  BY <1>1, ConcatProperties
<1> HIDE DEF e
<1>3. ASSUME NEW i \in 1 .. Len(e) PROVE ShapeAt(e, i)
  <2>1. CASE i <= Len(c)
    <3>1. ShapeAt(c, i) /\ e[i] = c[i] /\ i \in 1 .. Len(c)
      BY <1>1, <1>2, <1>3, <2>1 DEF Shape
    <3>2. c[i].op = "section" => i < Len(c) /\ e[i + 1] = c[i + 1]
      BY <1>1, <1>2, <3>1 DEF ShapeAt
    <3>3. c[i].op = "result" => i > 1 /\ e[i - 1] = c[i - 1]
      <4>1. c[i].op = "result" => i > 1
        BY <3>1 DEF ShapeAt
      <4>2. i > 1 => i - 1 \in 1 .. Len(c) + Len(d) /\ i - 1 <= Len(c)
        BY <1>1, <3>1
      <4> QED BY <1>2, <4>1, <4>2
    <3>4. ASSUME c[i].op \in {"branch", "gate"}
          PROVE  /\ i + c[i].skip <= Len(e)
                 /\ i + c[i].skip < Len(e) => e[i + c[i].skip + 1].op # "result"
      <4>0. c[i].skip \in Nat
        BY <1>1, <3>1, <3>4, ElementOfSeq DEF Instruction
      <4>1. i + c[i].skip <= Len(c)
        BY <3>1, <3>4 DEF ShapeAt
      <4>2. CASE i + c[i].skip < Len(c)
        <5>1. c[i + c[i].skip + 1].op # "result"
          BY <3>1, <3>4, <4>2 DEF ShapeAt
        <5>2. e[i + c[i].skip + 1] = c[i + c[i].skip + 1]
          BY <1>1, <1>2, <3>1, <4>0, <4>2
        <5> QED BY <1>1, <1>2, <4>0, <4>1, <5>1, <5>2
      <4>3. CASE i + c[i].skip = Len(c) /\ Len(d) > 0
        <5>1. d[1].op # "result"
          BY <1>1, <4>3 DEF Shape, ShapeAt
        <5>2. e[i + c[i].skip + 1] = d[1]
          <6>1. i + c[i].skip + 1 = Len(c) + 1
            BY <4>3
          <6>2. Len(c) + 1 \in 1 .. Len(c) + Len(d) /\ ~(Len(c) + 1 <= Len(c))
                /\ Len(c) + 1 - Len(c) = 1
            BY <1>1, <4>3
          <6> QED BY <1>2, <6>1, <6>2
        <5> QED BY <1>1, <1>2, <4>0, <4>1, <5>1, <5>2
      <4>4. CASE i + c[i].skip = Len(c) /\ Len(d) = 0
        BY <1>1, <1>2, <4>4
      <4> QED BY SMTT(30), <1>1, <4>0, <4>1, <4>2, <4>3, <4>4
    <3> QED BY <1>1, <1>2, <3>1, <3>2, <3>3, <3>4 DEF ShapeAt
  <2>2. CASE i > Len(c)
    <3> DEFINE k == i - Len(c)
    <3>1. ShapeAt(d, k) /\ e[i] = d[k] /\ k \in 1 .. Len(d)
      BY <1>1, <1>2, <1>3, <2>2 DEF Shape
    <3>2. d[k].op = "section" => k < Len(d) /\ e[i + 1] = d[k + 1]
      BY <1>1, <1>2, <3>1 DEF ShapeAt
    <3>3. d[k].op = "result" => k > 1 /\ e[i - 1] = d[k - 1]
      <4>1. d[k].op = "result" => k > 1
        BY <3>1 DEF ShapeAt
      <4>2. k > 1 => i - 1 \in 1 .. Len(c) + Len(d) /\ ~(i - 1 <= Len(c)) /\ i - 1 - Len(c) = k - 1
        BY <1>1, <1>2
      <4> QED BY <1>2, <4>1, <4>2
    <3>4. ASSUME d[k].op \in {"branch", "gate"}
          PROVE  /\ i + d[k].skip <= Len(e)
                 /\ i + d[k].skip < Len(e) => e[i + d[k].skip + 1].op # "result"
      <4>0. d[k].skip \in Nat
        <5>1. d[k] \in Instruction
          BY <1>1, <3>1, ElementOfSeq
        <5> QED BY <3>4, <5>1, InstructionFields
      <4>1. k + d[k].skip <= Len(d)
        BY <3>1, <3>4 DEF ShapeAt
      <4>2. CASE k + d[k].skip < Len(d)
        <5>1. d[k + d[k].skip + 1].op # "result"
          BY <3>1, <3>4, <4>2 DEF ShapeAt
        <5>2. e[i + d[k].skip + 1] = d[k + d[k].skip + 1]
          <6> DEFINE n == i + d[k].skip + 1
          <6>1. n \in 1 .. Len(c) + Len(d) /\ ~(n <= Len(c)) /\ n - Len(c) = k + d[k].skip + 1
            <7>1. i \in Int /\ d[k].skip \in Nat /\ Len(c) \in Nat /\ Len(d) \in Nat
              BY <1>1, <1>2, <4>0
            <7>2. i > Len(c) /\ i - Len(c) + d[k].skip < Len(d)
              BY <2>2, <4>2
            <7> HIDE DEF k
            <7>3. k = i - Len(c)
              BY DEF k
            <7> QED BY SMTT(30), <7>1, <7>2, <7>3
          <6>2. e[n] = d[n - Len(c)]
            BY <1>2, <6>1
          <6> QED BY <6>1, <6>2
        <5> QED BY <1>1, <1>2, <4>0, <4>1, <5>1, <5>2
      <4> QED BY SMTT(30), <1>1, <1>2, <3>1, <4>0, <4>1, <4>2
    <3> QED BY <1>1, <1>2, <3>1, <3>2, <3>3, <3>4 DEF ShapeAt
  <2> QED BY <1>1, <1>2, <1>3, <2>1, <2>2
<1> QED BY <1>2, <1>3 DEF Shape, e

\* What is emitted keeps one section to a counter: the code before and the code
\* that is added either are the same or have no counter in common.
LEMMA JoinSound ==
    ASSUME NEW c, NEW d, NEW S, NEW T, Sound(c, S), Sound(d, T), Agree(c, d), Agree(d, c)
    PROVE  Sound(c \o d, S \cup T)
<1> DEFINE e == c \o d
<1>1. c \in Seq(Instruction) /\ d \in Seq(Instruction) /\ Len(c) \in Nat /\ Len(d) \in Nat
  BY LenProperties DEF Shape, Sound
<1>2. /\ Len(e) = Len(c) + Len(d)
      /\ \A i \in 1 .. Len(c) + Len(d) : e[i] = IF i <= Len(c) THEN c[i] ELSE d[i - Len(c)]
  BY <1>1, ConcatProperties
<1>3. Shape(e)
  BY JoinShape DEF Sound
<1> HIDE DEF e
<1>4. SectionsIn(e, S \cup T)
  <2> SUFFICES ASSUME NEW i \in 1 .. Len(e)
               PROVE  e[i].op = "section" => e[i].counter \in S \cup T
    BY DEF SectionsIn
  <2>1. CASE i <= Len(c)
    <3>1. i \in 1 .. Len(c) /\ e[i] = c[i]
      BY <1>1, <1>2, <2>1
    <3> QED BY <3>1 DEF SectionsIn, Sound
  <2>2. CASE ~(i <= Len(c))
    <3>1. i - Len(c) \in 1 .. Len(d) /\ e[i] = d[i - Len(c)]
      BY <1>1, <1>2, <2>2
    <3> QED BY <3>1 DEF SectionsIn, Sound
  <2> QED BY <2>1, <2>2
<1>5. ASSUME NEW i \in 1 .. Len(e), e[i].op = "section"
      PROVE  \/ /\ i \in 1 .. Len(c) /\ e[i] = c[i] /\ e[i + 1] = c[i + 1]
             \/ \E k \in 1 .. Len(d) : i = Len(c) + k /\ e[i] = d[k] /\ e[i + 1] = d[k + 1]
  <2>1. CASE i <= Len(c)
    <3>1. e[i] = c[i] /\ ShapeAt(c, i)
      BY <1>1, <1>2, <2>1 DEF Shape, Sound
    <3>2. i < Len(c)
      BY <1>5, <3>1 DEF ShapeAt
    <3> QED BY <1>1, <1>2, <3>1, <3>2
  <2>2. CASE i > Len(c)
    <3>1. e[i] = d[i - Len(c)] /\ i - Len(c) \in 1 .. Len(d) /\ ShapeAt(d, i - Len(c))
      BY <1>1, <1>2, <2>2 DEF Shape, Sound
    <3>2. i - Len(c) < Len(d)
      BY <1>5, <3>1 DEF ShapeAt
    <3>3. e[i + 1] = d[i - Len(c) + 1]
      BY <1>1, <1>2, <2>2, <3>1, <3>2
    <3> QED BY <1>1, <1>2, <3>1, <3>3
  <2> QED BY <1>1, <1>2, <2>1, <2>2
<1>6. Agree(e, e)
  <2> SUFFICES ASSUME NEW i \in 1 .. Len(e), NEW j \in 1 .. Len(e),
                      e[i].op = "section", e[j].op = "section", e[i].counter = e[j].counter
               PROVE  e[i] = e[j] /\ e[i + 1] = e[j + 1]
    BY DEF Agree
  <2> DEFINE InFirst(x) == x \in 1 .. Len(c) /\ e[x] = c[x] /\ e[x + 1] = c[x + 1]
             InSecond(x, k) == k \in 1 .. Len(d) /\ e[x] = d[k] /\ e[x + 1] = d[k + 1]
  <2>1. InFirst(i) \/ \E k : InSecond(i, k)
    BY <1>5
  <2>2. InFirst(j) \/ \E k : InSecond(j, k)
    BY <1>5
  <2>3. CASE InFirst(i) /\ InFirst(j)
    BY <2>3 DEF Agree, Sound
  <2>4. ASSUME NEW k, InFirst(i), InSecond(j, k) PROVE e[i] = e[j] /\ e[i + 1] = e[j + 1]
    BY <2>4 DEF Agree
  <2>5. ASSUME NEW k, InSecond(i, k), InFirst(j) PROVE e[i] = e[j] /\ e[i + 1] = e[j + 1]
    BY <2>5 DEF Agree
  <2>6. ASSUME NEW k, NEW m, InSecond(i, k), InSecond(j, m)
        PROVE  e[i] = e[j] /\ e[i + 1] = e[j + 1]
    BY <2>6 DEF Agree, Sound
  <2> HIDE DEF InFirst, InSecond
  <2> QED BY <2>1, <2>2, <2>3, <2>4, <2>5, <2>6
<1> QED BY <1>3, <1>4, <1>6 DEF Sound, e

\* The first instruction alone initialises, if it does in the code before and
\* nothing that is added does.
LEMMA JoinNoInit ==
    ASSUME NEW c \in Seq(Instruction), NEW d \in Seq(Instruction), NoInit(d)
    PROVE  \A i \in 1 .. Len(c \o d) : (c \o d)[i].op = "init" =>
                i \in 1 .. Len(c) /\ c[i].op = "init"
<1> DEFINE e == c \o d
<1>1. Len(c) \in Nat /\ Len(d) \in Nat
  BY LenProperties
<1>2. /\ Len(e) = Len(c) + Len(d)
      /\ \A i \in 1 .. Len(c) + Len(d) : e[i] = IF i <= Len(c) THEN c[i] ELSE d[i - Len(c)]
  BY ConcatProperties
<1> HIDE DEF e
<1>3. ASSUME NEW i \in 1 .. Len(e), e[i].op = "init"
      PROVE  i \in 1 .. Len(c) /\ c[i].op = "init"
  <2>1. CASE i <= Len(c)
    <3>1. i \in 1 .. Len(c) /\ e[i] = c[i]
      BY <1>1, <1>2, <2>1
    <3> QED BY <1>3, <3>1
  <2>2. CASE ~(i <= Len(c))
    <3>1. i - Len(c) \in 1 .. Len(d) /\ e[i] = d[i - Len(c)]
      BY <1>1, <1>2, <2>2
    <3> QED BY <1>3, <3>1 DEF NoInit
  <2> QED BY <2>1, <2>2
<1> QED BY <1>3 DEF e

\* A leaf is a piece without sections.
LEMMA LeafPiece ==
    ASSUME NEW s \in Leaf, NEW S
    PROVE  Piece(OutputLeaf(s), S)
BY LeafShape DEF Piece, Sound, NoSections, SectionsIn, Agree

\* A section whose body uses its own variables only is its two instructions.
LEMMA SectionOutput ==
    ASSUME NEW s \in Section, s.body.stm = "nothing"
    PROVE  OutputSimple(s) = SectionCode(s)
<1> DEFINE c == SectionCode(s)
<1>1. s.stm = "section" /\ OutputLeaf(s.body) = <<>>
  BY LeafCases DEF Section
<1> DEFINE first == [op |-> "section", space |-> s.space, counter |-> s.counter,
                     at |-> s.at, skip |-> 1]
           last == [op |-> "result", space |-> s.space, counter |-> s.counter,
                    add |-> s.result]
<1>2. OutputSimple(s) = OutputSection(s, <<>>)
  BY <1>1 DEF OutputSimple
<1>3. OutputSection(s, <<>>) = <<first>> \o <<>> \o <<last>>
  <2>1. Len(<<>>) + 1 = 1
    OBVIOUS
  <2> QED BY <2>1 DEF OutputSection
<1>4. c = <<first, last>>
  BY DEF SectionCode
<1>5. <<first>> \in Seq({first, last}) /\ <<last>> \in Seq({first, last})
  OBVIOUS
<1> HIDE DEF first, last, c
<1>6. <<first>> \o <<>> = <<first>>
  BY <1>5, ConcatEmptySeq
<1>7. <<first>> \o <<last>> = <<first, last>>
  <2> DEFINE joined == <<first>> \o <<last>>
  <2>1. Len(<<first>>) = 1 /\ Len(<<last>>) = 1
    OBVIOUS
  <2>2. /\ joined \in Seq({first, last}) /\ Len(joined) = 2
        /\ \A i \in 1 .. 2 : joined[i] = IF i <= 1 THEN <<first>>[i] ELSE <<last>>[i - 1]
    BY <1>5, <2>1, ConcatProperties
  <2>3. <<first, last>> \in Seq({first, last}) /\ Len(<<first, last>>) = 2
    OBVIOUS
  <2>4. \A i \in 1 .. 2 : joined[i] = <<first, last>>[i]
    BY <2>2
  <2> HIDE DEF joined
  <2>5. joined = <<first, last>>
    BY <2>2, <2>3, <2>4, SeqEqual
  <2> QED BY <2>5 DEF joined
<1> QED BY <1>2, <1>3, <1>4, <1>6, <1>7 DEF c

\* It is a piece.
LEMMA SectionPiece ==
    ASSUME NEW s \in Section, s.body.stm = "nothing", NEW S, s.counter \in S
    PROVE  Piece(OutputSimple(s), S)
<1> DEFINE c == SectionCode(s)
<1>1. OutputSimple(s) = c
  BY SectionOutput
<1>2. c \in Seq(Instruction) /\ Len(c) = 2
  BY DEF Instruction, Section, SectionCode
<1>3. /\ c[1].op = "section" /\ c[1].skip = 1 /\ c[1].counter = s.counter /\ c[1].space = s.space
      /\ c[2].op = "result" /\ c[2].counter = s.counter /\ c[2].space = s.space
  BY DEF SectionCode
<1> HIDE DEF c
<1>4. \A i \in 1 .. 2 : ShapeAt(c, i)
  BY <1>2, <1>3 DEF ShapeAt
<1>5. NoInit(c) /\ SectionsIn(c, S) /\ Agree(c, c)
  BY <1>2, <1>3 DEF NoInit, SectionsIn, Agree
<1> QED BY <1>1, <1>2, <1>4, <1>5 DEF Piece, Sound, Shape

\* A branch around a piece is a piece: it jumps to the end.
LEMMA IfPiece ==
    ASSUME NEW b, NEW S, Piece(b, S), NEW e \in Expression
    PROVE  Piece(<<Eval(e), [op |-> "branch", skip |-> Len(b)]>> \o b, S)
<1> DEFINE h == <<Eval(e), [op |-> "branch", skip |-> Len(b)]>>
           c == h \o b
<1>1. b \in Seq(Instruction) /\ Len(b) \in Nat
  BY LenProperties DEF Piece, Sound, Shape
<1>2. h \in Seq(Instruction) /\ Len(h) = 2
  BY <1>1 DEF Instruction, Eval
<1>3. h[1].op = "eval" /\ h[2].op = "branch" /\ h[2].skip = Len(b)
  BY DEF Eval
<1> HIDE DEF h
<1>4. /\ c \in Seq(Instruction)
      /\ Len(c) = 2 + Len(b)
      /\ \A i \in 1 .. 2 + Len(b) : c[i] = IF i <= 2 THEN h[i] ELSE b[i - 2]
  <2>1. /\ c \in Seq(Instruction) /\ Len(c) = Len(h) + Len(b)
        /\ \A i \in 1 .. Len(h) + Len(b) : c[i] = IF i <= Len(h) THEN h[i] ELSE b[i - Len(h)]
    BY <1>1, <1>2, ConcatProperties
  <2> HIDE DEF c
  <2> QED BY <1>2, <2>1
<1> HIDE DEF c
<1>5. c[1] = h[1] /\ c[2] = h[2]
  BY <1>1, <1>4
<1>6. \A k \in 1 .. Len(b) : c[k + 2] = b[k]
  <2> TAKE k \in 1 .. Len(b)
  <2>1. k + 2 \in 1 .. 2 + Len(b) /\ ~(k + 2 <= 2) /\ k + 2 - 2 = k
    BY <1>1
  <2> QED BY <1>4, <2>1
<1>7. ASSUME NEW i \in 1 .. Len(c)
      PROVE  i = 1 \/ i = 2 \/ \E k \in 1 .. Len(b) : i = k + 2
  <2>1. i = 1 \/ i = 2 \/ (i - 2 \in 1 .. Len(b) /\ i = (i - 2) + 2)
    BY <1>1, <1>4
  <2> QED BY <2>1
<1>8. ShapeAt(c, 1) /\ ShapeAt(c, 2)
  BY <1>1, <1>3, <1>4, <1>5 DEF ShapeAt
<1>9. ASSUME NEW k \in 1 .. Len(b) PROVE ShapeAt(c, k + 2)
  <2>1. ShapeAt(b, k) /\ c[k + 2] = b[k]
    BY <1>6 DEF Piece, Sound, Shape
  <2>2. b[k].op = "section" => k + 2 < Len(c) /\ k + 2 + 1 = k + 1 + 2 /\ c[k + 1 + 2] = b[k + 1]
    BY <1>1, <1>4, <1>6, <2>1 DEF ShapeAt
  <2>3. b[k].op = "result" => k + 2 > 1 /\ k + 2 - 1 = k - 1 + 2 /\ c[k - 1 + 2] = b[k - 1]
    <3>1. b[k].op = "result" => k - 1 \in 1 .. Len(b)
      BY <1>1, <2>1 DEF ShapeAt
    <3> QED BY <1>1, <1>6, <3>1
  <2>4. ASSUME b[k].op \in {"branch", "gate"}
        PROVE  /\ k + 2 + b[k].skip <= Len(c)
               /\ k + 2 + b[k].skip < Len(c) => c[k + 2 + b[k].skip + 1].op # "result"
    <3>1. b[k].skip \in Nat
      BY <1>1, <2>4, ElementOfSeq DEF Instruction
    <3>2. k + b[k].skip <= Len(b) /\ (k + b[k].skip < Len(b) => b[k + b[k].skip + 1].op # "result")
      BY <2>1, <2>4 DEF ShapeAt
    <3>3. k + 2 + b[k].skip + 1 = k + b[k].skip + 1 + 2
      BY <3>1
    <3>4. k + b[k].skip < Len(b) => k + b[k].skip + 1 \in 1 .. Len(b)
      BY <1>1, <3>1
    <3>5. k + b[k].skip < Len(b) => c[k + b[k].skip + 1 + 2] = b[k + b[k].skip + 1]
      BY <1>6, <3>4
    <3>6. k + 2 + b[k].skip <= Len(c) /\ (k + 2 + b[k].skip < Len(c) => k + b[k].skip < Len(b))
      BY <1>1, <1>4, <3>1, <3>2
    <3> QED BY <3>2, <3>3, <3>5, <3>6
  <2> QED BY <2>1, <2>2, <2>3, <2>4 DEF ShapeAt
<1>10. Shape(c)
  BY <1>4, <1>7, <1>8, <1>9 DEF Shape
<1>11. NoInit(c) /\ SectionsIn(c, S)
  BY <1>3, <1>5, <1>6, <1>7 DEF NoInit, SectionsIn, Piece, Sound
<1>12. \A i \in 1 .. Len(c) : c[i].op = "section" =>
         \E k \in 1 .. Len(b) : c[i] = b[k] /\ c[i + 1] = b[k + 1]
  <2> SUFFICES ASSUME NEW i \in 1 .. Len(c), c[i].op = "section"
               PROVE  \E k \in 1 .. Len(b) : c[i] = b[k] /\ c[i + 1] = b[k + 1]
    OBVIOUS
  <2>1. PICK k \in 1 .. Len(b) : i = k + 2
    BY <1>3, <1>5, <1>7
  <2>2. c[i] = b[k] /\ ShapeAt(b, k)
    BY <1>6, <2>1 DEF Piece, Sound, Shape
  <2>3. k + 1 \in 1 .. Len(b) /\ i + 1 = k + 1 + 2
    BY <1>1, <2>1, <2>2 DEF ShapeAt
  <2> QED BY <1>6, <2>2, <2>3
<1>13. Agree(c, c)
  <2> SUFFICES ASSUME NEW i \in 1 .. Len(c), NEW j \in 1 .. Len(c),
                      c[i].op = "section", c[j].op = "section", c[i].counter = c[j].counter
               PROVE  c[i] = c[j] /\ c[i + 1] = c[j + 1]
    BY DEF Agree
  <2>1. PICK k \in 1 .. Len(b) : c[i] = b[k] /\ c[i + 1] = b[k + 1]
    BY <1>12
  <2>2. PICK m \in 1 .. Len(b) : c[j] = b[m] /\ c[j + 1] = b[m + 1]
    BY <1>12
  <2> QED BY <2>1, <2>2 DEF Agree, Piece, Sound
<1> QED BY <1>10, <1>11, <1>13 DEF Piece, Sound, c, h

\* What a statement prints, if the generator accepts it.
LEMMA StatementPiece ==
    ASSUME NEW s \in Statement,
           \A q \in Parts(s) : q.stm = "section" => q.body.stm = "nothing"
    PROVE  Piece(OutputStatement(s), CountersOf(s))
<1>1. s \in Parts(s) /\ (HasBody(s) => s.body \in Parts(s))
  BY DEF Parts
<1>2. ASSUME NEW q \in Simple, q \in Parts(s) PROVE Piece(OutputSimple(q), CountersOf(s))
  <2>1. CASE q \in Section
    <3>1. q.stm = "section"
      BY <2>1 DEF Section
    <3>2. q.body.stm = "nothing" /\ q.counter \in CountersOf(s)
      BY <1>2, <3>1 DEF CountersOf
    <3> QED BY <2>1, <3>2, SectionPiece
  <2>2. CASE q \in Leaf
    <3>1. q.stm # "section"
      BY <2>2 DEF Leaf
    <3>2. OutputSimple(q) = OutputLeaf(q)
      BY <3>1 DEF OutputSimple
    <3> QED BY <2>2, <3>2, LeafPiece
  <2> QED BY <1>2, <2>1, <2>2 DEF Simple
<1>3. CASE s \in Simple
  <2>1. s.stm \notin {"if", "for"}
    BY <1>3 DEF Simple, Leaf, Section
  <2> QED BY <1>1, <1>2, <1>3, <2>1 DEF OutputStatement
<1>4. CASE s \in [stm : {"if"}, expr : Expression, body : Simple]
  <2>1. s.stm = "if" /\ s.expr \in Expression /\ s.body \in Simple /\ s.body \in Parts(s)
    BY <1>1, <1>4 DEF HasBody
  <2>2. Piece(OutputSimple(s.body), CountersOf(s))
    BY <1>2, <2>1
  <2>3. OutputStatement(s) = <<Eval(s.expr), [op |-> "branch", skip |-> Len(OutputSimple(s.body))]>>
                               \o OutputSimple(s.body)
    BY <2>1 DEF OutputStatement, OutputIf
  <2> QED BY <2>1, <2>2, <2>3, IfPiece
<1>5. CASE s \in [stm : {"for"}, body : Simple]
  <2> DEFINE b == OutputSimple(s.body)
  <2>1. s.stm = "for" /\ s.body \in Simple /\ s.body \in Parts(s)
    BY <1>1, <1>5 DEF HasBody
  <2>2. Piece(b, CountersOf(s))
    BY <1>2, <2>1
  <2>3. OutputStatement(s) = b \o b
    BY <2>1 DEF OutputStatement, OutputFor
  <2> HIDE DEF b
  <2>4. Sound(b \o b, CountersOf(s) \cup CountersOf(s))
    BY <2>2, JoinSound DEF Piece, Sound
  <2>5. CountersOf(s) \cup CountersOf(s) = CountersOf(s)
    OBVIOUS
  <2>6. b \in Seq(Instruction) /\ NoInit(b)
    BY <2>2 DEF Piece, Sound, Shape
  <2>7. NoInit(b \o b)
    BY <2>6, JoinNoInit DEF NoInit
  <2> QED BY <2>3, <2>4, <2>5, <2>7 DEF Piece
<1> QED BY <1>3, <1>4, <1>5 DEF Statement

\* The end of the entry function has no section.
LEMMA EpiloguePiece == ASSUME NEW S PROVE Piece(Epilogue, S)
<1> DEFINE c == Epilogue
<1>1. c \in Seq(Instruction) /\ Len(c) = 7
  BY DEF Epilogue, Instruction, Barrier
<1>2. \A i \in 1 .. 7 : c[i].op \in {"barrier", "hash"}
  BY DEF Epilogue, Barrier
<1> HIDE DEF c
<1>3. Shape(c)
  BY <1>1, <1>2 DEF Shape, ShapeAt
<1>4. SectionsIn(c, S) /\ Agree(c, c) /\ NoInit(c)
  BY <1>1, <1>2 DEF SectionsIn, Agree, NoInit
<1> QED BY <1>3, <1>4 DEF Piece, Sound, c

-----------------------------------------------------------------------------
(* Code without gated barriers                                             *)

\* Code without a gated barrier.
NoGifts(c) == \A i \in 1 .. Len(c) : c[i].op \notin {"take", "give"}

\* Code without gated barriers is put together to such code.
LEMMA JoinNoGifts ==
    ASSUME NEW c \in Seq(Instruction), NEW d \in Seq(Instruction), NoGifts(c), NoGifts(d)
    PROVE  NoGifts(c \o d)
<1> DEFINE e == c \o d
<1>1. Len(c) \in Nat /\ Len(d) \in Nat
  BY LenProperties
<1>2. /\ Len(e) = Len(c) + Len(d)
      /\ \A i \in 1 .. Len(c) + Len(d) : e[i] = IF i <= Len(c) THEN c[i] ELSE d[i - Len(c)]
  BY <1>1, ConcatProperties
<1> HIDE DEF e
<1>3. ASSUME NEW i \in 1 .. Len(e) PROVE e[i].op \notin {"take", "give"}
  <2>1. CASE i <= Len(c)
    BY <1>1, <1>2, <2>1 DEF NoGifts
  <2>2. CASE ~(i <= Len(c))
    <3>1. i - Len(c) \in 1 .. Len(d) /\ e[i] = d[i - Len(c)]
      BY <1>1, <1>2, <2>2
    <3> QED BY <3>1 DEF NoGifts
  <2> QED BY <2>1, <2>2
<1> QED BY <1>3 DEF NoGifts, e

\* Statements without a gated barrier print such code.
LEMMA LeafNoGifts ==
    ASSUME NEW s \in Leaf, s.stm # "barrier"
    PROVE  OutputLeaf(s) \in Seq(Instruction) /\ NoGifts(OutputLeaf(s))
<1>1. OutputLeaf(s) \in Seq(Instruction)
  BY LeafShape DEF Shape
<1>2. s.stm \in {"nothing", "assign", "comm", "reduction"}
  BY DEF Leaf
<1>3. CASE s.stm = "nothing"
  <2>1. OutputLeaf(s) = <<>> /\ Len(<<>>) = 0
    BY <1>3, LeafCases
  <2> QED BY <1>1, <2>1 DEF NoGifts
<1>4. CASE s.stm = "assign"
  <2> DEFINE c == <<[op |-> "eval", expr |-> s.expr], [op |-> "store", space |-> s.space]>>
  <2>1. OutputLeaf(s) = c
    BY <1>4, LeafCases DEF OutputAssign, Eval
  <2>2. Len(c) = 2 /\ c[1].op = "eval" /\ c[2].op = "store"
    OBVIOUS
  <2> HIDE DEF c
  <2>3. NoGifts(c)
    BY <2>2 DEF NoGifts
  <2> QED BY <1>1, <2>1, <2>3
<1>5. CASE s.stm = "comm"
  <2> DEFINE c == <<[op |-> "barrier"], [op |-> "eval", expr |-> s.expr], [op |-> "permute"]>>
  <2>1. OutputLeaf(s) = c
    BY <1>5, LeafCases DEF OutputComm, Eval, Barrier
  <2>2. Len(c) = 3 /\ c[1].op = "barrier" /\ c[2].op = "eval" /\ c[3].op = "permute"
    OBVIOUS
  <2> HIDE DEF c
  <2>3. NoGifts(c)
    BY <2>2 DEF NoGifts
  <2> QED BY <1>1, <2>1, <2>3
<1>6. CASE s.stm = "reduction"
  <2> DEFINE c == <<[op |-> "eval", expr |-> s.expr],
                    [op |-> "atomic", fn |-> s.fn, space |-> s.space, addGlobal |-> s.addGlobal],
                    [op |-> "barrier"],
                    [op |-> "collect", space |-> s.space],
                    [op |-> "barrier"]>>
  <2>1. OutputLeaf(s) = c
    BY <1>6, LeafCases DEF OutputReduction, Eval, Barrier
  <2>2. /\ Len(c) = 5 /\ c[1].op = "eval" /\ c[2].op = "atomic" /\ c[3].op = "barrier"
        /\ c[4].op = "collect" /\ c[5].op = "barrier"
    OBVIOUS
  <2> HIDE DEF c
  <2>3. NoGifts(c)
    BY <2>2 DEF NoGifts
  <2> QED BY <1>1, <2>1, <2>3
<1> QED BY <1>1, <1>2, <1>3, <1>4, <1>5, <1>6

\* So do statements whose parts are not gated barriers.
LEMMA StatementNoGifts ==
    ASSUME NEW s \in Statement,
           \A q \in Parts(s) : q.stm # "barrier" /\ (q.stm = "section" => q.body.stm = "nothing")
    PROVE  OutputStatement(s) \in Seq(Instruction) /\ NoGifts(OutputStatement(s))
<1>0. OutputStatement(s) \in Seq(Instruction)
  BY StatementPiece DEF Piece, Sound, Shape
<1>1. s \in Parts(s) /\ (HasBody(s) => s.body \in Parts(s))
  BY DEF Parts
<1>2. ASSUME NEW q \in Simple, q \in Parts(s)
      PROVE  OutputSimple(q) \in Seq(Instruction) /\ NoGifts(OutputSimple(q))
  <2>1. CASE q \in Section
    <3>1. q.stm = "section"
      BY <2>1 DEF Section
    <3>2. OutputSimple(q) = SectionCode(q)
      BY <1>2, <2>1, <3>1, SectionOutput
    <3>3. SectionCode(q) \in Seq(Instruction)
      BY <2>1 DEF Instruction, Section, SectionCode
    <3> QED BY <3>2, <3>3 DEF NoGifts, SectionCode
  <2>2. CASE q \in Leaf
    <3>1. q.stm # "section"
      BY <2>2 DEF Leaf
    <3>2. OutputSimple(q) = OutputLeaf(q)
      BY <3>1 DEF OutputSimple
    <3> QED BY <1>2, <2>2, <3>2, LeafNoGifts
  <2> QED BY <1>2, <2>1, <2>2 DEF Simple
<1>3. CASE s \in Simple
  <2>1. s.stm \notin {"if", "for"}
    BY <1>3 DEF Simple, Leaf, Section
  <2> QED BY <1>1, <1>2, <1>3, <2>1 DEF OutputStatement
<1>4. CASE s \in [stm : {"if"}, expr : Expression, body : Simple]
  <2> DEFINE b == OutputSimple(s.body)
             h == <<Eval(s.expr), [op |-> "branch", skip |-> Len(b)]>>
  <2>1. s.stm = "if" /\ s.expr \in Expression /\ s.body \in Simple /\ s.body \in Parts(s)
    BY <1>1, <1>4 DEF HasBody
  <2>2. b \in Seq(Instruction) /\ NoGifts(b) /\ Len(b) \in Nat
    BY <1>2, <2>1, LenProperties
  <2>3. OutputStatement(s) = h \o b
    BY <2>1 DEF OutputStatement, OutputIf
  <2> HIDE DEF b
  <2>4. h \in Seq(Instruction) /\ NoGifts(h)
    BY <2>1, <2>2 DEF Instruction, Eval, NoGifts
  <2> HIDE DEF h
  <2> QED BY <1>0, <2>2, <2>3, <2>4, JoinNoGifts
<1>5. CASE s \in [stm : {"for"}, body : Simple]
  <2>1. s.stm = "for" /\ s.body \in Simple /\ s.body \in Parts(s)
    BY <1>1, <1>5 DEF HasBody
  <2>2. OutputStatement(s) = OutputSimple(s.body) \o OutputSimple(s.body)
    BY <2>1 DEF OutputStatement, OutputFor
  <2> QED BY <1>0, <1>2, <2>1, <2>2, JoinNoGifts
<1> QED BY <1>3, <1>4, <1>5 DEF Statement

-----------------------------------------------------------------------------
(* The inductive invariant                                                 *)

\* The kernel begins with the initialisation and a barrier, each counter that is
\* no longer free belongs to one section, and gated barriers need the option.
CodeInv ==
    /\ cl_options \in OptionSets
    /\ free_counters \subseteq Counters
    /\ Sound(code, Counters \ free_counters)
    /\ Len(code) >= 2 /\ code[1].op = "init" /\ code[2].op = "barrier"
    /\ \A i \in 1 .. Len(code) : code[i].op = "init" => i = 1
    /\ (\A opts \in OptionSets : "barriers" \notin opts) => NoGifts(code)

\* The types the argument needs.
TypeInv ==
    /\ phase \in {"generate", "run"}
    /\ ip \in [WorkItems -> Nat \ {0}]
    /\ counter \in [Spaces -> [Groups -> [Counters -> Nat]]]
    /\ special \in [Spaces -> [Groups -> [Counters -> Nat]]]

\* Nothing has run before the launch.
GenerateInv ==
    phase = "generate" =>
        /\ \A t \in WorkItems : ip[t] = 1
        /\ \A g \in Groups, c \in Counters :
              counter["global"][g][c] = 0 /\ special["global"][g][c] = 0

\* Nobody is past the first barrier while a work-item of its group is before it.
StartInv ==
    \A t, u \in WorkItems : Group(t) = Group(u) /\ ip[t] > 2 => ip[u] >= 2

\* The work-item is about to leave the section with this counter.
AtResult(t, sp, c) ==
    At(t, "result") /\ code[ip[t]].space = sp /\ code[ip[t]].counter = c

\* entered is where the work-items are.
EnteredInv ==
    /\ entered \subseteq WorkItems \X Spaces \X Counters
    /\ \A t \in WorkItems, sp \in Spaces, c \in Counters :
          <<t, sp, c>> \in entered <=> AtResult(t, sp, c)

Inside(g, sp, c) == {t \in Members(g) : <<t, sp, c>> \in entered}

Initialised(g, sp) == sp = "global" \/ ip[<<g, 0>>] > 1

\* Until the counter has passed the mark of its section nobody has been inside;
\* then one work-item is, or has left its result.
SectionRun(g, s, add) ==
    LET k == counter[s.space][g][s.counter]
        x == special[s.space][g][s.counter]
        inside == Inside(g, s.space, s.counter)
    IN  /\ k <= s.at => inside = {} /\ x = 0
        /\ k > s.at => /\ \A t, u \in inside : t = u
                       /\ x = IF inside = {} THEN add % Modulus ELSE 0

\* Writes behind a buffer may hit the counters and special values.
SectionsInv ==
    GatedBarriersFit =>
        \A g \in Groups : \A i \in 1 .. Len(code) :
            code[i].op = "section" /\ Initialised(g, code[i].space) =>
                SectionRun(g, code[i], code[i + 1].add)

Inv == CodeInv /\ TypeInv /\ GenerateInv /\ StartInv /\ EnteredInv /\ SectionsInv

-----------------------------------------------------------------------------
(* Code                                                                    *)

\* Code added to the kernel leaves its beginning alone.
LEMMA ExtendCode ==
    ASSUME CodeInv, NEW d, NEW T, Piece(d, T), T \subseteq free_counters
    PROVE  /\ Sound(code \o d, Counters \ (free_counters \ T))
           /\ Len(code \o d) >= 2 /\ (code \o d)[1] = code[1] /\ (code \o d)[2] = code[2]
           /\ \A i \in 1 .. Len(code \o d) : (code \o d)[i].op = "init" => i = 1
<1>1. code \in Seq(Instruction) /\ d \in Seq(Instruction) /\ Len(code) \in Nat /\ Len(d) \in Nat
  BY LenProperties DEF CodeInv, Piece, Sound, Shape
<1>2. Agree(code, d) /\ Agree(d, code)
  BY DEF Agree, CodeInv, Piece, Sound, SectionsIn
<1>3. Sound(code \o d, (Counters \ free_counters) \cup T)
  BY <1>2, JoinSound DEF CodeInv, Piece
<1>4. (Counters \ free_counters) \cup T = Counters \ (free_counters \ T)
  BY DEF CodeInv
<1> DEFINE e == code \o d
<1>5. /\ Len(e) = Len(code) + Len(d)
      /\ \A i \in 1 .. Len(code) + Len(d) : e[i] = IF i <= Len(code) THEN code[i] ELSE d[i - Len(code)]
  BY <1>1, ConcatProperties
<1>6. \A i \in 1 .. Len(e) : e[i].op = "init" => i = 1
  BY <1>1, JoinNoInit DEF CodeInv, Piece
<1> HIDE DEF e
<1>7. Len(e) >= 2 /\ e[1] = code[1] /\ e[2] = code[2]
  BY <1>1, <1>5 DEF CodeInv
<1> QED BY <1>3, <1>4, <1>6, <1>7 DEF e

\* Without barriers to put there, a section uses its own variables only.
LEMMA SectionsAreEmpty ==
    ASSUME NoBarrierInSections, cl_options \in OptionSets, NEW s \in Statements, AddStatement(s)
    PROVE  \A q \in Parts(s) : q.stm = "section" => q.body.stm = "nothing"
<1> SUFFICES ASSUME NEW q \in Parts(s), q.stm = "section" PROVE q.body.stm = "nothing"
  OBVIOUS
<1>1. q.body.stm \in {"nothing", "barrier"} /\ "atomics" \in cl_options
  BY DEF AddStatement, AllowedInSection, Needs
<1>2. q.body \in Parts(s)
  <2>1. s \in Statement
    BY StatementsAssumption
  <2>2. CASE q = s
    BY <2>2 DEF Parts, HasBody
  <2>3. CASE HasBody(s) /\ q = s.body
    BY <2>3 DEF Parts, HasBody
  <2>4. CASE HasBody(s) /\ HasBody(s.body) /\ q = s.body.body
    <3>1. s.body.stm = "section" /\ s.body.body \in Leaf
      BY <2>1, <2>4 DEF HasBody, Statement, Simple, Section, Leaf
    <3> QED BY <2>4, <3>1 DEF Leaf
  <2> QED BY <2>2, <2>3, <2>4 DEF Parts
<1>3. q.body.stm = "barrier" => "barriers" \in cl_options
  BY <1>2 DEF AddStatement, Needs
<1> QED BY <1>1, <1>3 DEF NoBarrierInSections

\* The statements of the generator keep CodeInv, and so does the end of the
\* entry function.
LEMMA AddStatementCode ==
    ASSUME NoBarrierInSections, CodeInv, NEW s \in Statements, AddStatement(s)
    PROVE  CodeInv'
<1>1. Piece(OutputStatement(s), CountersOf(s)) /\ CountersOf(s) \subseteq free_counters
  BY StatementsAssumption, SectionsAreEmpty, StatementPiece DEF AddStatement, CodeInv
<1>2. /\ code' = code \o OutputStatement(s) /\ free_counters' = free_counters \ CountersOf(s)
      /\ cl_options' = cl_options
  BY DEF AddStatement
<1> DEFINE d == OutputStatement(s)
           T == CountersOf(s)
<1> HIDE DEF d, T
<1>3. /\ Sound(code \o d, Counters \ (free_counters \ T))
      /\ Len(code \o d) >= 2 /\ (code \o d)[1] = code[1] /\ (code \o d)[2] = code[2]
      /\ \A i \in 1 .. Len(code \o d) : (code \o d)[i].op = "init" => i = 1
  BY <1>1, ExtendCode DEF d, T
<1>4. code' = code \o d /\ free_counters' = free_counters \ T
  BY <1>2 DEF d, T
<1>5. Sound(code', Counters \ free_counters')
  BY <1>3, <1>4
<1>6. ASSUME \A opts \in OptionSets : "barriers" \notin opts PROVE NoGifts(code')
  <2>1. s \in Statement /\ cl_options \in OptionSets /\ NoGifts(code) /\ code \in Seq(Instruction)
    BY <1>6, StatementsAssumption DEF CodeInv, Sound, Shape
  <2>2. ASSUME NEW q \in Parts(s) PROVE q.stm # "barrier"
    <3>1. Needs(q) \subseteq cl_options
      BY DEF AddStatement
    <3>2. q.stm = "barrier" => "barriers" \in Needs(q)
      BY DEF Needs
    <3> QED BY <1>6, <2>1, <3>1, <3>2
  <2>3. \A q \in Parts(s) : q.stm = "section" => q.body.stm = "nothing"
    BY <2>1, SectionsAreEmpty
  <2>4. OutputStatement(s) \in Seq(Instruction) /\ NoGifts(OutputStatement(s))
    BY <2>1, <2>2, <2>3, StatementNoGifts
  <2> QED BY <1>2, <2>1, <2>4, JoinNoGifts
<1> QED BY <1>2, <1>3, <1>4, <1>5, <1>6 DEF CodeInv

\* The end of the entry function uses no counter and keeps the code sound.
LEMMA LaunchCode ==
    ASSUME CodeInv, Launch
    PROVE  CodeInv'
<1> DEFINE d == Epilogue
           T == {}
<1>1. Piece(d, T) /\ T \subseteq free_counters /\ free_counters \ T = free_counters
  BY EpiloguePiece
<1>2. code' = code \o d /\ free_counters' = free_counters /\ cl_options' = cl_options
  BY DEF Launch
<1> HIDE DEF d, T
<1>3. /\ Sound(code \o d, Counters \ (free_counters \ T))
      /\ Len(code \o d) >= 2 /\ (code \o d)[1] = code[1] /\ (code \o d)[2] = code[2]
      /\ \A i \in 1 .. Len(code \o d) : (code \o d)[i].op = "init" => i = 1
  BY <1>1, ExtendCode
<1>4. Sound(code', Counters \ free_counters')
  BY <1>1, <1>2, <1>3
<1>5. ASSUME \A opts \in OptionSets : "barriers" \notin opts PROVE NoGifts(code')
  <2>1. Epilogue \in Seq(Instruction) /\ NoGifts(Epilogue)
    BY DEF Epilogue, Instruction, Barrier, NoGifts
  <2>2. code' = code \o Epilogue
    BY DEF Launch
  <2>3. NoGifts(code) /\ code \in Seq(Instruction)
    BY <1>5 DEF CodeInv, Sound, Shape
  <2> QED BY <2>1, <2>2, <2>3, JoinNoGifts
<1> QED BY <1>2, <1>3, <1>4, <1>5 DEF CodeInv

-----------------------------------------------------------------------------
(* Steps of a work-item                                                    *)

\* A step writes no counter or special value, or does behind a buffer.
CountersKept ==
    /\ counter' \in [Spaces -> [Groups -> [Counters -> Nat]]]
    /\ special' \in [Spaces -> [Groups -> [Counters -> Nat]]]
    /\ GatedBarriersFit => UNCHANGED <<counter, special>>

\* A section is entered at its first instruction only.
LEMMA NoJumpIntoSection ==
    ASSUME Inv, NEW i \in 1 .. Len(code), code[i].op # "section"
    PROVE  /\ i + 1 <= Len(code) => code[i + 1].op # "result"
           /\ code[i].op \in {"branch", "gate"} =>
                /\ code[i].skip \in Nat
                /\ i + 1 + code[i].skip <= Len(code) => code[i + 1 + code[i].skip].op # "result"
<1>1. code \in Seq(Instruction) /\ Len(code) \in Nat /\ ShapeAt(code, i)
  BY LenProperties DEF Inv, CodeInv, Sound, Shape
<1>2. i + 1 <= Len(code) => code[i + 1].op # "result"
  <2> SUFFICES ASSUME i + 1 <= Len(code), code[i + 1].op = "result" PROVE FALSE
    OBVIOUS
  <2>1. ShapeAt(code, i + 1) /\ i + 1 - 1 = i
    BY <1>1 DEF Inv, CodeInv, Sound, Shape
  <2> QED BY <2>1 DEF ShapeAt
<1>3. ASSUME code[i].op \in {"branch", "gate"}
      PROVE  /\ code[i].skip \in Nat
             /\ i + 1 + code[i].skip <= Len(code) => code[i + 1 + code[i].skip].op # "result"
  <2>1. code[i].skip \in Nat
    BY <1>1, <1>3, ElementOfSeq DEF Instruction
  <2>2. i + 1 + code[i].skip = i + code[i].skip + 1
    BY <2>1
  <2> QED BY <1>1, <1>3, <2>1, <2>2 DEF ShapeAt
<1> QED BY <1>2, <1>3

\* Whoever executes an instruction behind the first two finds the buffers of its
\* group initialised.
LEMMA Started ==
    ASSUME Inv, NEW t \in WorkItems, ip[t] <= Len(code),
           code[ip[t]].op \notin {"init", "barrier"}
    PROVE  /\ ip[t] \in 1 .. Len(code) /\ ip[t] > 2
           /\ <<Group(t), 0>> \in WorkItems
           /\ \A sp \in Spaces : Initialised(Group(t), sp)
<1>1. ip[t] \in Nat \ {0} /\ ip[t] # 1 /\ ip[t] # 2
  BY DEF Inv, TypeInv, CodeInv
<1>2. Group(t) \in Groups /\ <<Group(t), 0>> \in WorkItems /\ Group(<<Group(t), 0>>) = Group(t)
  BY SizesAssumption DEF WorkItems, Group, Lids
<1>3. ip[<<Group(t), 0>>] \in Nat /\ ip[<<Group(t), 0>>] >= 2
  BY <1>1, <1>2 DEF Inv, StartInv, TypeInv
<1> QED BY <1>1, <1>2, <1>3 DEF Initialised

\* A step that leaves sections, counters and special values alone, but for writes
\* behind a buffer, and takes nobody into a section or out of one.
LEMMA QuietStep ==
    ASSUME Inv, UNCHANGED <<generator, entered>>, CountersKept, ip' \in [WorkItems -> Nat \ {0}], StartInv', phase = "run",
           \A u \in WorkItems : ip'[u] # ip[u] =>
              /\ ip[u] <= Len(code) /\ code[ip[u]].op \notin {"result", "init"}
              /\ ip'[u] > ip[u]
              /\ ip'[u] <= Len(code) => code[ip'[u]].op # "result"
    PROVE  Inv'
<1>1. /\ cl_options' = cl_options /\ phase' = phase /\ free_counters' = free_counters /\ code' = code
      /\ entered' = entered
  BY DEF generator
<1>2. CodeInv' /\ TypeInv' /\ GenerateInv'
  BY <1>1 DEF Inv, CodeInv, TypeInv, GenerateInv, CountersKept
<1>3. EnteredInv'
  <2>1. ASSUME NEW u \in WorkItems, NEW sp \in Spaces, NEW c \in Counters
        PROVE  AtResult(u, sp, c)' <=> AtResult(u, sp, c)
    <3>1. CASE ip'[u] = ip[u]
      BY <1>1, <3>1 DEF AtResult, At
    <3>2. CASE ip'[u] # ip[u]
      BY <1>1, <3>2 DEF AtResult, At
    <3> QED BY <3>1, <3>2
  <2> QED BY <1>1, <2>1 DEF Inv, EnteredInv
<1>4. \A g \in Groups : \A sp \in Spaces : Initialised(g, sp)' <=> Initialised(g, sp)
  <2> TAKE g \in Groups
  <2> TAKE sp \in Spaces
  <2>1. <<g, 0>> \in WorkItems
    BY SizesAssumption DEF WorkItems, Lids
  <2>2. ip[<<g, 0>>] \in Nat \ {0} /\ ip'[<<g, 0>>] \in Nat
    BY <2>1 DEF Inv, TypeInv
  <2>3. ip'[<<g, 0>>] # ip[<<g, 0>>] => ip[<<g, 0>>] > 1 /\ ip'[<<g, 0>>] > 1
    BY <2>1, <2>2 DEF Inv, CodeInv
  <2> QED BY <2>2, <2>3 DEF Initialised
<1>5. SectionsInv'
  <2> SUFFICES ASSUME GatedBarriersFit, NEW g \in Groups, NEW i \in 1 .. Len(code'),
                      code'[i].op = "section", Initialised(g, code[i].space)'
               PROVE  SectionRun(g, code[i], code[i + 1].add)'
    BY DEF SectionsInv
  <2>1. code[i].space \in Spaces /\ i \in 1 .. Len(code)
    BY <1>1, ElementOfSeq DEF Inv, CodeInv, Sound, Shape, Instruction
  <2>2. SectionRun(g, code[i], code[i + 1].add)
    BY <1>1, <1>4, <2>1 DEF Inv, SectionsInv
  <2> QED BY <1>1, <2>2 DEF SectionRun, Inside, CountersKept
<1> QED BY <1>2, <1>3, <1>5 DEF Inv

\* A work-item that goes on behind the first barrier, outside the sections.
LEMMA QuietItem ==
    ASSUME Inv, NEW t \in WorkItems, phase = "run", ip[t] <= Len(code),
           code[ip[t]].op \notin {"section", "result", "init", "barrier"},
           UNCHANGED <<generator, entered>>, CountersKept,
           NEW n, Goto(t, n),
           \/ n = ip[t] + 1
           \/ code[ip[t]].op \in {"branch", "gate"} /\ n = ip[t] + 1 + code[ip[t]].skip
    PROVE  Inv'
<1>1. ip[t] \in 1 .. Len(code) /\ ip[t] > 2 /\ ip[t] \in Nat
  BY Started DEF Inv, TypeInv
<1>2. n \in Nat /\ n > ip[t] /\ (n <= Len(code) => code[n].op # "result")
  <2> DEFINE i == ip[t]
  <2>1. /\ i + 1 <= Len(code) => code[i + 1].op # "result"
        /\ code[i].op \in {"branch", "gate"} =>
              /\ code[i].skip \in Nat
              /\ i + 1 + code[i].skip <= Len(code) => code[i + 1 + code[i].skip].op # "result"
    BY <1>1, NoJumpIntoSection
  <2>2. CASE n = i + 1
    BY <1>1, <2>1, <2>2
  <2>3. CASE code[i].op \in {"branch", "gate"} /\ n = i + 1 + code[i].skip
    <3>1. code[i].skip \in Nat
      BY <2>1, <2>3
    <3>2. n <= Len(code) => code[n].op # "result"
      BY <2>1, <2>3
    <3> QED BY <1>1, <2>3, <3>1, <3>2
  <2> QED BY <2>2, <2>3
<1>3. ip \in [WorkItems -> Nat \ {0}] /\ ip' = [ip EXCEPT ![t] = n]
  BY DEF Inv, TypeInv, Goto
<1>4. ip' \in [WorkItems -> Nat \ {0}] /\ ip'[t] = n
      /\ \A u \in WorkItems : u # t => ip'[u] = ip[u]
  BY <1>1, <1>2, <1>3
<1>5. StartInv'
  BY <1>1, <1>2, <1>3, <1>4 DEF Inv, StartInv
<1>6. \A u \in WorkItems : ip'[u] # ip[u] =>
              /\ ip[u] <= Len(code) /\ code[ip[u]].op \notin {"result", "init"}
              /\ ip'[u] > ip[u]
              /\ ip'[u] <= Len(code) => code[ip'[u]].op # "result"
  BY <1>2, <1>4
<1> QED BY <1>4, <1>5, <1>6, QuietStep

\* The steps that do not concern sections.
LEMMA ItemSteps ==
    ASSUME Inv, NEW t \in WorkItems,
           \/ Evaluate(t) \/ Store(t) \/ Branch(t) \/ Permute(t) \/ Reduce(t) \/ Collect(t)
           \/ TestGate(t) \/ TakeInside(t) \/ GiveInside(t) \/ ShutGate(t) \/ Hash(t)
    PROVE  Inv'
<1>0. ip[t] \in Nat
  BY DEF Inv, TypeInv
<1>1. ASSUME NEW op \in {"eval", "store", "permute", "atomic", "collect", "take", "give", "shut",
                         "hash"},
             At(t, op), Step(t), UNCHANGED <<generator, counter, special, entered>>
      PROVE  Inv'
  <2>1. phase = "run" /\ ip[t] <= Len(code)
        /\ code[ip[t]].op \notin {"section", "result", "init", "barrier"}
    BY <1>1 DEF At
  <2>2. Goto(t, ip[t] + 1) /\ CountersKept
    BY <1>1 DEF Step, Inv, TypeInv, CountersKept
  <2> QED BY <1>1, <2>1, <2>2, QuietItem
<1>2. CASE Evaluate(t)
  BY <1>1, <1>2 DEF Evaluate, atomics
<1>3. CASE Store(t)
  BY <1>1, <1>3 DEF Store, private, atomics
<1>4. CASE Permute(t)
  BY <1>1, <1>4 DEF Permute, atomics
<1>5. CASE Reduce(t)
  BY <1>1, <1>5 DEF Reduce, private
<1>6. CASE Collect(t)
  BY <1>1, <1>6 DEF Collect, atomics
<1>7. CASE TakeInside(t)
  BY <1>1, <1>7 DEF TakeInside, atomics
<1>8. CASE GiveInside(t)
  BY <1>1, <1>8 DEF GiveInside, private, atomics
<1>9. CASE ShutGate(t)
  BY <1>1, <1>9 DEF ShutGate, atomics
<1>10. CASE Hash(t)
  BY <1>1, <1>10 DEF Hash, atomics
<1>11. ASSUME NEW op \in {"branch", "gate"}, At(t, op), NEW b \in BOOLEAN,
              Goto(t, ip[t] + 1 + IF b THEN 0 ELSE code[ip[t]].skip),
              UNCHANGED <<generator, counter, special, entered>>
       PROVE  Inv'
  <2>1. phase = "run" /\ ip[t] <= Len(code) /\ code[ip[t]].op = op /\ CountersKept
    BY <1>11 DEF At, Inv, TypeInv, CountersKept
  <2>2. CASE b
    <3>1. Goto(t, ip[t] + 1)
      BY <1>0, <1>11, <2>2
    <3> QED BY <1>11, <2>1, <3>1, QuietItem
  <2>3. CASE ~b
    <3>1. Goto(t, ip[t] + 1 + code[ip[t]].skip)
      BY <1>11, <2>3
    <3> QED BY <1>11, <2>1, <3>1, QuietItem
  <2> QED BY <2>2, <2>3
<1>12. CASE Branch(t)
  <2>1. /\ At(t, "branch") /\ UNCHANGED <<generator, counter, special, entered>>
        /\ Goto(t, ip[t] + 1 + IF reg[t] # 0 THEN 0 ELSE code[ip[t]].skip)
    BY <1>12 DEF Branch, private, atomics
  <2>2. (reg[t] # 0) \in BOOLEAN
    OBVIOUS
  <2> QED BY <1>11, <2>1, <2>2
<1>13. CASE TestGate(t)
  <2>1. /\ At(t, "gate") /\ UNCHANGED <<generator, counter, special, entered>>
        /\ Goto(t, ip[t] + 1 + IF gate[t] = 0 THEN 0 ELSE code[ip[t]].skip)
    BY <1>13 DEF TestGate, private, atomics
  <2>2. (gate[t] = 0) \in BOOLEAN
    OBVIOUS
  <2> QED BY <1>11, <2>1, <2>2
<1> QED BY <1>2, <1>3, <1>4, <1>5, <1>6, <1>7, <1>8, <1>9, <1>10, <1>12, <1>13

\* Without gated barriers, or in a group that fits, nobody is behind a buffer.
LEMMA NobodyBeyond ==
    ASSUME GatedBarriersFit, Inv, NEW t \in WorkItems
    PROVE  ~TakeBeyond(t) /\ ~GiveBeyond(t)
<1>1. CASE \A u \in WorkItems : Lid(u) \in Items /\ Pair(u) \in Items
  BY <1>1 DEF TakeBeyond, GiveBeyond
<1>2. CASE \A opts \in OptionSets : "barriers" \notin opts
  <2>1. NoGifts(code)
    BY <1>2 DEF Inv, CodeInv
  <2>2. ASSUME NEW op \in {"take", "give"} PROVE ~At(t, op)
    <3> SUFFICES ASSUME At(t, op) PROVE FALSE
      OBVIOUS
    <3>1. ip[t] \in 1 .. Len(code) /\ code[ip[t]].op = op
      BY LenProperties DEF At, Inv, TypeInv, CodeInv, Sound, Shape
    <3> QED BY <2>1, <3>1 DEF NoGifts
  <2> QED BY <2>2 DEF TakeBeyond, GiveBeyond
<1> QED BY <1>1, <1>2 DEF GatedBarriersFit

\* An item of an array of a group is written.
LEMMA ItemWritten ==
    ASSUME NEW S, NEW I, NEW V, NEW f \in [S -> [Groups -> [I -> V]]],
           NEW s \in S, NEW g \in Groups, NEW i \in I, NEW v \in V
    PROVE  [f EXCEPT ![s][g][i] = v] \in [S -> [Groups -> [I -> V]]]
<1>1. PICK row : row = [f[s][g] EXCEPT ![i] = v]
  OBVIOUS
<1>2. row \in [I -> V]
  BY <1>1
<1>3. PICK rows : rows = [f[s] EXCEPT ![g] = row]
  OBVIOUS
<1>4. rows \in [Groups -> [I -> V]]
  BY <1>2, <1>3
<1>5. [f EXCEPT ![s][g][i] = v] = [f EXCEPT ![s] = rows]
  BY <1>1, <1>3
<1> QED BY <1>4, <1>5

\* Where a work-item reads and writes behind a buffer no section is spoken of.
LEMMA BeyondStep ==
    ASSUME Inv, NEW t \in WorkItems, reg[t] \in Nat, TakeBeyond(t) \/ GiveBeyond(t)
    PROVE  Inv'
<1>1. /\ phase = "run" /\ ip[t] <= Len(code) /\ code[ip[t]].op \in {"take", "give"}
      /\ UNCHANGED <<generator, entered>> /\ Goto(t, ip[t] + 1) /\ ~GatedBarriersFit
  BY NobodyBeyond DEF TakeBeyond, GiveBeyond, At, Step, private
<1>2. CountersKept
  <2>1. /\ counter \in [Spaces -> [Groups -> [Counters -> Nat]]]
        /\ special \in [Spaces -> [Groups -> [Counters -> Nat]]]
        /\ "local" \in Spaces /\ Group(t) \in Groups
    BY DEF Inv, TypeInv, Spaces, WorkItems, Group
  <2>2. PICK value \in Nat : value = reg[t]
    OBVIOUS
  <2>3. \/ UNCHANGED <<counter, special>>
        \/ \E c \in Counters : /\ counter' = [counter EXCEPT !["local"][Group(t)][c] = value]
                              /\ UNCHANGED special
        \/ \E c \in Counters : /\ special' = [special EXCEPT !["local"][Group(t)][c] = value]
                              /\ UNCHANGED counter
    BY <2>2 DEF TakeBeyond, GiveBeyond, Overwrite, atomics
  <2>4. ASSUME NEW f, NEW f1, f \in [Spaces -> [Groups -> [Counters -> Nat]]], NEW c \in Counters,
               f1 = [f EXCEPT !["local"][Group(t)][c] = value]
        PROVE  f1 \in [Spaces -> [Groups -> [Counters -> Nat]]]
    BY <2>1, <2>4, ItemWritten
  <2> QED BY <1>1, <2>1, <2>3, <2>4 DEF CountersKept
<1> QED BY <1>1, <1>2, QuietItem

\* A group passes a barrier together.
LEMMA BarrierStep ==
    ASSUME Inv, NEW g \in Groups, PassBarrier(g)
    PROVE  Inv'
<1>1. ip \in [WorkItems -> Nat \ {0}]
      /\ ip' = [u \in WorkItems |-> IF Group(u) = g THEN ip[u] + 1 ELSE ip[u]]
      /\ UNCHANGED <<generator, counter, special, entered>>
  BY DEF PassBarrier, Inv, TypeInv, private, atomics
<1>2. \A u \in WorkItems : Group(u) = g => At(u, "barrier")
  BY DEF PassBarrier, Members
<1>3. phase = "run"
  <2>1. <<g, 0>> \in WorkItems /\ Group(<<g, 0>>) = g
    BY SizesAssumption DEF WorkItems, Lids, Group
  <2> QED BY <1>2, <2>1 DEF At
<1>4. ip' \in [WorkItems -> Nat \ {0}]
      /\ \A u \in WorkItems : ip'[u] = IF Group(u) = g THEN ip[u] + 1 ELSE ip[u]
  BY <1>1
<1>5. StartInv'
  BY <1>1, <1>4 DEF Inv, StartInv, Group
<1>6. ASSUME NEW u \in WorkItems, ip'[u] # ip[u]
      PROVE  /\ ip[u] <= Len(code) /\ code[ip[u]].op \notin {"result", "init"}
             /\ ip'[u] > ip[u]
             /\ ip'[u] <= Len(code) => code[ip'[u]].op # "result"
  <2>1. At(u, "barrier") /\ ip'[u] = ip[u] + 1 /\ ip[u] \in Nat \ {0}
    BY <1>1, <1>2, <1>4, <1>6
  <2>2. ip[u] \in 1 .. Len(code) /\ code[ip[u]].op = "barrier"
    BY <2>1, LenProperties DEF At, Inv, CodeInv, Sound, Shape
  <2>3. ip[u] + 1 <= Len(code) => code[ip[u] + 1].op # "result"
    BY <2>2, NoJumpIntoSection
  <2> QED BY <2>1, <2>2, <2>3
<1>7. CountersKept
  BY <1>1 DEF Inv, TypeInv, CountersKept
<1> QED BY <1>1, <1>3, <1>4, <1>5, <1>6, <1>7, QuietStep

\* The generator adds sections with counters that nobody has used.
LEMMA AddStatementStep ==
    ASSUME NoBarrierInSections, Inv, NEW s \in Statements, AddStatement(s)
    PROVE  Inv'
<1>1. CodeInv'
  BY AddStatementCode DEF Inv
<1>2. phase = "generate" /\ UNCHANGED <<phase, ip, counter, special, entered>>
  BY DEF AddStatement, private, atomics
<1>3. TypeInv' /\ GenerateInv' /\ StartInv'
  BY <1>2 DEF Inv, TypeInv, GenerateInv, StartInv
<1>4. EnteredInv'
  <2>1. \A t \in WorkItems, sp \in Spaces, c \in Counters : ~AtResult(t, sp, c) /\ ~AtResult(t, sp, c)'
    BY <1>2 DEF AtResult, At
  <2> QED BY <1>2, <2>1 DEF Inv, EnteredInv
<1>5. \A g \in Groups, sp \in Spaces, c \in Counters : Inside(g, sp, c)' = {}
  <2>1. \A t \in WorkItems, sp \in Spaces, c \in Counters : <<t, sp, c>> \notin entered'
    BY <1>2 DEF Inv, EnteredInv, AtResult, At
  <2> QED BY <2>1 DEF Inside, Members
<1>6. SectionsInv'
  <2> SUFFICES ASSUME GatedBarriersFit, NEW g \in Groups, NEW i \in 1 .. Len(code'),
                      code'[i].op = "section", Initialised(g, code[i].space)'
               PROVE  SectionRun(g, code[i], code[i + 1].add)'
    BY DEF SectionsInv
  <2>1. code'[i].counter \in Counters /\ code'[i].space \in Spaces /\ code'[i].at \in Nat
    <3>1. code' \in Seq(Instruction) /\ SectionsIn(code', Counters)
      BY <1>1 DEF CodeInv, Sound, Shape, SectionsIn
    <3>2. code'[i] \in Instruction
      BY <3>1, ElementOfSeq
    <3> QED BY <3>1, <3>2 DEF SectionsIn, Instruction
  <2>2. ip'[<<g, 0>>] = 1
    <3>1. <<g, 0>> \in WorkItems
      BY SizesAssumption DEF WorkItems, Lids
    <3> QED BY <1>2, <3>1 DEF Inv, GenerateInv
  <2>3. code'[i].space = "global"
    BY <2>2 DEF Initialised
  <2>4. counter'["global"][g][code'[i].counter] = 0 /\ special'["global"][g][code'[i].counter] = 0
    BY <1>2, <2>1 DEF Inv, GenerateInv
  <2> QED BY <1>5, <2>1, <2>3, <2>4 DEF SectionRun
<1> QED BY <1>1, <1>3, <1>4, <1>6 DEF Inv

\* The launch finds every work-item at the first instruction.
LEMMA LaunchStep ==
    ASSUME Inv, Launch
    PROVE  Inv'
<1>1. CodeInv'
  BY LaunchCode DEF Inv
<1>2. phase = "generate" /\ phase' = "run" /\ UNCHANGED <<ip, counter, special, entered>>
  BY DEF Launch, private, atomics
<1>3. TypeInv' /\ GenerateInv' /\ StartInv'
  BY <1>2 DEF Inv, TypeInv, GenerateInv, StartInv
<1>4. \A t \in WorkItems : ip[t] = 1
  BY <1>2 DEF Inv, GenerateInv
<1>5. EnteredInv'
  <2>1. \A t \in WorkItems, sp \in Spaces, c \in Counters : ~AtResult(t, sp, c) /\ ~AtResult(t, sp, c)'
    BY <1>1, <1>2, <1>4 DEF AtResult, At, CodeInv
  <2> QED BY <1>2, <2>1 DEF Inv, EnteredInv
<1>6. \A g \in Groups, sp \in Spaces, c \in Counters : Inside(g, sp, c)' = {}
  <2>1. \A t \in WorkItems, sp \in Spaces, c \in Counters : <<t, sp, c>> \notin entered'
    BY <1>2 DEF Inv, EnteredInv, AtResult, At
  <2> QED BY <2>1 DEF Inside, Members
<1>7. SectionsInv'
  <2> SUFFICES ASSUME GatedBarriersFit, NEW g \in Groups, NEW i \in 1 .. Len(code'),
                      code'[i].op = "section", Initialised(g, code[i].space)'
               PROVE  SectionRun(g, code[i], code[i + 1].add)'
    BY DEF SectionsInv
  <2>1. code'[i].counter \in Counters /\ code'[i].space \in Spaces /\ code'[i].at \in Nat
    <3>1. code' \in Seq(Instruction) /\ SectionsIn(code', Counters)
      BY <1>1 DEF CodeInv, Sound, Shape, SectionsIn
    <3>2. code'[i] \in Instruction
      BY <3>1, ElementOfSeq
    <3> QED BY <3>1, <3>2 DEF SectionsIn, Instruction
  <2>2. ip'[<<g, 0>>] = 1
    <3>1. <<g, 0>> \in WorkItems
      BY SizesAssumption DEF WorkItems, Lids
    <3> QED BY <1>2, <1>4, <3>1
  <2>3. code'[i].space = "global"
    BY <2>2 DEF Initialised
  <2>4. counter'["global"][g][code'[i].counter] = 0 /\ special'["global"][g][code'[i].counter] = 0
    BY <1>2, <2>1 DEF Inv, GenerateInv
  <2> QED BY <1>6, <2>1, <2>3, <2>4 DEF SectionRun
<1> QED BY <1>1, <1>3, <1>5, <1>7 DEF Inv

\* Initially nothing has run and no section has been generated.
LEMMA InitInv == Init => Inv
<1> SUFFICES ASSUME Init PROVE Inv
  OBVIOUS
<1>1. /\ code = <<[op |-> "init"], [op |-> "barrier"]>> /\ free_counters = Counters
      /\ phase = "generate" /\ entered = {} /\ ip = [t \in WorkItems |-> 1]
      /\ cl_options \in OptionSets
  BY DEF Init, Prologue, Barrier
<1>2. Len(code) = 2 /\ code[1].op = "init" /\ code[2].op = "barrier" /\ code \in Seq(Instruction)
  BY <1>1 DEF Instruction
<1>3. CodeInv
  <2>1. Shape(code)
    BY <1>2 DEF Shape, ShapeAt
  <2>2. SectionsIn(code, Counters \ free_counters) /\ Agree(code, code)
    BY <1>2 DEF SectionsIn, Agree
  <2>3. NoGifts(code)
    BY <1>2 DEF NoGifts
  <2> QED BY <1>1, <1>2, <2>1, <2>2, <2>3 DEF CodeInv, Sound
<1>4. /\ counter = [sp \in Spaces |-> [g \in Groups |->
                      [c \in Counters |-> IF sp = "local" THEN Junk ELSE 0]]]
      /\ special = [sp \in Spaces |-> [g \in Groups |->
                      [c \in Counters |-> IF sp = "local" THEN Junk ELSE 0]]]
  BY DEF Init
<1>5. Junk \in Nat
  BY SizesAssumption DEF UInt
<1>6. TypeInv
  BY <1>1, <1>4, <1>5 DEF TypeInv
<1>7. GenerateInv
  BY <1>1, <1>4 DEF GenerateInv, Spaces
<1>8. StartInv
  BY <1>1 DEF StartInv
<1>9. EnteredInv
  BY <1>1 DEF EnteredInv, AtResult, At
<1>10. SectionsInv
  BY <1>2 DEF SectionsInv
<1> QED BY <1>3, <1>6, <1>7, <1>8, <1>9, <1>10 DEF Inv

\* The initialisation of a group's buffers: nobody of the group is past the
\* first barrier yet, so nobody is in a section.
LEMMA InitBuffersStep ==
    ASSUME Inv, NEW t \in WorkItems, InitBuffers(t)
    PROVE  Inv'
<1>1. phase = "run" /\ ip[t] <= Len(code) /\ code[ip[t]].op = "init"
      /\ UNCHANGED <<generator, entered>> /\ ip' = [ip EXCEPT ![t] = ip[t] + 1]
  BY DEF InitBuffers, At, Step, Goto, private
<1>2. /\ cl_options' = cl_options
      /\ phase' = phase /\ free_counters' = free_counters /\ code' = code /\ entered' = entered
  BY <1>1 DEF generator
<1>3. ip[t] = 1 /\ Len(code) \in Nat /\ ip \in [WorkItems -> Nat \ {0}]
  <2>1. ip[t] \in Nat \ {0} /\ Len(code) \in Nat
    BY LenProperties DEF Inv, TypeInv, CodeInv, Sound, Shape
  <2>2. ip[t] \in 1 .. Len(code)
    BY <1>1, <2>1
  <2> QED BY <1>1, <2>1, <2>2 DEF Inv, CodeInv, TypeInv
<1>4. ip' \in [WorkItems -> Nat \ {0}] /\ ip'[t] = 2
      /\ \A u \in WorkItems : u # t => ip'[u] = ip[u]
  BY <1>1, <1>3
<1>5. CodeInv'
  BY <1>2 DEF Inv, CodeInv
<1>6. \/ Lid(t) # 0 /\ UNCHANGED <<counter, special>>
      \/ /\ Lid(t) = 0
         /\ counter' = [counter EXCEPT !["local"][Group(t)] = [c \in Counters |-> 0]]
         /\ special' = [special EXCEPT !["local"][Group(t)] = [c \in Counters |-> 0]]
  BY DEF InitBuffers, atomics
<1>7. Group(t) \in Groups /\ "local" \in Spaces /\ "global" \in Spaces
  BY DEF WorkItems, Group, Spaces
<1>8. /\ counter' \in [Spaces -> [Groups -> [Counters -> Nat]]]
      /\ special' \in [Spaces -> [Groups -> [Counters -> Nat]]]
      /\ \A sp \in Spaces, g \in Groups :
            sp = "global" \/ g # Group(t) \/ Lid(t) # 0 =>
                counter'[sp][g] = counter[sp][g] /\ special'[sp][g] = special[sp][g]
      /\ Lid(t) = 0 => \A c \in Counters :
            counter'["local"][Group(t)][c] = 0 /\ special'["local"][Group(t)][c] = 0
  <2> DEFINE zero == [c \in Counters |-> 0]
             Typed(f) == f \in [Spaces -> [Groups -> [Counters -> Nat]]]
  <2>1. zero \in [Counters -> Nat] /\ \A c \in Counters : zero[c] = 0
    OBVIOUS
  <2>2. Typed(counter) /\ Typed(special)
    BY DEF Inv, TypeInv
  <2>3. CASE Lid(t) # 0
    BY <1>6, <2>2, <2>3
  <2>4. CASE Lid(t) = 0
    <3>1. /\ counter' = [counter EXCEPT !["local"][Group(t)] = zero]
          /\ special' = [special EXCEPT !["local"][Group(t)] = zero]
      BY <1>6, <2>4
    <3> HIDE DEF zero
    <3>3. /\ Typed(counter') /\ counter'["local"][Group(t)] = zero
          /\ \A sp \in Spaces, g \in Groups :
                sp = "global" \/ g # Group(t) => counter'[sp][g] = counter[sp][g]
      BY <1>7, <2>1, <2>2, <3>1
    <3>4. /\ Typed(special') /\ special'["local"][Group(t)] = zero
          /\ \A sp \in Spaces, g \in Groups :
                sp = "global" \/ g # Group(t) => special'[sp][g] = special[sp][g]
      BY <1>7, <2>1, <2>2, <3>1
    <3> QED BY <2>1, <2>4, <3>3, <3>4 DEF Typed
  <2> QED BY <2>3, <2>4
<1>9. TypeInv' /\ GenerateInv'
  BY <1>1, <1>2, <1>4, <1>8 DEF Inv, TypeInv, GenerateInv
<1>10. StartInv'
  BY <1>3, <1>4 DEF Inv, StartInv, Group
<1>11. EnteredInv'
  <2>1. ASSUME NEW u \in WorkItems, NEW sp \in Spaces, NEW c \in Counters
        PROVE  AtResult(u, sp, c)' <=> AtResult(u, sp, c)
    <3>1. CASE u = t
      BY <1>1, <1>2, <1>3, <1>4, <3>1 DEF AtResult, At, Inv, CodeInv
    <3>2. CASE u # t
      BY <1>2, <1>4, <3>2 DEF AtResult, At
    <3> QED BY <3>1, <3>2
  <2> QED BY <1>2, <2>1 DEF Inv, EnteredInv
<1>12. ASSUME NEW sp \in Spaces, NEW c \in Counters PROVE Inside(Group(t), sp, c) = {}
  <2> SUFFICES ASSUME NEW u \in WorkItems, Group(u) = Group(t), <<u, sp, c>> \in entered
               PROVE  FALSE
    BY DEF Inside, Members
  <2>1. At(u, "result")
    BY DEF Inv, EnteredInv, AtResult
  <2>2. ip[u] > 2
    BY <2>1, Started DEF At
  <2>3. ip[t] >= 2
    BY <2>2 DEF Inv, StartInv
  <2> QED BY <1>3, <2>3
<1>13. SectionsInv'
  <2> SUFFICES ASSUME GatedBarriersFit, NEW g \in Groups, NEW i \in 1 .. Len(code'),
                      code'[i].op = "section", Initialised(g, code[i].space)'
               PROVE  SectionRun(g, code[i], code[i + 1].add)'
    BY DEF SectionsInv
  <2>1. code[i].space \in Spaces /\ code[i].counter \in Counters /\ code[i].at \in Nat
        /\ i \in 1 .. Len(code) /\ code[i].op = "section"
    BY <1>2, ElementOfSeq DEF Inv, CodeInv, Sound, Shape, SectionsIn, Instruction
  <2>2. CASE code[i].space = "global" \/ g # Group(t) \/ Lid(t) # 0
    <3>1. Initialised(g, code[i].space)
      <4>1. CASE code[i].space = "global"
        BY <4>1 DEF Initialised
      <4>2. CASE code[i].space # "global"
        <5>1. <<g, 0>> # t /\ <<g, 0>> \in WorkItems
          BY <2>2, <4>2, SizesAssumption DEF Group, Lid, WorkItems, Lids
        <5> QED BY <1>2, <1>4, <4>2, <5>1 DEF Initialised
      <4> QED BY <4>1, <4>2
    <3>2. SectionRun(g, code[i], code[i + 1].add)
      BY <2>1, <3>1 DEF Inv, SectionsInv
    <3>3. /\ counter'[code[i].space][g] = counter[code[i].space][g]
          /\ special'[code[i].space][g] = special[code[i].space][g]
      BY <1>8, <2>1, <2>2
    <3> QED BY <1>2, <3>2, <3>3 DEF SectionRun, Inside
  <2>3. CASE code[i].space = "local" /\ g = Group(t) /\ Lid(t) = 0
    <3>1. Inside(g, code[i].space, code[i].counter)' = {}
      BY <1>2, <1>12, <2>1, <2>3 DEF Inside
    <3>2. counter'[code[i].space][g][code[i].counter] = 0
          /\ special'[code[i].space][g][code[i].counter] = 0
      BY <1>8, <2>1, <2>3
    <3> QED BY <1>2, <2>1, <3>1, <3>2 DEF SectionRun
  <2> QED BY <2>1, <2>2, <2>3 DEF Spaces
<1> QED BY <1>5, <1>9, <1>10, <1>11, <1>13 DEF Inv

\* What a work-item finds at a section: its result behind it, and its group's
\* counter and special value in accord.
LEMMA AtSection ==
    ASSUME Inv, NEW i \in 1 .. Len(code), code[i].op = "section"
    PROVE  /\ code[i].space \in Spaces /\ code[i].counter \in Counters /\ code[i].at \in Nat
           /\ code[i].skip = 1 /\ i < Len(code)
           /\ code[i + 1].op = "result" /\ code[i + 1].add \in Nat
           /\ code[i + 1].space = code[i].space /\ code[i + 1].counter = code[i].counter
<1>1. code \in Seq(Instruction) /\ SectionsIn(code, Counters) /\ ShapeAt(code, i) /\ Len(code) \in Nat
  BY LenProperties DEF Inv, CodeInv, Sound, Shape, SectionsIn
<1>2. code[i] \in Instruction /\ i < Len(code) /\ code[i + 1].op = "result"
  BY <1>1, ElementOfSeq DEF ShapeAt
<1>3. i + 1 \in 1 .. Len(code)
  BY <1>1, <1>2
<1>4. code[i + 1] \in Instruction
  BY <1>1, <1>3, ElementOfSeq
<1> QED BY <1>1, <1>2, <1>4 DEF SectionsIn, ShapeAt, Instruction

\* The work-item that the counter picks enters an empty section; the others pass
\* by and only count.
LEMMA EnterSectionStep ==
    ASSUME Inv, NEW t \in WorkItems, EnterSection(t)
    PROVE  Inv'
<1>0. PICK n, s, sp, c, g, k :
           /\ n = ip[t] /\ s = code[n] /\ sp = s.space /\ c = s.counter
           /\ g = Group(t) /\ k = counter[sp][g][c]
  OBVIOUS
<1>1. phase = "run" /\ n <= Len(code) /\ s.op = "section"
      /\ UNCHANGED <<generator, special>>
      /\ counter' = [counter EXCEPT ![sp][g][c] = @ + 1]
  BY <1>0 DEF EnterSection, At
<1>2. /\ cl_options' = cl_options
      /\ phase' = phase /\ free_counters' = free_counters /\ code' = code /\ special' = special
  BY <1>1 DEF generator
<1>3. n \in 1 .. Len(code) /\ n > 2 /\ n \in Nat /\ Len(code) \in Nat
      /\ \A p \in Spaces : Initialised(g, p)
  BY <1>0, <1>1, Started, LenProperties DEF Inv, TypeInv, CodeInv, Sound, Shape
<1>4. /\ sp \in Spaces /\ c \in Counters /\ s.at \in Nat
      /\ s.skip = 1 /\ n < Len(code)
      /\ code[n + 1].op = "result" /\ code[n + 1].add \in Nat
      /\ code[n + 1].space = sp /\ code[n + 1].counter = c
  BY <1>0, <1>1, <1>3, AtSection
<1>5. g \in Groups /\ k \in Nat
  BY <1>0, <1>4 DEF WorkItems, Group, Inv, TypeInv
<1>6. GatedBarriersFit => SectionRun(g, s, code[n + 1].add)
  BY <1>0, <1>1, <1>3, <1>4, <1>5 DEF Inv, SectionsInv
<1>7. \/ /\ k = s.at
         /\ entered' = entered \cup {<<t, sp, c>>}
         /\ ip' = [ip EXCEPT ![t] = n + 1]
      \/ /\ k # s.at
         /\ entered' = entered
         /\ ip' = [ip EXCEPT ![t] = n + 2]
  <2>1. n + 1 + s.skip = n + 2
    BY <1>3, <1>4
  <2> QED BY <1>0, <2>1 DEF EnterSection, Enters, Step, Goto
<1>8. ip \in [WorkItems -> Nat \ {0}] /\ counter \in [Spaces -> [Groups -> [Counters -> Nat]]]
      /\ special \in [Spaces -> [Groups -> [Counters -> Nat]]]
      /\ entered \subseteq WorkItems \X Spaces \X Counters
  BY DEF Inv, TypeInv, EnteredInv
<1>9. /\ counter' \in [Spaces -> [Groups -> [Counters -> Nat]]]
      /\ counter'[sp][g][c] = k + 1
      /\ \A sp2 \in Spaces, g2 \in Groups, c2 \in Counters :
            <<sp2, g2, c2>> # <<sp, g, c>> => counter'[sp2][g2][c2] = counter[sp2][g2][c2]
  <2>1. counter' = [counter EXCEPT ![sp][g][c] = k + 1] /\ k + 1 \in Nat
    BY <1>0, <1>1, <1>4, <1>5, <1>8
  <2> QED BY SMTT(30), <1>4, <1>5, <1>8, <2>1
<1>10. /\ ip' \in [WorkItems -> Nat \ {0}] /\ ip'[t] \in {n + 1, n + 2}
       /\ \A u \in WorkItems : u # t => ip'[u] = ip[u]
  <2>1. ASSUME NEW m \in {n + 1, n + 2}, ip' = [ip EXCEPT ![t] = m]
        PROVE  /\ ip' \in [WorkItems -> Nat \ {0}] /\ ip'[t] \in {n + 1, n + 2}
               /\ \A u \in WorkItems : u # t => ip'[u] = ip[u]
    <3>1. m \in Nat \ {0}
      BY <1>3, <2>1
    <3> QED BY <1>8, <2>1, <3>1
  <2> QED BY <1>7, <2>1
<1>11. CodeInv' /\ TypeInv' /\ GenerateInv' /\ StartInv'
  <2>1. CodeInv' /\ TypeInv' /\ GenerateInv'
    BY <1>1, <1>2, <1>9, <1>10 DEF Inv, CodeInv, TypeInv, GenerateInv
  <2>2. StartInv'
    <3> SUFFICES ASSUME NEW v \in WorkItems, NEW u \in WorkItems, Group(v) = Group(u),
                        ip'[v] > 2
                 PROVE  ip'[u] >= 2
      BY DEF StartInv
    <3>1. ip[v] > 2
      BY <1>0, <1>3, <1>10
    <3>2. ip[u] >= 2
      BY <3>1 DEF Inv, StartInv
    <3> QED BY <1>0, <1>3, <1>10, <3>2
  <2> QED BY <2>1, <2>2
<1>12. EnteredInv'
  <2>1. entered' \subseteq WorkItems \X Spaces \X Counters
    BY <1>4, <1>7, <1>8
  <2>2. ASSUME NEW u \in WorkItems, NEW sp2 \in Spaces, NEW c2 \in Counters, u # t
        PROVE  <<u, sp2, c2>> \in entered' <=> AtResult(u, sp2, c2)'
    <3>1. <<u, sp2, c2>> \in entered' <=> <<u, sp2, c2>> \in entered
      BY <1>7, <2>2
    <3>2. AtResult(u, sp2, c2)' <=> AtResult(u, sp2, c2)
      BY <1>2, <1>10, <2>2 DEF AtResult, At
    <3> QED BY <3>1, <3>2 DEF Inv, EnteredInv
  <2>3. ASSUME NEW sp2 \in Spaces, NEW c2 \in Counters
        PROVE  <<t, sp2, c2>> \in entered' <=> AtResult(t, sp2, c2)'
    <3>1. <<t, sp2, c2>> \notin entered
      BY <1>0, <1>1 DEF Inv, EnteredInv, AtResult, At
    <3>2. CASE k = s.at
      <4>1. <<t, sp2, c2>> \in entered' <=> sp2 = sp /\ c2 = c
        BY <1>7, <3>1, <3>2
      <4>2. ip'[t] = n + 1
        BY <1>7, <1>8, <3>2
      <4>3. AtResult(t, sp2, c2)' <=> sp2 = sp /\ c2 = c
        BY <1>1, <1>2, <1>3, <1>4, <4>2 DEF AtResult, At
      <4> QED BY <4>1, <4>3
    <3>3. CASE k # s.at
      <4>1. ip'[t] = n + 1 + 1 /\ entered' = entered
        BY <1>3, <1>7, <1>8, <3>3
      <4>2. n + 1 \in 1 .. Len(code) /\ code[n + 1].op # "section"
        BY <1>3, <1>4
      <4>3. n + 1 + 1 <= Len(code) => code[n + 1 + 1].op # "result"
        BY <4>2, NoJumpIntoSection
      <4>4. ~AtResult(t, sp2, c2)'
        BY <1>2, <4>1, <4>3 DEF AtResult, At
      <4> QED BY <3>1, <4>1, <4>4
    <3> QED BY <3>2, <3>3
  <2> QED BY <2>1, <2>2, <2>3 DEF EnteredInv
<1>13. SectionsInv'
  <2> SUFFICES ASSUME GatedBarriersFit, NEW g2 \in Groups, NEW i \in 1 .. Len(code'),
                      code'[i].op = "section", Initialised(g2, code[i].space)'
               PROVE  SectionRun(g2, code[i], code[i + 1].add)'
    BY DEF SectionsInv
  <2>1. /\ i \in 1 .. Len(code) /\ code[i].op = "section"
        /\ code[i].space \in Spaces /\ code[i].counter \in Counters /\ code[i].at \in Nat
    BY <1>2, AtSection
  <2>2. CASE g2 = g /\ code[i].counter = c
    <3>1. code[i] = s /\ code[i + 1] = code[n + 1]
      BY ZenonT(20), <1>0, <1>1, <1>3, <2>1, <2>2 DEF Inv, CodeInv, Sound, Agree
    <3>2. CASE k = s.at
      <4>1. Inside(g, sp, c) = {} /\ special[sp][g][c] = 0
        BY <1>0, <1>5, <1>6, <3>2 DEF SectionRun
      <4>2. Inside(g, sp, c)' = {t}
        <5>1. \A u \in WorkItems : Group(u) = g => <<u, sp, c>> \notin entered
          BY <4>1 DEF Inside, Members
        <5>2. Group(t) = g /\ entered' = entered \cup {<<t, sp, c>>}
          BY <1>0, <1>7, <3>2
        <5> QED BY <5>1, <5>2 DEF Inside, Members
      <4>3. counter'[sp][g][c] > s.at
        BY <1>4, <1>5, <1>9, <3>2
      <4>4. ~(counter'[sp][g][c] <= s.at)
        BY <1>4, <1>5, <1>9, <3>2
      <4>5. s.space = sp /\ s.counter = c /\ special'[sp][g][c] = 0
        BY <1>0, <1>2, <4>1
      <4>6. SectionRun(g, s, code[n + 1].add)'
        BY <4>2, <4>4, <4>5 DEF SectionRun
      <4> QED BY <1>2, <2>2, <3>1, <4>6
    <3>3. CASE k # s.at
      <4>1. Inside(g, sp, c)' = Inside(g, sp, c)
        BY <1>7, <3>3 DEF Inside
      <4>2. (k + 1 <= s.at => k <= s.at) /\ (k + 1 > s.at => k > s.at)
        BY <1>4, <1>5, <3>3
      <4> QED BY <1>0, <1>2, <1>6, <1>9, <2>2, <3>1, <4>1, <4>2 DEF SectionRun
    <3> QED BY <3>2, <3>3
  <2>3. CASE ~(g2 = g /\ code[i].counter = c)
    <3>0. PICK sp2, c2 : sp2 = code[i].space /\ c2 = code[i].counter
      OBVIOUS
    <3>1. counter'[sp2][g2][c2] = counter[sp2][g2][c2]
      BY <1>9, <2>1, <2>3, <3>0
    <3>2. Inside(g2, sp2, c2)' = Inside(g2, sp2, c2)
      BY <1>0, <1>7, <2>3, <3>0 DEF Inside, Members
    <3>3. Initialised(g2, sp2)
      <4>1. CASE <<g2, 0>> = t
        BY <1>0, <1>3, <4>1 DEF Initialised
      <4>2. CASE <<g2, 0>> # t
        <5>1. <<g2, 0>> \in WorkItems
          BY SizesAssumption DEF WorkItems, Lids
        <5> QED BY <1>2, <1>10, <3>0, <4>2, <5>1 DEF Initialised
      <4> QED BY <4>1, <4>2
    <3>4. SectionRun(g2, code[i], code[i + 1].add)
      BY <2>1, <3>0, <3>3 DEF Inv, SectionsInv
    <3> QED BY <1>2, <3>0, <3>1, <3>2, <3>4 DEF SectionRun
  <2> QED BY <2>2, <2>3
<1> QED BY <1>11, <1>12, <1>13 DEF Inv

\* The one work-item inside leaves its result and the section.
LEMMA LeaveSectionStep ==
    ASSUME Inv, NEW t \in WorkItems, LeaveSection(t)
    PROVE  Inv'
<1>0. PICK n, s, r, sp, c, g, x :
           /\ n = ip[t] /\ s = code[n - 1] /\ r = code[n] /\ sp = r.space /\ c = r.counter
           /\ g = Group(t) /\ x = special[sp][g][c]
  OBVIOUS
<1>1. phase = "run" /\ n <= Len(code) /\ r.op = "result"
      /\ UNCHANGED <<generator, counter>>
      /\ special' = [special EXCEPT ![sp][g][c] = (@ + r.add) % Modulus]
      /\ entered' = entered \ {<<t, sp, c>>}
      /\ ip' = [ip EXCEPT ![t] = n + 1]
  BY <1>0 DEF LeaveSection, At, Step, Goto
<1>2. /\ cl_options' = cl_options
      /\ phase' = phase /\ free_counters' = free_counters /\ code' = code /\ counter' = counter
  BY <1>1 DEF generator
<1>3. n \in 1 .. Len(code) /\ n > 2 /\ n \in Nat /\ Len(code) \in Nat
      /\ \A p \in Spaces : Initialised(g, p)
  BY <1>0, <1>1, Started, LenProperties DEF Inv, TypeInv, CodeInv, Sound, Shape
<1>4. n - 1 \in 1 .. Len(code) /\ s.op = "section" /\ n - 1 + 1 = n
  <2>1. ShapeAt(code, n)
    BY <1>3 DEF Inv, CodeInv, Sound, Shape
  <2>2. n > 1 /\ s.op = "section"
    BY <1>0, <1>1, <2>1 DEF ShapeAt
  <2> QED BY <1>3, <2>2
<1>5. /\ sp \in Spaces /\ c \in Counters /\ s.at \in Nat /\ r.add \in Nat
      /\ s.space = sp /\ s.counter = c
  BY <1>0, <1>4, AtSection
<1>6. g \in Groups /\ x \in Nat
  BY <1>0, <1>5 DEF WorkItems, Group, Inv, TypeInv
<1>7. GatedBarriersFit => SectionRun(g, s, r.add)
  BY <1>0, <1>3, <1>4, <1>5, <1>6 DEF Inv, SectionsInv
<1>8. ip \in [WorkItems -> Nat \ {0}] /\ counter \in [Spaces -> [Groups -> [Counters -> Nat]]]
      /\ special \in [Spaces -> [Groups -> [Counters -> Nat]]]
      /\ entered \subseteq WorkItems \X Spaces \X Counters
  BY DEF Inv, TypeInv, EnteredInv
<1>9. <<t, sp, c>> \in entered
  BY <1>0, <1>1, <1>5 DEF Inv, EnteredInv, AtResult, At
<1>10. t \in Inside(g, sp, c)
  BY <1>0, <1>9 DEF Inside, Members
<1>11. ASSUME GatedBarriersFit
       PROVE  /\ ~(counter[sp][g][c] <= s.at) /\ counter[sp][g][c] > s.at
              /\ \A u \in Inside(g, sp, c) : u = t
              /\ x = 0
  <2>1. counter[sp][g][c] \in Nat
    BY <1>5, <1>6, <1>8
  <2>2. ~(counter[sp][g][c] <= s.at) /\ counter[sp][g][c] > s.at
    BY <1>5, <1>7, <1>10, <1>11, <2>1 DEF SectionRun
  <2> QED BY <1>0, <1>5, <1>7, <1>10, <1>11, <2>2 DEF SectionRun
<1>12. /\ (x + r.add) % Modulus \in Nat
       /\ GatedBarriersFit => (x + r.add) % Modulus = r.add % Modulus
  BY <1>5, <1>6, <1>11, SizesAssumption
<1>13. /\ special' \in [Spaces -> [Groups -> [Counters -> Nat]]]
       /\ special'[sp][g][c] = (x + r.add) % Modulus
       /\ \A sp2 \in Spaces, g2 \in Groups, c2 \in Counters :
            <<sp2, g2, c2>> # <<sp, g, c>> => special'[sp2][g2][c2] = special[sp2][g2][c2]
  <2>1. special' = [special EXCEPT ![sp][g][c] = (x + r.add) % Modulus]
    BY <1>0, <1>1, <1>5, <1>6, <1>8, <1>12
  <2>2. PICK m \in Nat : m = (x + r.add) % Modulus
    BY <1>12
  <2> QED BY <1>5, <1>6, <1>8, <2>1, <2>2
<1>14. /\ ip' \in [WorkItems -> Nat \ {0}] /\ ip'[t] = n + 1
       /\ \A u \in WorkItems : u # t => ip'[u] = ip[u]
  BY <1>1, <1>3, <1>8
<1>15. CodeInv' /\ TypeInv' /\ GenerateInv'
  BY <1>1, <1>2, <1>8, <1>13, <1>14 DEF Inv, CodeInv, TypeInv, GenerateInv
<1>16. StartInv'
  <2> SUFFICES ASSUME NEW v \in WorkItems, NEW u \in WorkItems, Group(v) = Group(u), ip'[v] > 2
               PROVE  ip'[u] >= 2
    BY DEF StartInv
  <2>1. ip[v] > 2
    BY <1>0, <1>3, <1>14
  <2>2. ip[u] >= 2
    BY <2>1 DEF Inv, StartInv
  <2> QED BY <1>0, <1>3, <1>14, <2>2
<1>17. EnteredInv'
  <2>1. entered' \subseteq WorkItems \X Spaces \X Counters
    BY <1>1, <1>8
  <2>2. ASSUME NEW u \in WorkItems, NEW sp2 \in Spaces, NEW c2 \in Counters, u # t
        PROVE  <<u, sp2, c2>> \in entered' <=> AtResult(u, sp2, c2)'
    <3>1. <<u, sp2, c2>> \in entered' <=> <<u, sp2, c2>> \in entered
      BY <1>1, <2>2
    <3>2. AtResult(u, sp2, c2)' <=> AtResult(u, sp2, c2)
      BY <1>2, <1>14, <2>2 DEF AtResult, At
    <3> QED BY <3>1, <3>2 DEF Inv, EnteredInv
  <2>3. ASSUME NEW sp2 \in Spaces, NEW c2 \in Counters
        PROVE  <<t, sp2, c2>> \notin entered' /\ ~AtResult(t, sp2, c2)'
    <3>1. <<t, sp2, c2>> \in entered => sp2 = sp /\ c2 = c
      BY <1>0 DEF Inv, EnteredInv, AtResult, At
    <3>2. n + 1 <= Len(code) => code[n + 1].op # "result"
      BY <1>0, <1>1, <1>3, NoJumpIntoSection
    <3>3. ~AtResult(t, sp2, c2)'
      BY <1>2, <1>14, <3>2 DEF AtResult, At
    <3> QED BY <1>1, <3>1, <3>3
  <2> QED BY <2>1, <2>2, <2>3 DEF EnteredInv
<1>18. SectionsInv'
  <2> SUFFICES ASSUME GatedBarriersFit, NEW g2 \in Groups, NEW i \in 1 .. Len(code'),
                      code'[i].op = "section", Initialised(g2, code[i].space)'
               PROVE  SectionRun(g2, code[i], code[i + 1].add)'
    BY DEF SectionsInv
  <2>1. /\ i \in 1 .. Len(code) /\ code[i].op = "section"
        /\ code[i].space \in Spaces /\ code[i].counter \in Counters /\ code[i].at \in Nat
    BY <1>2, AtSection
  <2>2. CASE g2 = g /\ code[i].counter = c
    <3>1. code[i] = s /\ code[i + 1] = r
      <4>1. Agree(code, code)
        BY DEF Inv, CodeInv, Sound
      <4>2. code[n - 1].op = "section" /\ code[i].counter = code[n - 1].counter
        BY <1>0, <1>4, <1>5, <2>2
      <4>3. code[i] = code[n - 1] /\ code[i + 1] = code[n - 1 + 1]
        BY <1>4, <2>1, <4>1, <4>2 DEF Agree
      <4> QED BY <1>0, <1>4, <4>3
    <3>2. Inside(g, sp, c)' = {}
      <4>1. \A u \in WorkItems : Group(u) = g /\ <<u, sp, c>> \in entered => u = t
        BY <1>11 DEF Inside, Members
      <4> QED BY <1>1, <4>1 DEF Inside, Members
    <3>3. counter[sp][g][c] > s.at /\ ~(counter[sp][g][c] <= s.at)
      BY <1>11
    <3> QED BY <1>2, <1>5, <1>12, <1>13, <2>2, <3>1, <3>2, <3>3 DEF SectionRun
  <2>3. CASE ~(g2 = g /\ code[i].counter = c)
    <3>0. PICK sp2, c2 : sp2 = code[i].space /\ c2 = code[i].counter
      OBVIOUS
    <3>1. special'[sp2][g2][c2] = special[sp2][g2][c2]
      BY <1>13, <2>1, <2>3, <3>0
    <3>2. Inside(g2, sp2, c2)' = Inside(g2, sp2, c2)
      BY <1>0, <1>1, <2>3, <3>0 DEF Inside, Members
    <3>3. Initialised(g2, sp2)
      <4>1. CASE <<g2, 0>> = t
        BY <1>0, <1>3, <4>1 DEF Initialised
      <4>2. CASE <<g2, 0>> # t
        <5>1. <<g2, 0>> \in WorkItems
          BY SizesAssumption DEF WorkItems, Lids
        <5> QED BY <1>2, <1>14, <3>0, <4>2, <5>1 DEF Initialised
      <4> QED BY <4>1, <4>2
    <3>4. SectionRun(g2, code[i], code[i + 1].add)
      BY <2>1, <3>0, <3>3 DEF Inv, SectionsInv
    <3> QED BY <1>2, <3>0, <3>1, <3>2, <3>4 DEF SectionRun
  <2> QED BY <2>2, <2>3
<1> QED BY <1>15, <1>16, <1>17, <1>18 DEF Inv

\* The invariant is inductive.
LEMMA NextInv ==
    ASSUME NoBarrierInSections
    PROVE  Inv /\ (GatedBarriersFit \/ reg \in [WorkItems -> Nat]) /\ [Next]_vars => Inv'
<1> SUFFICES ASSUME Inv, GatedBarriersFit \/ reg \in [WorkItems -> Nat], [Next]_vars
             PROVE  Inv'
  OBVIOUS
<1>1. CASE \E s \in Statements : AddStatement(s)
  BY <1>1, AddStatementStep
<1>2. CASE Launch
  BY <1>2, LaunchStep
<1>3. ASSUME NEW t \in WorkItems, RunInside(t) PROVE Inv'
  <2>1. CASE InitBuffers(t)
    BY <2>1, InitBuffersStep
  <2>2. CASE EnterSection(t)
    BY <2>2, EnterSectionStep
  <2>3. CASE LeaveSection(t)
    BY <2>3, LeaveSectionStep
  <2>4. CASE \/ Evaluate(t) \/ Store(t) \/ Branch(t) \/ Permute(t) \/ Reduce(t) \/ Collect(t)
             \/ TestGate(t) \/ TakeInside(t) \/ GiveInside(t) \/ ShutGate(t) \/ Hash(t)
    BY <2>4, ItemSteps
  <2> QED BY <1>3, <2>1, <2>2, <2>3, <2>4 DEF RunInside
<1>4. ASSUME NEW g \in Groups, PassBarrier(g) PROVE Inv'
  BY <1>4, BarrierStep
<1>5. CASE UNCHANGED vars
  <2>1. UNCHANGED <<cl_options, phase, free_counters, code, ip, entered, counter, special>>
    BY <1>5 DEF vars, generator, private, atomics
  <2>2. CodeInv' /\ TypeInv' /\ GenerateInv' /\ StartInv'
    BY <2>1 DEF Inv, CodeInv, TypeInv, GenerateInv, StartInv
  <2>3. EnteredInv'
    BY <2>1 DEF Inv, EnteredInv, AtResult, At
  <2>4. SectionsInv'
    BY <2>1 DEF Inv, SectionsInv, Initialised, SectionRun, Inside
  <2> QED BY <2>2, <2>3, <2>4 DEF Inv
<1>6. ASSUME NEW t \in WorkItems, TakeBeyond(t) \/ GiveBeyond(t) PROVE Inv'
  BY <1>6, NobodyBeyond, BeyondStep
<1> QED BY <1>1, <1>2, <1>3, <1>4, <1>5, <1>6, NextCases DEF Rest

-----------------------------------------------------------------------------
(* Theorems                                                                *)

\* The body of an atomic section runs once, on the pass its counter picks, by one
\* work-item of the group, however many times a loop or a group passes it, for
\* any program the generator accepts, in groups that the buffer of the barriers that
\* exchange is large enough for: a value given to memory behind it may be a counter.
THEOREM SectionsOnce ==
    ASSUME NoBarrierInSections, GatedBarriersFit
    PROVE  Spec => []SectionsRunOnce
<1>1. Inv => SectionsRunOnce
  <2> SUFFICES ASSUME Inv, NEW g \in Groups, NEW i \in DOMAIN code, code[i].op = "section"
               PROVE  LET s == code[i]
                          inside == Inside(g, s.space, s.counter)
                      IN  /\ \A t, u \in inside : t = u
                          /\ Initialised(g, s.space) =>
                               special[s.space][g][s.counter] =
                                 IF counter[s.space][g][s.counter] > s.at /\ inside = {}
                                   THEN code[i + s.skip].add % Modulus ELSE 0
    BY DEF SectionsRunOnce, Inside, Initialised
  <2>1. i \in 1 .. Len(code)
    BY LenProperties DEF Inv, CodeInv, Sound, Shape
  <2>0. PICK s, sp, c, k, x : s = code[i] /\ sp = s.space /\ c = s.counter
                              /\ k = counter[sp][g][c] /\ x = special[sp][g][c]
    OBVIOUS
  <2>2. sp \in Spaces /\ c \in Counters /\ s.at \in Nat /\ s.skip = 1
    BY <2>0, <2>1, AtSection
  <2>3. k \in Nat
    BY <2>0, <2>2 DEF Inv, TypeInv
  <2>4. CASE Initialised(g, sp)
    <3>1. SectionRun(g, s, code[i + 1].add)
      BY <2>0, <2>1, <2>4 DEF Inv, SectionsInv
    <3>2. CASE k <= s.at
      <4>1. Inside(g, sp, c) = {} /\ x = 0 /\ ~(k > s.at)
        BY <2>0, <2>2, <2>3, <3>1, <3>2 DEF SectionRun
      <4> QED BY <2>0, <4>1
    <3>3. CASE k > s.at
      BY <2>0, <2>2, <3>1, <3>3 DEF SectionRun
    <3> QED BY <2>2, <2>3, <3>2, <3>3
  <2>5. CASE ~Initialised(g, sp)
    <3>1. ASSUME NEW t \in Inside(g, sp, c) PROVE FALSE
      <4>1. t \in WorkItems /\ Group(t) = g /\ <<t, sp, c>> \in entered
        BY DEF Inside, Members
      <4>2. At(t, "result")
        BY <2>2, <4>1 DEF Inv, EnteredInv, AtResult
      <4>3. Initialised(g, sp)
        BY <2>2, <4>1, <4>2, Started DEF At
      <4> QED BY <2>5, <4>3
    <3> QED BY <2>0, <2>5, <3>1
  <2> QED BY <2>4, <2>5
<1>2. Inv /\ [Next]_vars => Inv'
  BY NextInv
<1> QED BY InitInv, <1>1, <1>2, PTL DEF Spec

-----------------------------------------------------------------------------
(* Types and ids                                                           *)

\* The types that Inv does not give.  The ids stay in their group, which is what
\* makes every access to g_comm_values one to an item that exists.
DataOK ==
    /\ permutations \in [0 .. NRows - 1 -> Shuffles]
    /\ prog \in Seq(Statement)
    /\ reg \in [WorkItems -> UInt]
    /\ tid \in [WorkItems -> Nat] /\ TidsInGroup
    /\ v_collective \in [WorkItems -> UInt]
    /\ gate \in [WorkItems -> {0, 1}]
    /\ l_comm_values \in [Groups -> [Lids -> UInt]]
    /\ g_comm_values \in [0 .. NGroups * Size - 1 -> UInt]
    /\ reduction \in [Spaces -> [Groups -> UInt]]
    /\ special \in [Spaces -> [Groups -> [Counters -> UInt]]]
    /\ lb \in [Groups -> [Items -> UInt]]

\* The ids of a group are ids of the kernel.
LEMMA GroupIds ==
    ASSUME NEW g \in Groups, NEW x \in g * Size .. g * Size + Size - 1
    PROVE  g * Size \in Nat /\ x \in 0 .. NGroups * Size - 1
<1>1. NGroups \in Nat /\ Size \in Nat /\ g \in Nat /\ NGroups - 1 - g \in Nat
  BY SizesAssumption DEF Groups
<1>2. PICK d \in Nat : NGroups = g + 1 + d
  <2>1. NGroups = g + 1 + (NGroups - 1 - g)
    BY <1>1
  <2> QED BY <1>1, <2>1
<1>3. g * Size \in Nat /\ d * Size \in Nat
  BY <1>1, <1>2
<1>4. NGroups * Size = g * Size + Size + d * Size
  BY <1>1, <1>2
<1> QED BY <1>1, <1>3, <1>4

\* Work-items have a group, an id in it and an id of the kernel.
LEMMA ItemIds ==
    ASSUME NEW t \in WorkItems
    PROVE  /\ Group(t) \in Groups /\ Lid(t) \in Lids /\ Group(t) \in Nat /\ Lid(t) \in Nat
           /\ Group(t) * Size \in Nat
           /\ GlobalId(t) \in 0 .. NGroups * Size - 1 /\ GlobalId(t) \in Nat
<1>1. Group(t) \in Groups /\ Lid(t) \in Lids /\ Group(t) \in Nat /\ Lid(t) \in Nat /\ Size \in Nat
  BY SizesAssumption DEF WorkItems, Group, Lid, Groups, Lids
<1>2. Group(t) * Size \in Nat
  BY <1>1
<1>3. Group(t) * Size + Lid(t) \in Group(t) * Size .. Group(t) * Size + Size - 1
  BY <1>1, <1>2 DEF Lids
<1> QED BY <1>1, <1>2, <1>3, GroupIds DEF GlobalId

\* What is reduced modulo Modulus is a value.
LEMMA Reduced == ASSUME NEW x \in Int PROVE x % Modulus \in UInt
  BY SizesAssumption DEF UInt

\* The atomic functions return values.
LEMMA ApplyType ==
    ASSUME NEW fn \in AtomicFunctions, NEW a \in UInt, NEW b \in UInt
    PROVE  Apply(fn, a, b) \in UInt
<1>1. ASSUME NEW bits \in SUBSET BitsOfWord PROVE OfBits(bits) \in UInt
  BY BitsAssumption DEF OfBits
<1>2. Bits(a) \in SUBSET BitsOfWord /\ Bits(b) \in SUBSET BitsOfWord
  BY DEF Bits
<1>3. /\ (Bits(a) \cap Bits(b)) \in SUBSET BitsOfWord
      /\ (Bits(a) \cup Bits(b)) \in SUBSET BitsOfWord
      /\ ((Bits(a) \cup Bits(b)) \ (Bits(a) \cap Bits(b))) \in SUBSET BitsOfWord
  BY <1>2
<1>4. /\ OfBits(Bits(a) \cap Bits(b)) \in UInt
      /\ OfBits(Bits(a) \cup Bits(b)) \in UInt
      /\ OfBits((Bits(a) \cup Bits(b)) \ (Bits(a) \cap Bits(b))) \in UInt
  BY <1>1, <1>3
<1>5. (a + b) % Modulus \in UInt /\ (a + Modulus - b) % Modulus \in UInt
  <2>1. a + b \in Int /\ a + Modulus - b \in Int
    BY SizesAssumption DEF UInt
  <2> QED BY <2>1, Reduced
<1>6. (IF a < b THEN a ELSE b) \in UInt /\ (IF a < b THEN b ELSE a) \in UInt
  OBVIOUS
<1>7. /\ fn = "add" => Apply(fn, a, b) = (a + b) % Modulus
      /\ fn = "sub" => Apply(fn, a, b) = (a + Modulus - b) % Modulus
      /\ fn = "min" => Apply(fn, a, b) = IF a < b THEN a ELSE b
      /\ fn = "max" => Apply(fn, a, b) = IF a < b THEN b ELSE a
      /\ fn = "and" => Apply(fn, a, b) = OfBits(Bits(a) \cap Bits(b))
      /\ fn = "or" => Apply(fn, a, b) = OfBits(Bits(a) \cup Bits(b))
      /\ fn = "xor" => Apply(fn, a, b) = OfBits((Bits(a) \cup Bits(b)) \ (Bits(a) \cap Bits(b)))
  BY DEF Apply
<1>8. fn \in {"add", "sub", "min", "max", "and", "or", "xor"}
  BY DEF AtomicFunctions
<1> HIDE DEF OfBits, Bits, UInt
<1> QED BY <1>4, <1>5, <1>6, <1>7, <1>8

\* Expressions have values: the items that are read exist.
LEMMA ValueType ==
    ASSUME DataOK, NEW t \in WorkItems, NEW e \in Expression
    PROVE  Value(t, e) \in UInt
<1> DEFINE read == CASE e.source = "nothing" -> 0
                     [] e.source = "local"   -> l_comm_values[Group(t)][LocalItem(t)]
                     [] e.source = "global"  -> g_comm_values[tid[t]]
                     [] e.source = "group"   -> Group(t)
                     [] e.source = "id"      -> GlobalId(t)
<1>1. e.source \in {"nothing", "local", "global", "group", "id"} /\ e.add \in Nat
  BY DEF Expression, Sources, Spaces
<1>2. /\ e.source = "nothing" => read = 0
      /\ e.source = "local" => read = l_comm_values[Group(t)][LocalItem(t)]
      /\ e.source = "global" => read = g_comm_values[tid[t]]
      /\ e.source = "group" => read = Group(t)
      /\ e.source = "id" => read = GlobalId(t)
  OBVIOUS
<1>3. l_comm_values[Group(t)][LocalItem(t)] \in UInt
  <2>1. LocalItem(t) \in Lids
    BY SizesAssumption DEF DataOK, LocalItem, Lids
  <2> QED BY <2>1, ItemIds DEF DataOK
<1>4. g_comm_values[tid[t]] \in UInt
  <2>1. tid[t] \in 0 .. NGroups * Size - 1
    BY ItemIds, GroupIds DEF DataOK, TidsInGroup
  <2> QED BY <2>1 DEF DataOK
<1>5. Group(t) \in Nat /\ GlobalId(t) \in Nat
  BY ItemIds
<1>6. UInt \subseteq Int
  BY DEF UInt
<1>7. Value(t, e) = (read + e.add) % Modulus
  BY DEF Value
<1> HIDE DEF read
<1>8. read \in Int
  <2>1. CASE e.source = "nothing"
    BY <1>2, <2>1
  <2>2. CASE e.source = "local"
    BY <1>2, <1>3, <1>6, <2>2
  <2>3. CASE e.source = "global"
    BY <1>2, <1>4, <1>6, <2>3
  <2>4. CASE e.source = "group"
    BY <1>2, <1>5, <2>4
  <2>5. CASE e.source = "id"
    BY <1>2, <1>5, <2>5
  <2> QED BY <1>1, <2>1, <2>2, <2>3, <2>4, <2>5
<1>9. read + e.add \in Int
  BY <1>1, <1>8
<1> QED BY <1>7, <1>9, Reduced

\* The instruction a work-item is at.
LEMMA InstructionType ==
    ASSUME Inv, NEW t \in WorkItems, NEW op, At(t, op)
    PROVE  code[ip[t]] \in Instruction /\ code[ip[t]].op = op /\ ip[t] \in 1 .. Len(code)
<1>1. code \in Seq(Instruction) /\ ip[t] \in Nat \ {0} /\ Len(code) \in Nat
  BY LenProperties DEF Inv, TypeInv, CodeInv, Sound, Shape
<1>2. ip[t] \in 1 .. Len(code) /\ code[ip[t]].op = op
  BY <1>1 DEF At
<1> QED BY <1>1, <1>2, ElementOfSeq

\* The new id of a StatementComm belongs to the group.
LEMMA PermuteIds ==
    ASSUME DataOK, NEW t \in WorkItems
    PROVE  LET id == Permuted(t, reg[t] % NRows, tid[t])
           IN  id \in Group(t) * Size .. Group(t) * Size + Size - 1 /\ id \in Nat
<1>1. Size \in Nat \ {0} /\ NRows \in Nat \ {0} /\ tid[t] \in Nat /\ reg[t] \in Int
  BY SizesAssumption DEF DataOK, UInt
<1>2. reg[t] % NRows \in 0 .. NRows - 1 /\ tid[t] % Size \in Lids
  BY <1>1 DEF Lids
<1>3. permutations[reg[t] % NRows] \in Shuffles
  BY <1>2 DEF DataOK
<1>4. permutations[reg[t] % NRows][tid[t] % Size] \in Lids
  BY <1>2, <1>3, ShufflesAssumption
<1>5. Group(t) * Size \in Nat
  BY ItemIds
<1>6. \A l \in Lids : /\ Group(t) * Size + l \in Group(t) * Size .. Group(t) * Size + Size - 1
                      /\ Group(t) * Size + l \in Nat
  BY <1>1, <1>5 DEF Lids
<1> QED BY <1>4, <1>6 DEF Permuted

\* Every step keeps the data to its types and the ids in their groups.
LEMMA DataStep ==
    ASSUME Inv, DataOK, [Next]_vars
    PROVE  DataOK'
<1> USE DEF private, comm, atomics, generator, Step, Goto
<1>1. ASSUME NEW s \in Statements, AddStatement(s) PROVE DataOK'
  <2>1. prog' \in Seq(Statement)
    BY <1>1, StatementsAssumption, AppendProperties DEF AddStatement, DataOK
  <2> QED BY <1>1, <2>1 DEF AddStatement, DataOK, TidsInGroup
<1>2. CASE Launch
  BY <1>2 DEF Launch, DataOK, TidsInGroup
<1>3. ASSUME NEW t \in WorkItems, RunInside(t) PROVE DataOK'
  <2>0. /\ Group(t) \in Groups /\ Lid(t) \in Lids /\ Group(t) \in Nat /\ Lid(t) \in Nat
        /\ GlobalId(t) \in Nat /\ UInt \subseteq Int
    BY ItemIds DEF UInt
  <2>1. CASE InitBuffers(t)
    <3>1. 0 \in UInt /\ 1 \in UInt /\ "local" \in Spaces
      BY SizesAssumption DEF UInt, Spaces
    <3>2. CASE Lid(t) # 0
      BY <2>1, <3>2 DEF InitBuffers, DataOK, TidsInGroup
    <3>3. CASE Lid(t) = 0
      <4> DEFINE ones(S) == [i \in S |-> 1]
                 zero == [c \in Counters |-> 0]
      <4>1. \A S : ones(S) \in [S -> UInt]
        BY <3>1
      <4>2. zero \in [Counters -> UInt]
        BY <3>1
      <4>3. /\ l_comm_values' = [l_comm_values EXCEPT ![Group(t)] = ones(Lids)]
            /\ lb' = [lb EXCEPT ![Group(t)] = ones(Items)]
            /\ reduction' = [reduction EXCEPT !["local"][Group(t)] = 0]
            /\ special' = [special EXCEPT !["local"][Group(t)] = zero]
            /\ UNCHANGED <<permutations, prog, reg, tid, v_collective, gate, g_comm_values>>
        BY <2>1, <3>3 DEF InitBuffers
      <4> HIDE DEF ones, zero
      <4>4. l_comm_values' \in [Groups -> [Lids -> UInt]]
        BY <2>0, <4>1, <4>3 DEF DataOK
      <4>5. lb' \in [Groups -> [Items -> UInt]]
        BY <2>0, <4>1, <4>3 DEF DataOK
      <4>6. reduction' \in [Spaces -> [Groups -> UInt]]
        BY <2>0, <3>1, <4>3 DEF DataOK
      <4>7. special' \in [Spaces -> [Groups -> [Counters -> UInt]]]
        BY <2>0, <3>1, <4>2, <4>3 DEF DataOK
      <4> QED BY <4>3, <4>4, <4>5, <4>6, <4>7 DEF DataOK, TidsInGroup
    <3> QED BY <3>2, <3>3
  <2>2. CASE Evaluate(t)
    <3>1. code[ip[t]].expr \in Expression
      BY <2>2, InstructionType DEF Evaluate, Instruction
    <3>2. Value(t, code[ip[t]].expr) \in UInt
      BY <3>1, ValueType
    <3> QED BY <2>2, <3>2 DEF Evaluate, DataOK, TidsInGroup
  <2>3. CASE Store(t)
    <3>1. LocalItem(t) \in Lids
      BY SizesAssumption DEF DataOK, LocalItem, Lids
    <3>2. tid[t] \in 0 .. NGroups * Size - 1
      BY ItemIds, GroupIds DEF DataOK, TidsInGroup
    <3>3. reg[t] \in UInt
      BY DEF DataOK
    <3>4. l_comm_values' \in [Groups -> [Lids -> UInt]]
      <4>0. PICK g, l, x : g = Group(t) /\ l = LocalItem(t) /\ x = reg[t]
        OBVIOUS
      <4>1. l_comm_values' = l_comm_values \/ l_comm_values' = [l_comm_values EXCEPT ![g][l] = x]
        BY <2>3, <4>0 DEF Store
      <4>2. l_comm_values \in [Groups -> [Lids -> UInt]] /\ g \in Groups /\ l \in Lids /\ x \in UInt
        BY <2>0, <3>1, <3>3, <4>0 DEF DataOK
      <4>3. PICK row : row = [l_comm_values[g] EXCEPT ![l] = x]
        OBVIOUS
      <4>4. row \in [Lids -> UInt]
        BY <4>2, <4>3
      <4>5. l_comm_values' = l_comm_values \/ l_comm_values' = [l_comm_values EXCEPT ![g] = row]
        BY <4>1, <4>3
      <4> QED BY <4>2, <4>4, <4>5
    <3>5. g_comm_values' \in [0 .. NGroups * Size - 1 -> UInt]
      <4>1. g_comm_values' = g_comm_values \/ g_comm_values' = [g_comm_values EXCEPT ![tid[t]] = reg[t]]
        BY <2>3 DEF Store
      <4> QED BY <3>2, <3>3, <4>1 DEF DataOK
    <3> QED BY <2>3, <3>4, <3>5 DEF Store, DataOK, TidsInGroup
  <2>4. CASE Branch(t) \/ TestGate(t)
    BY <2>4 DEF Branch, TestGate, DataOK, TidsInGroup
  <2>5. CASE Permute(t)
    <3> DEFINE id == Permuted(t, reg[t] % NRows, tid[t])
    <3>1. id \in Group(t) * Size .. Group(t) * Size + Size - 1 /\ id \in Nat
      BY PermuteIds
    <3>2. tid' = [tid EXCEPT ![t] = id]
      BY <2>5 DEF Permute
    <3> HIDE DEF id
    <3>3. tid' \in [WorkItems -> Nat] /\ TidsInGroup'
      BY <3>1, <3>2 DEF DataOK, TidsInGroup, Group
    <3> QED BY <2>5, <3>3 DEF Permute, DataOK
  <2>6. CASE Reduce(t)
    <3>1. code[ip[t]].fn \in AtomicFunctions /\ code[ip[t]].space \in Spaces
          /\ code[ip[t]].addGlobal \in BOOLEAN
      BY <2>6, InstructionType DEF Reduce, Instruction
    <3> DEFINE i == code[ip[t]]
               operand == (reg[t] + IF i.addGlobal THEN GlobalId(t) ELSE 0) % Modulus
               old == reduction[i.space][Group(t)]
    <3>2. operand \in UInt
      <4>1. reg[t] \in Int
        BY <2>0 DEF DataOK
      <4>2. (reg[t] + IF i.addGlobal THEN GlobalId(t) ELSE 0) \in Int
        BY <2>0, <4>1
      <4> QED BY <4>2, Reduced
    <3>3. old \in UInt
      BY <2>0, <3>1 DEF DataOK
    <3>4. Apply(i.fn, old, operand) \in UInt
      BY <3>1, <3>2, <3>3, ApplyType
    <3>5. reduction' = [reduction EXCEPT ![i.space][Group(t)] = Apply(i.fn, old, operand)]
      BY <2>6 DEF Reduce
    <3> HIDE DEF operand, old
    <3>6. PICK x \in UInt : x = Apply(i.fn, old, operand)
      BY <3>4
    <3>7. reduction' \in [Spaces -> [Groups -> UInt]]
      BY <2>0, <3>1, <3>5, <3>6 DEF DataOK
    <3> QED BY <2>6, <3>7 DEF Reduce, DataOK, TidsInGroup
  <2>7. CASE Collect(t)
    <3>1. code[ip[t]].space \in Spaces
      BY <2>7, InstructionType DEF Collect, Instruction
    <3>2. v_collective[t] \in Int /\ reduction[code[ip[t]].space][Group(t)] \in Int
      BY <2>0, <3>1 DEF DataOK
    <3>3. (v_collective[t] + reduction[code[ip[t]].space][Group(t)]) % Modulus \in UInt
      BY <3>2, Reduced
    <3> QED BY <2>7, <3>3 DEF Collect, DataOK, TidsInGroup
  <2>8. CASE EnterSection(t)
    BY <2>8 DEF EnterSection, DataOK, TidsInGroup
  <2>9. CASE LeaveSection(t)
    <3>0. PICK i : i = code[ip[t]]
      OBVIOUS
    <3>1. i.space \in Spaces /\ i.add \in Nat
      BY <2>9, <3>0, InstructionType, InstructionFields DEF LeaveSection
    <3>2. i.counter \in Counters
      <4>1. ip[t] \in 1 .. Len(code) /\ i.op = "result" /\ ip[t] \in Nat
        BY <2>9, <3>0, InstructionType DEF LeaveSection, Inv, TypeInv
      <4>2. ip[t] - 1 \in 1 .. Len(code) /\ code[ip[t] - 1].op = "section"
            /\ ip[t] - 1 + 1 = ip[t]
        <5>1. ShapeAt(code, ip[t]) /\ Len(code) \in Nat
          BY <4>1, LenProperties DEF Inv, CodeInv, Sound, Shape
        <5> QED BY <3>0, <4>1, <5>1 DEF ShapeAt
      <4> QED BY <3>0, <4>2, AtSection
    <3>3. special[i.space][Group(t)][i.counter] \in Int
      <4>1. special[i.space] \in [Groups -> [Counters -> UInt]]
        BY <3>1 DEF DataOK
      <4>2. special[i.space][Group(t)] \in [Counters -> UInt]
        BY <2>0, <4>1
      <4>3. special[i.space][Group(t)][i.counter] \in UInt
        BY <3>2, <4>2
      <4> QED BY <2>0, <4>3
    <3>4. (special[i.space][Group(t)][i.counter] + i.add) % Modulus \in UInt
      BY <3>1, <3>3, Reduced
    <3>5. PICK x \in UInt : x = (special[i.space][Group(t)][i.counter] + i.add) % Modulus
      BY <3>4
    <3>6. special' = [special EXCEPT ![i.space][Group(t)][i.counter] = x]
      BY <2>9, <3>0, <3>5 DEF LeaveSection
    <3>7. special' \in [Spaces -> [Groups -> [Counters -> UInt]]]
      BY <2>0, <3>1, <3>2, <3>6 DEF DataOK
    <3> QED BY <2>9, <3>7 DEF LeaveSection, DataOK, TidsInGroup
  <2>10. CASE TakeInside(t)
    <3>1. Lid(t) \in Items /\ Lid0(t) \in Nat
      BY <2>0, <2>10, SizesAssumption DEF TakeInside, Lids, Lid0
    <3>2. lb[Group(t)][Lid(t)] \in Int
      BY <2>0, <3>1 DEF DataOK
    <3>3. lb[Group(t)][Lid(t)] * Lid0(t) \in Int
      BY <3>1, <3>2
    <3>4. (lb[Group(t)][Lid(t)] * Lid0(t)) % Modulus \in UInt
      BY <3>3, Reduced
    <3> QED BY <2>10, <3>4 DEF TakeInside, DataOK, TidsInGroup
  <2>11. CASE GiveInside(t)
    <3>1. Pair(t) \in Items
      BY <2>11 DEF GiveInside
    <3> QED BY <2>0, <2>11, <3>1 DEF GiveInside, DataOK, TidsInGroup
  <2>12. CASE ShutGate(t)
    BY <2>12 DEF ShutGate, DataOK, TidsInGroup
  <2>13. CASE Hash(t)
    BY <2>13 DEF Hash, DataOK, TidsInGroup
  <2> QED BY <1>3, <2>1, <2>2, <2>3, <2>4, <2>5, <2>6, <2>7, <2>8, <2>9, <2>10, <2>11, <2>12,
             <2>13 DEF RunInside
<1>4. ASSUME NEW g \in Groups, PassBarrier(g) PROVE DataOK'
  BY <1>4 DEF PassBarrier, DataOK, TidsInGroup
<1>5. CASE UNCHANGED vars
  BY <1>5 DEF vars, DataOK, TidsInGroup
<1>6. ASSUME NEW t \in WorkItems, TakeBeyond(t) PROVE DataOK'
  <2>1. PICK junk \in UInt : reg' = [reg EXCEPT ![t] = (junk * Lid0(t)) % Modulus]
    BY <1>6 DEF TakeBeyond
  <2>2. junk * Lid0(t) \in Int
    BY ItemIds, SizesAssumption DEF UInt, Lids, Lid0
  <2>3. (junk * Lid0(t)) % Modulus \in UInt
    BY <2>2, Reduced
  <2> QED BY <1>6, <2>1, <2>3 DEF TakeBeyond, DataOK, TidsInGroup
<1>7. ASSUME NEW t \in WorkItems, GiveBeyond(t) PROVE DataOK'
  <2>1. PICK value \in UInt : value = reg[t]
    BY DEF DataOK
  <2>2. Overwrite(Group(t), value) /\ Group(t) \in Groups /\ "local" \in Spaces
    BY <1>7, <2>1, ItemIds DEF GiveBeyond, Spaces
  <2>3. l_comm_values' \in [Groups -> [Lids -> UInt]]
    <3>1. CASE UNCHANGED l_comm_values
      BY <3>1 DEF DataOK
    <3>2. ASSUME NEW l \in Lids, l_comm_values' = [l_comm_values EXCEPT ![Group(t)][l] = value]
          PROVE  l_comm_values' \in [Groups -> [Lids -> UInt]]
      <4>1. PICK g, row : g \in Groups /\ g = Group(t) /\ row = [l_comm_values[g] EXCEPT ![l] = value]
        BY <2>2
      <4>2. l_comm_values \in [Groups -> [Lids -> UInt]]
        BY DEF DataOK
      <4>3. row \in [Lids -> UInt]
        BY <2>1, <4>1, <4>2
      <4>4. l_comm_values' = [l_comm_values EXCEPT ![g] = row]
        BY <3>2, <4>1
      <4> QED BY <4>2, <4>3, <4>4
    <3> QED BY <2>2, <3>1, <3>2 DEF Overwrite, atomics
  <2>4. reduction' \in [Spaces -> [Groups -> UInt]]
    <3>1. \/ reduction' = reduction
          \/ reduction' = [reduction EXCEPT !["local"][Group(t)] = value]
      BY <2>2 DEF Overwrite, atomics
    <3>2. PICK g, row : g \in Groups /\ g = Group(t) /\ row = [reduction["local"] EXCEPT ![g] = value]
      BY <2>2
    <3>3. row \in [Groups -> UInt] /\ reduction \in [Spaces -> [Groups -> UInt]]
      BY <2>1, <2>2, <3>2 DEF DataOK
    <3>4. reduction' = reduction \/ reduction' = [reduction EXCEPT !["local"] = row]
      BY <3>1, <3>2
    <3> QED BY <2>2, <3>3, <3>4
  <2>5. special' \in [Spaces -> [Groups -> [Counters -> UInt]]]
    <3>1. CASE UNCHANGED special
      BY <3>1 DEF DataOK
    <3>2. ASSUME NEW c \in Counters, special' = [special EXCEPT !["local"][Group(t)][c] = value]
          PROVE  special' \in [Spaces -> [Groups -> [Counters -> UInt]]]
      <4>1. special \in [Spaces -> [Groups -> [Counters -> UInt]]]
        BY DEF DataOK
      <4> QED BY <2>1, <2>2, <3>2, <4>1, ItemWritten
    <3> QED BY <2>2, <3>1, <3>2 DEF Overwrite, atomics
  <2> QED BY <1>7, <2>3, <2>4, <2>5 DEF GiveBeyond, DataOK, TidsInGroup
<1> QED BY <1>1, <1>2, <1>3, <1>4, <1>5, <1>6, <1>7, NextCases DEF Rest

\* Initially the data have their types, and the ids are those of the first row.
LEMMA InitData == Init => DataOK
<1> SUFFICES ASSUME Init PROVE DataOK
  OBVIOUS
<1>1. 0 \in UInt /\ 1 \in UInt /\ Junk \in UInt /\ UInt \subseteq Int
  BY SizesAssumption DEF UInt
<1>2. permutations \in [0 .. NRows - 1 -> Shuffles]
  BY DEF Init
<1>3. tid \in [WorkItems -> Nat] /\ TidsInGroup
  <2>1. ASSUME NEW t \in WorkItems
        PROVE  /\ tid[t] \in Nat
               /\ tid[t] \in Group(t) * Size .. Group(t) * Size + Size - 1
    <3>1. 0 \in 0 .. NRows - 1
      BY SizesAssumption
    <3>2. permutations[0] \in Shuffles
      BY <1>2, <3>1
    <3>3. permutations[0][Lid(t)] \in Lids
      BY <3>2, ItemIds, ShufflesAssumption
    <3>4. tid[t] = Group(t) * Size + permutations[0][Lid(t)]
      BY DEF Init
    <3>5. \A l \in Lids : /\ Group(t) * Size + l \in Group(t) * Size .. Group(t) * Size + Size - 1
                          /\ Group(t) * Size + l \in Nat
      BY ItemIds, SizesAssumption DEF Lids
    <3> QED BY <3>3, <3>4, <3>5
  <2>2. tid = [t \in WorkItems |-> tid[t]]
    BY DEF Init
  <2> QED BY <2>1, <2>2 DEF TidsInGroup
<1>4. prog \in Seq(Statement)
  BY DEF Init
<1>5. /\ reg \in [WorkItems -> UInt] /\ v_collective \in [WorkItems -> UInt]
      /\ gate \in [WorkItems -> {0, 1}]
  BY <1>1 DEF Init
<1>6. /\ l_comm_values \in [Groups -> [Lids -> UInt]]
      /\ g_comm_values \in [0 .. NGroups * Size - 1 -> UInt]
      /\ lb \in [Groups -> [Items -> UInt]]
  BY <1>1 DEF Init
<1>7. \A sp : (IF sp = "local" THEN Junk ELSE 0) \in UInt
  BY <1>1
<1>8. /\ reduction \in [Spaces -> [Groups -> UInt]]
      /\ special \in [Spaces -> [Groups -> [Counters -> UInt]]]
  BY <1>7 DEF Init
<1> QED BY <1>2, <1>3, <1>4, <1>5, <1>6, <1>8 DEF DataOK

\* The values of an expression are natural numbers.
LEMMA NaturalReg == DataOK => reg \in [WorkItems -> Nat]
BY DEF DataOK, UInt

\* The generator and the work-items keep to their types: the ids that index the comm
\* buffers are those of items that exist, and every value fits its item, whatever the
\* shuffles, the program and the schedule, and also when the gated barriers of a group
\* that is larger than their buffer read and write behind it.
THEOREM TypeCorrect ==
    ASSUME NoBarrierInSections
    PROVE  Spec => []TypeOK
<1>1. Inv /\ DataOK => TypeOK
  <2> SUFFICES ASSUME Inv, DataOK PROVE TypeOK
    OBVIOUS
  <2>1. tid \in [WorkItems -> 0 .. NGroups * Size - 1]
    <3>1. \A t \in WorkItems : tid[t] \in 0 .. NGroups * Size - 1
      BY ItemIds, GroupIds DEF DataOK, TidsInGroup
    <3> QED BY <3>1 DEF DataOK
  <2> QED BY <2>1 DEF TypeOK, Inv, TypeInv, CodeInv, Sound, Shape, EnteredInv, DataOK
<1>2. Init => Inv /\ DataOK
  BY InitInv, InitData
<1>3. (Inv /\ DataOK) /\ [Next]_vars => (Inv /\ DataOK)'
  BY NextInv, DataStep, NaturalReg
<1> QED BY <1>1, <1>2, <1>3, PTL DEF Spec

\* A work-item only ever holds ids of its own group, so that groups never meet
\* in g_comm_values.
THEOREM TidsStayInGroup ==
    ASSUME NoBarrierInSections
    PROVE  Spec => []TidsInGroup
<1>1. Init => Inv /\ DataOK
  BY InitInv, InitData
<1>2. (Inv /\ DataOK) /\ [Next]_vars => (Inv /\ DataOK)'
  BY NextInv, DataStep, NaturalReg
<1>3. DataOK => TidsInGroup
  BY DEF DataOK
<1> QED BY <1>1, <1>2, <1>3, PTL DEF Spec
=============================================================================
