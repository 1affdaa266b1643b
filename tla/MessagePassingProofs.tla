------------------------ MODULE MessagePassingProofs ------------------------
(***************************************************************************)
(* The safety of message passing for any number of work-items, nodes and   *)
(* fields.  The invariant says what a work-item knows while it evaluates a *)
(* condition flag by flag: a flag it has compared never falls back, and    *)
(* only the work-item itself signals for its nodes.                        *)
(*                                                                         *)
(* And message passing as a whole: flags, conditions, unlocks and end      *)
(* checks implement slots that have their turn one after the other, and    *)
(* the hashing at the end of the kernel sees a message nobody is still     *)
(* working on.                                                             *)
(***************************************************************************)
EXTENDS MessagePassing, TLAPS

-----------------------------------------------------------------------------
(* What Message::CreateOrdering establishes, for any number of work-items,   *)
(* nodes and fields: an inductive invariant of the generator.                *)

\* What each phase leaves for the next.
PhaseInv ==
    /\ phase = "register" => order = <<>> /\ DOMAIN unlockMap = {}
    /\ phase # "register" => DOMAIN unlockMap = DOMAIN nodes
    /\ phase \in {"register", "order"} => nodeIt = 1
    /\ phase = "run" => nodeIt = Len(order) + 1

\* A node is in at most one slot, and the two nodes of a slot have different
\* owners.
OrderInv ==
    /\ \A i \in 1 .. Len(order) :
          order[i].async # None => Tid(order[i].key) # Tid(order[i].async)
    /\ \A i, j \in 1 .. Len(order) :
          i # j => SlotNodes(order[i]) \cap SlotNodes(order[j]) = {}

\* Exactly the nodes of the slots before nodeIt have code.
CodeDomainInv ==
    \A n : n \in DOMAIN code
              <=> \E i \in 1 .. nodeIt - 1 : n \in SlotNodes(order[i])

\* No two nodes give the same signal, and a node checks for the value before
\* its signal.
SignalInv ==
    /\ \A n \in DOMAIN code :
          /\ code[n].signal[2] \in 1 .. flag[code[n].signal[1]]
          /\ <<code[n].signal[1], code[n].signal[2] - 1>> \in code[n].checks
    /\ \A n, m \in DOMAIN code : code[n].signal = code[m].signal => n = m

\* A node checks for the signals of all nodes of the slot before its own.
ChecksInv ==
    \A i \in 1 .. nodeIt - 2 :
        \A n \in SlotNodes(order[i]), m \in SlotNodes(order[i + 1]) :
            code[n].signal \in code[m].checks

\* The state of the second loop describes the last slot that has code.
LoopInv ==
    nodeIt > 1 =>
        LET slot == order[nodeIt - 1]
            f == SelectFlag(flagSet, 1)
            g == SelectFlag(flagSet, 2) IN
        /\ prevSize = SlotSize(slot)
        /\ code[slot.key].signal = <<f, flag[f]>>
        /\ slot.async # None => code[slot.async].signal = <<g, flag[g]>>

\* The nodes of a pair update different fields.
FieldsInv ==
    \A i \in 1 .. nodeIt - 1 :
        order[i].async # None =>
            code[order[i].key].fields \cap code[order[i].async].fields = {}

\* A node and the end checks of a work-item unlock nodes of the same owner.
UnlockInv ==
    /\ \A m \in DOMAIN unlockMap : \A k \in DOMAIN unlockMap[m] :
          unlockMap[m][k] \in DOMAIN code /\ Tid(unlockMap[m][k]) = Tid(m)
    /\ \A n \in DOMAIN code : \A k \in DOMAIN code[n].unlocks :
          Tid(code[n].unlocks[k]) = Tid(n)
    /\ \A t \in Threads : \A k \in DOMAIN endChecks[t] :
          Tid(endChecks[t][k]) = t

PlanInv ==
    /\ GenTypeOK
    /\ PhaseInv
    /\ OrderInv
    /\ CodeDomainInv
    /\ SignalInv
    /\ ChecksInv
    /\ LoopInv
    /\ FieldsInv
    /\ UnlockInv

----------------------------------------------------------------------------

\* The generator starts in a state that satisfies the invariant.
LEMMA PlanInit == GenInit => PlanInv
  <1> SUFFICES ASSUME GenInit PROVE PlanInv
      OBVIOUS
  <1>1. GenTypeOK
      BY DEF GenInit, GenTypeOK, Flags, Constraint
  <1>2. PhaseInv /\ OrderInv
      BY DEF GenInit, PhaseInv, OrderInv
  <1>3. CodeDomainInv /\ SignalInv /\ ChecksInv /\ LoopInv /\ FieldsInv
      BY DEF GenInit, CodeDomainInv, SignalInv, ChecksInv, LoopInv, FieldsInv
  <1>4. UnlockInv
      BY DEF GenInit, UnlockInv
  <1> QED
      BY <1>1, <1>2, <1>3, <1>4 DEF PlanInv

----------------------------------------------------------------------------
(* The first phases: nodes, then slots, are appended; there is no code yet. *)

\* Before the second loop no node has code.
LEMMA NoCode ==
    ASSUME CodeDomainInv, nodeIt = 1
    PROVE  DOMAIN code = {}
  <1>1. \A n : n \notin DOMAIN code
      BY DEF CodeDomainInv
  <1> QED
      BY <1>1

\* A registered node is not None, and belongs to a work-item of the group.
LEMMA NodeTypes ==
    ASSUME GenTypeOK
    PROVE  \A n \in DOMAIN nodes : n # None /\ Tid(n) \in Threads
  <1>1. \A n \in DOMAIN nodes : n # None /\ nodes[n] \in NodeRecords
      BY DEF GenTypeOK, None
  <1> QED
      BY <1>1 DEF NodeRecords, Tid

\* Registering a node keeps the plan: nothing has been ordered yet.
LEMMA MakeRandomKeepsPlan ==
    ASSUME PlanInv, NEW t \in Threads, NEW s \in 1 .. Sections,
           MakeRandom(t, s)
    PROVE  PlanInv'
  <1> USE DEF PlanInv, MakeRandom, PhaseInv
  <1>0. order = <<>> /\ nodeIt = 1 /\ DOMAIN unlockMap = {}
      OBVIOUS
  <1>1. DOMAIN code = {}
      BY <1>0, NoCode
  <1>2. GenTypeOK'
    <2>1. [tid |-> t, section |-> s] \in NodeRecords
      BY DEF NodeRecords
    <2>2. CodeRecords' = CodeRecords
      BY DEF CodeRecords
    <2> QED
      BY <1>0, <1>1, <2>1, <2>2 DEF GenTypeOK
  <1>3. PhaseInv' /\ OrderInv'
      BY <1>0 DEF OrderInv
  <1>4. CodeDomainInv' /\ SignalInv' /\ ChecksInv' /\ LoopInv' /\ FieldsInv'
      BY <1>0, <1>1
      DEF CodeDomainInv, SignalInv, ChecksInv, LoopInv, FieldsInv
  <1>5. \A u \in Threads : endChecks[u] = <<>>
      BY <1>1 DEF GenTypeOK
  <1>6. UnlockInv'
      BY <1>0, <1>1, <1>5 DEF UnlockInv
  <1> QED
      BY <1>2, <1>3, <1>4, <1>6

\* The start of CreateOrdering keeps the plan: every node is still pending.
LEMMA StartOrderingKeepsPlan ==
    ASSUME PlanInv, StartOrdering
    PROVE  PlanInv'
  <1> USE DEF PlanInv, StartOrdering, PhaseInv
  <1>0. order = <<>> /\ nodeIt = 1 /\ DOMAIN unlockMap' = DOMAIN nodes
      OBVIOUS
  <1>1. GenTypeOK'
    <2>1. CodeRecords' = CodeRecords /\ SlotRecords' = SlotRecords
      BY DEF CodeRecords, SlotRecords
    <2> QED
      BY <1>0, <2>1 DEF GenTypeOK
  <1>2. PhaseInv' /\ OrderInv'
      BY <1>0 DEF OrderInv
  <1>3. CodeDomainInv' /\ SignalInv' /\ ChecksInv' /\ LoopInv' /\ FieldsInv'
      BY <1>0
      DEF CodeDomainInv, SignalInv, ChecksInv, LoopInv, FieldsInv
  <1>4. UnlockInv'
      BY <1>0 DEF UnlockInv, Tid
  <1> QED
      BY <1>1, <1>2, <1>3, <1>4

\* The exits of the two loops of CreateOrdering change neither order nor code.
LEMMA EndPhaseKeepsPlan ==
    ASSUME PlanInv, EndOrdering \/ EndConstraints
    PROVE  PlanInv'
  <1> USE DEF PlanInv, EndOrdering, EndConstraints
  <1>1. GenTypeOK'
    <2>1. CodeRecords' = CodeRecords /\ SlotRecords' = SlotRecords
      BY DEF CodeRecords, SlotRecords
    <2> QED
      BY <2>1 DEF GenTypeOK
  <1>2. PhaseInv'
      BY DEF PhaseInv, GenTypeOK
  <1>5. OrderInv'
      BY DEF OrderInv, Tid, SlotNodes
  <1>3. CodeDomainInv' /\ SignalInv' /\ ChecksInv' /\ LoopInv' /\ FieldsInv'
      BY DEF CodeDomainInv, SignalInv, ChecksInv, LoopInv, FieldsInv, SlotSize
  <1>4. UnlockInv'
      BY DEF UnlockInv, Tid
  <1> QED
      BY <1>1, <1>2, <1>3, <1>4, <1>5

\* A slot made of heads of different owners is new and keeps slots disjoint.
LEMMA AppendSlotKeepsPlan ==
    ASSUME PlanInv, NEW n \in Selectable, NEW m \in Selectable \cup {None},
           m # n,
           AppendSlot([key |-> n, async |-> m])
    PROVE  PlanInv'
  <1> DEFINE slot == [key |-> n, async |-> m]
  <1> USE DEF PlanInv, AppendSlot
  <1>0. /\ phase = "order" /\ phase' = "order"
        /\ nodeIt = 1 /\ nodeIt' = 1
        /\ UNCHANGED <<nodes, unlockMap, endChecks, code, flag, flagSet, prevSize>>
      BY DEF PhaseInv
  <1>1. /\ n \in DOMAIN nodes /\ n \notin Ordered
        /\ m \in DOMAIN nodes \cup {None} /\ m \notin Ordered \ {None}
        /\ n # None
      BY DEF Selectable, Heads, Pending, GenTypeOK, None
  <1>2. m # None => Tid(n) # Tid(m)
      BY <1>1 DEF Selectable, Heads, GenTypeOK, None
  <1>3. /\ order' = Append(order, slot)
        /\ Len(order) \in Nat /\ Len(order') = Len(order) + 1
        /\ \A i \in 1 .. Len(order) : order'[i] = order[i]
        /\ order'[Len(order) + 1] = slot
      BY <1>1 DEF GenTypeOK
  <1>4. GenTypeOK'
    <2>1. slot \in SlotRecords
      BY <1>1 DEF SlotRecords
    <2>4. SlotRecords' = SlotRecords /\ CodeRecords' = CodeRecords
      BY <1>0 DEF SlotRecords, CodeRecords
    <2>2. \A k \in SlotNodes(slot) : Tid(k) \in Threads
      <3>1. SlotNodes(slot) \subseteq DOMAIN nodes
        BY <1>1 DEF SlotNodes
      <3> QED
        BY <3>1, NodeTypes
    <2>3. lastTids' \subseteq Threads
      BY <2>2
    <2> QED
      BY <1>0, <1>3, <2>1, <2>3, <2>4 DEF GenTypeOK
  <1>5. PhaseInv'
      BY <1>0 DEF PhaseInv
  <1>6. OrderInv'
    <2>1. \A i \in 1 .. Len(order) : SlotNodes(order[i]) \cap SlotNodes(slot) = {}
      <3>1. SUFFICES ASSUME NEW i \in 1 .. Len(order), NEW k \in SlotNodes(order[i])
                     PROVE  k \notin SlotNodes(slot)
        OBVIOUS
      <3>2. k \in Ordered \ {None}
        BY DEF Ordered, SlotNodes, GenTypeOK
      <3> QED
        BY <1>1, <3>2 DEF SlotNodes
    <2>3. ASSUME NEW i \in 1 .. Len(order'), order'[i].async # None
          PROVE  Tid(order[i].key)' # Tid(order[i].async)'
      <3>1. CASE i \in 1 .. Len(order)
        BY <3>1, <1>0, <1>3, <2>3 DEF OrderInv, Tid
      <3>2. CASE i = Len(order) + 1
        BY <3>2, <1>0, <1>2, <1>3, <2>3 DEF Tid
      <3> QED
        BY <1>3, <3>1, <3>2
    <2>4. ASSUME NEW i \in 1 .. Len(order'), NEW j \in 1 .. Len(order'), i # j
          PROVE  SlotNodes(order[i])' \cap SlotNodes(order[j])' = {}
      <3>1. CASE i \in 1 .. Len(order) /\ j \in 1 .. Len(order)
        BY <3>1, <1>3, <2>4 DEF OrderInv
      <3>2. CASE i = Len(order) + 1 /\ j \in 1 .. Len(order)
        BY <3>2, <1>3, <2>1
      <3>3. CASE i \in 1 .. Len(order) /\ j = Len(order) + 1
        BY <3>3, <1>3, <2>1
      <3> QED
        <4>1. /\ i \in 1 .. Len(order) \/ i = Len(order) + 1
              /\ j \in 1 .. Len(order) \/ j = Len(order) + 1
          BY <1>3
        <4> QED
          BY <4>1, <2>4, <3>1, <3>2, <3>3
    <2> QED
      BY <2>3, <2>4 DEF OrderInv
  <1>7. CodeDomainInv' /\ SignalInv' /\ ChecksInv' /\ LoopInv' /\ FieldsInv'
      BY <1>0
      DEF CodeDomainInv, SignalInv, ChecksInv, LoopInv, FieldsInv
  <1>8. UnlockInv'
      BY <1>0 DEF UnlockInv, Tid
  <1> QED
      BY <1>4, <1>5, <1>6, <1>7, <1>8

----------------------------------------------------------------------------
(* The second loop. *)

\* The flags a slot signals with and waits for.
LEMMA SlotFlags ==
    ASSUME GenTypeOK, NEW slot \in SlotRecords
    PROVE  /\ SignalFlag(slot, 1) \in Flags /\ SignalFlag(slot, 2) \in Flags
           /\ SignalFlag(slot, 1) # SignalFlag(slot, 2)
           /\ NextFlagSet(slot) \in {0, 1}
           /\ AwaitedFlags \subseteq Flags
           /\ ~ Flips(slot) => SignalFlag(slot, 1) \in AwaitedFlags
           /\ slot.async # None => Flips(slot)
  <1>1. flagSet \in {0, 1} /\ prevSize \in 0 .. 2
      BY DEF GenTypeOK
  <1> QED
      BY <1>1 DEF SignalFlag, SelectFlag, NextFlagSet, AwaitedFlags, Flips,
                  SlotSize, Flags

\* What a node's code is made of.
LEMMA NodeCodeType ==
    ASSUME GenTypeOK, NEW slot \in SlotRecords, NEW i \in 1 .. 2,
           NEW unlocks, NEW fields
    PROVE  LET c == NodeCode(slot, i, unlocks, fields)
               f == SignalFlag(slot, i) IN
           /\ c.unlocks = unlocks /\ c.fields = fields
           /\ c.checks \in SUBSET Constraint
           /\ c.signal = <<f, flag[f] + 1>> /\ c.signal \in Constraint
           /\ i = 1 \/ slot.async # None => <<f, flag[f]>> \in c.checks
           /\ \A g \in AwaitedFlags : <<g, flag[g]>> \in c.checks
  <1> DEFINE f == SignalFlag(slot, i)
             G == AwaitedFlags \cup (IF Flips(slot) THEN {f} ELSE {})
  <1>1. /\ f \in Flags /\ AwaitedFlags \subseteq Flags
        /\ i = 1 /\ ~ Flips(slot) => f \in AwaitedFlags
        /\ slot.async # None => Flips(slot)
      BY SlotFlags
  <1>2. \A g \in Flags : flag[g] \in Nat
      BY DEF GenTypeOK
  <1>3. Checks(slot, i) = {<<g, flag[g]>> : g \in G}
      BY DEF Checks
  <1>4. G \subseteq Flags
      BY <1>1
  <1>5. Checks(slot, i) \in SUBSET Constraint
      BY <1>2, <1>3, <1>4 DEF Constraint
  <1>6. \A g \in AwaitedFlags : <<g, flag[g]>> \in Checks(slot, i)
      BY <1>3
  <1>7. i = 1 \/ slot.async # None => f \in G
      BY <1>1
  <1>8. <<f, flag[f] + 1>> \in Constraint
      BY <1>1, <1>2 DEF Constraint
  <1> HIDE DEF G
  <1>9. i = 1 \/ slot.async # None => <<f, flag[f]>> \in Checks(slot, i)
      BY <1>3, <1>7
  <1> QED
      BY <1>5, <1>6, <1>8, <1>9 DEF NodeCode

\* What one turn of the second loop does.
LEMMA ConstrainEffect ==
    ASSUME PlanInv, NEW F \in SUBSET Fields, ConstrainSlot(F)
    PROVE  LET slot == order[nodeIt]
               g1 == SignalFlag(slot, 1)
               g2 == SignalFlag(slot, 2) IN
           /\ nodeIt \in 1 .. Len(order) /\ slot \in SlotRecords
           /\ slot.key \in DOMAIN nodes \ {None}
           /\ slot.async \in (DOMAIN nodes \ {slot.key}) \cup {None}
           /\ slot.async # None => Tid(slot.key) # Tid(slot.async)
           /\ \A n \in SlotNodes(slot) : n \notin DOMAIN code
           /\ DOMAIN code' = DOMAIN code \cup SlotNodes(slot)
           /\ \A n \in DOMAIN code : code'[n] = code[n]
           /\ code'[slot.key] = NodeCode(slot, 1, unlockMap[slot.key], F)
           /\ slot.async # None =>
                code'[slot.async] = NodeCode(slot, 2, unlockMap[slot.async],
                                             Fields \ F)
           /\ flag' \in [Flags -> Nat]
           /\ \A f \in Flags : flag'[f] >= flag[f]
           /\ flag'[g1] = flag[g1] + 1
           /\ slot.async # None => flag'[g2] = flag[g2] + 1
           /\ flagSet' = NextFlagSet(slot)
           /\ nodeIt' = nodeIt + 1
           /\ UNCHANGED <<phase, nodes, order, lastTids>>
  <1> DEFINE slot == order[nodeIt]
             g1 == SignalFlag(slot, 1)
             g2 == SignalFlag(slot, 2)
  <1> USE DEF PlanInv
  <1>1. nodeIt \in 1 .. Len(order) /\ slot \in SlotRecords
    <2>1. nodeIt \in 1 .. Len(order)
      BY DEF ConstrainSlot, GenTypeOK
    <2> QED
      BY <2>1 DEF GenTypeOK
  <1>2. /\ slot.key \in DOMAIN nodes \ {None}
        /\ slot.async \in DOMAIN nodes \cup {None}
      BY <1>1, NodeTypes DEF SlotRecords
  <1>3. slot.async # None => Tid(slot.key) # Tid(slot.async)
      BY <1>1 DEF OrderInv
  <1>4. \A n \in SlotNodes(slot) : n \notin DOMAIN code
    <2>1. SUFFICES ASSUME NEW n \in SlotNodes(slot), n \in DOMAIN code
                   PROVE  FALSE
      OBVIOUS
    <2>2. PICK i \in 1 .. nodeIt - 1 : n \in SlotNodes(order[i])
      BY <2>1 DEF CodeDomainInv
    <2>3. i \in 1 .. Len(order) /\ i # nodeIt
      BY <1>1
    <2> QED
      BY <1>1, <2>1, <2>2, <2>3 DEF OrderInv
  <1>5. SlotNodes(slot) = {slot.key, slot.async} \ {None}
      BY DEF SlotNodes
  <1>6. /\ DOMAIN code' = DOMAIN code \cup SlotNodes(slot)
        /\ \A n \in DOMAIN code : code'[n] = code[n]
        /\ code'[slot.key] = NodeCode(slot, 1, unlockMap[slot.key], F)
        /\ slot.async # None =>
             code'[slot.async] = NodeCode(slot, 2, unlockMap[slot.async],
                                          Fields \ F)
    <2>1. code' = [n \in DOMAIN code \cup SlotNodes(slot) |->
            CASE n = slot.key -> NodeCode(slot, 1, unlockMap[n], F)
              [] n = slot.async -> NodeCode(slot, 2, unlockMap[n], Fields \ F)
              [] OTHER -> code[n]]
      BY DEF ConstrainSlot, AsyncFields
    <2>2. \A n \in DOMAIN code : n # slot.key /\ n # slot.async
      <3>1. None \notin DOMAIN code
        BY NodeTypes DEF GenTypeOK
      <3> QED
        BY <1>2, <1>4, <1>5, <3>1
    <2>3. slot.async # slot.key
      BY <1>2, <1>3
    <2>4. DOMAIN code' = DOMAIN code \cup SlotNodes(slot)
      BY <2>1
    <2>5. \A n \in DOMAIN code : code'[n] = code[n]
      BY <2>1, <2>2
    <2>6. code'[slot.key] = NodeCode(slot, 1, unlockMap[slot.key], F)
      BY <2>1, <2>3, <1>2, <1>5
    <2>7. ASSUME slot.async # None
          PROVE  code'[slot.async] = NodeCode(slot, 2, unlockMap[slot.async],
                                          Fields \ F)
      BY <2>1, <2>3, <1>5, <2>7
    <2> QED
      BY <2>4, <2>5, <2>6, <2>7
  <1>7. /\ g1 \in Flags /\ g2 \in Flags
        /\ flag \in [Flags -> Nat]
      BY <1>1, SlotFlags DEF GenTypeOK
  <1>8. flag' = [f \in Flags |->
            IF \E i \in 1 .. SlotSize(slot) : f = SignalFlag(slot, i)
            THEN flag[f] + 1 ELSE flag[f]]
      BY DEF ConstrainSlot
  <1>9. /\ flag' \in [Flags -> Nat]
        /\ \A f \in Flags : flag'[f] >= flag[f]
      BY <1>7, <1>8
  <1>10. flag'[g1] = flag[g1] + 1
    <2>1. 1 \in 1 .. SlotSize(slot)
      BY DEF SlotSize
    <2> QED
      BY <1>7, <1>8, <2>1
  <1>11. ASSUME slot.async # None
         PROVE  flag'[g2] = flag[g2] + 1
    <2>1. 2 \in 1 .. SlotSize(slot)
      BY <1>11 DEF SlotSize
    <2> QED
      BY <1>7, <1>8, <2>1
  <1>12. /\ flagSet' = NextFlagSet(slot)
         /\ nodeIt' = nodeIt + 1
         /\ UNCHANGED <<phase, nodes, order, lastTids>>
      BY DEF ConstrainSlot
  <1> QED
      BY <1>1, <1>2, <1>3, <1>4, <1>6, <1>9, <1>10, <1>11, <1>12

\* Lists of unlocks stay as they are or grow by a node of the slot.
LEMMA Pushes ==
    ASSUME NEW slot, slot.key # None
    PROVE  /\ \A m \in DOMAIN nodes :
                 \/ PushUnlocks(slot, m) = unlockMap[m]
                 \/ \E n \in SlotNodes(slot) :
                       /\ Tid(n) = Tid(m)
                       /\ PushUnlocks(slot, m) = Append(unlockMap[m], n)
           /\ \A t \in Threads :
                 \/ PushEnd(slot, t) = endChecks[t]
                 \/ \E n \in SlotNodes(slot) :
                       /\ Tid(n) = t
                       /\ PushEnd(slot, t) = Append(endChecks[t], n)
  <1>1. ASSUME NEW m \in DOMAIN nodes
        PROVE  \/ PushUnlocks(slot, m) = unlockMap[m]
               \/ \E n \in SlotNodes(slot) :
                     /\ Tid(n) = Tid(m)
                     /\ PushUnlocks(slot, m) = Append(unlockMap[m], n)
      BY DEF PushUnlocks, PushUnlock, SlotNodes
  <1>2. ASSUME NEW t \in Threads
        PROVE  \/ PushEnd(slot, t) = endChecks[t]
               \/ \E n \in SlotNodes(slot) :
                     /\ Tid(n) = t
                     /\ PushEnd(slot, t) = Append(endChecks[t], n)
    <2>1. CASE \E n \in SlotNodes(slot) : Tid(n) = t
      <3> DEFINE k == CHOOSE n \in SlotNodes(slot) : Tid(n) = t
      <3>1. k \in SlotNodes(slot) /\ Tid(k) = t
        BY <2>1
      <3>2. PushEnd(slot, t) = Append(endChecks[t], k)
        BY <2>1 DEF PushEnd
      <3> HIDE DEF k
      <3> QED
        BY <3>1, <3>2
    <2>2. CASE ~ \E n \in SlotNodes(slot) : Tid(n) = t
      BY <2>2 DEF PushEnd
    <2> QED
      BY <2>1, <2>2
  <1> QED
      BY <1>1, <1>2

\* A list grows by one element.
LEMMA AppendElements ==
    ASSUME NEW S, NEW q \in Seq(S), NEW e
    PROVE  \A k \in DOMAIN Append(q, e) :
               Append(q, e)[k] = e \/ (k \in DOMAIN q /\ Append(q, e)[k] = q[k])
  OBVIOUS

\* The invariant holds after a turn of the second loop.
LEMMA ConstrainKeepsPlan ==
    ASSUME PlanInv, NEW F \in SUBSET Fields, ConstrainSlot(F)
    PROVE  PlanInv'
  <1> DEFINE slot == order[nodeIt]
             g1 == SignalFlag(slot, 1)
             g2 == SignalFlag(slot, 2)
             k1 == slot.key
             k2 == slot.async
  <1>1. /\ nodeIt \in 1 .. Len(order) /\ slot \in SlotRecords
        /\ k1 \in DOMAIN nodes \ {None}
        /\ k2 \in (DOMAIN nodes \ {k1}) \cup {None}
        /\ k2 # None => Tid(k1) # Tid(k2)
        /\ \A n \in SlotNodes(slot) : n \notin DOMAIN code
        /\ DOMAIN code' = DOMAIN code \cup SlotNodes(slot)
        /\ \A n \in DOMAIN code : code'[n] = code[n]
        /\ flag' \in [Flags -> Nat]
        /\ \A f \in Flags : flag'[f] >= flag[f]
        /\ flag'[g1] = flag[g1] + 1
        /\ k2 # None => flag'[g2] = flag[g2] + 1
        /\ flagSet' = NextFlagSet(slot)
        /\ nodeIt' = nodeIt + 1
        /\ UNCHANGED <<phase, nodes, order, lastTids>>
      BY ConstrainEffect
  <1>2. SlotNodes(slot) = {k1, k2} \ {None}
      BY DEF SlotNodes
  <1>3. /\ g1 \in Flags /\ g2 \in Flags /\ g1 # g2
        /\ NextFlagSet(slot) \in {0, 1}
        /\ k2 # None => Flips(slot)
      BY <1>1, SlotFlags DEF PlanInv
  <1>4. /\ code'[k1].unlocks = unlockMap[k1]
        /\ code'[k1].fields = F
        /\ code'[k1].checks \in SUBSET Constraint
        /\ code'[k1].signal = <<g1, flag[g1] + 1>>
        /\ code'[k1].signal \in Constraint
        /\ <<g1, flag[g1]>> \in code'[k1].checks
        /\ \A g \in AwaitedFlags : <<g, flag[g]>> \in code'[k1].checks
    <2> DEFINE c == NodeCode(slot, 1, unlockMap[k1], F)
    <2>1. code'[k1] = c
      BY ConstrainEffect
    <2>2. GenTypeOK /\ 1 \in 1 .. 2
      BY DEF PlanInv
    <2>3. /\ c.unlocks = unlockMap[k1] /\ c.fields = F
          /\ c.checks \in SUBSET Constraint
          /\ c.signal = <<g1, flag[g1] + 1>> /\ c.signal \in Constraint
          /\ 1 = 1 \/ k2 # None => <<g1, flag[g1]>> \in c.checks
          /\ \A g \in AwaitedFlags : <<g, flag[g]>> \in c.checks
      BY <1>1, <2>2, NodeCodeType, Zenon
    <2> HIDE DEF c
    <2> QED
      BY <2>1, <2>3
  <1>5. ASSUME k2 # None
        PROVE  /\ code'[k2].unlocks = unlockMap[k2]
               /\ code'[k2].fields = Fields \ F
               /\ code'[k2].checks \in SUBSET Constraint
               /\ code'[k2].signal = <<g2, flag[g2] + 1>>
               /\ code'[k2].signal \in Constraint
               /\ <<g2, flag[g2]>> \in code'[k2].checks
               /\ \A g \in AwaitedFlags : <<g, flag[g]>> \in code'[k2].checks
    <2> DEFINE c == NodeCode(slot, 2, unlockMap[k2], Fields \ F)
    <2>1. code'[k2] = c
      BY <1>5, ConstrainEffect
    <2>2. GenTypeOK /\ 2 \in 1 .. 2
      BY DEF PlanInv
    <2>3. /\ c.unlocks = unlockMap[k2] /\ c.fields = Fields \ F
          /\ c.checks \in SUBSET Constraint
          /\ c.signal = <<g2, flag[g2] + 1>> /\ c.signal \in Constraint
          /\ 2 = 1 \/ k2 # None => <<g2, flag[g2]>> \in c.checks
          /\ \A g \in AwaitedFlags : <<g, flag[g]>> \in c.checks
      BY <1>1, <2>2, NodeCodeType, Zenon
    <2> HIDE DEF c
    <2> QED
      BY <1>5, <2>1, <2>3
  <1>6. \A n \in DOMAIN code : n # k1 /\ n # k2
    <2>1. None \notin DOMAIN code
      BY NodeTypes DEF PlanInv, GenTypeOK
    <2> QED
      BY <1>1, <1>2, <2>1
  <1>7. /\ GenTypeOK /\ DOMAIN unlockMap = DOMAIN nodes
        /\ phase = "constrain" /\ prevSize' = SlotSize(slot)
        /\ unlockMap' = [m \in DOMAIN nodes |-> PushUnlocks(slot, m)]
        /\ endChecks' = [t \in Threads |-> PushEnd(slot, t)]
      BY DEF PlanInv, PhaseInv, ConstrainSlot
  <1>8. PhaseInv'
      BY <1>1, <1>7 DEF PhaseInv
  <1>9. OrderInv'
      BY <1>1 DEF PlanInv, OrderInv, Tid, SlotNodes
  <1>10. CodeDomainInv'
    <2>1. ASSUME NEW n
          PROVE  n \in DOMAIN code' <=>
                     \E i \in 1 .. nodeIt' - 1 : n \in SlotNodes(order[i])
      <3>1. n \in DOMAIN code'
                <=> (\E i \in 1 .. nodeIt - 1 : n \in SlotNodes(order[i]))
                    \/ n \in SlotNodes(order[nodeIt])
        BY <1>1 DEF PlanInv, CodeDomainInv
      <3>2. nodeIt' - 1 = nodeIt /\ nodeIt \in Nat \ {0}
        BY <1>1, <1>7 DEF GenTypeOK
      <3> QED
        BY <3>1, <3>2
    <2> QED
      BY <1>1, <2>1 DEF CodeDomainInv
  <1>11. /\ \A m \in DOMAIN nodes : unlockMap[m] \in Seq(DOMAIN code)
         /\ \A m \in DOMAIN nodes : unlockMap[m] \in Seq(DOMAIN nodes)
         /\ \A t \in Threads : endChecks[t] \in Seq(DOMAIN code)
      BY <1>7 DEF GenTypeOK, PlanInv, UnlockInv
  <1>12. GenTypeOK'
    <2>1. DOMAIN code' \subseteq DOMAIN nodes
      BY <1>1, <1>2, <1>7 DEF GenTypeOK
    <2>2. \A q : q \in Seq(DOMAIN code) => q \in Seq(DOMAIN code')
      BY <1>1
    <2>3. SlotNodes(slot) \subseteq DOMAIN code' \cap DOMAIN nodes
      BY <1>1, <1>2
    <2>4. unlockMap' \in [DOMAIN unlockMap' -> Seq(DOMAIN nodes)]
      <3>1. \A m \in DOMAIN nodes : PushUnlocks(slot, m) \in Seq(DOMAIN nodes)
        <4>1. slot.key # None
          BY <1>1
        <4>2. ASSUME NEW m \in DOMAIN nodes, NEW n \in SlotNodes(slot)
              PROVE  Append(unlockMap[m], n) \in Seq(DOMAIN nodes)
          BY <1>11, <2>3
        <4>3. ASSUME NEW m \in DOMAIN nodes
              PROVE  \/ PushUnlocks(slot, m) = unlockMap[m]
                     \/ \E n \in SlotNodes(slot) :
                           PushUnlocks(slot, m) = Append(unlockMap[m], n)
          BY <4>1, Pushes
        <4> QED
          BY <1>11, <4>2, <4>3
      <3> QED
        BY <1>7, <3>1
    <2>5. endChecks' \in [Threads -> Seq(DOMAIN code')]
      <3>1. \A t \in Threads : PushEnd(slot, t) \in Seq(DOMAIN code')
        <4>1. slot.key # None
          BY <1>1
        <4>2. ASSUME NEW t \in Threads, NEW n \in SlotNodes(slot)
              PROVE  Append(endChecks[t], n) \in Seq(DOMAIN code')
          BY <1>11, <2>2, <2>3
        <4> QED
          BY SMTT(30), <1>11, <2>2, <4>1, <4>2, Pushes
      <3> QED
        BY <1>7, <3>1
    <2>6. code' \in [DOMAIN code' -> CodeRecords']
      <3>1. ASSUME NEW n \in DOMAIN code
            PROVE  code'[n] \in CodeRecords'
        <4>1. code[n] \in CodeRecords
          BY <1>7 DEF GenTypeOK
        <4> QED
          BY <1>1, <2>2, <4>1 DEF CodeRecords
      <3>2. code'[k1] \in CodeRecords'
        <4>1. code'[k1] = NodeCode(slot, 1, unlockMap[k1], F)
          BY ConstrainEffect
        <4>2. unlockMap[k1] \in Seq(DOMAIN code')
          BY <1>1, <1>11, <2>2
        <4> QED
          BY <1>4, <4>1, <4>2 DEF NodeCode, CodeRecords
      <3>3. ASSUME k2 # None
            PROVE  code'[k2] \in CodeRecords'
        <4>1. code'[k2] = NodeCode(slot, 2, unlockMap[k2], Fields \ F)
          BY <3>3, ConstrainEffect
        <4>2. unlockMap[k2] \in Seq(DOMAIN code')
          BY <1>1, <1>11, <2>2, <3>3
        <4> QED
          BY <1>5, <3>3, <4>1, <4>2 DEF NodeCode, CodeRecords
      <3>4. \A n \in DOMAIN code' : code'[n] \in CodeRecords'
        BY <1>1, <1>2, <3>1, <3>2, <3>3
      <3>5. code' = [n \in DOMAIN code' |-> code'[n]]
        BY DEF ConstrainSlot
      <3> QED
        BY <3>4, <3>5
    <2>7. prevSize' \in 0 .. 2 /\ flagSet' \in {0, 1}
      BY <1>1, <1>3, <1>7 DEF SlotSize
    <2>8. SlotRecords' = SlotRecords
      BY <1>1 DEF SlotRecords
    <2>9. nodeIt' \in 1 .. Len(order') + 1
      BY <1>1, <1>7 DEF GenTypeOK
    <2> QED
      BY <1>1, <1>7, <2>1, <2>4, <2>5, <2>6, <2>7, <2>8, <2>9 DEF GenTypeOK
  <1>13. SignalInv'
    <2>1. ASSUME NEW n \in DOMAIN code
          PROVE  /\ code'[n].signal[1] \in Flags
                 /\ code'[n].signal[2] \in 1 .. flag[code'[n].signal[1]]
                 /\ code'[n].signal[2] \in 1 .. flag'[code'[n].signal[1]]
                 /\ <<code'[n].signal[1], code'[n].signal[2] - 1>>
                        \in code'[n].checks
      <3>1. code'[n] = code[n] /\ code[n].signal \in Constraint
        BY <1>1, <1>7 DEF GenTypeOK, CodeRecords
      <3>2. code[n].signal[1] \in Flags
        BY <3>1 DEF Constraint
      <3>3. flag[code[n].signal[1]] \in Nat /\ flag'[code[n].signal[1]] \in Nat
        BY <1>1, <1>7, <3>2 DEF GenTypeOK
      <3> QED
        BY SMTT(30), <1>1, <3>1, <3>2, <3>3 DEF PlanInv, SignalInv
    <2>2. /\ code'[k1].signal[1] = g1 /\ code'[k1].signal[2] = flag'[g1]
          /\ flag'[g1] = flag[g1] + 1 /\ flag[g1] \in Nat
          /\ <<g1, flag'[g1] - 1>> \in code'[k1].checks
      <3>1. flag[g1] \in Nat
        BY <1>3, <1>7 DEF GenTypeOK
      <3>2. /\ flag'[g1] = flag[g1] + 1
            /\ code'[k1].signal = <<g1, flag[g1] + 1>>
            /\ <<g1, flag[g1]>> \in code'[k1].checks
        BY <1>1, <1>4
      <3> HIDE DEF g1, k1
      <3>3. flag'[g1] - 1 = flag[g1]
        BY <3>1, <3>2
      <3> QED
        BY <3>1, <3>2, <3>3
    <2>3. ASSUME k2 # None
          PROVE /\ code'[k2].signal[1] = g2 /\ code'[k2].signal[2] = flag'[g2]
                /\ flag'[g2] = flag[g2] + 1 /\ flag[g2] \in Nat
                /\ <<g2, flag'[g2] - 1>> \in code'[k2].checks
      <3>1. flag[g2] \in Nat
        BY <1>3, <1>7 DEF GenTypeOK
      <3>2. /\ flag'[g2] = flag[g2] + 1
            /\ code'[k2].signal = <<g2, flag[g2] + 1>>
            /\ <<g2, flag[g2]>> \in code'[k2].checks
        BY <1>1, <1>5, <2>3
      <3> HIDE DEF g2, k2
      <3>3. flag'[g2] - 1 = flag[g2]
        BY <3>1, <3>2
      <3> QED
        BY <3>1, <3>2, <3>3
    <2>4. \A n \in DOMAIN code' :
             n \in DOMAIN code \/ n = k1 \/ (n = k2 /\ k2 # None)
      BY <1>1, <1>2
    <2>5. ASSUME NEW n \in DOMAIN code'
          PROVE  /\ code'[n].signal[2] \in 1 .. flag'[code'[n].signal[1]]
                 /\ <<code'[n].signal[1], code'[n].signal[2] - 1>>
                        \in code'[n].checks
      <3> HIDE DEF g1, g2, k1, k2
      <3>1. CASE n \in DOMAIN code
        BY <2>1, <3>1
      <3>2. CASE n = k1
        BY <2>2, <3>2
      <3>3. CASE n = k2 /\ k2 # None
        BY <2>3, <3>3
      <3> QED
        BY <2>4, <3>1, <3>2, <3>3
    <2>6. ASSUME NEW n \in DOMAIN code', NEW m \in DOMAIN code',
                 code'[n].signal = code'[m].signal
          PROVE  n = m
      <3>1. CASE n \in DOMAIN code /\ m \in DOMAIN code
        BY <1>1, <2>6, <3>1 DEF PlanInv, SignalInv
      <3>2. ASSUME NEW a \in DOMAIN code
            PROVE  /\ code'[a].signal # code'[k1].signal
                   /\ k2 # None => code'[a].signal # code'[k2].signal
        <4> HIDE DEF g1, g2, k1, k2
        <4>1. code'[a].signal # code'[k1].signal
          BY <2>1, <2>2
        <4>2. k2 # None => code'[a].signal # code'[k2].signal
          BY <2>1, <2>3
        <4> QED
          BY <4>1, <4>2
      <3>3. k2 # None => code'[k1].signal # code'[k2].signal
        BY <1>3, <2>2, <2>3
      <3> QED
        BY <2>4, <2>6, <3>1, <3>2, <3>3
    <2> QED
      BY <2>5, <2>6 DEF SignalInv
  <1>18. nodeIt \in Nat \ {0}
      BY <1>7 DEF GenTypeOK
  <1>14. ChecksInv'
    <2>1. ASSUME NEW i \in 1 .. nodeIt - 2,
                 NEW n \in SlotNodes(order[i]), NEW m \in SlotNodes(order[i + 1])
          PROVE  code'[n].signal \in code'[m].checks
      <3>1. n \in DOMAIN code /\ m \in DOMAIN code
        <4>1. i \in 1 .. nodeIt - 1 /\ i + 1 \in 1 .. nodeIt - 1
          BY <1>18
        <4> QED
          BY <4>1 DEF PlanInv, CodeDomainInv
      <3> QED
        BY <1>1, <2>1, <3>1 DEF PlanInv, ChecksInv
    <2>2. ASSUME nodeIt > 1, NEW n \in SlotNodes(order[nodeIt - 1]),
                 NEW m \in SlotNodes(slot)
          PROVE  code'[n].signal \in code'[m].checks
      <3>1. n \in DOMAIN code /\ code'[n] = code[n]
        <4>1. nodeIt - 1 \in 1 .. nodeIt - 1
          BY <1>18, <2>2
        <4> QED
          BY <1>1, <2>2, <4>1 DEF PlanInv, CodeDomainInv
      <3>2. \E f \in AwaitedFlags : code[n].signal = <<f, flag[f]>>
        BY <2>2 DEF PlanInv, LoopInv, SlotNodes, SlotSize, AwaitedFlags
      <3>3. \A f \in AwaitedFlags : <<f, flag[f]>> \in code'[m].checks
        BY <1>2, <1>4, <1>5
      <3> QED
        BY <3>1, <3>2, <3>3
    <2>3. ASSUME NEW i \in 1 .. nodeIt' - 2,
                 NEW n \in SlotNodes(order[i]), NEW m \in SlotNodes(order[i + 1])
          PROVE  code'[n].signal \in code'[m].checks
      <3>1. i \in 1 .. nodeIt - 2 \/ (i = nodeIt - 1 /\ nodeIt > 1 /\ i + 1 = nodeIt)
        BY <1>1, <1>18
      <3> QED
        BY <2>1, <2>2, <3>1
    <2> QED
      BY <1>1, <2>3 DEF ChecksInv, SlotNodes
  <1>15. LoopInv'
    <2>1. nodeIt' - 1 = nodeIt
      BY <1>1, <1>18
    <2>2. SelectFlag(flagSet', 1) = g1 /\ SelectFlag(flagSet', 2) = g2
      BY <1>1 DEF SignalFlag
    <2>3. code'[k1].signal = <<g1, flag'[g1]>>
      BY <1>1, <1>4
    <2>4. k2 # None => code'[k2].signal = <<g2, flag'[g2]>>
      BY <1>1, <1>5
    <2>5. order'[nodeIt' - 1] = slot
      BY <1>1, <2>1
    <2>6. prevSize' = SlotSize(slot)
      BY <1>7
    <2> QED
      BY <2>2, <2>3, <2>4, <2>5, <2>6 DEF LoopInv, SelectFlag, SlotSize
  <1>16. FieldsInv'
    <2>1. ASSUME NEW i \in 1 .. nodeIt - 1, order[i].async # None
          PROVE  code'[order[i].key].fields
                     \cap code'[order[i].async].fields = {}
      <3>1. order[i].key \in DOMAIN code /\ order[i].async \in DOMAIN code
        <4>1. i \in 1 .. Len(order)
          BY <1>1, <1>18
        <4>2. order[i] \in SlotRecords
          BY <1>7, <4>1 DEF GenTypeOK
        <4>3. order[i].key # None
          BY <1>7, <4>2, NodeTypes DEF SlotRecords
        <4> QED
          BY <2>1, <4>3 DEF PlanInv, CodeDomainInv, SlotNodes
      <3> QED
        BY <1>1, <2>1, <3>1 DEF PlanInv, FieldsInv
    <2>2. k2 # None => code'[k1].fields \cap code'[k2].fields = {}
      BY <1>4, <1>5
    <2>3. \A i \in 1 .. nodeIt' - 1 : i \in 1 .. nodeIt - 1 \/ i = nodeIt
      BY <1>1, <1>18
    <2> QED
      BY <1>1, <2>1, <2>2, <2>3 DEF FieldsInv
  <1>17. UnlockInv'
    <2>1. \A n \in SlotNodes(slot) : n \in DOMAIN code'
      BY <1>1
    <2>2. ASSUME NEW m \in DOMAIN nodes, NEW k \in DOMAIN unlockMap'[m]
          PROVE  unlockMap'[m][k] \in DOMAIN code' /\ Tid(unlockMap'[m][k]) = Tid(m)
      <3>1. \A l \in DOMAIN unlockMap[m] :
               unlockMap[m][l] \in DOMAIN code /\ Tid(unlockMap[m][l]) = Tid(m)
        BY <1>7 DEF PlanInv, UnlockInv
      <3>2. \/ unlockMap'[m] = unlockMap[m]
            \/ \E n \in SlotNodes(slot) :
                  /\ Tid(n) = Tid(m)
                  /\ unlockMap'[m] = Append(unlockMap[m], n)
        BY <1>1, <1>7, Pushes
      <3>3. ASSUME NEW n \in SlotNodes(slot), Tid(n) = Tid(m),
                   unlockMap'[m] = Append(unlockMap[m], n)
            PROVE  unlockMap'[m][k] \in DOMAIN code' /\ Tid(unlockMap'[m][k]) = Tid(m)
        <4>1. unlockMap'[m][k] = n
              \/ (k \in DOMAIN unlockMap[m] /\ unlockMap'[m][k] = unlockMap[m][k])
          BY <1>11, <2>2, <3>3, AppendElements
        <4> QED
          BY <1>1, <2>1, <3>1, <3>3, <4>1
      <3> QED
        BY <1>1, <2>2, <3>1, <3>2, <3>3
    <2>3. ASSUME NEW t \in Threads, NEW k \in DOMAIN endChecks'[t]
          PROVE  Tid(endChecks'[t][k]) = t
      <3>1. \A l \in DOMAIN endChecks[t] : Tid(endChecks[t][l]) = t
        BY DEF PlanInv, UnlockInv
      <3>2. \/ endChecks'[t] = endChecks[t]
            \/ \E n \in SlotNodes(slot) :
                  /\ Tid(n) = t
                  /\ endChecks'[t] = Append(endChecks[t], n)
        BY <1>1, <1>7, Pushes
      <3>3. ASSUME NEW n \in SlotNodes(slot), Tid(n) = t,
                   endChecks'[t] = Append(endChecks[t], n)
            PROVE  Tid(endChecks'[t][k]) = t
        <4>1. endChecks'[t][k] = n
              \/ (k \in DOMAIN endChecks[t] /\ endChecks'[t][k] = endChecks[t][k])
          BY <1>11, <2>3, <3>3, AppendElements
        <4> QED
          BY <3>1, <3>3, <4>1
      <3> QED
        BY <2>3, <3>1, <3>2, <3>3
    <2>4. ASSUME NEW n \in DOMAIN code', NEW k \in DOMAIN code'[n].unlocks
          PROVE  Tid(code'[n].unlocks[k]) = Tid(n)
      <3>1. CASE n \in DOMAIN code
        BY <1>1, <2>4, <3>1 DEF PlanInv, UnlockInv
      <3>2. CASE n \in SlotNodes(slot)
        <4>1. n \in DOMAIN nodes /\ code'[n].unlocks = unlockMap[n]
          BY <1>1, <1>2, <1>4, <1>5, <3>2
        <4> QED
          BY <1>7, <2>4, <4>1 DEF PlanInv, UnlockInv
      <3> QED
        BY <1>1, <3>1, <3>2
    <2>5. DOMAIN unlockMap' = DOMAIN nodes
      BY <1>7
    <2> QED
      BY <1>1, <2>2, <2>3, <2>4, <2>5 DEF UnlockInv, Tid
  <1> QED
      BY <1>8, <1>9, <1>10, <1>12, <1>13, <1>14, <1>15, <1>16, <1>17 DEF PlanInv

----------------------------------------------------------------------------

\* Every step of the generator keeps the invariant.
LEMMA PlanStep ==
    ASSUME PlanInv, GenNext
    PROVE  PlanInv'
  <1>1. ASSUME NEW t \in Threads, NEW s \in 1 .. Sections, MakeRandom(t, s)
        PROVE  PlanInv'
      BY <1>1, MakeRandomKeepsPlan
  <1>2. CASE StartOrdering
      BY <1>2, StartOrderingKeepsPlan
  <1>3. ASSUME NEW n \in DOMAIN nodes, OrderNode(n)
        PROVE  PlanInv'
    <2>1. n # None
      BY NodeTypes DEF PlanInv
    <2> QED
      BY <1>3, <2>1, AppendSlotKeepsPlan DEF OrderNode
  <1>4. ASSUME NEW n \in DOMAIN nodes, NEW m \in DOMAIN nodes, OrderPair(n, m)
        PROVE  PlanInv'
      BY <1>4, AppendSlotKeepsPlan DEF OrderPair
  <1>5. CASE EndOrdering \/ EndConstraints
      BY <1>5, EndPhaseKeepsPlan
  <1>6. ASSUME NEW F \in SUBSET Fields, ConstrainSlot(F)
        PROVE  PlanInv'
      BY <1>6, ConstrainKeepsPlan
  <1> QED
      BY <1>1, <1>2, <1>3, <1>4, <1>5, <1>6 DEF GenNext

\* So does a step that leaves the variables of the generator alone.
LEMMA PlanStutter ==
    ASSUME PlanInv, UNCHANGED genVars
    PROVE  PlanInv'
  <1> USE DEF genVars, PlanInv
  <1>1. GenTypeOK'
    <2>1. CodeRecords' = CodeRecords /\ SlotRecords' = SlotRecords
      BY DEF CodeRecords, SlotRecords
    <2> QED
      BY <2>1 DEF GenTypeOK
  <1>2. PhaseInv' /\ OrderInv' /\ CodeDomainInv' /\ SignalInv'
      BY ZenonT(30) DEF PhaseInv, OrderInv, CodeDomainInv, SignalInv, Tid, SlotNodes
  <1>3. ChecksInv' /\ LoopInv' /\ FieldsInv' /\ UnlockInv'
      BY DEF ChecksInv, LoopInv, FieldsInv, UnlockInv, Tid, SlotNodes,
             SlotSize, SelectFlag
  <1> QED
      BY <1>1, <1>2, <1>3

\* The order keeps extending sequenced-before: a slot takes the first pending
\* node of its owner, so that the nodes before it have been placed.
LEMMA OrderExtendsSbStep ==
    ASSUME PlanInv, OrderExtendsSb, GenNext
    PROVE  OrderExtendsSb'
  <1>1. CASE UNCHANGED <<nodes, order>>
      BY <1>1 DEF OrderExtendsSb, Before, Ordered, Tid, SlotNodes
  <1>2. ASSUME NEW t \in Threads, NEW s \in 1 .. Sections, MakeRandom(t, s)
        PROVE  OrderExtendsSb'
    <2>1. order' = <<>>
      BY <1>2 DEF MakeRandom, PlanInv, PhaseInv
    <2>2. Ordered' = {}
      BY <2>1 DEF Ordered
    <2> QED
      BY <2>2 DEF OrderExtendsSb
  <1>3. ASSUME NEW n \in Selectable, NEW m \in Selectable \cup {None},
               AppendSlot([key |-> n, async |-> m])
        PROVE  OrderExtendsSb'
    <2> DEFINE slot == [key |-> n, async |-> m]
               last == Len(order) + 1
    <2>1. /\ order \in Seq(SlotRecords) /\ nodes' = nodes
          /\ order' = Append(order, slot)
          /\ DOMAIN order = 1 .. Len(order) /\ Len(order) \in Nat
          /\ DOMAIN order' = 1 .. last
          /\ \A i \in DOMAIN order : order'[i] = order[i]
          /\ order'[last] = slot
      BY <1>3 DEF AppendSlot, PlanInv, GenTypeOK
    <2>2. \A k : k \in Ordered <=>
                 \E i \in DOMAIN order : k \in SlotNodes(order[i])
      BY DEF Ordered
    <2>3. \A k : k \in Ordered' <=> k \in Ordered \/ k \in SlotNodes(slot)
      <3>1. \A k : k \in Ordered' <=>
                   \E i \in DOMAIN order' : k \in SlotNodes(order'[i])
        BY DEF Ordered, SlotNodes
      <3>2. \A i : i \in DOMAIN order' <=> i \in DOMAIN order \/ i = last
        BY <2>1
      <3> QED
        BY <2>1, <2>2, <3>1, <3>2
    <2>4. ASSUME NEW a, NEW b, Before(a, b)
          PROVE  Before(a, b)'
      <3>1. PICK i \in DOMAIN order, j \in DOMAIN order :
                i < j /\ a \in SlotNodes(order[i]) /\ b \in SlotNodes(order[j])
        BY <2>4 DEF Before
      <3>2. i \in DOMAIN order' /\ j \in DOMAIN order'
        BY <2>1
      <3>3. a \in SlotNodes(order'[i]) /\ b \in SlotNodes(order'[j])
        BY <2>1, <3>1
      <3> QED
        BY <3>1, <3>2, <3>3 DEF Before, SlotNodes
    <2>5. ASSUME NEW a, a \in Ordered, NEW b \in SlotNodes(slot)
          PROVE  Before(a, b)'
      <3>1. PICK i \in DOMAIN order : a \in SlotNodes(order[i])
        BY <2>2, <2>5
      <3>2. i \in DOMAIN order' /\ last \in DOMAIN order' /\ i < last
        BY <2>1
      <3>3. a \in SlotNodes(order'[i]) /\ b \in SlotNodes(order'[last])
        BY <2>1, <2>5, <3>1
      <3> QED
        BY <3>2, <3>3 DEF Before, SlotNodes
    <2>6. SUFFICES ASSUME NEW a \in DOMAIN nodes, NEW b \in DOMAIN nodes,
                          a < b, Tid(a) = Tid(b), b \in Ordered'
                   PROVE  a \in Ordered' /\ Before(a, b)'
      BY <2>1 DEF OrderExtendsSb, Tid
    <2>7. CASE b \in Ordered
      BY <2>3, <2>4, <2>6, <2>7 DEF OrderExtendsSb
    <2>8. CASE b \in SlotNodes(slot)
      <3>1. b \in Heads
        BY <2>8 DEF SlotNodes, Selectable
      <3>2. a \notin Pending
        <4>1. a \in Nat /\ b \in Nat
          BY DEF PlanInv, GenTypeOK
        <4> QED
          BY <2>6, <3>1, <4>1 DEF Heads
      <3>3. a \in Ordered
        BY <3>2 DEF Pending
      <3> QED
        BY <2>3, <2>5, <2>8, <3>3
    <2> QED
      BY <2>3, <2>6, <2>7, <2>8
  <1>4. ASSUME NEW n \in DOMAIN nodes, OrderNode(n)
        PROVE  OrderExtendsSb'
      BY <1>3, <1>4 DEF OrderNode
  <1>5. ASSUME NEW n \in DOMAIN nodes, NEW m \in DOMAIN nodes, OrderPair(n, m)
        PROVE  OrderExtendsSb'
      BY <1>3, <1>5 DEF OrderPair
  <1>6. StartOrdering \/ EndOrdering \/ EndConstraints => UNCHANGED <<nodes, order>>
      BY DEF StartOrdering, EndOrdering, EndConstraints
  <1>7. \A F \in SUBSET Fields : ConstrainSlot(F) => UNCHANGED <<nodes, order>>
      BY DEF ConstrainSlot
  <1> QED
      BY <1>1, <1>2, <1>4, <1>5, <1>6, <1>7 DEF GenNext

-----------------------------------------------------------------------------
(* The kernels                                                             *)

\* The node that work-item t compares the checks of.
Target(t) == IF pc[t] = "unlock" THEN Unlocks(t, cur[t])[ix[t]] ELSE cur[t]

\* The value of the flag of n just before the signal of n.
PreSignal(n) == <<code[n].signal[1], code[n].signal[2] - 1>>

\* All that comes before n is signalled, and n is not.
HasTurn(n) ==
    /\ ~ Signalled(n)
    /\ \A m \in DOMAIN code : Before(m, n) => Signalled(m)
    /\ mem[PreSignal(n)[1]] >= PreSignal(n)[2]

\* What remains true of a check c of node n that was found to hold.
Tested(n, c) ==
    /\ mem[c[1]] >= c[2]
    /\ c = PreSignal(n) => ~ Signalled(n)

ThreadInv(t) ==
    /\ pc[t] \in {"early", "check", "update", "drain"} => cur[t] # None
    /\ pc[t] \in {"body", "exit", "barrier", "hash"} => cur[t] = None
    /\ cur[t] # None => cur[t] \in DOMAIN code /\ Tid(cur[t]) = t
    /\ pc[t] = "unlock" => ix[t] \in DOMAIN Unlocks(t, cur[t])
    /\ pc[t] = "exit" => endChecks[t] # <<>>
    /\ pc[t] \in {"unlock", "check"} =>
          \A c \in code[Target(t)].checks \ todo[t] : Tested(Target(t), c)
    /\ pc[t] = "update" =>
          HasTurn(cur[t]) /\ left[t] \subseteq code[cur[t]].fields

RunInv ==
    /\ TypeOK
    /\ SlotsInOrder
    /\ \A t, u \in Threads : section[t] = section[u]
    /\ \A t \in Threads : ThreadInv(t)

Inv ==
    /\ PlanInv
    /\ phase # "run" => RunInit
    /\ RunInv

----------------------------------------------------------------------------
(* Facts about the plan. *)

\* A node's code has the type of the code.
LEMMA CodeTypes ==
    ASSUME PlanInv
    PROVE  \A n \in DOMAIN code :
             /\ code[n].unlocks \in Seq(DOMAIN code)
             /\ code[n].checks \in SUBSET Constraint
             /\ code[n].signal[1] \in Flags /\ code[n].signal[2] \in Nat \ {0}
             /\ code[n].signal = <<code[n].signal[1], code[n].signal[2]>>
             /\ code[n].fields \in SUBSET Fields
             /\ PreSignal(n) \in code[n].checks
             /\ n # None /\ Tid(n) \in Threads
  <1> SUFFICES ASSUME NEW n \in DOMAIN code
               PROVE  /\ code[n].unlocks \in Seq(DOMAIN code)
                      /\ code[n].checks \in SUBSET Constraint
                      /\ code[n].signal[1] \in Flags
                      /\ code[n].signal[2] \in Nat \ {0}
                      /\ code[n].signal = <<code[n].signal[1], code[n].signal[2]>>
                      /\ code[n].fields \in SUBSET Fields
                      /\ PreSignal(n) \in code[n].checks
                      /\ n # None /\ Tid(n) \in Threads
      OBVIOUS
  <1>1. code[n] \in CodeRecords
      BY DEF PlanInv, GenTypeOK
  <1>2. code[n].signal \in Constraint
      BY <1>1 DEF CodeRecords
  <1>3. /\ code[n].signal[1] \in Flags /\ code[n].signal[2] \in Nat
        /\ code[n].signal = <<code[n].signal[1], code[n].signal[2]>>
      BY <1>2 DEF Constraint
  <1>4. code[n].signal[2] \in 1 .. flag[code[n].signal[1]]
      BY DEF PlanInv, SignalInv
  <1>5. n \in DOMAIN nodes
      BY DEF PlanInv, GenTypeOK
  <1>6. PreSignal(n) \in code[n].checks
      BY DEF PlanInv, SignalInv, PreSignal
  <1> QED
      BY <1>1, <1>3, <1>4, <1>5, <1>6, NodeTypes DEF CodeRecords, PlanInv

\* Two nodes are in different slots, or they are the two nodes of a pair.
LEMMA SlotsCompare ==
    ASSUME PlanInv, NEW n \in DOMAIN code, NEW m \in DOMAIN code, n # m
    PROVE  \/ Before(n, m)
           \/ Before(m, n)
           \/ code[n].fields \cap code[m].fields = {}
  <1>1. nodeIt \in 1 .. Len(order) + 1 /\ DOMAIN order = 1 .. Len(order)
        /\ Len(order) \in Nat
      BY DEF PlanInv, GenTypeOK
  <1>2. PICK i \in 1 .. nodeIt - 1 : n \in SlotNodes(order[i])
      BY DEF PlanInv, CodeDomainInv
  <1>3. PICK j \in 1 .. nodeIt - 1 : m \in SlotNodes(order[j])
      BY DEF PlanInv, CodeDomainInv
  <1>4. i \in DOMAIN order /\ j \in DOMAIN order
      BY <1>1
  <1>5. CASE i = j
    <2>1. /\ order[i].async # None
          /\ {n, m} = {order[i].key, order[i].async}
      BY <1>2, <1>3, <1>5 DEF SlotNodes
    <2>2. code[order[i].key].fields \cap code[order[i].async].fields = {}
      BY <2>1 DEF PlanInv, FieldsInv
    <2> QED
      BY <2>1, <2>2
  <1>6. CASE i < j
      BY <1>2, <1>3, <1>4, <1>6 DEF Before
  <1>7. CASE j < i
      BY <1>2, <1>3, <1>4, <1>7 DEF Before
  <1> QED
      BY <1>1, <1>5, <1>6, <1>7

\* When every check of a node has been passed by the flags, every node before
\* it is signalled: those of the slot just before by the checks, the others
\* because slots complete in order.
LEMMA ChecksPassed ==
    ASSUME PlanInv, SlotsInOrder, NEW n \in DOMAIN code,
           \A c \in code[n].checks : mem[c[1]] >= c[2]
    PROVE  \A m \in DOMAIN code : Before(m, n) => Signalled(m)
  <1> SUFFICES ASSUME NEW m \in DOMAIN code, Before(m, n)
               PROVE  Signalled(m)
      OBVIOUS
  <1>1. nodeIt \in 1 .. Len(order) + 1 /\ DOMAIN order = 1 .. Len(order)
        /\ Len(order) \in Nat
      BY DEF PlanInv, GenTypeOK
  <1>2. PICK i \in DOMAIN order, j \in DOMAIN order :
            i < j /\ m \in SlotNodes(order[i]) /\ n \in SlotNodes(order[j])
      BY DEF Before
  <1>3. j \in 1 .. nodeIt - 1
    <2>1. PICK k \in 1 .. nodeIt - 1 : n \in SlotNodes(order[k])
      BY DEF PlanInv, CodeDomainInv
    <2>2. k = j
      BY <1>1, <1>2, <2>1 DEF PlanInv, OrderInv
    <2> QED
      BY <2>1, <2>2
  <1>4. /\ j - 1 \in 1 .. nodeIt - 2 /\ j - 1 \in DOMAIN order
        /\ (j - 1) + 1 = j
        /\ j - 1 \in 1 .. nodeIt - 1
      BY <1>1, <1>2, <1>3
  <1>5. ASSUME NEW k \in SlotNodes(order[j - 1])
        PROVE  k \in DOMAIN code /\ Signalled(k)
    <2>1. code[k].signal \in code[n].checks
      BY <1>2, <1>4, <1>5 DEF PlanInv, ChecksInv
    <2>2. k \in DOMAIN code
      BY <1>4, <1>5 DEF PlanInv, CodeDomainInv
    <2> QED
      BY <2>1, <2>2 DEF Signalled
  <1>6. CASE i = j - 1
      BY <1>2, <1>5, <1>6
  <1>7. CASE i < j - 1
    <2> DEFINE k == order[j - 1].key
    <2>1. k \in SlotNodes(order[j - 1])
      <3>1. order[j - 1] \in SlotRecords
        BY <1>4 DEF PlanInv, GenTypeOK
      <3> QED
        BY <3>1, NodeTypes DEF SlotRecords, SlotNodes, PlanInv
    <2>2. Before(m, k)
      BY <1>2, <1>4, <1>7, <2>1 DEF Before
    <2>3. k \in DOMAIN code /\ Signalled(k)
      BY <1>5, <2>1
    <2> QED
      BY <2>2, <2>3 DEF SlotsInOrder
  <1> QED
      BY <1>1, <1>2, <1>6, <1>7

\* The effect of a signal given in its turn: one more node is signalled, the
\* slots stay in order, and one flag moves to its next value.
LEMMA SignalInTurn ==
    ASSUME PlanInv, TypeOK, SlotsInOrder, UNCHANGED genVars,
           NEW n \in DOMAIN code, HasTurn(n), SetFlag(code[n].signal)
    PROVE  /\ mem' \in [Flags -> Nat]
           /\ \A f \in Flags : mem'[f] \in {mem[f], mem[f] + 1}
           /\ \A m \in DOMAIN code : Signalled(m)' <=> Signalled(m) \/ m = n
           /\ SlotsInOrder'
  <1> DEFINE f == code[n].signal[1]
             v == code[n].signal[2]
  <1>1. f \in Flags /\ v \in Nat \ {0} /\ code[n].signal = <<f, v>>
      BY CodeTypes
  <1>2. mem \in [Flags -> Nat]
      BY DEF TypeOK
  <1>3. mem[f] = v - 1
      BY <1>1, <1>2 DEF HasTurn, Signalled, PreSignal
  <1>4. mem' = [mem EXCEPT ![f] = v] /\ code' = code
      BY DEF SetFlag, genVars
  <1>5. /\ mem' \in [Flags -> Nat]
        /\ \A g \in Flags : mem'[g] \in {mem[g], mem[g] + 1}
      BY <1>1, <1>2, <1>3, <1>4
  <1>6. ASSUME NEW m \in DOMAIN code
        PROVE  Signalled(m)' <=> Signalled(m) \/ m = n
    <2> DEFINE g == code[m].signal[1]
               w == code[m].signal[2]
    <2>1. g \in Flags /\ w \in Nat \ {0} /\ code[m].signal = <<g, w>>
      BY CodeTypes
    <2>2. CASE g # f
      BY <1>1, <1>2, <1>4, <2>1, <2>2 DEF Signalled
    <2>3. CASE g = f /\ w = v
      <3>1. m = n
        BY <1>1, <2>1, <2>3 DEF PlanInv, SignalInv
      <3> QED
        BY <1>1, <1>2, <1>4, <3>1 DEF Signalled
    <2>4. CASE g = f /\ w # v
      <3>1. m # n
        BY <1>1, <2>1, <2>4
      <3>2. mem'[g] = v /\ mem[g] = v - 1
        BY <1>1, <1>2, <1>3, <1>4, <2>4
      <3> QED
        BY <1>1, <1>4, <2>1, <2>4, <3>1, <3>2 DEF Signalled
    <2> QED
      BY <2>2, <2>3, <2>4
  <1>7. ASSUME NEW a \in DOMAIN code, NEW b \in DOMAIN code, Before(a, b)
        PROVE  Signalled(b)' => Signalled(a)'
      BY <1>6, <1>7 DEF HasTurn, SlotsInOrder
  <1>8. SlotsInOrder'
      BY <1>7 DEF SlotsInOrder, Before, SlotNodes, genVars
  <1> QED
      BY <1>5, <1>6, <1>8

----------------------------------------------------------------------------
(* The generator part: no work-item has moved. *)

\* While the generator works and when the kernel starts, nothing is signalled.
LEMMA InitialRun == PlanInv /\ RunInit => RunInv
  <1> SUFFICES ASSUME PlanInv, RunInit
               PROVE  RunInv
      OBVIOUS
  <1>1. \A n \in DOMAIN code : ~ Signalled(n)
    <2>1. SUFFICES ASSUME NEW n \in DOMAIN code
                   PROVE  ~ (0 >= code[n].signal[2]) /\ code[n].signal[1] \in Flags
      BY DEF RunInit, Signalled
    <2> QED
      BY CodeTypes
  <1>2. SlotsInOrder
      BY <1>1 DEF SlotsInOrder
  <1>3. TypeOK
    <2>1. section \in [Threads -> 1 .. Sections] /\ visits \in [Threads -> 0 .. MaxVisits]
      BY BoundsAssumption, RunAssumption DEF RunInit
    <2> QED
      BY <2>1 DEF TypeOK, RunInit, PlanInv, PCs, None
  <1>4. ASSUME NEW t \in Threads
        PROVE  ThreadInv(t)
      BY DEF RunInit, ThreadInv
  <1> QED
      BY <1>2, <1>3, <1>4 DEF RunInv, RunInit

\* A step of the generator.
LEMMA GenKeepsInv ==
    ASSUME Inv, GenNext, UNCHANGED runVars
    PROVE  Inv'
  <1>1. phase # "run"
      BY DEF GenNext, MakeRandom, StartOrdering, OrderNode, OrderPair,
             AppendSlot, EndOrdering, ConstrainSlot, EndConstraints
  <1>2. RunInit'
      BY <1>1 DEF Inv, RunInit, runVars
  <1>3. PlanInv'
      BY PlanStep DEF Inv
  <1>4. RunInv'
      BY <1>2, <1>3, InitialRun, PTL
  <1> QED
      BY <1>2, <1>3, <1>4 DEF Inv

----------------------------------------------------------------------------
(* A step of work-item t and the flags. *)

\* How a step of work-item t may change the flags.
FlagEffect(t) ==
    \/ UNCHANGED mem
    \/ \E n \in DOMAIN code :
          Tid(n) = t /\ HasTurn(n) /\ SetFlag(code[n].signal)

\* The node that t is about to signal for, or to update with, is its own.
LEMMA TargetTypes ==
    ASSUME Inv, NEW t \in Threads, pc[t] \in {"unlock", "check"}
    PROVE  Target(t) \in DOMAIN code /\ Tid(Target(t)) = t
  <1>1. ThreadInv(t) /\ PlanInv /\ TypeOK
      BY DEF Inv, RunInv
  <1>2. CASE pc[t] = "check"
      BY <1>1, <1>2 DEF ThreadInv, Target
  <1>3. CASE pc[t] = "unlock" /\ cur[t] = None
    <2>1. ix[t] \in DOMAIN endChecks[t]
      BY <1>1, <1>3 DEF ThreadInv, Unlocks
    <2>2. Target(t) = endChecks[t][ix[t]]
      BY <1>3 DEF Target, Unlocks
    <2>3. endChecks[t] \in Seq(DOMAIN code)
      BY <1>1 DEF PlanInv, GenTypeOK
    <2> QED
      BY <1>1, <2>1, <2>2, <2>3 DEF PlanInv, UnlockInv
  <1>4. CASE pc[t] = "unlock" /\ cur[t] # None
    <2>1. cur[t] \in DOMAIN code /\ Tid(cur[t]) = t
          /\ ix[t] \in DOMAIN code[cur[t]].unlocks
      BY <1>1, <1>4 DEF ThreadInv, Unlocks
    <2>2. Target(t) = code[cur[t]].unlocks[ix[t]]
      BY <1>4 DEF Target, Unlocks
    <2>3. code[cur[t]].unlocks \in Seq(DOMAIN code)
      BY <1>1, <2>1, CodeTypes
    <2> QED
      BY <1>1, <2>1, <2>2, <2>3 DEF PlanInv, UnlockInv
  <1> QED
      BY <1>2, <1>3, <1>4

\* When the last comparison of the checks holds, the node has its turn.
LEMMA PassedHasTurn ==
    ASSUME Inv, NEW t \in Threads, pc[t] \in {"unlock", "check"}, Passed(t)
    PROVE  HasTurn(Target(t))
  <1> DEFINE n == Target(t)
  <1>1. PlanInv /\ SlotsInOrder /\ TypeOK /\ ThreadInv(t)
      BY DEF Inv, RunInv
  <1>2. n \in DOMAIN code
      BY TargetTypes
  <1>3. PICK d \in todo[t] : todo[t] = {d} /\ Holds(t, d)
      BY DEF Passed
  <1>4. mem[d[1]] = d[2] /\ d \in Constraint
    <2>1. d \in Constraint
      BY <1>1 DEF TypeOK
    <2> QED
      BY <1>3, <2>1 DEF Holds
  <1>5. \A c \in code[n].checks : Tested(n, c) \/ c = d
      BY <1>1, <1>3 DEF ThreadInv
  <1>6. mem \in [Flags -> Nat]
      BY <1>1 DEF TypeOK
  <1>7. \A c \in code[n].checks : mem[c[1]] >= c[2]
    <2>1. mem[d[1]] >= d[2]
      BY <1>4, <1>6 DEF Constraint
    <2> QED
      BY <1>5, <2>1 DEF Tested
  <1>8. ~ Signalled(n)
    <2>1. PreSignal(n) \in code[n].checks
      BY <1>1, <1>2, CodeTypes
    <2>2. CASE Tested(n, PreSignal(n))
      BY <2>2 DEF Tested
    <2>3. CASE PreSignal(n) = d
      <3>1. mem[code[n].signal[1]] = code[n].signal[2] - 1
        BY <1>4, <2>3 DEF PreSignal
      <3>2. code[n].signal[1] \in Flags /\ code[n].signal[2] \in Nat
        BY <1>1, <1>2, CodeTypes
      <3> QED
        BY <1>6, <3>1, <3>2 DEF Signalled
    <2> QED
      BY <1>5, <2>1, <2>2, <2>3
  <1>9. \A m \in DOMAIN code : Before(m, n) => Signalled(m)
      BY <1>1, <1>2, <1>7, ChecksPassed
  <1>10. mem[PreSignal(n)[1]] >= PreSignal(n)[2]
      BY <1>1, <1>2, <1>7, CodeTypes
  <1> QED
      BY <1>8, <1>9, <1>10 DEF HasTurn

\* A step of a work-item leaves the flags alone, or signals one node that has its
\* turn and has not been signalled.
LEMMA StepFlags ==
    ASSUME Inv, NEW t \in Threads, Step(t)
    PROVE  FlagEffect(t)
  <1>1. CASE Unlock(t)
    <2>1. pc[t] = "unlock" /\ Passed(t)
          /\ SetFlag(code[Unlocks(t, cur[t])[ix[t]]].signal)
      BY <1>1 DEF Unlock
    <2>2. Target(t) = Unlocks(t, cur[t])[ix[t]]
      BY <2>1 DEF Target
    <2> QED
      BY <2>1, <2>2, TargetTypes, PassedHasTurn DEF FlagEffect
  <1>2. CASE Signal(t) \/ SignalEarly(t)
    <2>1. pc[t] = "update" /\ SetFlag(code[cur[t]].signal)
      BY <1>2 DEF Signal, SignalEarly
    <2>2. cur[t] \in DOMAIN code /\ Tid(cur[t]) = t /\ HasTurn(cur[t])
      BY <2>1 DEF Inv, RunInv, ThreadInv
    <2> QED
      BY <2>1, <2>2 DEF FlagEffect
  <1>3. CASE ~ (Unlock(t) \/ Signal(t) \/ SignalEarly(t))
      BY <1>3 DEF Step, FlagEffect, EnterNode, Compare, BreakEarly, StartUnlocks,
                  SkipUnlock, Continue, StartUpdate, UpdateField, Drained,
                  Arrive, StartEndChecks, RepeatEndChecks, BreakEndChecks
  <1> QED
      BY <1>1, <1>2, <1>3

\* What every work-item may rely on when t takes a step.
LEMMA FlagEffectRelies ==
    ASSUME Inv, NEW t \in Threads, FlagEffect(t), UNCHANGED genVars
    PROVE  /\ mem' \in [Flags -> Nat]
           /\ \A f \in Flags : mem'[f] \in {mem[f], mem[f] + 1}
           /\ \A n \in DOMAIN code :
                 /\ Signalled(n) => Signalled(n)'
                 /\ Signalled(n)' => Signalled(n) \/ Tid(n) = t
           /\ SlotsInOrder'
  <1>1. PlanInv /\ TypeOK /\ SlotsInOrder /\ mem \in [Flags -> Nat]
      BY DEF Inv, RunInv, TypeOK
  <1>2. CASE UNCHANGED mem
      BY <1>1, <1>2 DEF SlotsInOrder, Signalled, Before, SlotNodes, genVars
  <1>3. ASSUME NEW n \in DOMAIN code, Tid(n) = t, HasTurn(n),
               SetFlag(code[n].signal)
        PROVE  /\ mem' \in [Flags -> Nat]
               /\ \A f \in Flags : mem'[f] \in {mem[f], mem[f] + 1}
               /\ \A m \in DOMAIN code : Signalled(m)' <=> Signalled(m) \/ m = n
               /\ SlotsInOrder'
      BY <1>1, <1>3, SignalInTurn
  <1> QED
      BY <1>2, <1>3 DEF FlagEffect

\* A step of t leaves what the other work-items do and know to themselves.
LEMMA StepLocal ==
    ASSUME Inv, NEW t \in Threads, Step(t), NEW u \in Threads \ {t}
    PROVE  /\ pc'[u] = pc[u] /\ cur'[u] = cur[u] /\ ix'[u] = ix[u]
           /\ todo'[u] = todo[u] /\ left'[u] = left[u]
  <1>1. /\ pc \in [Threads -> PCs] /\ ix \in [Threads -> Nat]
        /\ cur \in [Threads -> DOMAIN code \cup {None}]
        /\ todo \in [Threads -> SUBSET Constraint]
        /\ left \in [Threads -> SUBSET Fields]
      BY DEF Inv, RunInv, TypeOK
  <1>2. CASE \E c \in todo[t] : Compare(t, c)
      BY <1>1, <1>2 DEF Compare
  <1>3. CASE \E f \in left[t] : UpdateField(t, f)
      BY <1>1, <1>3 DEF UpdateField
  <1>4. CASE \E n \in DOMAIN code : EnterNode(t, n)
      BY <1>1, <1>4 DEF EnterNode, Goto
  <1>5. CASE StartUnlocks(t) \/ Unlock(t) \/ SkipUnlock(t) \/ RepeatEndChecks(t)
      BY <1>1, <1>5 DEF StartUnlocks, Unlock, SkipUnlock, RepeatEndChecks,
                        GotoUnlock
  <1>6. CASE StartEndChecks(t)
      BY <1>1, <1>6 DEF StartEndChecks, GotoUnlock, Goto
  <1>7. CASE \/ BreakEarly(t) \/ Continue(t) \/ StartUpdate(t) \/ Signal(t)
             \/ SignalEarly(t) \/ Drained(t) \/ Arrive(t) \/ BreakEndChecks(t)
      BY <1>1, <1>7 DEF BreakEarly, Continue, StartUpdate, Signal, SignalEarly,
                        Drained, Arrive, BreakEndChecks, Goto
  <1> QED
      BY <1>2, <1>3, <1>4, <1>5, <1>6, <1>7 DEF Step

\* What u knows survives a step of another work-item t: flags do not fall
\* back, and only u signals for the nodes of u.
LEMMA OthersKeep ==
    ASSUME Inv, NEW t \in Threads, FlagEffect(t), UNCHANGED genVars,
           NEW u \in Threads \ {t},
           pc'[u] = pc[u], cur'[u] = cur[u], ix'[u] = ix[u],
           todo'[u] = todo[u], left'[u] = left[u]
    PROVE  ThreadInv(u)'
  <1>1. PlanInv /\ TypeOK /\ ThreadInv(u) /\ mem \in [Flags -> Nat]
      BY DEF Inv, RunInv, TypeOK
  <1>2. /\ mem' \in [Flags -> Nat]
        /\ \A f \in Flags : mem'[f] >= mem[f]
    <2>1. /\ mem' \in [Flags -> Nat]
          /\ \A f \in Flags : mem'[f] \in {mem[f], mem[f] + 1}
        BY FlagEffectRelies
    <2> QED
        BY <1>1, <2>1
  <1>3. \A n \in DOMAIN code :
            /\ Signalled(n) => Signalled(n)'
            /\ Signalled(n)' => Signalled(n) \/ Tid(n) = t
      BY FlagEffectRelies
  <1>4. code' = code /\ nodes' = nodes /\ endChecks' = endChecks /\ order' = order
      BY DEF genVars
  <1>5. Target(u)' = Target(u)
      BY <1>4 DEF Target, Unlocks
  <1>6. ASSUME pc[u] \in {"unlock", "check"},
               NEW c \in code[Target(u)].checks, Tested(Target(u), c)
        PROVE  Tested(Target(u), c)'
    <2>1. PICK n \in DOMAIN code : n = Target(u) /\ Tid(n) = u
        BY <1>6, TargetTypes
    <2>2. c \in Constraint
        BY <1>1, <1>6, <2>1, CodeTypes
    <2>3. mem'[c[1]] >= c[2]
        BY <1>1, <1>2, <1>6, <2>2 DEF Tested, Constraint
    <2>4. Signalled(n)' => Signalled(n)
        BY <1>3, <2>1
    <2>5. PreSignal(n)' = PreSignal(n)
        BY <1>4 DEF PreSignal
    <2>6. c = PreSignal(n) => ~ Signalled(n)
        BY <1>6, <2>1 DEF Tested
    <2>7. Tested(n, c)'
        BY <2>3, <2>4, <2>5, <2>6 DEF Tested
    <2> QED
        BY <1>5, <2>1, <2>7 DEF Tested, PreSignal, Signalled
  <1>7. ASSUME NEW n \in DOMAIN code, Tid(n) = u, HasTurn(n)
        PROVE  HasTurn(n)'
    <2>1. ~ Signalled(n)'
        BY <1>3, <1>7 DEF HasTurn
    <2>2. \A m \in DOMAIN code : Before(m, n)' => Signalled(m)'
        BY <1>3, <1>4, <1>7 DEF HasTurn, Before, SlotNodes
    <2>3. PreSignal(n)' = PreSignal(n) /\ PreSignal(n) \in Constraint
        BY <1>1, <1>4, CodeTypes DEF PreSignal
    <2>4. mem'[PreSignal(n)[1]] >= PreSignal(n)[2]
        BY <1>1, <1>2, <1>7, <2>3 DEF HasTurn, Constraint
    <2> QED
        BY <1>4, <2>1, <2>2, <2>3, <2>4 DEF HasTurn
  <1> QED
      BY <1>1, <1>4, <1>5, <1>6, <1>7 DEF ThreadInv, Unlocks, Tid

\* The types of the variables that a step of a work-item writes.
LocalTypes ==
    /\ pc \in [Threads -> PCs]
    /\ cur \in [Threads -> DOMAIN code \cup {None}]
    /\ ix \in [Threads -> Nat]
    /\ todo \in [Threads -> SUBSET Constraint]
    /\ left \in [Threads -> SUBSET Fields]

\* Conditions are made of comparisons of flags with numbers.
LEMMA EarlyBreakTypes ==
    ASSUME PlanInv
    PROVE  \A n \in DOMAIN code :
              code[n].checks \in SUBSET Constraint /\ EarlyBreak(n) \in SUBSET Constraint
  <1> SUFFICES ASSUME NEW n \in DOMAIN code
               PROVE  code[n].checks \in SUBSET Constraint
                      /\ EarlyBreak(n) \in SUBSET Constraint
      OBVIOUS
  <1>1. <<code[n].signal[1], code[n].signal[2]>> \in Constraint
    <2>1. code[n].signal[1] \in Flags /\ code[n].signal[2] \in Nat
        BY CodeTypes
    <2> QED
        BY <2>1 DEF Constraint
  <1>2. code[n].signal \in Constraint
    <2>1. code[n].signal = <<code[n].signal[1], code[n].signal[2]>>
        BY CodeTypes
    <2> QED
        BY <1>1, <2>1, Zenon
  <1>3. code[n].checks \in SUBSET Constraint
      BY CodeTypes
  <1> QED
      BY <1>2, <1>3 DEF EarlyBreak

\* Going on to an unlock, or past the last of them, starts a new condition:
\* nothing of it has been compared.
LEMMA GotoUnlockKeeps ==
    ASSUME Inv, UNCHANGED <<genVars, cur, left>>, NEW t \in Threads, NEW i \in Nat,
           GotoUnlock(t, cur[t], i), cur[t] = None => endChecks[t] # <<>>
    PROVE  LocalTypes' /\ ThreadInv(t)'
  <1>1. PlanInv /\ LocalTypes /\ ThreadInv(t)
      BY DEF Inv, RunInv, TypeOK, LocalTypes
  <1>2. code' = code /\ nodes' = nodes /\ endChecks' = endChecks
        /\ cur' = cur /\ left' = left
      BY DEF genVars
  <1>3. cur[t] # None => cur[t] \in DOMAIN code /\ Tid(cur[t]) = t
      BY <1>1 DEF ThreadInv
  <1> DEFINE unlocks == Unlocks(t, cur[t])
  <1>4. unlocks \in Seq(DOMAIN code)
    <2>1. endChecks[t] \in Seq(DOMAIN code)
        BY <1>1 DEF PlanInv, GenTypeOK
    <2> QED
        BY <1>1, <1>3, <2>1, CodeTypes DEF Unlocks
  <1>5. unlocks' = unlocks
      BY <1>2 DEF Unlocks
  <1>6. \A n \in DOMAIN code :
            code[n].checks \in SUBSET Constraint /\ EarlyBreak(n) \in SUBSET Constraint
      BY <1>1, EarlyBreakTypes
  <1>7. CASE i \in DOMAIN unlocks
    <2>1. /\ pc' = [pc EXCEPT ![t] = "unlock"]
          /\ ix' = [ix EXCEPT ![t] = i]
          /\ todo' = [todo EXCEPT ![t] = code[unlocks[i]].checks]
        BY <1>7 DEF GotoUnlock
    <2>2. unlocks[i] \in DOMAIN code
        BY <1>4, <1>7
    <2>3. pc'[t] = "unlock" /\ ix'[t] = i /\ todo'[t] = code[unlocks[i]].checks
        BY <1>1, <2>1 DEF LocalTypes
    <2>4. LocalTypes'
        BY <1>1, <1>2, <1>6, <2>1, <2>2 DEF LocalTypes, PCs
    <2>5. Target(t)' = unlocks[i]
        BY <1>5, <2>3 DEF Target
    <2>6. ix'[t] \in DOMAIN unlocks'
        BY <1>5, <1>7, <2>3
    <2>7. code'[Target(t)'].checks \ todo'[t] = {}
        BY <1>2, <2>3, <2>5
    <2> HIDE DEF unlocks
    <2> QED
        BY <1>2, <1>3, <2>3, <2>4, <2>6, <2>7 DEF ThreadInv, Tid, unlocks
  <1>8. CASE i \notin DOMAIN unlocks /\ cur[t] = None
    <2>1. /\ pc' = [pc EXCEPT ![t] = "exit"]
          /\ ix' = [ix EXCEPT ![t] = 0]
          /\ todo' = [todo EXCEPT ![t] = EarlyBreak(unlocks[Len(unlocks)])]
        BY <1>8 DEF GotoUnlock
    <2>2. unlocks = endChecks[t] /\ endChecks[t] # <<>>
        BY <1>8 DEF Unlocks
    <2>3. unlocks[Len(unlocks)] \in DOMAIN code
        BY <1>4, <2>2
    <2>4. LocalTypes'
        BY <1>1, <1>2, <1>6, <2>1, <2>3 DEF LocalTypes, PCs
    <2>5. pc'[t] = "exit"
        BY <1>1, <2>1 DEF LocalTypes
    <2> QED
        BY <1>2, <1>8, <2>2, <2>4, <2>5 DEF ThreadInv
  <1>9. CASE i \notin DOMAIN unlocks /\ cur[t] # None
    <2>1. /\ pc' = [pc EXCEPT ![t] = "check"]
          /\ ix' = [ix EXCEPT ![t] = 0]
          /\ todo' = [todo EXCEPT ![t] = code[cur[t]].checks]
        BY <1>9 DEF GotoUnlock
    <2>2. pc'[t] = "check" /\ todo'[t] = code[cur[t]].checks
        BY <1>1, <2>1 DEF LocalTypes
    <2>3. LocalTypes'
        BY <1>1, <1>2, <1>3, <1>6, <1>9, <2>1 DEF LocalTypes, PCs
    <2>4. Target(t)' = cur[t]
        BY <1>2, <2>2 DEF Target
    <2>5. code'[Target(t)'].checks \ todo'[t] = {}
        BY <1>2, <2>2, <2>4
    <2> QED
        BY <1>2, <1>3, <1>9, <2>2, <2>3, <2>5 DEF ThreadInv, Tid
  <1> QED
      BY <1>7, <1>8, <1>9

\* Every action of t keeps what t itself knows.
LEMMA OwnKeep ==
    ASSUME Inv, NEW t \in Threads, Step(t), UNCHANGED genVars
    PROVE  LocalTypes' /\ ThreadInv(t)'
  <1>1. PlanInv /\ LocalTypes /\ ThreadInv(t) /\ TypeOK
      BY DEF Inv, RunInv, TypeOK, LocalTypes
  <1>2. code' = code /\ nodes' = nodes /\ endChecks' = endChecks /\ order' = order
      BY DEF genVars
  <1>3. cur[t] # None => cur[t] \in DOMAIN code /\ Tid(cur[t]) = t
      BY <1>1 DEF ThreadInv
  <1>4. \A n \in DOMAIN code :
            code[n].checks \in SUBSET Constraint /\ EarlyBreak(n) \in SUBSET Constraint
      BY <1>1, EarlyBreakTypes
  <1>5. CASE \E n \in DOMAIN code : EnterNode(t, n)
    <2>1. PICK n \in DOMAIN code : EnterNode(t, n)
        BY <1>5
    <2>2. n # None /\ Tid(n) = t
        BY <1>1, <2>1, CodeTypes DEF EnterNode
    <2>3. LocalTypes'
        BY <1>1, <1>2, <1>4, <2>1 DEF LocalTypes, EnterNode, Goto, PCs
    <2>4. pc'[t] = "early" /\ cur'[t] = n
        BY <1>1, <2>1 DEF LocalTypes, EnterNode, Goto
    <2> QED
        BY <1>2, <2>2, <2>3, <2>4 DEF ThreadInv, Tid
  <1>6. CASE \E c \in todo[t] : Compare(t, c)
    <2>1. PICK c \in todo[t] : Compare(t, c)
        BY <1>6
    <2>2. /\ UNCHANGED <<mem, pc, cur, ix, left>>
          /\ todo' = [todo EXCEPT ![t] = @ \ {c}] /\ Holds(t, c)
        BY <2>1 DEF Compare
    <2>3. todo'[t] = todo[t] \ {c}
        BY <1>1, <2>2 DEF LocalTypes
    <2>4. LocalTypes'
        BY <1>1, <1>2, <2>2 DEF LocalTypes
    <2>5. ASSUME pc[t] \in {"unlock", "check"}
          PROVE  Tested(Target(t), c)
      <3>1. PICK n \in DOMAIN code : n = Target(t)
          BY <2>5, TargetTypes
      <3>2. c \in Constraint /\ mem[c[1]] = c[2]
          BY <1>1, <2>1, <2>2, <2>5 DEF Holds, LocalTypes
      <3>3. mem[c[1]] >= c[2]
          BY <3>2 DEF Constraint
      <3>4. c = PreSignal(n) => ~ Signalled(n)
        <4>1. code[n].signal[2] \in Nat
            BY <1>1, CodeTypes
        <4> QED
            BY <3>2, <4>1 DEF PreSignal, Signalled
      <3> QED
          BY <3>1, <3>3, <3>4 DEF Tested
    <2>6. Target(t)' = Target(t)
        BY <1>2, <2>2 DEF Target, Unlocks
    <2>7. ASSUME pc'[t] \in {"unlock", "check"},
                 NEW d \in code'[Target(t)'].checks \ todo'[t]
          PROVE  Tested(Target(t), d)'
      <3>1. PICK n \in DOMAIN code : n = Target(t)
          BY <2>2, <2>7, TargetTypes
      <3>2. d \in code[n].checks
          BY <1>2, <2>6, <2>7, <3>1
      <3>3. Tested(n, d)
          BY <1>1, <2>2, <2>3, <2>5, <2>7, <3>1, <3>2 DEF ThreadInv
      <3>4. Tested(n, d)'
          BY <1>2, <2>2, <3>3 DEF Tested, PreSignal, Signalled
      <3> QED
          BY <2>6, <3>1, <3>4 DEF Tested, PreSignal, Signalled
    <2>8. pc[t] = "update" => HasTurn(cur[t])'
        BY <1>1, <1>2, <2>2 DEF ThreadInv, HasTurn, PreSignal, Signalled, Before,
                                SlotNodes
    <2> QED
        BY <1>1, <1>2, <2>2, <2>4, <2>7, <2>8 DEF ThreadInv, Unlocks, Tid
  <1>7. CASE StartUnlocks(t) \/ Unlock(t) \/ SkipUnlock(t) \/ RepeatEndChecks(t)
    <2>1. PICK i \in Nat : GotoUnlock(t, cur[t], i)
      <3>1. ix[t] \in Nat /\ ix[t] + 1 \in Nat
          BY <1>1 DEF LocalTypes
      <3>2. RepeatEndChecks(t) => cur[t] = None
          BY <1>1 DEF ThreadInv, RepeatEndChecks
      <3> QED
          BY <1>7, <3>1, <3>2 DEF StartUnlocks, Unlock, SkipUnlock, RepeatEndChecks
    <2>2. UNCHANGED <<cur, left>>
        BY <1>7 DEF StartUnlocks, Unlock, SkipUnlock, RepeatEndChecks
    <2>3. cur[t] = None => endChecks[t] # <<>>
        BY <1>1, <1>7 DEF ThreadInv, Unlocks, StartUnlocks, Unlock, SkipUnlock,
                          RepeatEndChecks
    <2> QED
        BY <2>1, <2>2, <2>3, GotoUnlockKeeps
  <1>8. CASE StartEndChecks(t)
    <2>1. cur[t] = None /\ UNCHANGED <<cur, left>>
        BY <1>1, <1>8 DEF ThreadInv, StartEndChecks
    <2>2. CASE endChecks[t] # <<>>
      <3>1. GotoUnlock(t, cur[t], 1)
          BY <1>8, <2>1, <2>2 DEF StartEndChecks
      <3> QED
          BY <2>1, <2>2, <3>1, GotoUnlockKeeps
    <2>3. CASE endChecks[t] = <<>>
      <3>1. Goto(t, "barrier", {})
          BY <1>8, <2>3 DEF StartEndChecks
      <3>2. LocalTypes'
          BY <1>1, <1>2, <2>1, <3>1 DEF LocalTypes, Goto, PCs
      <3>3. pc'[t] = "barrier"
          BY <1>1, <3>1 DEF LocalTypes, Goto
      <3> QED
          BY <2>1, <3>2, <3>3 DEF ThreadInv
    <2> QED
        BY <2>2, <2>3
  <1>9. CASE Continue(t)
    <2>1. LocalTypes'
        BY <1>1, <1>2, <1>3, <1>4, <1>9 DEF LocalTypes, Continue, Goto, PCs, ThreadInv
    <2>2. pc'[t] = "early" /\ cur' = cur /\ cur[t] # None
        BY <1>1, <1>9 DEF LocalTypes, Continue, Goto, ThreadInv
    <2> QED
        BY <1>2, <1>3, <2>1, <2>2 DEF ThreadInv, Tid
  <1>10. CASE StartUpdate(t)
    <2>1. cur[t] \in DOMAIN code /\ cur[t] # None /\ Tid(cur[t]) = t
        BY <1>1, <1>10 DEF StartUpdate, ThreadInv
    <2>2. code[cur[t]].fields \in SUBSET Fields
        BY <1>1, <2>1, CodeTypes
    <2>3. HasTurn(cur[t])
      <3>1. Target(t) = cur[t] /\ pc[t] = "check" /\ Passed(t)
          BY <1>10 DEF StartUpdate, Target
      <3> QED
          BY <3>1, PassedHasTurn
    <2>4. LocalTypes'
        BY <1>1, <1>2, <1>10, <2>2 DEF LocalTypes, StartUpdate, Goto, PCs
    <2>5. pc'[t] = "update" /\ left'[t] = code[cur[t]].fields
          /\ cur' = cur /\ mem' = mem
        BY <1>1, <1>10 DEF LocalTypes, StartUpdate, Goto
    <2>6. HasTurn(cur[t])'
        BY <1>2, <2>3, <2>5 DEF HasTurn, PreSignal, Signalled, Before, SlotNodes
    <2> QED
        BY <1>2, <2>1, <2>4, <2>5, <2>6 DEF ThreadInv, Tid
  <1>11. CASE \E f \in left[t] : UpdateField(t, f)
    <2>1. PICK f \in left[t] : UpdateField(t, f)
        BY <1>11
    <2>2. /\ UNCHANGED <<mem, pc, cur, ix, todo>> /\ pc[t] \in {"update", "drain"}
          /\ left' = [left EXCEPT ![t] = @ \ {f}]
        BY <2>1 DEF UpdateField
    <2>3. left'[t] = left[t] \ {f} /\ LocalTypes'
        BY <1>1, <1>2, <2>2 DEF LocalTypes
    <2>4. HasTurn(cur[t]) => HasTurn(cur[t])'
        BY <1>2, <2>2 DEF HasTurn, PreSignal, Signalled, Before, SlotNodes
    <2> QED
        BY <1>1, <1>2, <1>3, <2>2, <2>3, <2>4 DEF ThreadInv, Tid
  <1>12. CASE SignalEarly(t)
    <2>1. LocalTypes'
        BY <1>1, <1>2, <1>12 DEF LocalTypes, SignalEarly, Goto, PCs
    <2>2. pc[t] = "update" /\ pc'[t] = "drain" /\ cur' = cur
        BY <1>1, <1>12 DEF LocalTypes, SignalEarly, Goto
    <2> QED
        BY <1>1, <1>2, <2>1, <2>2 DEF ThreadInv, Tid
  <1>13. CASE BreakEarly(t) \/ Signal(t) \/ Drained(t)
    <2>1. pc'[t] = "body" /\ cur'[t] = None
        BY <1>1, <1>13 DEF LocalTypes, BreakEarly, Signal, Drained, Goto
    <2>2. LocalTypes'
        BY <1>1, <1>2, <1>13 DEF LocalTypes, BreakEarly, Signal, Drained, Goto, PCs
    <2> QED
        BY <2>1, <2>2 DEF ThreadInv
  <1>14. CASE Arrive(t) \/ BreakEndChecks(t)
    <2>1. pc'[t] = "barrier" /\ cur' = cur /\ cur[t] = None
        BY <1>1, <1>14 DEF LocalTypes, Arrive, BreakEndChecks, Goto, ThreadInv
    <2>2. LocalTypes'
        BY <1>1, <1>2, <1>14 DEF LocalTypes, Arrive, BreakEndChecks, Goto, PCs
    <2> QED
        BY <2>1, <2>2 DEF ThreadInv
  <1> QED
      BY <1>5, <1>6, <1>7, <1>8, <1>9, <1>10, <1>11, <1>12, <1>13, <1>14 DEF Step

----------------------------------------------------------------------------
(* The invariant is inductive. *)

\* A step of one work-item.
LEMMA StepKeepsInv ==
    ASSUME Inv, phase = "run", NEW t \in Threads, Step(t), UNCHANGED genVars
    PROVE  Inv' /\ \A f \in Flags : mem'[f] \in {mem[f], mem[f] + 1}
  <1>1. PlanInv /\ TypeOK /\ ThreadInv(t)
      BY DEF Inv, RunInv
  <1>2. PlanInv'
      BY <1>1, PlanStutter
  <1>3. FlagEffect(t)
      BY StepFlags
  <1>4. /\ mem' \in [Flags -> Nat] /\ SlotsInOrder'
        /\ \A f \in Flags : mem'[f] \in {mem[f], mem[f] + 1}
      BY <1>3, FlagEffectRelies
  <1>5. LocalTypes' /\ ThreadInv(t)'
      BY OwnKeep
  <1>6. ASSUME NEW u \in Threads \ {t}
        PROVE  ThreadInv(u)'
      BY <1>3, <1>6, StepLocal, OthersKeep
  <1>7. msg' \in [Fields -> Seq(DOMAIN code)]
    <2>1. msg \in [Fields -> Seq(DOMAIN code)]
        BY <1>1 DEF TypeOK
    <2>2. CASE UNCHANGED msg
        BY <2>1, <2>2
    <2>3. CASE \E f \in left[t] : UpdateField(t, f)
      <3>1. PICK f \in left[t] : UpdateField(t, f)
          BY <2>3
      <3>2. f \in Fields
          BY <1>1 DEF TypeOK
      <3>3. cur[t] \in DOMAIN code
        <4>1. cur[t] # None
            BY <1>1, <3>1 DEF ThreadInv, UpdateField
        <4> QED
            BY <1>1, <4>1 DEF ThreadInv
      <3>4. Append(msg[f], cur[t]) \in Seq(DOMAIN code)
          BY <2>1, <3>2, <3>3
      <3>5. msg' = [msg EXCEPT ![f] = Append(msg[f], cur[t])]
          BY <3>1 DEF UpdateField
      <3> QED
          BY <2>1, <3>4, <3>5
    <2> QED
        BY <2>2, <2>3 DEF Step, EnterNode, Compare, BreakEarly, StartUnlocks,
             Unlock, SkipUnlock, Continue, StartUpdate, Signal, SignalEarly,
             Drained, Arrive, StartEndChecks, RepeatEndChecks, BreakEndChecks
  <1>8. visits' \in [Threads -> 0 .. MaxVisits]
    <2>1. visits \in [Threads -> 0 .. MaxVisits]
        BY <1>1 DEF TypeOK
    <2>2. CASE UNCHANGED visits
        BY <2>1, <2>2
    <2>3. CASE \E n \in DOMAIN code : EnterNode(t, n)
      <3>1. visits' = [visits EXCEPT ![t] = visits[t] + 1] /\ visits[t] < MaxVisits
          BY <2>3 DEF EnterNode
      <3>2. visits[t] + 1 \in 0 .. MaxVisits
          BY <2>1, <3>1, RunAssumption
      <3> QED
          BY <2>1, <3>1, <3>2
    <2> QED
        BY <2>2, <2>3 DEF Step, Compare, BreakEarly, StartUnlocks, UpdateField,
             Unlock, SkipUnlock, Continue, StartUpdate, Signal, SignalEarly,
             Drained, Arrive, StartEndChecks, RepeatEndChecks, BreakEndChecks
  <1>9. section' = section
      BY DEF Step, EnterNode, Compare, BreakEarly, StartUnlocks, UpdateField,
             Unlock, SkipUnlock, Continue, StartUpdate, Signal, SignalEarly,
             Drained, Arrive, StartEndChecks, RepeatEndChecks, BreakEndChecks
  <1>10. TypeOK'
    <2>1. GenTypeOK' /\ code' = code
        BY <1>2 DEF PlanInv, genVars
    <2> QED
        BY <1>1, <1>4, <1>5, <1>7, <1>8, <1>9, <2>1 DEF TypeOK, LocalTypes
  <1>11. phase' = "run"
      BY DEF genVars
  <1>12. RunInv'
    <2>1. \A u, v \in Threads : section[u] = section[v]
        BY DEF Inv, RunInv
    <2> QED
        BY <1>4, <1>5, <1>6, <1>9, <1>10, <2>1 DEF RunInv
  <1> QED
      BY <1>2, <1>4, <1>11, <1>12 DEF Inv

\* A barrier that all have reached.
LEMMA BarrierKeepsInv ==
    ASSUME Inv, phase = "run", PassBarrier, UNCHANGED genVars
    PROVE  Inv' /\ mem' = mem
  <1>1. PlanInv /\ TypeOK /\ SlotsInOrder
      BY DEF Inv, RunInv
  <1>2. PlanInv' /\ GenTypeOK'
      BY <1>1, PlanStutter DEF PlanInv
  <1>3. code' = code /\ nodes' = nodes /\ endChecks' = endChecks /\ order' = order
        /\ phase' = phase
      BY DEF genVars
  <1>4. UNCHANGED <<mem, msg, cur, ix, todo, left, visits>>
      BY DEF PassBarrier
  <1>5. SlotsInOrder'
      BY <1>1, <1>3, <1>4 DEF SlotsInOrder, Signalled, Before, SlotNodes
  <1>6. /\ section' \in [Threads -> 1 .. Sections]
        /\ \A t, u \in Threads : section'[t] = section'[u]
    <2>1. /\ section \in [Threads -> 1 .. Sections]
          /\ \A t, u \in Threads : section[t] = section[u]
        BY DEF Inv, RunInv, TypeOK
    <2>2. CASE UNCHANGED section
        BY <2>1, <2>2
    <2>3. CASE /\ section' = [t \in Threads |-> section[t] + 1]
               /\ \E t \in Threads : section[t] < Sections
      <3>1. \A t \in Threads : section[t] < Sections
          BY <2>1, <2>3
      <3>2. \A t \in Threads : section[t] + 1 \in 1 .. Sections
          BY <2>1, <3>1, BoundsAssumption
      <3> QED
          BY <2>1, <2>3, <3>2
    <2> QED
        BY <2>2, <2>3 DEF PassBarrier
  <1>7. \/ pc' = [t \in Threads |-> "body"]
        \/ pc' = [t \in Threads |-> "hash"]
      BY DEF PassBarrier
  <1>8. TypeOK'
    <2>1. pc' \in [Threads -> PCs]
        BY <1>7 DEF PCs
    <2> QED
        BY <1>1, <1>2, <1>3, <1>4, <1>6, <2>1 DEF TypeOK
  <1>9. ASSUME NEW t \in Threads
        PROVE  ThreadInv(t)'
    <2>1. cur'[t] = None
        BY <1>4, <1>9 DEF Inv, RunInv, ThreadInv, PassBarrier
    <2>2. pc'[t] \in {"body", "hash"}
        BY <1>7
    <2> QED
        BY <2>1, <2>2 DEF ThreadInv
  <1>10. RunInv'
      BY <1>5, <1>6, <1>8, <1>9 DEF RunInv
  <1> QED
      BY <1>2, <1>3, <1>4, <1>10 DEF Inv

\* The invariant holds when the generator starts.
LEMMA InvInit == Init => Inv
  <1> SUFFICES ASSUME Init
               PROVE  Inv
      OBVIOUS
  <1>1. PlanInv /\ RunInit
      BY PlanInit DEF Init
  <1>2. RunInv
      BY <1>1, InitialRun
  <1> QED
      BY <1>1, <1>2 DEF Inv

\* Every step keeps it, and changes a flag by at most one.
LEMMA InvStep ==
    Inv /\ [Next]_vars
        => Inv' /\ \A f \in Flags : mem'[f] \in {mem[f], mem[f] + 1}
  <1> SUFFICES ASSUME Inv, [Next]_vars
               PROVE  Inv' /\ \A f \in Flags : mem'[f] \in {mem[f], mem[f] + 1}
      OBVIOUS
  <1>1. CASE GenNext /\ UNCHANGED runVars
      BY <1>1, GenKeepsInv DEF runVars
  <1>2. CASE RunNext
    <2>1. phase = "run" /\ UNCHANGED genVars
        BY <1>2 DEF RunNext
    <2>2. CASE \E t \in Threads : Step(t)
        BY <2>1, <2>2, StepKeepsInv
    <2>3. CASE PassBarrier
        BY <2>1, <2>3, BarrierKeepsInv
    <2> QED
        BY <1>2, <2>2, <2>3 DEF RunNext
  <1>3. CASE UNCHANGED vars
    <2>1. PlanInv'
        BY <1>3, PlanStutter DEF Inv, vars
    <2>2. UNCHANGED <<phase, nodes, order, endChecks, code>>
          /\ UNCHANGED <<mem, msg, pc, cur, ix, todo, left, section, visits>>
        BY <1>3 DEF vars, genVars, runVars
    <2>3. RunInit => RunInit'
        BY <2>2 DEF RunInit
    <2>4. TypeOK'
        BY <2>1, <2>2 DEF TypeOK, Inv, RunInv, PlanInv
    <2>5. SlotsInOrder' /\ \A t, u \in Threads : section'[t] = section'[u]
        BY <2>2 DEF SlotsInOrder, Before, SlotNodes, Signalled, Inv, RunInv
    <2>6. ASSUME NEW t \in Threads
          PROVE  ThreadInv(t)'
      <3>1. ThreadInv(t)
          BY DEF Inv, RunInv
      <3>2. HasTurn(cur[t]) => HasTurn(cur[t])'
          BY <2>2 DEF HasTurn, PreSignal, Signalled, Before, SlotNodes
      <3>3. Target(t)' = Target(t) /\ Unlocks(t, cur[t])' = Unlocks(t, cur[t])
          BY <2>2 DEF Target, Unlocks
      <3>4. \A c : Tested(Target(t), c) => Tested(Target(t), c)'
          BY <2>2, <3>3 DEF Tested, PreSignal, Signalled
      <3> QED
          BY <2>2, <3>1, <3>2, <3>3, <3>4 DEF ThreadInv, Tid
    <2>7. Inv'
        BY <2>1, <2>2, <2>3, <2>4, <2>5, <2>6 DEF Inv, RunInv
    <2> QED
        BY <1>3, <2>7 DEF vars, runVars, Inv, RunInv, TypeOK
  <1> QED
      BY <1>1, <1>2, <1>3 DEF Next, Finished

\* Type correctness, for any number of work-items, nodes, fields and sections.
THEOREM TypeCorrect == Spec => []TypeOK
  <1>1. Inv => TypeOK
      BY DEF Inv, RunInv
  <1> QED
      BY <1>1, InvInit, InvStep, PTL DEF Spec

\* Flags complete slots in the order of the slots (Message::CreateOrdering and
\* the code of MakeWait, MakeSignal and OutputEndChecks).
THEOREM SlotsStayInOrder == Spec => []SlotsInOrder
  <1>1. Inv => SlotsInOrder
      BY DEF Inv, RunInv
  <1> QED
      BY <1>1, InvInit, InvStep, PTL DEF Spec

\* However nodes, unlocks and end checks race to signal, each flag takes all of
\* its values one after the other.
THEOREM FlagsAdvance == Spec => FlagsAdvanceByOne
  <1>1. Inv /\ [Next]_vars
            => [\A f \in Flags : mem'[f] \in {mem[f], mem[f] + 1}]_vars
      BY InvStep
  <1> QED
      BY <1>1, InvInit, InvStep, PTL DEF Spec, FlagsAdvanceByOne

\* The order of the nodes never contradicts the order in which func_1 can
\* execute them (the iterators of Message::CreateOrdering).
THEOREM OrderRespectsSb == Spec => []OrderExtendsSb
  <1>1. Init => OrderExtendsSb
      BY DEF Init, GenInit, OrderExtendsSb
  <1>2. Inv /\ OrderExtendsSb /\ [Next]_vars => OrderExtendsSb'
    <2> SUFFICES ASSUME Inv, OrderExtendsSb, [Next]_vars
                 PROVE  OrderExtendsSb'
        OBVIOUS
    <2>1. CASE GenNext
        BY <2>1, OrderExtendsSbStep DEF Inv
    <2>2. CASE UNCHANGED genVars
        BY <2>2 DEF genVars, OrderExtendsSb, Before, Ordered, Tid, SlotNodes
    <2> QED
        BY <2>1, <2>2 DEF Next, RunNext, Finished, vars
  <1> QED
      BY <1>1, <1>2, InvInit, InvStep, PTL DEF Spec

----------------------------------------------------------------------------
(* The updates, when the stores between two fences are not reordered. *)

\* A node in msg[f] has been signalled or is being executed, past field f.
Recorded(f, n) ==
    /\ f \in code[n].fields
    /\ \/ Signalled(n)
       \/ \E t \in Threads : pc[t] = "update" /\ cur[t] = n /\ f \notin left[t]

UpdateInv ==
    /\ \A t \in Threads : pc[t] # "drain"
    /\ \A f \in Fields : \A a \in DOMAIN msg[f] : Recorded(f, msg[f][a])
    /\ FieldsInOrder

\* Two nodes that have their turn at once are the two nodes of a pair.
LEMMA TurnsDisjoint ==
    ASSUME Inv, NEW n \in DOMAIN code, NEW m \in DOMAIN code, n # m,
           HasTurn(n), HasTurn(m)
    PROVE  code[n].fields \cap code[m].fields = {}
  <1>1. ~ Before(n, m) /\ ~ Before(m, n)
      BY DEF HasTurn
  <1> QED
      BY <1>1, SlotsCompare DEF Inv

\* A node that is about to write a field comes after all that wrote it.
LEMMA WriterComesLast ==
    ASSUME Inv, UpdateInv, NEW t \in Threads, NEW f \in left[t],
           pc[t] = "update", NEW a \in DOMAIN msg[f]
    PROVE  Before(msg[f][a], cur[t])
  <1> DEFINE n == cur[t]
             k == msg[f][a]
  <1>1. n \in DOMAIN code /\ Tid(n) = t /\ HasTurn(n) /\ f \in code[n].fields
      BY DEF Inv, RunInv, ThreadInv
  <1>2. f \in Fields /\ msg \in [Fields -> Seq(DOMAIN code)]
      BY DEF Inv, RunInv, TypeOK
  <1>3. k \in DOMAIN code
      BY <1>2
  <1>4. Recorded(f, k)
      BY <1>2 DEF UpdateInv
  <1>5. CASE Signalled(k)
    <2>1. k # n
        BY <1>1, <1>5 DEF HasTurn
    <2>2. ~ Before(n, k)
        BY <1>1, <1>3, <1>5 DEF HasTurn, Inv, RunInv, SlotsInOrder
    <2>3. f \in code[k].fields
        BY <1>4 DEF Recorded
    <2> QED
        BY <1>1, <1>3, <2>1, <2>2, <2>3, SlotsCompare DEF Inv
  <1>6. ASSUME NEW u \in Threads, pc[u] = "update", cur[u] = k, f \notin left[u]
        PROVE  FALSE
    <2>1. u # t
        BY <1>6
    <2>2. Tid(k) = u /\ HasTurn(k)
        BY <1>3, <1>6 DEF Inv, RunInv, ThreadInv
    <2>3. k # n
        BY <1>1, <2>1, <2>2
    <2>4. f \in code[k].fields
        BY <1>4 DEF Recorded
    <2> QED
        BY <1>1, <1>3, <2>2, <2>3, <2>4, TurnsDisjoint
  <1> QED
      BY <1>4, <1>5, <1>6 DEF Recorded

\* A step of a work-item.  What msg records of the others is not disturbed.
LEMMA StepKeepsUpdates ==
    ASSUME Relaxed = FALSE, Inv, UpdateInv, Inv', NEW t \in Threads, Step(t),
           UNCHANGED genVars
    PROVE  UpdateInv'
  <1>1. /\ PlanInv /\ ThreadInv(t) /\ LocalTypes
        /\ msg \in [Fields -> Seq(DOMAIN code)]
      BY DEF Inv, RunInv, TypeOK, LocalTypes
  <1>2. code' = code /\ nodes' = nodes /\ order' = order
      BY DEF genVars
  <1>3. \A n \in DOMAIN code : Signalled(n) => Signalled(n)'
      BY StepFlags, FlagEffectRelies
  <1>4. \A n, m : Before(n, m)' <=> Before(n, m)
      BY <1>2 DEF Before, SlotNodes
  <1>5. \A u \in Threads : pc'[u] # "drain"
    <2>1. \A u \in Threads \ {t} : pc'[u] # "drain"
        BY StepLocal DEF UpdateInv
    <2>2. pc'[t] # "drain"
        BY <1>1 DEF Step, EnterNode, Compare, BreakEarly, StartUnlocks, UpdateField,
             Unlock, SkipUnlock, Continue, StartUpdate, Signal, SignalEarly,
             Drained, Arrive, StartEndChecks, RepeatEndChecks, BreakEndChecks,
             Goto, GotoUnlock, LocalTypes, UpdateInv
    <2> QED
        BY <2>1, <2>2
  \* Nothing recorded is forgotten.
  <1>6. ASSUME NEW f \in Fields, NEW n \in DOMAIN code, Recorded(f, n)
        PROVE  Recorded(f, n)'
    <2>1. CASE Signalled(n)
        BY <1>2, <1>3, <1>6, <2>1 DEF Recorded
    <2>2. ASSUME NEW u \in Threads, pc[u] = "update", cur[u] = n, f \notin left[u]
          PROVE  Recorded(f, n)'
      <3>1. CASE u # t
        <4>1. pc'[u] = "update" /\ cur'[u] = n /\ f \notin left'[u]
            BY <2>2, <3>1, StepLocal
        <4> QED
            BY <1>2, <1>6, <4>1 DEF Recorded
      <3>2. CASE u = t /\ Signal(t)
        <4>1. SetFlag(code[n].signal)
            BY <2>2, <3>2 DEF Signal
        <4>2. Signalled(n)'
          <5>1. code[n].signal[1] \in Flags /\ code[n].signal[2] \in Nat
              BY <1>1, CodeTypes
          <5>2. mem \in [Flags -> Nat]
              BY DEF Inv, RunInv, TypeOK
          <5> QED
              BY <1>2, <4>1, <5>1, <5>2 DEF SetFlag, Signalled
        <4> QED
            BY <1>2, <1>6, <4>2 DEF Recorded
      <3>3. CASE u = t /\ ~ Signal(t)
        <4>1. pc'[t] = "update" /\ cur'[t] = n /\ f \notin left'[t]
            BY <1>1, <2>2, <3>3 DEF Step, EnterNode, Compare, BreakEarly, StartUnlocks,
               UpdateField, Unlock, SkipUnlock, Continue, StartUpdate, SignalEarly,
               Drained, Arrive, StartEndChecks, RepeatEndChecks, BreakEndChecks,
               LocalTypes
        <4> QED
            BY <1>2, <1>6, <4>1 DEF Recorded
      <3> QED
          BY <3>1, <3>2, <3>3
    <2> QED
        BY <1>6, <2>1, <2>2 DEF Recorded
  <1>7. CASE UNCHANGED msg
    <2>1. \A f \in Fields : \A a \in DOMAIN msg'[f] : Recorded(f, msg[f][a])'
        BY <1>1, <1>6, <1>7 DEF UpdateInv
    <2> QED
        BY <1>4, <1>5, <1>7, <2>1 DEF UpdateInv, FieldsInOrder, Recorded
  <1>8. CASE \E f \in left[t] : UpdateField(t, f)
    <2>1. PICK f \in left[t] : UpdateField(t, f)
        BY <1>8
    <2>2. f \in Fields /\ pc[t] = "update" /\ cur[t] \in DOMAIN code
          /\ f \in code[cur[t]].fields
        BY <1>1, <2>1 DEF LocalTypes, UpdateField, UpdateInv, ThreadInv
    <2>3. PICK n \in DOMAIN code : n = cur[t]
        BY <2>2
    <2>4. /\ msg' = [msg EXCEPT ![f] = Append(msg[f], n)]
          /\ left' = [left EXCEPT ![t] = left[t] \ {f}]
          /\ pc' = pc /\ cur' = cur
        BY <2>1, <2>3 DEF UpdateField
    <2>5. Recorded(f, n)'
      <3>1. pc'[t] = "update" /\ cur'[t] = n /\ f \notin left'[t]
          BY <1>1, <2>2, <2>3, <2>4 DEF LocalTypes
      <3> QED
          BY <1>2, <2>2, <2>3, <3>1 DEF Recorded
    <2>6. /\ DOMAIN msg'[f] = 1 .. Len(msg[f]) + 1
          /\ DOMAIN msg[f] = 1 .. Len(msg[f]) /\ Len(msg[f]) \in Nat
          /\ msg'[f][Len(msg[f]) + 1] = n
          /\ \A a \in DOMAIN msg[f] : msg'[f][a] = msg[f][a]
        BY <1>1, <2>2, <2>4
    <2>7. \A g \in Fields \ {f} : msg'[g] = msg[g]
        BY <1>1, <2>2, <2>4
    <2>8. ASSUME NEW g \in Fields, NEW a \in DOMAIN msg'[g]
          PROVE  \E m \in DOMAIN code : m = msg'[g][a] /\ Recorded(g, m)'
      <3>1. CASE a \in DOMAIN msg[g]
        <4>1. msg'[g][a] = msg[g][a]
          <5>1. CASE g = f
              BY <2>6, <3>1, <5>1
          <5>2. CASE g # f
              BY <2>7, <5>2
          <5> QED
              BY <5>1, <5>2
        <4>2. Recorded(g, msg[g][a])
            BY <3>1 DEF UpdateInv
        <4>3. PICK m \in DOMAIN code : m = msg[g][a]
            BY <1>1, <3>1
        <4> QED
            BY <1>6, <4>1, <4>2, <4>3
      <3>2. CASE a \notin DOMAIN msg[g]
        <4>1. g = f /\ a = Len(msg[f]) + 1
            BY <2>6, <2>7, <2>8, <3>2
        <4> QED
            BY <2>5, <2>6, <4>1
      <3> QED
          BY <3>1, <3>2
    <2>9. ASSUME NEW g \in Fields, NEW a \in DOMAIN msg'[g],
                 NEW b \in DOMAIN msg'[g], a < b
          PROVE  Before(msg'[g][a], msg'[g][b])
      <3>1. CASE g # f
          BY <2>7, <2>9, <3>1 DEF UpdateInv, FieldsInOrder
      <3>2. CASE g = f /\ b \in DOMAIN msg[f]
        <4>1. a \in DOMAIN msg[f]
            BY <2>6, <2>9, <3>2
        <4> QED
            BY <2>2, <2>6, <2>9, <3>2, <4>1 DEF UpdateInv, FieldsInOrder
      <3>3. CASE g = f /\ b \notin DOMAIN msg[f]
        <4>1. a \in DOMAIN msg[f] /\ msg'[f][b] = n
            BY <2>6, <2>9, <3>3
        <4> QED
            BY <2>2, <2>3, <2>6, <3>3, <4>1, WriterComesLast
      <3> QED
          BY <3>1, <3>2, <3>3
    <2>10. FieldsInOrder'
        BY <1>4, <2>9 DEF FieldsInOrder
    <2> QED
        BY <1>5, <2>8, <2>10 DEF UpdateInv, Recorded, Signalled
  <1> QED
      BY <1>7, <1>8 DEF Step, EnterNode, Compare, BreakEarly, StartUnlocks,
             Unlock, SkipUnlock, Continue, StartUpdate, Signal, SignalEarly,
             Drained, Arrive, StartEndChecks, RepeatEndChecks, BreakEndChecks

\* UpdateInv is inductive, given Inv.
LEMMA UpdateStep ==
    ASSUME Relaxed = FALSE
    PROVE  Inv /\ Inv' /\ UpdateInv /\ [Next]_vars => UpdateInv'
  <1> SUFFICES ASSUME Inv, Inv', UpdateInv, [Next]_vars
               PROVE  UpdateInv'
      OBVIOUS
  <1>1. CASE GenNext /\ UNCHANGED runVars
    <2>1. phase # "run"
        BY <1>1 DEF GenNext, MakeRandom, StartOrdering, OrderNode, OrderPair,
               AppendSlot, EndOrdering, ConstrainSlot, EndConstraints
    <2>2. /\ msg' = [f \in Fields |-> <<>>]
          /\ pc' = [t \in Threads |-> "body"]
        BY <1>1, <2>1 DEF Inv, RunInit, runVars
    <2> QED
        BY <2>2 DEF UpdateInv, FieldsInOrder
  <1>2. CASE RunNext /\ \E t \in Threads : Step(t)
      BY <1>2, StepKeepsUpdates DEF RunNext
  <1>3. CASE (RunNext /\ PassBarrier) \/ UNCHANGED vars
    <2>1. UNCHANGED <<mem, msg, left, nodes, order, code>>
        BY <1>3 DEF RunNext, PassBarrier, vars, runVars, genVars
    <2>2. \A t \in Threads : pc'[t] # "drain"
        BY <1>3 DEF PassBarrier, UpdateInv, vars, runVars
    <2>3. \A t \in Threads : pc[t] = "update" => pc'[t] = "update" /\ cur'[t] = cur[t]
        BY <1>3 DEF PassBarrier, vars, runVars
    <2>4. FieldsInOrder'
        BY <2>1 DEF UpdateInv, FieldsInOrder, Before, SlotNodes
    <2>5. \A f \in Fields : \A n : Recorded(f, n) => Recorded(f, n)'
        BY <2>1, <2>3 DEF Recorded, Signalled
    <2> QED
        BY <2>1, <2>2, <2>4, <2>5 DEF UpdateInv, Recorded, Signalled
  <1> QED
      BY <1>1, <1>2, <1>3 DEF Next, RunNext, Finished

\* Without store reordering, two work-items inside their updates never write
\* the same field (MakeAsynchronousUpdate, SelectConstraint).
THEOREM UpdatesDoNotRace ==
    ASSUME Relaxed = FALSE
    PROVE  Spec => []NoRacingUpdates
  <1>1. Init => UpdateInv
      BY DEF Init, RunInit, UpdateInv, FieldsInOrder
  <1>2. Inv /\ UpdateInv => NoRacingUpdates
    <2> SUFFICES ASSUME Inv, UpdateInv, NEW t \in Threads, NEW u \in Threads,
                        t # u, InUpdate(t), InUpdate(u)
                 PROVE  code[cur[t]].fields \cap code[cur[u]].fields = {}
        BY DEF NoRacingUpdates
    <2>1. pc[t] = "update" /\ pc[u] = "update"
        BY DEF InUpdate, UpdateInv
    <2>2. /\ cur[t] \in DOMAIN code /\ Tid(cur[t]) = t /\ HasTurn(cur[t])
          /\ cur[u] \in DOMAIN code /\ Tid(cur[u]) = u /\ HasTurn(cur[u])
        BY <2>1 DEF Inv, RunInv, ThreadInv
    <2> QED
        BY <2>2, TurnsDisjoint
  <1> QED
      BY <1>1, <1>2, InvInit, InvStep, UpdateStep, PTL DEF Spec

\* Without store reordering, every field is updated in the order of the slots
\* and at most once by each node, so the message that is hashed does not depend
\* on the schedule as long as the same nodes are executed.
THEOREM UpdatesInOrder ==
    ASSUME Relaxed = FALSE
    PROVE  Spec => []FieldsInOrder
  <1>1. Init => UpdateInv
      BY DEF Init, RunInit, UpdateInv, FieldsInOrder
  <1>2. UpdateInv => FieldsInOrder
      BY DEF UpdateInv
  <1> QED
      BY <1>1, <1>2, InvInit, InvStep, UpdateStep, PTL DEF Spec

----------------------------------------------------------------------------
(* Message passing as a whole: two more facts about the plan. *)

\* The first loop places at least one slot: its first turn finds the first
\* node of the program selectable.
SomeSlotInv ==
    /\ phase # "register" => nodes # <<>>
    /\ order = <<>> => lastTids = {}
    /\ phase \in {"constrain", "run"} => order # <<>>

\* The last of the end checks of a work-item is for its last node.
EndsWithLastInv ==
    \A t \in Threads : \A n \in DOMAIN code :
        Tid(n) = t =>
            /\ endChecks[t] # <<>>
            /\ \/ n = endChecks[t][Len(endChecks[t])]
               \/ Before(n, endChecks[t][Len(endChecks[t])])

\* While nothing is ordered, the first node can be selected.
LEMMA FirstSelectable ==
    ASSUME GenTypeOK, nodes # <<>>, order = <<>>, lastTids = {}
    PROVE  Selectable # {}
  <1>1. nodes \in Seq(NodeRecords) /\ Len(nodes) \in Nat \ {0}
      BY DEF GenTypeOK
  <1>2. DOMAIN nodes = 1 .. Len(nodes)
      BY <1>1
  <1>3. Pending = DOMAIN nodes
    <2>1. \A n : n \notin Ordered
        BY DEF Ordered
    <2> QED
        BY <2>1 DEF Pending
  <1>4. 1 \in Heads
      BY <1>1, <1>2, <1>3 DEF Heads
  <1> QED
      BY <1>4 DEF Selectable

\* No step of the generator empties the order.
LEMMA SomeSlotStep ==
    ASSUME PlanInv, SomeSlotInv, GenNext
    PROVE  SomeSlotInv'
  <1>0. GenTypeOK /\ PhaseInv
      BY DEF PlanInv
  <1>1. ASSUME NEW t \in Threads, NEW s \in 1 .. Sections, MakeRandom(t, s)
        PROVE  SomeSlotInv'
      BY <1>0, <1>1 DEF MakeRandom, SomeSlotInv
  <1>2. CASE StartOrdering
      BY <1>0, <1>2 DEF StartOrdering, SomeSlotInv
  <1>3. ASSUME NEW slot, AppendSlot(slot)
        PROVE  SomeSlotInv'
    <2>1. order' # <<>>
        BY <1>0, <1>3 DEF AppendSlot, GenTypeOK
    <2> QED
        BY <1>3, <2>1 DEF AppendSlot, SomeSlotInv
  <1>4. CASE EndOrdering
    <2>1. order # <<>>
        BY <1>0, <1>4, FirstSelectable DEF EndOrdering, SomeSlotInv
    <2> QED
        BY <1>4, <2>1 DEF EndOrdering, SomeSlotInv
  <1>5. ASSUME NEW F \in SUBSET Fields, ConstrainSlot(F)
        PROVE  SomeSlotInv'
      BY <1>5 DEF ConstrainSlot, SomeSlotInv
  <1>6. CASE EndConstraints
      BY <1>6 DEF EndConstraints, SomeSlotInv
  <1> QED
      BY <1>1, <1>2, <1>3, <1>4, <1>5, <1>6 DEF GenNext, OrderNode, OrderPair

\* The end checks of a work-item grow with its nodes.
LEMMA EndsWithLastStep ==
    ASSUME PlanInv, EndsWithLastInv, GenNext
    PROVE  EndsWithLastInv'
  <1>0. GenTypeOK /\ PhaseInv /\ CodeDomainInv /\ OrderInv
      BY DEF PlanInv
  <1>1. CASE phase \in {"register", "order"}
    <2>1. DOMAIN code = {}
        BY <1>0, <1>1, NoCode DEF PhaseInv
    <2>2. code' = code
        BY <1>1 DEF GenNext, MakeRandom, StartOrdering, OrderNode, OrderPair, AppendSlot,
                    EndOrdering, ConstrainSlot, EndConstraints
    <2> QED
        BY <2>1, <2>2 DEF EndsWithLastInv
  <1>2. CASE EndConstraints
      BY <1>2 DEF EndConstraints, EndsWithLastInv, Before, Tid, SlotNodes
  <1>3. ASSUME NEW F \in SUBSET Fields, ConstrainSlot(F)
        PROVE  EndsWithLastInv'
    <2> DEFINE slot == order[nodeIt]
    <2>1. /\ nodeIt \in 1 .. Len(order) /\ slot \in SlotRecords
          /\ slot.key \in DOMAIN nodes \ {None}
          /\ slot.async # None => Tid(slot.key) # Tid(slot.async)
          /\ DOMAIN code' = DOMAIN code \cup SlotNodes(slot)
        BY <1>3, ConstrainEffect
    <2>2. nodes' = nodes /\ order' = order /\ endChecks' = [t \in Threads |-> PushEnd(slot, t)]
        BY <1>3 DEF ConstrainSlot
    <2>3. \A a, b : Before(a, b)' <=> Before(a, b)
        BY <2>2 DEF Before, SlotNodes
    <2>4. \A a : Tid(a)' = Tid(a)
        BY <2>2 DEF Tid
    <2>5. \A a, b \in SlotNodes(slot) : Tid(a) = Tid(b) => a = b
        BY <2>1 DEF SlotNodes
    <2>6. \A a \in DOMAIN code, b \in SlotNodes(slot) : Before(a, b)
      <3>1. DOMAIN order = 1 .. Len(order) /\ nodeIt \in Nat
          BY <1>0, <2>1 DEF GenTypeOK
      <3> SUFFICES ASSUME NEW a \in DOMAIN code, NEW b \in SlotNodes(slot)
                   PROVE  Before(a, b)
          OBVIOUS
      <3>2. PICK i \in 1 .. nodeIt - 1 : a \in SlotNodes(order[i])
          BY <1>0 DEF CodeDomainInv
      <3>3. i \in DOMAIN order /\ nodeIt \in DOMAIN order /\ i < nodeIt
          BY <2>1, <3>1
      <3> QED
          BY <3>2, <3>3 DEF Before
    <2>7. SUFFICES ASSUME NEW t \in Threads, NEW n \in DOMAIN code', Tid(n) = t
                   PROVE  /\ endChecks'[t] # <<>>
                          /\ \/ n = endChecks'[t][Len(endChecks'[t])]
                             \/ Before(n, endChecks'[t][Len(endChecks'[t])])
        BY <2>3, <2>4 DEF EndsWithLastInv
    <2>8. endChecks[t] \in Seq(DOMAIN code) /\ endChecks'[t] = PushEnd(slot, t)
        BY <1>0, <2>2 DEF GenTypeOK
    <2>9. CASE \E k \in SlotNodes(slot) : Tid(k) = t
      <3> DEFINE k == CHOOSE x \in SlotNodes(slot) : Tid(x) = t
      <3>1. k \in SlotNodes(slot) /\ Tid(k) = t
          BY <2>9
      <3>2. endChecks'[t] = Append(endChecks[t], k)
          BY <2>8, <2>9 DEF PushEnd
      <3> HIDE DEF k
      <3>3. endChecks'[t] # <<>> /\ endChecks'[t][Len(endChecks'[t])] = k
          BY <2>8, <3>2
      <3> QED
          BY <2>1, <2>5, <2>6, <2>7, <3>1, <3>3
    <2>10. CASE ~ \E k \in SlotNodes(slot) : Tid(k) = t
      <3>1. endChecks'[t] = endChecks[t] /\ n \in DOMAIN code
          BY <2>1, <2>7, <2>8, <2>10 DEF PushEnd
      <3> QED
          BY <2>7, <3>1 DEF EndsWithLastInv
    <2> QED
        BY <2>9, <2>10
  <1>4. \A F \in SUBSET Fields : ConstrainSlot(F) => phase = "constrain"
      BY DEF ConstrainSlot
  <1> QED
      BY <1>1, <1>2, <1>3 DEF GenNext, MakeRandom, StartOrdering, OrderNode, OrderPair,
                    AppendSlot, EndOrdering
----------------------------------------------------------------------------
(* Work-items are done only when their nodes are. *)

LastEndCheck(t) == endChecks[t][Len(endChecks[t])]

\* Behind its end checks, all nodes of a work-item have been signalled.
WaitedInv(t) ==
    /\ pc[t] = "hash" => section[t] = Sections
    /\ pc[t] \in {"barrier", "hash"} /\ section[t] = Sections =>
          \A n \in DOMAIN code : Tid(n) = t => Signalled(n)

\* What a work-item has found out about the last of its end checks.
LeavingInv(t) ==
    /\ pc[t] = "exit" \/ (pc[t] = "unlock" /\ cur[t] = None) => section[t] = Sections
    /\ pc[t] = "exit" =>
          \A c \in EarlyBreak(LastEndCheck(t)) \ todo[t] : mem[c[1]] >= c[2]

DoneInv ==
    /\ SomeSlotInv
    /\ EndsWithLastInv
    /\ \A t \in Threads : WaitedInv(t) /\ LeavingInv(t)

\* The flags and signals another work-item or t itself has seen stay.
LEMMA FlagsStay ==
    ASSUME Inv, NEW t \in Threads, Step(t), UNCHANGED genVars
    PROVE  /\ \A c \in Constraint : mem[c[1]] >= c[2] => mem'[c[1]] >= c[2]
           /\ \A n \in DOMAIN code : Signalled(n) => Signalled(n)'
  <1>1. FlagEffect(t)
      BY StepFlags
  <1>2. /\ mem' \in [Flags -> Nat]
        /\ \A f \in Flags : mem'[f] \in {mem[f], mem[f] + 1}
        /\ \A n \in DOMAIN code : Signalled(n) => Signalled(n)'
      BY <1>1, FlagEffectRelies
  <1>3. mem \in [Flags -> Nat]
      BY DEF Inv, RunInv, TypeOK
  <1> QED
      BY <1>2, <1>3 DEF Constraint

\* The last end check of a work-item that has end checks.
LEMMA LastEndCheckType ==
    ASSUME Inv, NEW t \in Threads, endChecks[t] # <<>>
    PROVE  /\ LastEndCheck(t) \in DOMAIN code
           /\ EarlyBreak(LastEndCheck(t)) \in SUBSET Constraint
  <1>1. endChecks[t] \in Seq(DOMAIN code)
      BY DEF Inv, PlanInv, GenTypeOK
  <1>2. LastEndCheck(t) \in DOMAIN code
      BY <1>1 DEF LastEndCheck
  <1> QED
      BY <1>2, EarlyBreakTypes DEF Inv

\* Whoever leaves its end checks has seen its last node signalled, and with it
\* all of its nodes.
LEMMA LeavesWhenSignalled ==
    ASSUME Inv, EndsWithLastInv, NEW t \in Threads, LeavingInv(t),
           pc[t] = "exit", Passed(t), NEW n \in DOMAIN code, Tid(n) = t
    PROVE  Signalled(n)
  <1> DEFINE last == LastEndCheck(t)
  <1>1. endChecks[t] # <<>>
      BY DEF Inv, RunInv, ThreadInv
  <1>2. last \in DOMAIN code /\ EarlyBreak(last) \in SUBSET Constraint
      BY <1>1, LastEndCheckType
  <1>3. PICK d \in todo[t] : todo[t] = {d} /\ mem[d[1]] >= d[2]
      BY DEF Passed, Holds
  <1>4. \A c \in EarlyBreak(last) : mem[c[1]] >= c[2]
      BY <1>3 DEF LeavingInv
  <1>5. Signalled(last)
      BY <1>4 DEF EarlyBreak, Signalled
  <1>6. n = last \/ Before(n, last)
      BY DEF EndsWithLastInv, LastEndCheck
  <1> QED
      BY <1>2, <1>5, <1>6 DEF Inv, RunInv, SlotsInOrder

\* A step of t, seen by t.
LEMMA OwnDone ==
    ASSUME Inv, EndsWithLastInv, NEW t \in Threads, WaitedInv(t), LeavingInv(t),
           Step(t), UNCHANGED genVars
    PROVE  WaitedInv(t)' /\ LeavingInv(t)'
  <1>1. LocalTypes /\ ThreadInv(t)
      BY DEF Inv, RunInv, TypeOK, LocalTypes
  <1>2. /\ code' = code /\ nodes' = nodes /\ endChecks' = endChecks
        /\ \A n \in DOMAIN code : Signalled(n) => Signalled(n)'
        /\ \A n : Tid(n)' = Tid(n)
        /\ LastEndCheck(t)' = LastEndCheck(t)
        /\ \A n : EarlyBreak(n)' = EarlyBreak(n)
      BY FlagsStay DEF genVars, Tid, LastEndCheck, EarlyBreak
  <1>3. section' = section
      BY DEF Step, EnterNode, Compare, BreakEarly, StartUnlocks, Unlock, SkipUnlock,
             Continue, StartUpdate, UpdateField, Signal, SignalEarly, Drained, Arrive,
             StartEndChecks, RepeatEndChecks, BreakEndChecks
  <1>4. CASE \E c \in todo[t] : Compare(t, c)
    <2>1. PICK c \in todo[t] : Compare(t, c)
        BY <1>4
    <2>2. UNCHANGED <<mem, pc, cur>> /\ todo'[t] = todo[t] \ {c} /\ Holds(t, c)
        BY <1>1, <2>1 DEF Compare, LocalTypes
    <2>3. pc[t] = "exit" => mem[c[1]] >= c[2]
        BY <2>2 DEF Holds
    <2>4. WaitedInv(t)'
        BY <1>2, <1>3, <2>2 DEF WaitedInv
    <2>5. LeavingInv(t)'
        BY <1>2, <1>3, <2>2, <2>3 DEF LeavingInv
    <2> QED
        BY <2>4, <2>5
  <1>5. CASE \/ \E n \in DOMAIN code : EnterNode(t, n)
             \/ BreakEarly(t) \/ Continue(t) \/ StartUpdate(t) \/ Signal(t)
             \/ SignalEarly(t) \/ Drained(t)
    <2>1. pc'[t] \in {"early", "body", "update", "drain"}
        BY <1>1, <1>5 DEF LocalTypes, EnterNode, BreakEarly, Continue, StartUpdate, Signal,
                          SignalEarly, Drained, Goto
    <2> QED
        BY <2>1 DEF WaitedInv, LeavingInv
  <1>6. CASE \E f \in left[t] : UpdateField(t, f)
    <2>1. pc' = pc /\ pc[t] \in {"update", "drain"}
        BY <1>6 DEF UpdateField
    <2> QED
        BY <2>1 DEF WaitedInv, LeavingInv
  <1>7. CASE Arrive(t)
    <2>1. pc'[t] = "barrier" /\ section[t] \in 1 .. Sections /\ section[t] < Sections
        BY <1>1, <1>7 DEF LocalTypes, Arrive, Goto, Inv, RunInv, TypeOK
    <2> QED
        BY <1>3, <2>1, BoundsAssumption DEF WaitedInv, LeavingInv
  <1>8. CASE BreakEndChecks(t)
    <2>1. pc'[t] = "barrier" /\ pc[t] = "exit" /\ Passed(t)
        BY <1>1, <1>8 DEF LocalTypes, BreakEndChecks, Goto
    <2>2. \A n \in DOMAIN code : Tid(n) = t => Signalled(n)
        BY <2>1, LeavesWhenSignalled
    <2> QED
        BY <1>2, <2>1, <2>2 DEF WaitedInv, LeavingInv
  <1>9. CASE StartEndChecks(t) /\ endChecks[t] = <<>>
    <2>1. pc'[t] = "barrier"
        BY <1>1, <1>9 DEF LocalTypes, StartEndChecks, Goto
    <2>2. \A n \in DOMAIN code : Tid(n) # t
        BY <1>9 DEF EndsWithLastInv
    <2> QED
        BY <1>2, <2>1, <2>2 DEF WaitedInv, LeavingInv
  <1>10. ASSUME NEW i \in Nat, GotoUnlock(t, cur[t], i), cur' = cur,
                cur[t] = None => section[t] = Sections
         PROVE  WaitedInv(t)' /\ LeavingInv(t)'
    <2>1. CASE pc' = [pc EXCEPT ![t] = "unlock"]
      <3>1. pc'[t] = "unlock" /\ cur'[t] = cur[t]
          BY <1>1, <1>10, <2>1 DEF LocalTypes
      <3> QED
          BY <1>3, <1>10, <3>1 DEF WaitedInv, LeavingInv
    <2>2. CASE pc' = [pc EXCEPT ![t] = "exit"] /\ cur[t] = None
      <3>1. pc'[t] = "exit"
          BY <1>1, <2>2 DEF LocalTypes
      <3>2. todo'[t] = EarlyBreak(LastEndCheck(t))
        <4>1. todo' = [todo EXCEPT ![t] = EarlyBreak(endChecks[t][Len(endChecks[t])])]
            BY <1>1, <1>10, <2>2, <3>1 DEF GotoUnlock, Unlocks, LocalTypes
        <4> QED
            BY <1>1, <4>1 DEF LocalTypes, LastEndCheck
      <3> QED
          BY <1>2, <1>3, <1>10, <2>2, <3>1, <3>2 DEF WaitedInv, LeavingInv
    <2>3. CASE pc' = [pc EXCEPT ![t] = "check"]
      <3>1. pc'[t] = "check"
          BY <1>1, <2>3 DEF LocalTypes
      <3> QED
          BY <3>1 DEF WaitedInv, LeavingInv
    <2> QED
        BY <1>10, <2>1, <2>2, <2>3 DEF GotoUnlock
  <1>11. CASE StartUnlocks(t) \/ RepeatEndChecks(t) \/ (StartEndChecks(t) /\ endChecks[t] # <<>>)
    <2>1. GotoUnlock(t, cur[t], 1) /\ cur' = cur
        BY <1>1, <1>11 DEF StartUnlocks, RepeatEndChecks, StartEndChecks, ThreadInv
    <2>2. cur[t] = None => section[t] = Sections
        BY <1>1, <1>11 DEF StartUnlocks, RepeatEndChecks, StartEndChecks, ThreadInv, LeavingInv
    <2> QED
        BY <1>10, <2>1, <2>2
  <1>12. CASE Unlock(t) \/ SkipUnlock(t)
    <2>1. pc[t] = "unlock" /\ GotoUnlock(t, cur[t], ix[t] + 1) /\ cur' = cur
        BY <1>12 DEF Unlock, SkipUnlock
    <2>2. ix[t] + 1 \in Nat /\ (cur[t] = None => section[t] = Sections)
        BY <1>1, <2>1 DEF LocalTypes, LeavingInv
    <2> QED
        BY <1>10, <2>1, <2>2
  <1> QED
      BY <1>4, <1>5, <1>6, <1>7, <1>8, <1>9, <1>11, <1>12 DEF Step

\* A step of t, seen by another work-item.
LEMMA OthersDone ==
    ASSUME Inv, NEW t \in Threads, Step(t), UNCHANGED genVars,
           NEW u \in Threads \ {t}, WaitedInv(u), LeavingInv(u)
    PROVE  WaitedInv(u)' /\ LeavingInv(u)'
  <1>1. pc'[u] = pc[u] /\ cur'[u] = cur[u] /\ todo'[u] = todo[u]
      BY StepLocal
  <1>2. /\ code' = code /\ nodes' = nodes /\ endChecks' = endChecks
        /\ \A n : Tid(n)' = Tid(n)
        /\ LastEndCheck(u)' = LastEndCheck(u)
        /\ \A n : EarlyBreak(n)' = EarlyBreak(n)
      BY DEF genVars, Tid, LastEndCheck, EarlyBreak
  <1>3. section' = section
      BY DEF Step, EnterNode, Compare, BreakEarly, StartUnlocks, Unlock, SkipUnlock,
             Continue, StartUpdate, UpdateField, Signal, SignalEarly, Drained, Arrive,
             StartEndChecks, RepeatEndChecks, BreakEndChecks
  <1>4. /\ \A c \in Constraint : mem[c[1]] >= c[2] => mem'[c[1]] >= c[2]
        /\ \A n \in DOMAIN code : Signalled(n) => Signalled(n)'
      BY FlagsStay
  <1>5. WaitedInv(u)'
      BY <1>1, <1>2, <1>3, <1>4 DEF WaitedInv
  <1>6. pc[u] = "exit" => EarlyBreak(LastEndCheck(u)) \in SUBSET Constraint
      BY LastEndCheckType DEF Inv, RunInv, ThreadInv
  <1> QED
      BY <1>1, <1>2, <1>3, <1>4, <1>5, <1>6 DEF LeavingInv

\* DoneInv is inductive, given Inv.
LEMMA DoneStep ==
    Inv /\ DoneInv /\ [Next]_vars => DoneInv'
  <1> SUFFICES ASSUME Inv, DoneInv, [Next]_vars
               PROVE  DoneInv'
      OBVIOUS
  <1>1. CASE GenNext /\ UNCHANGED runVars
    <2>1. SomeSlotInv' /\ EndsWithLastInv'
        BY <1>1, SomeSlotStep, EndsWithLastStep DEF Inv, DoneInv
    <2>2. phase # "run"
        BY <1>1 DEF GenNext, MakeRandom, StartOrdering, OrderNode, OrderPair,
               AppendSlot, EndOrdering, ConstrainSlot, EndConstraints
    <2>3. pc' = [t \in Threads |-> "body"]
        BY <1>1, <2>2 DEF Inv, RunInit, runVars
    <2> QED
        BY <2>1, <2>3 DEF DoneInv, WaitedInv, LeavingInv
  <1>2. CASE UNCHANGED genVars
    <2>1. SomeSlotInv'
        BY <1>2 DEF DoneInv, SomeSlotInv, genVars
    <2>2. EndsWithLastInv'
        BY <1>2 DEF DoneInv, EndsWithLastInv, genVars, Before, SlotNodes, Tid
    <2>3. ASSUME NEW t \in Threads, Step(t), NEW u \in Threads
          PROVE  WaitedInv(u)' /\ LeavingInv(u)'
        BY <1>2, <2>3, OwnDone, OthersDone DEF DoneInv
    <2>4. ASSUME PassBarrier, NEW u \in Threads
          PROVE  WaitedInv(u)' /\ LeavingInv(u)'
      <3>1. \A t \in Threads : pc[t] = "barrier"
          BY <2>4 DEF PassBarrier
      <3>2. CASE \E t \in Threads : section[t] < Sections
        <4>1. pc' = [t \in Threads |-> "body"]
            BY <2>4, <3>2 DEF PassBarrier
        <4> QED
            BY <4>1 DEF WaitedInv, LeavingInv
      <3>3. CASE ~ \E t \in Threads : section[t] < Sections
        <4>1. pc' = [t \in Threads |-> "hash"] /\ section' = section /\ mem' = mem
            BY <2>4, <3>3 DEF PassBarrier
        <4>2. section[u] = Sections
            BY <3>3, BoundsAssumption DEF Inv, RunInv, TypeOK
        <4>3. \A n \in DOMAIN code : Tid(n) = u => Signalled(n)
            BY <3>1, <4>2 DEF DoneInv, WaitedInv
        <4>4. \A n : (Tid(n) = u)' <=> Tid(n) = u
            BY <1>2 DEF genVars, Tid
        <4>5. \A n \in DOMAIN code' : n \in DOMAIN code /\ (Signalled(n) => Signalled(n)')
            BY <1>2, <4>1 DEF genVars, Signalled
        <4>6. pc'[u] = "hash" /\ section'[u] = Sections
            BY <4>1, <4>2
        <4> QED
            BY <4>3, <4>4, <4>5, <4>6 DEF WaitedInv, LeavingInv
      <3> QED
          BY <3>2, <3>3
    <2>5. ASSUME UNCHANGED runVars, NEW u \in Threads
          PROVE  WaitedInv(u)' /\ LeavingInv(u)'
        BY <1>2, <2>5 DEF runVars, genVars, DoneInv, WaitedInv, LeavingInv, Tid, Signalled,
                          LastEndCheck, EarlyBreak
    <2>6. \/ \E t \in Threads : Step(t)
          \/ PassBarrier
          \/ UNCHANGED runVars
        BY DEF Next, RunNext, Finished, vars
    <2> QED
        BY <2>1, <2>2, <2>3, <2>4, <2>5, <2>6 DEF DoneInv
  <1> QED
      BY <1>1, <1>2 DEF Next, RunNext, Finished, vars

\* Initially there is no code, and everybody is at the start of func_1.
LEMMA DoneInit == Init => DoneInv
  <1> SUFFICES ASSUME Init
               PROVE  DoneInv
      OBVIOUS
  <1>1. SomeSlotInv /\ EndsWithLastInv
      BY DEF Init, GenInit, SomeSlotInv, EndsWithLastInv
  <1> QED
      BY <1>1 DEF Init, RunInit, DoneInv, WaitedInv, LeavingInv

----------------------------------------------------------------------------
(* Updates are whole, when the stores between two fences are not reordered. *)

Wrote(n, f) == \E a \in DOMAIN msg[f] : msg[f][a] = n

\* Between its check and its signal a node updates all of its fields, and no
\* node updates some and leaves others.
WholeUpdatesInv ==
    /\ \A t \in Threads :
          pc[t] = "update" => \A f \in code[cur[t]].fields : f \in left[t] \/ Wrote(cur[t], f)
    /\ \A n \in DOMAIN code : \A f, g \in code[n].fields :
          Wrote(n, f) => Wrote(n, g) \/ \E t \in Threads : pc[t] = "update" /\ cur[t] = n

\* A field remembers its updates, and one more is what an update adds.
LEMMA WroteStep ==
    ASSUME Inv, NEW t \in Threads, NEW f \in left[t], UpdateField(t, f)
    PROVE  \A g \in Fields : \A n :
              Wrote(n, g)' <=> Wrote(n, g) \/ (g = f /\ n = cur[t])
  <1>1. /\ msg \in [Fields -> Seq(DOMAIN code)] /\ left \in [Threads -> SUBSET Fields]
        /\ f \in Fields /\ msg' = [msg EXCEPT ![f] = Append(@, cur[t])]
      BY DEF Inv, RunInv, TypeOK, UpdateField
  <1>2. cur[t] \in DOMAIN code
      BY DEF UpdateField, Inv, RunInv, ThreadInv
  <1>3. ASSUME NEW g \in Fields \ {f} PROVE msg'[g] = msg[g]
      BY <1>1
  <1>4. /\ DOMAIN msg'[f] = 1 .. Len(msg[f]) + 1
        /\ DOMAIN msg[f] = 1 .. Len(msg[f]) /\ Len(msg[f]) \in Nat
        /\ msg'[f][Len(msg[f]) + 1] = cur[t]
        /\ \A a \in DOMAIN msg[f] : msg'[f][a] = msg[f][a]
      BY <1>1, <1>2
  <1>5. ASSUME NEW n PROVE Wrote(n, f)' <=> Wrote(n, f) \/ n = cur[t]
    <2>1. \A a \in DOMAIN msg'[f] : a \in DOMAIN msg[f] \/ a = Len(msg[f]) + 1
        BY <1>4
    <2>2. Len(msg[f]) + 1 \in DOMAIN msg'[f] /\ DOMAIN msg[f] \subseteq DOMAIN msg'[f]
        BY <1>4
    <2> QED
        BY <1>4, <2>1, <2>2 DEF Wrote
  <1> QED
      BY <1>3, <1>5 DEF Wrote

\* A step of a work-item keeps updates whole.
LEMMA StepKeepsWhole ==
    ASSUME Relaxed = FALSE, Inv, UpdateInv, WholeUpdatesInv, NEW t \in Threads, Step(t),
           UNCHANGED genVars
    PROVE  WholeUpdatesInv'
  <1>1. LocalTypes /\ ThreadInv(t) /\ PlanInv /\ msg \in [Fields -> Seq(DOMAIN code)]
      BY DEF Inv, RunInv, TypeOK, LocalTypes
  <1>2. code' = code
      BY DEF genVars
  <1>3. \A u \in Threads \ {t} : pc'[u] = pc[u] /\ cur'[u] = cur[u] /\ left'[u] = left[u]
      BY StepLocal
  <1>4. CASE \E f \in left[t] : UpdateField(t, f)
    <2>1. PICK f \in left[t] : UpdateField(t, f)
        BY <1>4
    <2>2. /\ pc' = pc /\ cur' = cur /\ left'[t] = left[t] \ {f} /\ pc[t] = "update"
        BY <1>1, <2>1 DEF UpdateField, LocalTypes, UpdateInv
    <2>3. \A g \in Fields : \A n : Wrote(n, g)' <=> Wrote(n, g) \/ (g = f /\ n = cur[t])
        BY <2>1, WroteStep
    <2>4. \A u \in Threads : pc[u] = "update" => cur[u] \in DOMAIN code
        BY DEF Inv, RunInv, ThreadInv
    <2>5. \A n \in DOMAIN code : code[n].fields \in SUBSET Fields
        BY <1>1, CodeTypes
    <2>6. ASSUME NEW u \in Threads, pc[u] = "update", NEW g \in code[cur[u]].fields
          PROVE  g \in left'[u] \/ Wrote(cur[u], g)'
      <3>1. g \in left[u] \/ Wrote(cur[u], g)
          BY <2>6 DEF WholeUpdatesInv
      <3>2. g \in Fields
          BY <2>4, <2>5, <2>6
      <3> QED
          BY <1>3, <2>2, <2>3, <3>1, <3>2
    <2>7. ASSUME NEW n \in DOMAIN code, NEW g \in code[n].fields, NEW h \in code[n].fields,
                 Wrote(n, g)'
          PROVE  Wrote(n, h)' \/ \E u \in Threads : pc[u] = "update" /\ cur[u] = n
      <3>1. g \in Fields /\ h \in Fields
          BY <2>5
      <3>2. CASE Wrote(n, g)
        <4>1. Wrote(n, h) \/ \E u \in Threads : pc[u] = "update" /\ cur[u] = n
            BY <3>2 DEF WholeUpdatesInv
        <4> QED
            BY <2>3, <3>1, <4>1
      <3>3. CASE n = cur[t]
          BY <2>2, <3>3
      <3> QED
          BY <2>3, <2>7, <3>1, <3>2, <3>3
    <2> QED
        BY <1>2, <2>2, <2>6, <2>7 DEF WholeUpdatesInv, Wrote
  <1>5. CASE UNCHANGED msg
    <2>1. \A n, f : Wrote(n, f)' <=> Wrote(n, f)
        BY <1>5 DEF Wrote
    <2>2. CASE Signal(t)
      <3>1. /\ pc[t] = "update" /\ left[t] = {} /\ pc'[t] = "body" /\ left' = left
          BY <1>1, <2>2 DEF Signal, Goto, LocalTypes
      <3>2. \A f \in code[cur[t]].fields : Wrote(cur[t], f)
          BY <3>1 DEF WholeUpdatesInv
      <3> QED
          BY <1>2, <1>3, <2>1, <3>1, <3>2 DEF WholeUpdatesInv
    <2>3. CASE StartUpdate(t)
      <3>1. /\ pc[t] = "check" /\ pc'[t] = "update" /\ cur' = cur
            /\ left'[t] = code[cur[t]].fields
          BY <1>1, <2>3 DEF StartUpdate, Goto, LocalTypes
      <3> QED
          BY <1>2, <1>3, <2>1, <3>1 DEF WholeUpdatesInv
    <2>4. CASE ~ Signal(t) /\ ~ StartUpdate(t)
      <3>1. \/ pc[t] # "update" /\ pc'[t] # "update"
            \/ pc'[t] = pc[t] /\ cur'[t] = cur[t] /\ left'[t] = left[t]
            \/ SignalEarly(t)
            \/ \E f \in left[t] : UpdateField(t, f)
          BY <1>1, <2>4 DEF LocalTypes, Step, EnterNode, Compare, BreakEarly, StartUnlocks,
             Unlock, SkipUnlock, Continue, Drained, Arrive, StartEndChecks, RepeatEndChecks,
             BreakEndChecks, Goto, GotoUnlock
      <3>2. CASE \/ pc[t] # "update" /\ pc'[t] # "update"
                 \/ pc'[t] = pc[t] /\ cur'[t] = cur[t] /\ left'[t] = left[t]
          BY <1>2, <1>3, <2>1, <3>2 DEF WholeUpdatesInv
      <3>3. ~ SignalEarly(t)
          BY DEF SignalEarly
      <3> QED
          BY <1>4, <3>1, <3>2, <3>3
    <2> QED
        BY <2>2, <2>3, <2>4
  <1> QED
      BY <1>4, <1>5 DEF Step, EnterNode, Compare, BreakEarly, StartUnlocks, Unlock,
             SkipUnlock, Continue, StartUpdate, Signal, SignalEarly, Drained, Arrive,
             StartEndChecks, RepeatEndChecks, BreakEndChecks

\* The fields of a node are fields of the message.
LEMMA CodeFields == PlanInv => \A n \in DOMAIN code : code[n].fields \in SUBSET Fields
      BY CodeTypes

\* Before the kernel starts no node has been signalled.
LEMMA NothingSignalled ==
    PlanInv /\ RunInit => {n \in DOMAIN code : Signalled(n)} = {}
  <1> SUFFICES ASSUME PlanInv, RunInit, NEW n \in DOMAIN code
               PROVE  ~ Signalled(n)
      OBVIOUS
  <1>1. code[n].signal[1] \in Flags /\ code[n].signal[2] \in Nat \ {0}
      BY CodeTypes
  <1> QED
      BY <1>1 DEF RunInit, Signalled

\* WholeUpdatesInv is inductive, given Inv and UpdateInv.
LEMMA WholeStep ==
    ASSUME Relaxed = FALSE
    PROVE  Inv /\ UpdateInv /\ WholeUpdatesInv /\ [Next]_vars => WholeUpdatesInv'
  <1> SUFFICES ASSUME Inv, UpdateInv, WholeUpdatesInv, [Next]_vars
               PROVE  WholeUpdatesInv'
      OBVIOUS
  <1>1. CASE GenNext /\ UNCHANGED runVars
    <2>1. phase # "run"
        BY <1>1 DEF GenNext, MakeRandom, StartOrdering, OrderNode, OrderPair,
               AppendSlot, EndOrdering, ConstrainSlot, EndConstraints
    <2>2. /\ msg' = [f \in Fields |-> <<>>] /\ pc' = [t \in Threads |-> "body"]
        BY <1>1, <2>1 DEF Inv, RunInit, runVars
    <2>3. Inv'
        BY <1>1, InvStep DEF Next
    <2>4. (\A n \in DOMAIN code : code[n].fields \in SUBSET Fields)'
      <3>1. PlanInv'
          BY <2>3 DEF Inv
      <3> QED
          BY <3>1, CodeFields, PTL
    <2> QED
        BY <2>2, <2>4 DEF WholeUpdatesInv, Wrote
  <1>2. CASE RunNext /\ \E t \in Threads : Step(t)
      BY <1>2, StepKeepsWhole DEF RunNext
  <1>3. CASE (RunNext /\ PassBarrier) \/ UNCHANGED vars
    <2>1. UNCHANGED <<msg, left, code, cur>>
        BY <1>3 DEF RunNext, PassBarrier, vars, runVars, genVars
    <2>2. \A t \in Threads : pc'[t] = "update" <=> pc[t] = "update"
        BY <1>3 DEF PassBarrier, vars, runVars
    <2> QED
        BY <2>1, <2>2 DEF WholeUpdatesInv, Wrote
  <1> QED
      BY <1>1, <1>2, <1>3 DEF Next, RunNext, Finished

\* When the hashing begins every node has been signalled, and has updated all of
\* its fields or none of them: nobody works on the message any more, and no update
\* is half done (Message::OutputEndChecks, MakeUpdate).
THEOREM HashSeesFinal ==
    ASSUME Relaxed = FALSE
    PROVE  Spec => []HashSeesFinalMessage
  <1>1. Init => DoneInv /\ UpdateInv /\ WholeUpdatesInv
    <2>1. Init => UpdateInv /\ WholeUpdatesInv
        BY DEF Init, RunInit, GenInit, UpdateInv, FieldsInOrder, WholeUpdatesInv
    <2> QED
        BY <2>1, DoneInit
  <1>2. Inv /\ DoneInv /\ WholeUpdatesInv => HashSeesFinalMessage
    <2> SUFFICES ASSUME Inv, DoneInv, WholeUpdatesInv, Finished, NEW n \in DOMAIN code
                 PROVE  /\ Signalled(n)
                        /\ \A f, g \in code[n].fields : Wrote(n, f) => Wrote(n, g)
        BY DEF HashSeesFinalMessage, Wrote
    <2>1. Tid(n) \in Threads
        BY CodeTypes DEF Inv
    <2>2. \A t \in Threads : pc[t] = "hash"
        BY DEF Finished
    <2>3. Signalled(n)
        BY <2>1, <2>2 DEF DoneInv, WaitedInv
    <2> QED
        BY <2>2, <2>3 DEF WholeUpdatesInv
  <1> QED
      BY <1>1, <1>2, InvInit, InvStep, UpdateStep, WholeStep, DoneStep, PTL DEF Spec

----------------------------------------------------------------------------
(* The refinement *)

\* A node that may signal is of the slot that has its turn.
LEMMA SlotHasTurn ==
    ASSUME Inv, phase = "run", NEW n \in DOMAIN code, HasTurn(n)
    PROVE  \E i \in DOMAIN order :
              /\ n \in SlotNodes(order[i])
              /\ \A j \in DOMAIN order : j < i =>
                    \A m \in SlotNodes(order[j]) : m \in DOMAIN code /\ Signalled(m)
  <1>1. nodeIt = Len(order) + 1 /\ DOMAIN order = 1 .. Len(order) /\ Len(order) \in Nat
      BY DEF Inv, PlanInv, PhaseInv, GenTypeOK
  <1>2. \A m : m \in DOMAIN code <=> \E i \in DOMAIN order : m \in SlotNodes(order[i])
    <2>1. 1 .. nodeIt - 1 = DOMAIN order
        BY <1>1
    <2> QED
        BY <2>1 DEF Inv, PlanInv, CodeDomainInv
  <1>3. PICK i \in DOMAIN order : n \in SlotNodes(order[i])
      BY <1>2
  <1>4. ASSUME NEW j \in DOMAIN order, j < i, NEW m \in SlotNodes(order[j])
        PROVE  m \in DOMAIN code /\ Signalled(m)
    <2>1. m \in DOMAIN code /\ Before(m, n)
        BY <1>2, <1>3, <1>4 DEF Before
    <2> QED
        BY <2>1 DEF HasTurn
  <1> QED
      BY <1>3, <1>4

\* A step of a work-item is a step of a turn, or is not seen.
LEMMA StepRefines ==
    ASSUME Relaxed = FALSE, Inv, UpdateInv, phase = "run", NEW t \in Threads, Step(t),
           UNCHANGED genVars
    PROVE  [Abstract!Next]_(Abstract!vars)
  <1> DEFINE plan == [i \in DOMAIN order |-> SlotNodes(order[i])]
             retired == {n \in DOMAIN code : Signalled(n)}
  <1>1. /\ code' = code /\ phase' = phase /\ order' = order
        /\ plan' = plan
      BY DEF genVars, SlotNodes
  <1>2. CASE UNCHANGED msg
    <2>1. CASE UNCHANGED mem
      <3>1. retired' = retired
          BY <1>1, <2>1 DEF Signalled
      <3> QED
          BY <1>1, <1>2, <3>1 DEF Abstract!vars
    <2>2. ASSUME NEW n \in DOMAIN code, HasTurn(n), SetFlag(code[n].signal)
          PROVE  Abstract!Next
      <3>1. retired' = retired \cup {n}
        <4>1. \A m \in DOMAIN code : Signalled(m)' <=> Signalled(m) \/ m = n
            BY <2>2, SignalInTurn DEF Inv, RunInv
        <4> QED
            BY <1>1, <4>1
      <3>2. n \notin retired
          BY <2>2 DEF HasTurn
      <3>3. PICK i \in DOMAIN order :
                /\ n \in SlotNodes(order[i])
                /\ \A j \in DOMAIN order : j < i =>
                      \A m \in SlotNodes(order[j]) : m \in DOMAIN code /\ Signalled(m)
          BY <2>2, SlotHasTurn
      <3>4. i \in DOMAIN plan /\ n \in plan[i]
          BY <3>3
      <3>5. Abstract!Turn(i)
          BY <3>2, <3>3, <3>4 DEF Abstract!Turn
      <3>6. Abstract!Retire(i, n)
          BY <1>1, <1>2, <3>1, <3>2, <3>4, <3>5 DEF Abstract!Retire
      <3> QED
          BY <3>4, <3>6 DEF Abstract!Next
    <2> QED
        BY <2>1, <2>2, StepFlags DEF FlagEffect
  <1>3. ASSUME NEW f \in left[t], UpdateField(t, f)
        PROVE  Abstract!Next
    <2> DEFINE n == cur[t]
    <2>1. pc[t] = "update" /\ mem' = mem /\ msg' = [msg EXCEPT ![f] = Append(@, n)]
        BY <1>3 DEF UpdateField, UpdateInv
    <2>2. n \in DOMAIN code /\ HasTurn(n) /\ f \in Fields
        BY <2>1 DEF Inv, RunInv, ThreadInv, TypeOK
    <2>3. retired' = retired
        BY <1>1, <2>1 DEF Signalled
    <2>4. PICK i \in DOMAIN order :
              /\ n \in SlotNodes(order[i])
              /\ \A j \in DOMAIN order : j < i =>
                    \A m \in SlotNodes(order[j]) : m \in DOMAIN code /\ Signalled(m)
        BY <2>2, SlotHasTurn
    <2>5. n \notin retired
        BY <2>2 DEF HasTurn
    <2>6. ASSUME NEW a \in DOMAIN msg[f]
          PROVE  msg[f][a] \notin SlotNodes(order[i])
      <3>1. Before(msg[f][a], n)
          BY <1>3, <2>1, WriterComesLast
      <3>2. PICK j \in DOMAIN order, k \in DOMAIN order :
                j < k /\ msg[f][a] \in SlotNodes(order[j]) /\ n \in SlotNodes(order[k])
          BY <3>1 DEF Before
      <3>3. DOMAIN order = 1 .. Len(order) /\ Len(order) \in Nat
          BY DEF Inv, PlanInv, GenTypeOK
      <3>4. k = i
          BY <2>4, <3>2, <3>3 DEF Inv, PlanInv, OrderInv
      <3>5. i # j
          BY <3>2, <3>3, <3>4
      <3> QED
          BY <2>4, <3>2, <3>3, <3>5 DEF Inv, PlanInv, OrderInv
    <2>7. i \in DOMAIN plan /\ n \in plan[i] /\ plan[i] = SlotNodes(order[i])
        BY <2>4
    <2>8. Abstract!Turn(i)
        BY <2>4, <2>5, <2>7 DEF Abstract!Turn
    <2>9. Abstract!Update(i, n, f)
        BY <1>1, <2>1, <2>3, <2>5, <2>6, <2>7, <2>8 DEF Abstract!Update
    <2> QED
        BY <2>2, <2>7, <2>9 DEF Abstract!Next
  <1> QED
      BY <1>2, <1>3 DEF Step, EnterNode, Compare, BreakEarly, StartUnlocks, Unlock,
             SkipUnlock, Continue, StartUpdate, Signal, SignalEarly, Drained, Arrive,
             StartEndChecks, RepeatEndChecks, BreakEndChecks

\* The generator only publishes the plan.
LEMMA GenRefines ==
    ASSUME Inv, DoneInv, Inv', GenNext, UNCHANGED runVars
    PROVE  [Abstract!Next]_(Abstract!vars)
  <1>1. phase # "run" /\ RunInit /\ RunInit'
    <2>1. phase # "run"
        BY DEF GenNext, MakeRandom, StartOrdering, OrderNode, OrderPair,
               AppendSlot, EndOrdering, ConstrainSlot, EndConstraints
    <2> QED
        BY <2>1 DEF Inv, RunInit, runVars
  <1>2. {n \in DOMAIN code : Signalled(n)} = {} /\ {n \in DOMAIN code : Signalled(n)}' = {}
    <2>1. PlanInv /\ PlanInv'
        BY DEF Inv
    <2>2. {n \in DOMAIN code : Signalled(n)} = {}
        BY <1>1, <2>1, NothingSignalled
    <2>3. ({n \in DOMAIN code : Signalled(n)} = {})'
        BY <1>1, <2>1, NothingSignalled, PTL
    <2> QED
        BY <2>2, <2>3
  <1>3. msg' = msg
      BY DEF runVars
  <1>4. CASE phase' # "run"
      BY <1>1, <1>2, <1>3, <1>4 DEF Abstract!vars
  <1>5. CASE phase' = "run"
    <2>1. order' = order /\ order # <<>>
        BY <1>1, <1>5 DEF GenNext, MakeRandom, StartOrdering, OrderNode, OrderPair,
               AppendSlot, EndOrdering, ConstrainSlot, EndConstraints, DoneInv, SomeSlotInv
    <2>2. 1 \in DOMAIN order
        BY <2>1 DEF Inv, PlanInv, GenTypeOK
    <2>3. [i \in DOMAIN order' |-> SlotNodes(order[i])'] # <<>>
      <3>1. 1 \in DOMAIN [i \in DOMAIN order' |-> SlotNodes(order[i])']
          BY <2>1, <2>2
      <3>2. 1 \notin DOMAIN <<>>
          OBVIOUS
      <3> QED
          BY <3>1, <3>2
    <2> QED
        BY <1>1, <1>2, <1>3, <1>5, <2>3 DEF Abstract!Next, Abstract!Publish
  <1> QED
      BY <1>4, <1>5

\* However nodes are skipped, repeated or reached out of order, flags, conditions,
\* unlocks and end checks implement slots that have their turn one after the other:
\* an update is made in the turn of its slot only, and a node whose slot has passed
\* never touches the message again (Message.cpp, StatementMessage.cpp).
THEOREM RefinesTurns ==
    ASSUME Relaxed = FALSE
    PROVE  Spec => ImplementsTurns
  <1>1. Init => DoneInv /\ UpdateInv
    <2>1. Init => UpdateInv
        BY DEF Init, RunInit, UpdateInv, FieldsInOrder
    <2> QED
        BY <2>1, DoneInit
  <1>2. Init => Abstract!Init
      BY DEF Init, GenInit, RunInit, Abstract!Init
  <1>3. Inv /\ Inv' /\ DoneInv /\ UpdateInv /\ [Next]_vars => [Abstract!Next]_(Abstract!vars)
    <2> SUFFICES ASSUME Inv, Inv', DoneInv, UpdateInv, [Next]_vars
                 PROVE  [Abstract!Next]_(Abstract!vars)
        OBVIOUS
    <2>1. CASE GenNext /\ UNCHANGED runVars
        BY <2>1, GenRefines
    <2>2. CASE RunNext /\ \E t \in Threads : Step(t)
        BY <2>2, StepRefines DEF RunNext
    <2>3. CASE (RunNext /\ PassBarrier) \/ UNCHANGED vars
      <3>1. UNCHANGED <<phase, order, code, mem, msg>>
          BY <2>3 DEF RunNext, PassBarrier, vars, runVars, genVars
      <3> QED
          BY <3>1 DEF Abstract!vars, SlotNodes, Signalled
    <2> QED
        BY <2>1, <2>2, <2>3 DEF Next, RunNext, Finished
  <1> QED
      BY <1>1, <1>2, <1>3, InvInit, InvStep, UpdateStep, DoneStep, PTL
         DEF Spec, ImplementsTurns, Abstract!Spec

=============================================================================
