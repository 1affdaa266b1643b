-------------------------- MODULE MessageOrdering --------------------------
(***************************************************************************)
(* The generator half of CLSmith's message passing                         *)
(* (src/CLSmith/StatementMessage.cpp).                                     *)
(*                                                                         *)
(* While the program is generated, StatementMessage::make_random registers *)
(* nodes: statements that one work-item executes and that update a message *)
(* in local memory.  Message::CreateOrdering then runs twice over them.    *)
(* The first loop picks a total order of slots, a slot being one node or,  *)
(* one time in ten, two nodes of different work-items that may update at   *)
(* the same time.  The second loop turns the order into code: the flag     *)
(* values a node waits for, the flag value it signals with, and the nodes  *)
(* of its own work-item that it must signal for when they were skipped.    *)
(*                                                                         *)
(* A node is its index in nodes_, the ID that CreateOrdering assigns.      *)
(***************************************************************************)
EXTENDS Naturals, Sequences

CONSTANTS
    Threads,     \* the work-items of a group that may own nodes (at most 5)
    Fields,      \* the data fields of the message (10 in the code)
    MaxNodes,    \* bound: number of nodes registered
    Sections     \* number of stretches of func_1 that barriers separate

ASSUME BoundsAssumption == MaxNodes \in Nat /\ Sections \in Nat \ {0}

VARIABLES
    phase,       \* which part of the generator, or the kernel, is running
    nodes,       \* nodes_: the registered nodes, in creation order
    order,       \* nodes_order_ with nodes_async_: the slots
    lastTids,    \* last_tids: the work-items used by the last slot
    nodeIt,      \* node_it of the second loop
    flag,        \* flag1 .. flag4: the last value given out for each flag
    flagSet,     \* flag_set: 0 for flags 1 and 2, 1 for flags 3 and 4
    prevSize,    \* previous.size()
    unlockMap,   \* unlock_map: the nodes each node has to signal for
    endChecks,   \* end_checks_: the same for the end of each work-item
    code         \* the code emitted for a node (wait_, update_, signal_)

genVars == <<phase, nodes, order, lastTids, nodeIt, flag, flagSet, prevSize,
             unlockMap, endChecks, code>>

Flags == 1 .. 4
Constraint == Flags \X Nat            \* <<flag, value>>
None == 0                             \* no node

Tid(n) == nodes[n].tid

\* GetAsynchronousNodes: the nodes of a slot.
SlotNodes(slot) == {slot.key, slot.async} \ {None}
SlotSize(slot) == IF slot.async = None THEN 1 ELSE 2

Ordered == UNION {SlotNodes(order[i]) : i \in DOMAIN order}
Pending == DOMAIN nodes \ Ordered

\* Mutant: any node of a work-item, not the one its iterator is at.
HeadsAnyNode == Pending

\* *iterators[tid] for every work-item whose iterator is not at its end.
Heads == {n \in Pending : \A m \in Pending : Tid(m) = Tid(n) => n <= m}

\* What the DistributionTable holds with a weight above 0.
Selectable == {n \in Heads : Tid(n) \notin lastTids}

----------------------------------------------------------------------------

GenInit ==
    /\ phase = "register"
    /\ nodes = <<>>
    /\ order = <<>>
    /\ lastTids = {}
    /\ nodeIt = 1
    /\ flag = [f \in Flags |-> 0]
    /\ flagSet = 0
    /\ prevSize = 0
    /\ unlockMap = [n \in {} |-> <<>>]
    /\ endChecks = [t \in Threads |-> <<>>]
    /\ code = [n \in {} |-> <<>>]

\* StatementMessage::make_random and Message::RegisterUpdate.  Statements are
\* created in the order of the text, so the section never decreases.
MakeRandom(t, s) ==
    /\ phase = "register"
    /\ Len(nodes) < MaxNodes
    /\ \A n \in DOMAIN nodes : nodes[n].section <= s
    /\ nodes' = Append(nodes, [tid |-> t, section |-> s])
    /\ UNCHANGED <<phase, order, lastTids, nodeIt, flag, flagSet, prevSize,
                   unlockMap, endChecks, code>>

\* CreateMessageOrderings: CreateOrdering starts on the message, which exists
\* once a node does.
StartOrdering ==
    /\ phase = "register"
    /\ nodes # <<>>
    /\ phase' = "order"
    /\ unlockMap' = [n \in DOMAIN nodes |-> <<>>]
    /\ UNCHANGED <<nodes, order, lastTids, nodeIt, flag, flagSet, prevSize,
                   endChecks, code>>

AppendSlot(slot) ==
    /\ phase = "order"
    /\ order' = Append(order, slot)
    /\ lastTids' = {Tid(n) : n \in SlotNodes(slot)}
    /\ UNCHANGED <<phase, nodes, nodeIt, flag, flagSet, prevSize, unlockMap,
                   endChecks, code>>

\* One turn of the first loop that places one node ...
OrderNode(n) ==
    /\ n \in Selectable
    /\ AppendSlot([key |-> n, async |-> None])

\* ... or, on the coin, two.
OrderPair(n, m) ==
    /\ n \in Selectable
    /\ m \in Selectable \ {n}
    /\ AppendSlot([key |-> n, async |-> m])

\* table.get_max() == 0.  Nodes still pending get no code.
EndOrdering ==
    /\ phase = "order"
    /\ Selectable = {}
    /\ phase' = "constrain"
    /\ UNCHANGED <<nodes, order, lastTids, nodeIt, flag, flagSet, prevSize,
                   unlockMap, endChecks, code>>

\* SelectConstraint: a flag of the first or of the second set.
SelectFlag(set, f) == IF set = 0 THEN f ELSE f + 2

\* Mutant: the second node of a pair is not waited for.
AwaitedFlagsFirstOnly == {SelectFlag(flagSet, 1)}

\* The flags that tell that the previous slot is complete.
AwaitedFlags ==
    {SelectFlag(flagSet, 1)}
        \cup (IF prevSize = 1 THEN {} ELSE {SelectFlag(flagSet, 2)})

Flips(slot) == flagSet = 1 \/ SlotSize(slot) = 2
NextFlagSet(slot) == IF Flips(slot) THEN 1 - flagSet ELSE flagSet

\* The flag signalled by the first (i = 1) or the second (i = 2) node of slot.
SignalFlag(slot, i) == SelectFlag(NextFlagSet(slot), i)

Checks(slot, i) ==
    {<<f, flag[f]>> :
        f \in AwaitedFlags
              \cup (IF Flips(slot) THEN {SignalFlag(slot, i)} ELSE {})}

\* MakeWait, MakeUpdate or MakeAsynchronousUpdate, MakeSignal.
NodeCode(slot, i, unlocks, fields) ==
    [unlocks |-> unlocks,
     checks  |-> Checks(slot, i),
     signal  |-> <<SignalFlag(slot, i), flag[SignalFlag(slot, i)] + 1>>,
     fields  |-> fields]

\* The nodes after n in sb_graph_[n->Gettid()] must unlock n.
PushUnlock(n, m) ==
    IF n # None /\ Tid(n) = Tid(m) /\ n < m
    THEN Append(unlockMap[m], n) ELSE unlockMap[m]

PushUnlocks(slot, m) ==
    IF Tid(m) = Tid(slot.key) THEN PushUnlock(slot.key, m)
                              ELSE PushUnlock(slot.async, m)

\* Mutant: end_checks_ is never filled.
PushEndNothing(slot, t) == endChecks[t]

\* end_checks_[node->Gettid()].push_back.
PushEnd(slot, t) ==
    IF \E n \in SlotNodes(slot) : Tid(n) = t
    THEN Append(endChecks[t], CHOOSE n \in SlotNodes(slot) : Tid(n) = t)
    ELSE endChecks[t]

\* Mutant: used_vars is ignored.
AsyncFieldsAll(fields) == Fields

\* MakeAsynchronousUpdate takes the fields the first node does not update.
AsyncFields(fields) == Fields \ fields

\* One turn of the second loop.  MakeUpdate draws the fields the first node
\* updates.
ConstrainSlot(fields) ==
    /\ phase = "constrain"
    /\ nodeIt <= Len(order)
    /\ LET slot == order[nodeIt] IN
       /\ flagSet' = NextFlagSet(slot)
       /\ code' = [n \in DOMAIN code \cup SlotNodes(slot) |->
            CASE n = slot.key -> NodeCode(slot, 1, unlockMap[n], fields)
              [] n = slot.async ->
                    NodeCode(slot, 2, unlockMap[n], AsyncFields(fields))
              [] OTHER -> code[n]]
       /\ flag' = [f \in Flags |->
            IF \E i \in 1 .. SlotSize(slot) : f = SignalFlag(slot, i)
            THEN flag[f] + 1 ELSE flag[f]]
       /\ unlockMap' = [m \in DOMAIN nodes |-> PushUnlocks(slot, m)]
       /\ endChecks' = [t \in Threads |-> PushEnd(slot, t)]
       /\ prevSize' = SlotSize(slot)
    /\ nodeIt' = nodeIt + 1
    /\ UNCHANGED <<phase, nodes, order, lastTids>>

\* The second loop is done: the program is printed and launched.
EndConstraints ==
    /\ phase = "constrain"
    /\ nodeIt > Len(order)
    /\ phase' = "run"
    /\ UNCHANGED <<nodes, order, lastTids, nodeIt, flag, flagSet, prevSize,
                   unlockMap, endChecks, code>>

GenNext ==
    \/ \E t \in Threads, s \in 1 .. Sections : MakeRandom(t, s)
    \/ StartOrdering
    \/ \E n \in DOMAIN nodes : OrderNode(n)
    \/ \E n, m \in DOMAIN nodes : OrderPair(n, m)
    \/ EndOrdering
    \/ \E fields \in SUBSET Fields : ConstrainSlot(fields)
    \/ EndConstraints

NodeRecords == [tid : Threads, section : 1 .. Sections]
SlotRecords == [key : DOMAIN nodes, async : DOMAIN nodes \cup {None}]
CodeRecords == [unlocks : Seq(DOMAIN code),
                checks  : SUBSET Constraint,
                signal  : Constraint,
                fields  : SUBSET Fields]

\* The values the variables of the generator take.
GenTypeOK ==
    /\ phase \in {"register", "order", "constrain", "run"}
    /\ nodes \in Seq(NodeRecords)
    /\ order \in Seq(SlotRecords)
    /\ lastTids \subseteq Threads
    /\ nodeIt \in 1 .. Len(order) + 1
    /\ flag \in [Flags -> Nat]
    /\ flagSet \in {0, 1}
    /\ prevSize \in 0 .. 2
    /\ unlockMap \in [DOMAIN unlockMap -> Seq(DOMAIN nodes)]
    /\ endChecks \in [Threads -> Seq(DOMAIN code)]
    /\ DOMAIN code \subseteq DOMAIN nodes
    /\ code \in [DOMAIN code -> CodeRecords]

\* n lies in an earlier slot than m.
Before(n, m) ==
    \E i, j \in DOMAIN order :
        i < j /\ n \in SlotNodes(order[i]) /\ m \in SlotNodes(order[j])

\* The order extends sequenced-before, and the nodes it leaves out are the
\* last ones of their work-item (the iterators of Message::CreateOrdering).
OrderExtendsSb ==
    \A n, m \in DOMAIN nodes :
        n < m /\ Tid(n) = Tid(m) /\ m \in Ordered
            => n \in Ordered /\ Before(n, m)
=============================================================================
