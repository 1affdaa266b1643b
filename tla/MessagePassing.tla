--------------------------- MODULE MessagePassing ---------------------------
(***************************************************************************)
(* CLSmith's message passing from generation to the end of the kernel: the *)
(* generator of MessageOrdering, followed by one work-group executing the  *)
(* code that StatementMessage::Output and Message::OutputEndChecks print.  *)
(*                                                                         *)
(* A node is printed as                                                    *)
(*                                                                         *)
(*   if (get_linear_local_id() == tid) for (;;) {                          *)
(*     mem_fence; if (checks and signal >=) break;         -- "early"      *)
(*     if (checks of an unlock ==) signal for it; ...      -- "unlock"     *)
(*     if (!(checks ==)) continue;                         -- "check"      *)
(*     update fields;                                      -- "update"     *)
(*     flag = value; mem_fence; break; }                   -- "drain"      *)
(*                                                                         *)
(* and after func_1 each owner of nodes spins over "unlock" and "exit"     *)
(* until its last node is signalled.  Every flag is read by an access of   *)
(* its own: todo holds the conjuncts of a condition not yet evaluated.     *)
(* func_1 may skip a node, repeat it or reach nodes in any order, since a  *)
(* node may lie in a branch, a loop or a function that is called anywhere. *)
(***************************************************************************)
EXTENDS MessageOrdering

CONSTANTS
    Relaxed,     \* may the stores between two fences be seen out of order?
    MaxVisits    \* bound: nodes a work-item enters

ASSUME RunAssumption == Relaxed \in BOOLEAN /\ MaxVisits \in Nat

VARIABLES
    mem,         \* the four flags of the message, in local memory
    msg,         \* per field, the nodes that updated it, in order
    pc,          \* where each work-item is
    cur,         \* the node it is in, None in func_1 and in the end checks
    ix,          \* the unlock it is at
    todo,        \* conjuncts of the current condition still to be evaluated
    left,        \* fields its update has still to write
    section,     \* the section of func_1 it is in
    visits       \* nodes it has entered

runVars == <<mem, msg, pc, cur, ix, todo, left, section, visits>>
vars == <<genVars, runVars>>

PCs == {"body", "early", "unlock", "check", "update", "drain", "exit",
        "barrier", "hash"}

\* Mutant: eCmpGe everywhere.
HoldsAtLeast(t, c) == mem[c[1]] >= c[2]

\* One comparison of MakeConstraintCheck: eCmpGe for the conditions that
\* break out of a loop, eCmpEq for the others.
Holds(t, c) ==
    IF pc[t] \in {"early", "exit"} THEN mem[c[1]] >= c[2] ELSE mem[c[1]] = c[2]

\* The next comparison decides the condition: the last one holds, or any fails.
Passed(t) == \E c \in todo[t] : todo[t] = {c} /\ Holds(t, c)
Failed(t) == \E c \in todo[t] : ~ Holds(t, c)

\* The signal of n has been given, by n or by an unlock.
Signalled(n) == mem[code[n].signal[1]] >= code[n].signal[2]

\* Mutant: the signal is left out of early_break and break_checks.
EarlyBreakChecksOnly(n) == code[n].checks

\* early_break of MakeWait, break_checks of OutputEndChecks.
EarlyBreak(n) == code[n].checks \cup {code[n].signal}

\* The unlocks printed in node n, or in the end checks of t.
Unlocks(t, n) == IF n = None THEN endChecks[t] ELSE code[n].unlocks

----------------------------------------------------------------------------

\* Local memory is zeroed by work-item 0, with a barrier before func_1.
RunInit ==
    /\ mem = [f \in Flags |-> 0]
    /\ msg = [f \in Fields |-> <<>>]
    /\ pc = [t \in Threads |-> "body"]
    /\ cur = [t \in Threads |-> None]
    /\ ix = [t \in Threads |-> 0]
    /\ todo = [t \in Threads |-> {}]
    /\ left = [t \in Threads |-> {}]
    /\ section = [t \in Threads |-> 1]
    /\ visits = [t \in Threads |-> 0]

Init == GenInit /\ RunInit

\* Work-item t, in the loop of node n or in its end checks, goes on to its
\* i-th unlock, or to what follows the unlocks.
GotoUnlock(t, n, i) ==
    LET unlocks == Unlocks(t, n) IN
    \/ /\ i \in DOMAIN unlocks
       /\ pc' = [pc EXCEPT ![t] = "unlock"]
       /\ ix' = [ix EXCEPT ![t] = i]
       /\ todo' = [todo EXCEPT ![t] = code[unlocks[i]].checks]
    \/ /\ i \notin DOMAIN unlocks
       /\ ix' = [ix EXCEPT ![t] = 0]
       /\ IF n = None
          THEN /\ pc' = [pc EXCEPT ![t] = "exit"]
               /\ todo' = [todo EXCEPT ![t] =
                              EarlyBreak(unlocks[Len(unlocks)])]
          ELSE /\ pc' = [pc EXCEPT ![t] = "check"]
               /\ todo' = [todo EXCEPT ![t] = code[n].checks]

Goto(t, label, conjuncts) ==
    /\ pc' = [pc EXCEPT ![t] = label]
    /\ todo' = [todo EXCEPT ![t] = conjuncts]
    /\ UNCHANGED ix

\* func_1 reaches a node that has code.
EnterNode(t, n) ==
    /\ pc[t] = "body"
    /\ n \in DOMAIN code
    /\ Tid(n) = t
    /\ nodes[n].section = section[t]
    /\ visits[t] < MaxVisits
    /\ visits' = [visits EXCEPT ![t] = @ + 1]
    /\ cur' = [cur EXCEPT ![t] = n]
    /\ Goto(t, "early", EarlyBreak(n))
    /\ UNCHANGED <<mem, msg, left, section>>

\* One conjunct of a condition is read and holds, and others follow.
Compare(t, c) ==
    /\ c \in todo[t]
    /\ todo[t] # {c}
    /\ Holds(t, c)
    /\ todo' = [todo EXCEPT ![t] = @ \ {c}]
    /\ UNCHANGED <<mem, msg, pc, cur, ix, left, section, visits>>

\* The node was passed before: break.
BreakEarly(t) ==
    /\ pc[t] = "early"
    /\ Passed(t)
    /\ cur' = [cur EXCEPT ![t] = None]
    /\ Goto(t, "body", {})
    /\ UNCHANGED <<mem, msg, left, section, visits>>

StartUnlocks(t) ==
    /\ pc[t] = "early"
    /\ Failed(t)
    /\ GotoUnlock(t, cur[t], 1)
    /\ UNCHANGED <<mem, msg, cur, left, section, visits>>

\* MakeConstraintUpdate.
SetFlag(c) == mem' = [mem EXCEPT ![c[1]] = c[2]]

\* The checks of a skipped node hold: signal in its place.
Unlock(t) ==
    /\ pc[t] = "unlock"
    /\ Passed(t)
    /\ SetFlag(code[Unlocks(t, cur[t])[ix[t]]].signal)
    /\ GotoUnlock(t, cur[t], ix[t] + 1)
    /\ UNCHANGED <<msg, cur, left, section, visits>>

SkipUnlock(t) ==
    /\ pc[t] = "unlock"
    /\ Failed(t)
    /\ GotoUnlock(t, cur[t], ix[t] + 1)
    /\ UNCHANGED <<mem, msg, cur, left, section, visits>>

\* Mutant: the continue is missing.
ContinueFallsThrough(t) ==
    /\ pc[t] = "check"
    /\ Failed(t)
    /\ left' = [left EXCEPT ![t] = code[cur[t]].fields]
    /\ Goto(t, "update", {})
    /\ UNCHANGED <<mem, msg, cur, section, visits>>

\* Not the turn of this node yet: continue.
Continue(t) ==
    /\ pc[t] = "check"
    /\ Failed(t)
    /\ Goto(t, "early", EarlyBreak(cur[t]))
    /\ UNCHANGED <<mem, msg, cur, left, section, visits>>

StartUpdate(t) ==
    /\ pc[t] = "check"
    /\ Passed(t)
    /\ left' = [left EXCEPT ![t] = code[cur[t]].fields]
    /\ Goto(t, "update", {})
    /\ UNCHANGED <<mem, msg, cur, section, visits>>

\* The += and *= on one field.
UpdateField(t, f) ==
    /\ pc[t] \in {"update", "drain"}
    /\ f \in left[t]
    /\ msg' = [msg EXCEPT ![f] = Append(@, cur[t])]
    /\ left' = [left EXCEPT ![t] = @ \ {f}]
    /\ UNCHANGED <<mem, pc, cur, ix, todo, section, visits>>

\* The signal, mem_fence, break.
Signal(t) ==
    /\ pc[t] = "update"
    /\ left[t] = {}
    /\ SetFlag(code[cur[t]].signal)
    /\ cur' = [cur EXCEPT ![t] = None]
    /\ Goto(t, "body", {})
    /\ UNCHANGED <<msg, left, section, visits>>

\* No fence separates the update from the signal: the store to the flag may
\* be seen before stores to the fields, which mem_fence then waits for.
SignalEarly(t) ==
    /\ Relaxed
    /\ pc[t] = "update"
    /\ left[t] # {}
    /\ SetFlag(code[cur[t]].signal)
    /\ Goto(t, "drain", {})
    /\ UNCHANGED <<msg, cur, left, section, visits>>

Drained(t) ==
    /\ pc[t] = "drain"
    /\ left[t] = {}
    /\ cur' = [cur EXCEPT ![t] = None]
    /\ Goto(t, "body", {})
    /\ UNCHANGED <<mem, msg, left, section, visits>>

\* t reaches a barrier inside func_1.
Arrive(t) ==
    /\ pc[t] = "body"
    /\ section[t] < Sections
    /\ Goto(t, "barrier", {})
    /\ UNCHANGED <<mem, msg, cur, left, section, visits>>

\* func_1 returns.  A work-item without nodes has no end checks.
StartEndChecks(t) ==
    /\ pc[t] = "body"
    /\ section[t] = Sections
    /\ IF endChecks[t] = <<>> THEN Goto(t, "barrier", {})
                              ELSE GotoUnlock(t, None, 1)
    /\ UNCHANGED <<mem, msg, cur, left, section, visits>>

RepeatEndChecks(t) ==
    /\ pc[t] = "exit"
    /\ Failed(t)
    /\ GotoUnlock(t, None, 1)
    /\ UNCHANGED <<mem, msg, cur, left, section, visits>>

BreakEndChecks(t) ==
    /\ pc[t] = "exit"
    /\ Passed(t)
    /\ Goto(t, "barrier", {})
    /\ UNCHANGED <<mem, msg, cur, left, section, visits>>

\* All work-items are at the barrier: the next section, or the hashing.
PassBarrier ==
    /\ \A t \in Threads : pc[t] = "barrier"
    /\ IF \E t \in Threads : section[t] < Sections
       THEN /\ section' = [t \in Threads |-> section[t] + 1]
            /\ pc' = [t \in Threads |-> "body"]
       ELSE /\ pc' = [t \in Threads |-> "hash"]
            /\ UNCHANGED section
    /\ UNCHANGED <<mem, msg, cur, ix, todo, left, visits>>

Step(t) ==
    \/ \E n \in DOMAIN code : EnterNode(t, n)
    \/ \E c \in todo[t] : Compare(t, c)
    \/ BreakEarly(t)
    \/ StartUnlocks(t)
    \/ Unlock(t)
    \/ SkipUnlock(t)
    \/ Continue(t)
    \/ StartUpdate(t)
    \/ \E f \in left[t] : UpdateField(t, f)
    \/ Signal(t)
    \/ SignalEarly(t)
    \/ Drained(t)
    \/ Arrive(t)
    \/ StartEndChecks(t)
    \/ RepeatEndChecks(t)
    \/ BreakEndChecks(t)

RunNext ==
    /\ phase = "run"
    /\ (\E t \in Threads : Step(t)) \/ PassBarrier
    /\ UNCHANGED genVars

\* Every work-item has written its result.
Finished == phase = "run" /\ \A t \in Threads : pc[t] = "hash"

Next ==
    \/ GenNext /\ UNCHANGED runVars
    \/ RunNext
    \/ Finished /\ UNCHANGED vars

Spec == Init /\ [][Next]_vars

\* The generator is a sequential program that runs to its end; work-items
\* make progress independently of each other, and a barrier all have reached
\* opens.
Fairness ==
    /\ WF_vars(GenNext /\ UNCHANGED runVars)
    /\ \A t \in Threads : WF_vars(phase = "run" /\ Step(t) /\ UNCHANGED genVars)
    /\ WF_vars(phase = "run" /\ PassBarrier /\ UNCHANGED genVars)

FairSpec == Spec /\ Fairness

----------------------------------------------------------------------------
(* Properties *)

\* The values the variables take, from the generator to the end of the kernel.
TypeOK ==
    /\ GenTypeOK
    /\ mem \in [Flags -> Nat]
    /\ msg \in [Fields -> Seq(DOMAIN code)]
    /\ pc \in [Threads -> PCs]
    /\ cur \in [Threads -> DOMAIN code \cup {None}]
    /\ ix \in [Threads -> Nat]
    /\ todo \in [Threads -> SUBSET Constraint]
    /\ left \in [Threads -> SUBSET Fields]
    /\ section \in [Threads -> 1 .. Sections]
    /\ visits \in [Threads -> 0 .. MaxVisits]

\* Slots are completed in their order: when a node has been signalled, by
\* itself or by an unlock, so has every node of every earlier slot.
SlotsInOrder ==
    \A n, m \in DOMAIN code : Before(n, m) /\ Signalled(m) => Signalled(n)

InUpdate(t) == pc[t] \in {"update", "drain"}

\* Two work-items that are between their check and their signal at the same
\* time write different fields: the message is free of data races, which is
\* what MakeAsynchronousUpdate and the flag sets are for.
NoRacingUpdates ==
    \A t, u \in Threads :
        t # u /\ InUpdate(t) /\ InUpdate(u)
            => code[cur[t]].fields \cap code[cur[u]].fields = {}

\* Each field is updated in the order of the slots and at most once by each
\* node, whatever is skipped, repeated or reached out of order in func_1: the
\* value of the non-commutative updates does not depend on the schedule.
FieldsInOrder ==
    \A f \in Fields : \A a, b \in DOMAIN msg[f] :
        a < b => Before(msg[f][a], msg[f][b])

\* The hashing after the last barrier sees a finished message: every node is
\* signalled, and each one updated all of its fields or none of them.
HashSeesFinalMessage ==
    Finished =>
        \A n \in DOMAIN code :
            /\ Signalled(n)
            /\ LET Wrote(f) == \E a \in DOMAIN msg[f] : msg[f][a] = n IN
               (\E f \in code[n].fields : Wrote(f))
                   => \A f \in code[n].fields : Wrote(f)

\* A signal is never lost, repeated or overtaken: a flag only ever moves from
\* one value to the next, however a node and the unlocks of later nodes or of
\* the end checks race to set it.
FlagsAdvanceByOne ==
    [][\A f \in Flags : mem'[f] \in {mem[f], mem[f] + 1}]_vars

\* Every work-item gets through its nodes, its end checks and the barriers.
Termination == phase = "run" ~> Finished

\* The whole of it, as a refinement: flags, conditions, unlocks and end checks
\* implement slots that have their turn one after the other.
Abstract == INSTANCE MessageAbstract WITH
    plan <- IF phase = "run"
            THEN [i \in DOMAIN order |-> SlotNodes(order[i])] ELSE <<>>,
    retired <- {n \in DOMAIN code : Signalled(n)}

ImplementsTurns == Abstract!Spec
=============================================================================
