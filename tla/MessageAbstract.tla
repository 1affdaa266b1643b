-------------------------- MODULE MessageAbstract --------------------------
(***************************************************************************)
(* What CLSmith's message passing promises: once an ordering is chosen,    *)
(* its slots have their turn one after the other.  While a slot has its    *)
(* turn, a node of it may update fields of the message, each at most once  *)
(* and none that the other node of the slot updates; then the node         *)
(* retires.  A node that the kernel skips retires without an update.       *)
(***************************************************************************)
EXTENDS Naturals, Sequences

CONSTANT Fields

VARIABLES
    plan,        \* the slots, each a set of nodes; <<>> until chosen
    retired,     \* the nodes that are done with the message
    msg          \* per field, the nodes that updated it, in order

vars == <<plan, retired, msg>>

Init ==
    /\ plan = <<>>
    /\ retired = {}
    /\ msg = [f \in Fields |-> <<>>]

Publish ==
    /\ plan = <<>>
    /\ plan' # <<>>
    /\ UNCHANGED <<retired, msg>>

\* Slot i has its turn.
Turn(i) ==
    /\ \A j \in DOMAIN plan : j < i => plan[j] \subseteq retired
    /\ ~ (plan[i] \subseteq retired)

Update(i, n, f) ==
    /\ Turn(i)
    /\ n \in plan[i] \ retired
    /\ \A a \in DOMAIN msg[f] : msg[f][a] \notin plan[i]
    /\ msg' = [msg EXCEPT ![f] = Append(@, n)]
    /\ UNCHANGED <<plan, retired>>

Retire(i, n) ==
    /\ Turn(i)
    /\ n \in plan[i] \ retired
    /\ retired' = retired \cup {n}
    /\ UNCHANGED <<plan, msg>>

Next ==
    \/ Publish
    \/ \E i \in DOMAIN plan : \E n \in plan[i] :
           \/ Retire(i, n)
           \/ \E f \in Fields : Update(i, n, f)

Spec == Init /\ [][Next]_vars
=============================================================================
