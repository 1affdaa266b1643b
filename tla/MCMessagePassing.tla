-------------------------- MODULE MCMessagePassing --------------------------
(***************************************************************************)
(* Instances of MessagePassing for TLC.                                    *)
(***************************************************************************)
EXTENDS MessagePassing, TLC

CONSTANTS t1, t2, t3

Symmetry == Permutations(Threads) \cup Permutations(Fields)

\* Bound: the generator registers nodes owned by these work-items, in order.
Generated(tids) ==
    /\ Len(nodes) <= Len(tids)
    /\ \A n \in DOMAIN nodes : Tid(n) = tids[n]
    /\ phase # "register" => Len(nodes) = Len(tids)

\* Bound: the first slot of an ordering is a pair.
StartsWithPair == order # <<>> => order[1] = [key |-> 1, async |-> 2]

\* A pair, a single node that switches back to the first set of flags, and a
\* second node of a work-item of the pair.
PairThenSingles ==
    /\ Generated(<<t1, t2, t3, t1>>)
    /\ StartsWithPair
    /\ Len(order) > 1 => order[2] = [key |-> 3, async |-> None]
=============================================================================
