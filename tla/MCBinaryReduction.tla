-------------------------- MODULE MCBinaryReduction --------------------------
(* Expressions for BinaryReduction: constants to fold, operands that are equal, calls, *)
(* one operation more than the limit, and a chain of them.                            *)
EXTENDS Integers, Sequences, FiniteSets

VARIABLES tree, reduced, ops, left_trees, right_trees, single, combinations, choice_at, alt_stms, choosing

Leaf(x) == [kind |-> "var", val |-> x, subs |-> <<>>]
Op(o, x, y) == [kind |-> "bin", val |-> o, subs |-> <<x, y>>]
Plus(x, y) == Op(1, x, y)
Times(x, y) == Op(2, x, y)
Call(f, x) == [kind |-> "call", val |-> f, subs |-> <<x>>]
Number(x) == [kind |-> "const", val |-> x, subs |-> <<>>]

\* ((1 + 2) * a) + f(b + c * b)
Folded == <<Plus(2, 3), Times(4, 5), Call(7, 6), Plus(7, 8), Leaf(1), Plus(9, 10), Number(1), Number(2), Leaf(2),
            Times(11, 12), Leaf(3), Leaf(2)>>
\* ((a + b) * c) + d
Chain == <<Plus(2, 3), Times(4, 5), Leaf(4), Plus(6, 7), Leaf(3), Leaf(1), Leaf(2)>>
\* a * b + c * b
Both == <<Plus(2, 3), Times(4, 5), Times(6, 7), Leaf(1), Leaf(2), Leaf(3), Leaf(2)>>
\* a * a + a
Same == <<Plus(2, 3), Times(4, 5), Leaf(1), Leaf(1), Leaf(1)>>
\* f(a) / (b + c * f(d))
Calls == <<Op(3, 2, 3), Call(5, 4), Plus(5, 6), Leaf(1), Leaf(2), Times(7, 8), Leaf(3), Call(5, 9), Leaf(4)>>
\* (d + a) * b + c * b: one operation too many
Many == <<Plus(2, 3), Times(4, 5), Times(6, 7), Plus(8, 9), Leaf(2), Leaf(3), Leaf(2), Leaf(4), Leaf(1)>>
\* (((a + b) / e) ... one too many, and only one of them is simple
Long == <<Plus(2, 3), Times(4, 5), Leaf(4), Plus(6, 7), Leaf(3), Op(3, 8, 9), Leaf(2), Plus(10, 11), Leaf(5), Leaf(1), Leaf(2)>>

MCTrees == {Folded, Chain, Both, Same, Calls, Many, Long}

Choosing == INSTANCE BinaryReduction WITH Trees <- MCTrees, OpLimit <- 3, AltLimit <- 14

MCSpec == Choosing!Spec

AllAlternatives == Choosing!AllAlternatives
=============================================================================
