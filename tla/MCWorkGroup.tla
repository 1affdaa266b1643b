----------------------------- MODULE MCWorkGroup -----------------------------
(***************************************************************************)
(* Instances of WorkGroup for TLC.                                         *)
(***************************************************************************)
EXTENDS WorkGroup, KernelMenus

\* What std::shuffle may return.
AllShuffles == {f \in [Lids -> Lids] : \A i, j \in Lids : f[i] = f[j] => i = j}

\* Bound: no change, a rotation and an exchange.
SomeShuffles ==
    {[i \in Lids |-> i], [i \in Lids |-> (i + 1) % Size],
     [i \in Lids |-> IF i = 0 THEN 1 ELSE IF i = 1 THEN 0 ELSE i]}

Unshuffled == {[i \in Lids |-> i]}
=============================================================================
