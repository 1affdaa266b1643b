-------------------------- MODULE RuntimeParameters --------------------------
(***************************************************************************)
(* CLProgramGenerator::InitRuntimeParameters: the global and local sizes a  *)
(* generated program runs with.  A global size is drawn per dimension; local *)
(* sizes are drawn from the divisors until a work-group is small enough.    *)
(***************************************************************************)
EXTENDS Integers

CONSTANTS MaxThreads,   \* max_threads, 10000
          MaxPerDim,    \* max_thr_per_dim, 100
          MaxPerGroup   \* max_threads_per_group, 256

ASSUME LimitsPositive == MaxThreads \in Nat \ {0} /\ MaxPerDim \in Nat \ {0} /\ MaxPerGroup \in Nat \ {0}

VARIABLES step,         \* "global", "local", "groups" or "done"
          dim,          \* the dimension that is drawn next
          globalDim, localDim,
          noThreads, currThrPGrp, noGroups

paramVars == <<step, dim, globalDim, localDim, noThreads, currThrPGrp, noGroups>>

no_dims == 3
Dims == 1..no_dims
Lesser(a, b) == IF a < b THEN a ELSE b
Product(f) == f[1] * f[2] * f[3]

\* get_divisors: pairs below the square root, and the root of a square.
DivisorsWithoutRoot(val) ==
  {1, val} \cup UNION {{i, val \div i} : i \in {j \in 2..val : j * j < val /\ val % j = 0}}

Divisors(val) == DivisorsWithoutRoot(val) \cup {i \in 2..val : i * i = val}

ParamInit ==
  /\ step = "global" /\ dim = 1
  /\ globalDim = [d \in Dims |-> 1] /\ localDim = [d \in Dims |-> 1]
  /\ noThreads = 1 /\ currThrPGrp = 1 /\ noGroups = 1

\* Without the limit of a dimension: for a mutant.
TotalOnly(threads) == MaxThreads \div threads

\* rnd_upto(n) + 1 is one of 1..n.
GlobalLimit(threads) == Lesser(MaxPerDim, MaxThreads \div threads)

DrawGlobal ==
  /\ step = "global"
  /\ \E n \in 1..GlobalLimit(noThreads) :
       /\ globalDim' = [globalDim EXCEPT ![dim] = n]
       /\ noThreads' = noThreads * n
  /\ step' = IF dim = no_dims THEN "local" ELSE "global"
  /\ dim' = IF dim = no_dims THEN 1 ELSE dim + 1
  /\ UNCHANGED <<localDim, currThrPGrp, noGroups>>

\* The body of the do loop, for one dimension.
DrawLocal ==
  /\ step = "local" /\ dim <= no_dims
  /\ \E n \in Divisors(globalDim[dim]) :
       /\ localDim' = [localDim EXCEPT ![dim] = n]
       /\ currThrPGrp' = currThrPGrp * n
  /\ dim' = dim + 1
  /\ UNCHANGED <<step, globalDim, noThreads, noGroups>>

\* Another round when the group is too large.
Retries(threads) == threads > MaxPerGroup

CheckGroup ==
  /\ step = "local" /\ dim > no_dims
  /\ dim' = 1
  /\ IF Retries(currThrPGrp) THEN currThrPGrp' = 1 /\ UNCHANGED step
                             ELSE step' = "groups" /\ UNCHANGED currThrPGrp
  /\ UNCHANGED <<globalDim, localDim, noThreads, noGroups>>

CountGroups ==
  /\ step = "groups"
  /\ noGroups' = noGroups * (globalDim[dim] \div localDim[dim])
  /\ step' = IF dim = no_dims THEN "done" ELSE step
  /\ dim' = IF dim = no_dims THEN dim ELSE dim + 1
  /\ UNCHANGED <<globalDim, localDim, noThreads, currThrPGrp>>

ParamsDone == step = "done" /\ UNCHANGED paramVars

ParamNext == DrawGlobal \/ DrawLocal \/ CheckGroup \/ CountGroups \/ ParamsDone

ParamSpec == ParamInit /\ [][ParamNext]_paramVars

-----------------------------------------------------------------------------
get_threads_per_group == noThreads \div noGroups

get_total_threads == noThreads * noGroups

Known == step = "done"

\* Types: dimensions are positive, counts are natural numbers.
ParamTypeOK ==
  /\ step \in {"global", "local", "groups", "done"}
  /\ dim \in 1..(no_dims + 1)
  /\ globalDim \in [Dims -> 1..MaxPerDim] /\ localDim \in [Dims -> 1..MaxPerDim]
  /\ {noThreads, currThrPGrp, noGroups} \subseteq Nat \ {0}

(* However large the first dimensions come out, the limit for the next one   *)
(* leaves at least one work-item and never exceeds max_threads in all: the   *)
(* generator is not asked for a number below zero choices.                  *)
ThreadsWithinLimit ==
  /\ noThreads = Product(globalDim) /\ noThreads <= MaxThreads
  /\ step = "global" => GlobalLimit(noThreads) >= 1

(* Every divisor of a size can be drawn, and nothing else: get_divisors goes *)
(* up to the square root with a floating-point bound and adds the root apart. *)
DivisorsComplete ==
  step = "local" /\ dim <= no_dims =>
    Divisors(globalDim[dim]) = {d \in 1..globalDim[dim] : globalDim[dim] % d = 0}

(* The groups tile the global size: noThreads / noGroups, which sizes the     *)
(* permutations and the local buffers, is exact and is the size of a group,  *)
(* and a group is within the limit.                                        *)
GroupsTile ==
  Known => /\ noGroups * Product(localDim) = noThreads
           /\ get_threads_per_group = Product(localDim)
           /\ get_threads_per_group <= MaxPerGroup

(* Items of buffers in global memory are addressed by the group and the id   *)
(* in the group with get_threads_per_group; the buffer is declared with      *)
(* get_total_threads items and allocated by cl_launcher with one for each    *)
(* work-item: all items are inside of both and no two work-items share one.  *)
ItemsWithinBuffers ==
  LET Item(g, l) == g * get_threads_per_group + l
      Places == (0..(noGroups - 1)) \X (0..(get_threads_per_group - 1))
  IN  Known => /\ {Item(w[1], w[2]) : w \in Places} = 0..(noThreads - 1)
               /\ noThreads <= get_total_threads

\* Whatever sizes are drawn, the draws are of at least one number, groups tile the
\* work-items, and buffers have an item for each (CLProgramGenerator.cpp).
ParametersFit == ParamTypeOK /\ ThreadsWithinLimit /\ DivisorsComplete /\ GroupsTile /\ ItemsWithinBuffers
=============================================================================
