----------------------- MODULE RuntimeParametersProofs -----------------------
(***************************************************************************)
(* Whatever sizes are drawn and whatever the limits are, the draws are of at *)
(* least one number, get_divisors finds the divisors, the groups tile the    *)
(* work-items and buffers have an item for each.                            *)
(***************************************************************************)
EXTENDS RuntimeParameters, TLAPS

LEMMA DivMod ==
  ASSUME NEW a \in Nat, NEW b \in Nat \ {0}
  PROVE  /\ a \div b \in Nat /\ a % b \in 0..(b - 1)
         /\ a = b * (a \div b) + (a % b)
  BY SMT

LEMMA ProductMonotone ==
  ASSUME NEW b \in Nat, NEW m \in Nat, NEW n \in Nat, m <= n
  PROVE  b * m <= b * n
<1>1. PICK k \in Nat : n = m + k
  BY SMT
<1>2. b * n = b * m + b * k /\ b * k \in Nat
  BY <1>1, SMT
<1> QED BY <1>2, SMT

LEMMA DivLimit ==
  ASSUME NEW a \in Nat, NEW b \in Nat \ {0}, NEW n \in Nat, n <= a \div b
  PROVE  b * n <= a
<1>1. b * n <= b * (a \div b)
  BY DivMod, ProductMonotone
<1>2. b * (a \div b) <= a
  BY DivMod
<1> QED BY <1>1, <1>2, DivMod, SMT

LEMMA QuotientUnique ==
  ASSUME NEW b \in Nat \ {0}, NEW q \in Nat, NEW r \in 0..(b - 1)
  PROVE  (b * q + r) \div b = q /\ (b * q + r) % b = r
<1> DEFINE a == b * q + r
<1>1. a \in Nat
  BY SMT
<1>2. a \div b \in Nat /\ a % b \in 0..(b - 1) /\ a = b * (a \div b) + (a % b)
  BY <1>1, DivMod
<1> DEFINE Q == a \div b  R == a % b
<1> HIDE DEF Q, R
<1>3. Q \in Nat /\ R \in 0..(b - 1) /\ b * q + r = b * Q + R
  BY <1>2 DEF Q, R
<1>4. CASE Q < q
  <2>1. b * (Q + 1) <= b * q
    BY <1>3, <1>4, SMT
  <2> QED BY <2>1, <1>3, SMT
<1>5. CASE Q > q
  <2>1. b * (q + 1) <= b * Q
    BY <1>3, <1>5, SMT
  <2> QED BY <2>1, <1>3, SMT
<1>6. Q = q
  BY <1>3, <1>4, <1>5
<1>7. R = r
  BY <1>3, <1>6, SMT
<1> QED BY <1>6, <1>7 DEF Q, R

LEMMA ExactQuotient ==
  ASSUME NEW b \in Nat \ {0}, NEW q \in Nat
  PROVE  (b * q) \div b = q /\ (b * q) % b = 0
<1>1. 0 \in 0..(b - 1) /\ b * q + 0 = b * q
  BY SMT
<1> QED BY <1>1, QuotientUnique

\* d divides v, as a product.
LEMMA DividesFacts ==
  ASSUME NEW v \in Nat \ {0}, NEW d \in Nat \ {0}, v % d = 0
  PROVE  /\ v \div d \in 1..v /\ d \in 1..v
         /\ v = d * (v \div d)
<1> DEFINE e == v \div d
<1>1. e \in Nat /\ v = d * e
  BY DivMod, SMT
<1> HIDE DEF e
<1>2. e # 0
  BY <1>1, SMT
<1>3. e <= d * e /\ d <= d * e
  BY <1>1, <1>2, SMT
<1> QED BY <1>1, <1>2, <1>3 DEF e
LEMMA DividesProduct ==
  ASSUME NEW d \in Nat \ {0}, NEW e \in Nat \ {0}
  PROVE  d * e \in Nat \ {0} /\ d <= d * e /\ e <= d * e
  BY SMT

-----------------------------------------------------------------------------
(* get_divisors *)

\* What is drawn divides the size.
LEMMA DrawnDivide ==
  ASSUME NEW val \in Nat \ {0}, NEW d \in Divisors(val)
  PROVE  d \in 1..val /\ val % d = 0
<1>1. CASE d = 1
  BY <1>1, ExactQuotient, SMT
<1>2. CASE d = val
  <2>1. val * 1 = val
    BY SMT
  <2> QED BY <1>2, <2>1, ExactQuotient, SMT
<1>3. ASSUME NEW i \in 2..val, i * i < val \/ i * i = val, val % i = 0, d = i \/ d = val \div i
      PROVE  d \in 1..val /\ val % d = 0
  <2>1. i \in Nat \ {0}
    BY SMT
  <2> DEFINE e == val \div i
  <2>2. e \in 1..val /\ val = i * e
    BY <1>3, <2>1, DividesFacts
  <2> HIDE DEF e
  <2>3. val = e * i /\ e \in Nat \ {0}
    BY <2>1, <2>2, SMT
  <2>4. val % e = 0
    BY <2>1, <2>3, ExactQuotient
  <2> QED BY <1>3, <2>2, <2>4, SMT DEF e
<1>4. ASSUME NEW i \in 2..val, i * i = val, d = i
      PROVE  d \in 1..val /\ val % d = 0
  <2>1. (i * i) % i = 0
    BY ExactQuotient, SMT
  <2> QED BY <1>4, <2>1, SMT
<1> QED BY <1>1, <1>2, <1>3, <1>4 DEF Divisors, DivisorsWithoutRoot

\* What divides the size can be drawn: one of d and val / d is below the root.
LEMMA DivisorsDrawn ==
  ASSUME NEW val \in Nat \ {0}, NEW d \in 1..val, val % d = 0
  PROVE  d \in Divisors(val)
<1> DEFINE e == val \div d
<1>1. d \in Nat \ {0} /\ e \in 1..val /\ val = d * e
  BY DividesFacts, SMT
<1> HIDE DEF e
<1>2. CASE d = 1 \/ e = 1
  <2>1. d = 1 \/ d = val
    BY <1>1, <1>2, SMT
  <2> QED BY <2>1 DEF Divisors, DivisorsWithoutRoot
<1>3. CASE d # 1 /\ e # 1
  <2>1. d \in 2..val /\ e \in 2..val
    BY <1>1, <1>3, SMT
  <2>2. CASE d * d < val
    BY <2>1, <2>2 DEF Divisors, DivisorsWithoutRoot
  <2>3. CASE d * d = val
    BY <2>1, <2>3 DEF Divisors
  <2>4. CASE d * d > val
    <3>1. e < d
      <4>1. SUFFICES ASSUME d <= e PROVE FALSE
        BY <1>1, SMT
      <4>2. d * d <= d * e
        BY <1>1, <4>1, ProductMonotone, SMT
      <4>3. d * d \in Int /\ d * e \in Int
        BY <1>1, SMT
      <4> QED BY <1>1, <2>4, <4>2, <4>3, SMT
    <3>2. e * e < val
      <4>1. e * (e + 1) <= e * d
        BY <1>1, <3>1, ProductMonotone, SMT
      <4>2. e * (e + 1) = e * e + e /\ e * d = val
        BY <1>1, SMT
      <4>3. e * e \in Nat
        BY <1>1, SMT
      <4> QED BY <1>1, <4>1, <4>2, <4>3, SMT
    <3>3. val = e * d /\ e \in Nat \ {0}
      BY <1>1, SMT
    <3>4. val % e = 0 /\ val \div e = d
      BY <1>1, <3>3, ExactQuotient
    <3>5. e \in {j \in 2..val : j * j < val /\ val % j = 0} /\ d \in {e, val \div e}
      BY <2>1, <3>2, <3>4
    <3> QED BY <3>5, Zenon DEF Divisors, DivisorsWithoutRoot
  <2>5. d * d \in Int
    BY <1>1, SMT
  <2> QED BY <2>2, <2>3, <2>4, <2>5, SMT
<1> QED BY <1>2, <1>3

LEMMA DivisorsExact ==
  ASSUME NEW val \in Nat \ {0}
  PROVE  Divisors(val) = {d \in 1..val : val % d = 0}
  BY DrawnDivide, DivisorsDrawn

-----------------------------------------------------------------------------
(* Groups and items *)

\* The items of groups of size S, one after the other.
LEMMA ItemsTile ==
  ASSUME NEW G \in Nat \ {0}, NEW S \in Nat \ {0}
  PROVE  {w[1] * S + w[2] : w \in (0..(G - 1)) \X (0..(S - 1))} = 0..(G * S - 1)
<1>1. ASSUME NEW g \in 0..(G - 1), NEW l \in 0..(S - 1)
      PROVE  g * S + l \in 0..(G * S - 1)
  <2>1. S * (g + 1) <= S * G
    BY ProductMonotone, SMT
  <2>2. S * (g + 1) = g * S + S /\ S * G = G * S /\ g * S \in Nat /\ G * S \in Nat
    BY SMT
  <2> QED BY <2>1, <2>2, SMT
<1>2. ASSUME NEW n \in 0..(G * S - 1)
      PROVE  \E g \in 0..(G - 1), l \in 0..(S - 1) : n = g * S + l
  <2> DEFINE g == n \div S  l == n % S
  <2>1. n \in Nat /\ G * S \in Nat /\ n < G * S
    BY SMT
  <2>2. g \in Nat /\ l \in 0..(S - 1) /\ n = S * g + l
    BY <2>1, DivMod
  <2> HIDE DEF g, l
  <2>3. g < G
    <3>1. SUFFICES ASSUME G <= g PROVE FALSE
      BY <2>2, SMT
    <3>2. S * G <= S * g
      BY <2>2, <3>1, ProductMonotone
    <3>3. S * G = G * S /\ S * g \in Nat
      BY <2>2, SMT
    <3> QED BY <2>1, <2>2, <3>2, <3>3, SMT
  <2>4. n = g * S + l /\ g \in 0..(G - 1)
    BY <2>2, <2>3, SMT
  <2> QED BY <2>2, <2>4
<1>3. ASSUME NEW w \in (0..(G - 1)) \X (0..(S - 1))
      PROVE  w[1] * S + w[2] \in 0..(G * S - 1)
  BY <1>1
<1>4. ASSUME NEW n \in 0..(G * S - 1)
      PROVE  \E w \in (0..(G - 1)) \X (0..(S - 1)) : n = w[1] * S + w[2]
  <2>1. PICK g \in 0..(G - 1), l \in 0..(S - 1) : n = g * S + l
    BY <1>2
  <2>2. <<g, l>> \in (0..(G - 1)) \X (0..(S - 1)) /\ <<g, l>>[1] = g /\ <<g, l>>[2] = l
    OBVIOUS
  <2> QED BY <2>1, <2>2
<1> QED BY <1>3, <1>4
-----------------------------------------------------------------------------
(* The invariant *)

Divides(d) == globalDim[d] % localDim[d] = 0
Quotients == [d \in Dims |-> globalDim[d] \div localDim[d]]

\* The factors of the dimensions in front of n.
Below(f, n) == [d \in Dims |-> IF d < n THEN f[d] ELSE 1]

DrawingGlobal ==
  step = "global" =>
    /\ dim \in Dims /\ \A d \in Dims : d >= dim => globalDim[d] = 1
    /\ localDim = [d \in Dims |-> 1] /\ currThrPGrp = 1 /\ noGroups = 1

DrawingLocal ==
  step = "local" =>
    /\ \A d \in Dims : d < dim => Divides(d)
    /\ currThrPGrp = Product(Below(localDim, dim)) /\ noGroups = 1

GroupsChosen ==
  step \in {"groups", "done"} =>
    /\ \A d \in Dims : Divides(d)
    /\ Product(localDim) <= MaxPerGroup

CountingGroups ==
  /\ step = "groups" => dim \in Dims /\ noGroups = Product(Below(Quotients, dim))
  /\ step = "done" => noGroups = Product(Quotients)

ThreadsCounted == noThreads = Product(globalDim) /\ noThreads <= MaxThreads

ParametersInv ==
  /\ ParamTypeOK
  /\ ThreadsCounted
  /\ DrawingGlobal /\ DrawingLocal /\ GroupsChosen /\ CountingGroups

LEMMA DimsAre == Dims = {1, 2, 3} /\ no_dims = 3
  BY SMT DEF Dims, no_dims

LEMMA Positive ==
  ASSUME NEW a \in Nat \ {0}, NEW b \in Nat \ {0}, NEW c \in Nat \ {0}
  PROVE  a * b * c \in Nat \ {0}
  BY SMT

LEMMA InvInit == ParamInit => ParametersInv
<1> SUFFICES ASSUME ParamInit PROVE ParametersInv
  OBVIOUS
<1> USE LimitsPositive, DimsAre DEF ParamInit
<1>1. ParamTypeOK
  BY SMT DEF ParamTypeOK
<1>2. ThreadsCounted
  BY SMT DEF ThreadsCounted, Product
<1>3. DrawingGlobal /\ DrawingLocal /\ GroupsChosen /\ CountingGroups
  BY DEF DrawingGlobal, DrawingLocal, GroupsChosen, CountingGroups
<1> QED BY <1>1, <1>2, <1>3 DEF ParametersInv

LEMMA LimitAtLeastOne ==
  ASSUME NEW threads \in Nat \ {0}, threads <= MaxThreads
  PROVE  GlobalLimit(threads) \in Nat \ {0} /\ GlobalLimit(threads) <= MaxPerDim
         /\ GlobalLimit(threads) <= MaxThreads \div threads
<1> USE LimitsPositive
<1> DEFINE q == MaxThreads \div threads
<1>1. q \in Nat /\ MaxThreads % threads \in 0..(threads - 1) /\ MaxThreads = threads * q + (MaxThreads % threads)
  <2>1. MaxThreads \in Nat
    OBVIOUS
  <2> QED BY <2>1, DivMod
<1>2. q # 0
  <2>1. SUFFICES ASSUME q = 0 PROVE FALSE
    OBVIOUS
  <2>2. threads * q = 0
    BY <2>1, SMT
  <2> QED BY <1>1, <2>2, SMT
<1> HIDE DEF q
<1>3. Lesser(MaxPerDim, q) \in Nat \ {0} /\ Lesser(MaxPerDim, q) <= MaxPerDim /\ Lesser(MaxPerDim, q) <= q
  BY <1>1, <1>2, SMT DEF Lesser
<1> QED BY <1>3 DEF GlobalLimit, q

LEMMA GlobalStep == ParametersInv /\ DrawGlobal => ParametersInv'
<1> SUFFICES ASSUME ParametersInv, DrawGlobal PROVE ParametersInv'
  OBVIOUS
<1> USE LimitsPositive, DimsAre DEF ParametersInv
<1>1. step = "global" /\ dim \in Dims /\ globalDim \in [Dims -> 1..MaxPerDim] /\ noThreads \in Nat \ {0}
  BY DEF DrawGlobal, DrawingGlobal, ParamTypeOK
<1>2. PICK n \in 1..GlobalLimit(noThreads) : globalDim' = [globalDim EXCEPT ![dim] = n] /\ noThreads' = noThreads * n
  BY DEF DrawGlobal
<1>3. n \in 1..MaxPerDim /\ n <= MaxThreads \div noThreads /\ n \in Nat \ {0}
  <2> DEFINE limit == GlobalLimit(noThreads)
  <2>1. limit \in Nat \ {0} /\ limit <= MaxPerDim /\ limit <= MaxThreads \div noThreads
    BY <1>1, LimitAtLeastOne DEF ThreadsCounted
  <2>2. MaxThreads \in Nat
    OBVIOUS
  <2>3. MaxThreads \div noThreads \in Nat
    BY <1>1, <2>2, DivMod
  <2>4. n \in 1..limit
    BY <1>2
  <2> HIDE DEF limit
  <2> QED BY <2>1, <2>3, <2>4, SMT
<1>4. noThreads * n <= MaxThreads
  BY <1>1, <1>3, DivLimit
<1>5. noThreads * n \in Nat \ {0}
  BY <1>1, <1>3, SMT
<1>6. ParamTypeOK'
  <2>1. globalDim' \in [Dims -> 1..MaxPerDim]
    BY <1>1, <1>2, <1>3
  <2>2. dim' \in 1..(no_dims + 1) /\ step' \in {"global", "local", "groups", "done"}
    BY <1>1, SMT DEF DrawGlobal
  <2> QED BY <2>1, <2>2, <1>2, <1>5 DEF ParamTypeOK, DrawGlobal
<1>7. ThreadsCounted'
  <2>1. globalDim[dim] = 1 /\ \A d \in Dims : globalDim[d] \in Nat
    BY <1>1, SMT DEF DrawingGlobal
  <2>2. globalDim'[dim] = n /\ \A d \in Dims : d # dim => globalDim'[d] = globalDim[d]
    BY <1>1, <1>2
  <2>3. Product(globalDim') = Product(globalDim) * n
    <3>1. CASE dim = 1
      BY <3>1, <2>1, <2>2, <1>3, SMT DEF Product
    <3>2. CASE dim = 2
      BY <3>2, <2>1, <2>2, <1>3, SMT DEF Product
    <3>3. CASE dim = 3
      BY <3>3, <2>1, <2>2, <1>3, SMT DEF Product
    <3> QED BY <1>1, <3>1, <3>2, <3>3
  <2> QED BY <2>3, <1>2, <1>4 DEF ThreadsCounted
<1>8. DrawingGlobal'
  BY <1>1, <1>2, SMT DEF DrawingGlobal, DrawGlobal
<1>9. DrawingLocal'
  <2>1. SUFFICES ASSUME step' = "local" PROVE DrawingLocal'
    BY DEF DrawingLocal
  <2>2. dim' = 1 /\ currThrPGrp' = 1 /\ noGroups' = 1
    BY <1>1, <2>1 DEF DrawGlobal, DrawingGlobal
  <2>3. Product(Below(localDim, dim))' = 1
    BY <2>2, SMT DEF Product, Below
  <2> QED BY <2>2, <2>3, SMT DEF DrawingLocal
<1>10. GroupsChosen' /\ CountingGroups'
  BY <1>1 DEF GroupsChosen, CountingGroups, DrawGlobal
<1> QED BY <1>6, <1>7, <1>8, <1>9, <1>10

LEMMA LocalStep == ParametersInv /\ DrawLocal => ParametersInv'
<1> SUFFICES ASSUME ParametersInv, DrawLocal PROVE ParametersInv'
  OBVIOUS
<1> USE LimitsPositive, DimsAre DEF ParametersInv
<1>1. step = "local" /\ step' = "local" /\ dim \in Dims /\ dim' = dim + 1 /\ globalDim' = globalDim
      /\ noThreads' = noThreads /\ noGroups' = noGroups
  BY SMT DEF DrawLocal, ParamTypeOK
<1>2. globalDim \in [Dims -> 1..MaxPerDim] /\ localDim \in [Dims -> 1..MaxPerDim] /\ currThrPGrp \in Nat \ {0}
  BY DEF ParamTypeOK
<1>3. PICK n \in Divisors(globalDim[dim]) : localDim' = [localDim EXCEPT ![dim] = n] /\ currThrPGrp' = currThrPGrp * n
  BY DEF DrawLocal
<1>4. n \in 1..MaxPerDim /\ n \in Nat \ {0} /\ globalDim[dim] % n = 0
  <2>1. globalDim[dim] \in Nat \ {0} /\ globalDim[dim] <= MaxPerDim
    BY <1>1, <1>2, SMT
  <2> QED BY <2>1, <1>3, DrawnDivide, SMT
<1>5. localDim'[dim] = n /\ \A d \in Dims : d # dim => localDim'[d] = localDim[d]
  BY <1>1, <1>2, <1>3
<1>6. currThrPGrp * n \in Nat \ {0}
  BY <1>2, <1>4, SMT
<1>7. ParamTypeOK'
  <2>1. localDim' \in [Dims -> 1..MaxPerDim]
    BY <1>2, <1>3, <1>4
  <2>2. dim' \in 1..(no_dims + 1)
    BY <1>1, SMT
  <2> QED BY <2>1, <2>2, <1>1, <1>3, <1>6 DEF ParamTypeOK
<1>8. Product(Below(localDim, dim))' = Product(Below(localDim, dim)) * n
  <2>1. \A d \in Dims : localDim[d] \in Nat
    BY <1>2, SMT
  <2>2. CASE dim = 1
    BY <2>2, <2>1, <1>1, <1>4, <1>5, SMT DEF Product, Below
  <2>3. CASE dim = 2
    BY <2>3, <2>1, <1>1, <1>4, <1>5, SMT DEF Product, Below
  <2>4. CASE dim = 3
    BY <2>4, <2>1, <1>1, <1>4, <1>5, SMT DEF Product, Below
  <2> QED BY <1>1, <2>2, <2>3, <2>4
<1>9. DrawingLocal'
  <2>1. ASSUME NEW d \in Dims, d < dim' PROVE globalDim'[d] % localDim'[d] = 0
    <3>1. CASE d = dim
      BY <3>1, <1>1, <1>4, <1>5
    <3>2. CASE d # dim
      BY <3>2, <2>1, <1>1, <1>5, SMT DEF DrawingLocal, Divides
    <3> QED BY <3>1, <3>2
  <2> QED BY <2>1, <1>1, <1>3, <1>8 DEF DrawingLocal, Divides
<1>10. ThreadsCounted' /\ DrawingGlobal' /\ GroupsChosen' /\ CountingGroups'
  BY <1>1 DEF ThreadsCounted, DrawingGlobal, GroupsChosen, CountingGroups
<1> QED BY <1>7, <1>9, <1>10

LEMMA CheckStep == ParametersInv /\ CheckGroup => ParametersInv'
<1> SUFFICES ASSUME ParametersInv, CheckGroup PROVE ParametersInv'
  OBVIOUS
<1> USE LimitsPositive, DimsAre DEF ParametersInv
<1>1. step = "local" /\ dim = 4 /\ dim' = 1 /\ globalDim' = globalDim /\ localDim' = localDim
      /\ noThreads' = noThreads /\ noGroups' = noGroups /\ noGroups = 1
  BY SMT DEF CheckGroup, ParamTypeOK, DrawingLocal
<1>2. ThreadsCounted'
  BY <1>1 DEF ThreadsCounted
<1>3. \A f : Product(Below(f, 1)) = 1
  BY SMT DEF Product, Below
<1>4. CASE Retries(currThrPGrp)
  <2>1. step' = "local" /\ currThrPGrp' = 1
    BY <1>1, <1>4 DEF CheckGroup
  <2>2. ParamTypeOK'
    BY <1>1, <2>1, SMT DEF ParamTypeOK
  <2>3. Product(Below(localDim, dim))' = 1
    BY <1>1, <1>3
  <2>4. DrawingLocal'
    BY <1>1, <2>1, <2>3, SMT DEF DrawingLocal
  <2> QED BY <1>2, <2>1, <2>2, <2>4 DEF DrawingGlobal, GroupsChosen, CountingGroups
<1>5. CASE ~Retries(currThrPGrp)
  <2>1. step' = "groups" /\ currThrPGrp' = currThrPGrp
    BY <1>1, <1>5 DEF CheckGroup
  <2>2. ParamTypeOK'
    BY <1>1, <2>1, SMT DEF ParamTypeOK
  <2>3. \A d \in Dims : Divides(d)
    BY <1>1, SMT DEF DrawingLocal
  <2>4. Product(localDim) = currThrPGrp /\ currThrPGrp \in Nat
    BY <1>1, SMT DEF DrawingLocal, Product, Below, ParamTypeOK
  <2>5. GroupsChosen'
    BY <1>1, <1>5, <2>3, <2>4, SMT DEF GroupsChosen, Divides, Retries
  <2>6. CountingGroups'
    <3>1. Product(Below(Quotients, dim))' = 1
      BY <1>1, <1>3
    <3> QED BY <1>1, <2>1, <3>1 DEF CountingGroups
  <2> QED BY <1>2, <2>1, <2>2, <2>5, <2>6 DEF DrawingGlobal, DrawingLocal
<1> QED BY <1>4, <1>5
LEMMA QuotientFacts ==
  ASSUME ParamTypeOK, \A d \in Dims : Divides(d)
  PROVE  \A d \in Dims : /\ globalDim[d] \in Nat \ {0} /\ localDim[d] \in Nat \ {0}
                         /\ Quotients[d] \in Nat \ {0} /\ globalDim[d] = localDim[d] * Quotients[d]
<1> TAKE d \in Dims
<1>1. globalDim[d] \in Nat \ {0} /\ localDim[d] \in Nat \ {0}
  BY SMT DEF ParamTypeOK
<1>2. Quotients[d] = globalDim[d] \div localDim[d]
  BY DEF Quotients
<1>3. Quotients[d] \in 1..globalDim[d] /\ globalDim[d] = localDim[d] * Quotients[d]
  <2>1. globalDim[d] % localDim[d] = 0
    BY DEF Divides
  <2> DEFINE g == globalDim[d]  l == localDim[d]
  <2>2. g \in Nat \ {0} /\ l \in Nat \ {0} /\ g % l = 0
    BY <1>1, <2>1
  <2> HIDE DEF g, l
  <2>3. g \div l \in 1..g /\ g = l * (g \div l)
    BY <2>2, DividesFacts
  <2> QED BY <1>2, <2>3 DEF g, l
<1> QED BY <1>1, <1>3, SMT

LEMMA CountStep == ParametersInv /\ CountGroups => ParametersInv'
<1> SUFFICES ASSUME ParametersInv, CountGroups PROVE ParametersInv'
  OBVIOUS
<1> USE LimitsPositive, DimsAre DEF ParametersInv
<1>1. step = "groups" /\ dim \in Dims /\ globalDim' = globalDim /\ localDim' = localDim
      /\ noThreads' = noThreads /\ currThrPGrp' = currThrPGrp
      /\ noGroups' = noGroups * Quotients[dim] /\ Quotients' = Quotients
  BY DEF CountGroups, CountingGroups, Quotients
<1>2. \A d \in Dims : Quotients[d] \in Nat \ {0}
  BY <1>1, QuotientFacts DEF GroupsChosen
<1>3. noGroups \in Nat \ {0} /\ noGroups' \in Nat \ {0}
  BY <1>1, <1>2, SMT DEF ParamTypeOK
<1>4. ParamTypeOK'
  <2>1. dim' \in 1..(no_dims + 1) /\ step' \in {"global", "local", "groups", "done"}
    BY <1>1, SMT DEF CountGroups
  <2> QED BY <1>1, <1>3, <2>1 DEF ParamTypeOK
<1>5. noGroups' = Product(Below(Quotients, dim + 1))
  <2>1. noGroups = Product(Below(Quotients, dim))
    BY <1>1 DEF CountingGroups
  <2> DEFINE Q == Quotients
  <2>2. \A d \in Dims : Q[d] \in Nat
    BY <1>2
  <2>3. noGroups = Product(Below(Q, dim)) /\ noGroups' = noGroups * Q[dim]
    BY <1>1, <2>1
  <2> HIDE DEF Q
  <2>4. noGroups' = Product(Below(Q, dim + 1))
    <3>1. CASE dim = 1
      BY <3>1, <2>2, <2>3, SMT DEF Product, Below
    <3>2. CASE dim = 2
      BY <3>2, <2>2, <2>3, SMT DEF Product, Below
    <3>3. CASE dim = 3
      BY <3>3, <2>2, <2>3, SMT DEF Product, Below
    <3> QED BY <1>1, <3>1, <3>2, <3>3
  <2> QED BY <2>4 DEF Q
<1>6. CountingGroups'
  <2>1. CASE dim = 3
    <3>1. Product(Below(Quotients, dim + 1)) = Product(Quotients)
      BY <2>1, SMT DEF Product, Below
    <3>2. step' = "done" /\ noGroups' = Product(Quotients')
      BY <1>1, <1>5, <2>1, <3>1 DEF CountGroups
    <3> QED BY <3>2 DEF CountingGroups
  <2>2. CASE dim # 3
    <3>1. step' = "groups" /\ dim' = dim + 1 /\ dim' \in Dims
      BY <1>1, <2>2, SMT DEF CountGroups
    <3>2. noGroups' = Product(Below(Quotients', dim'))
      BY <1>1, <1>5, <3>1
    <3> QED BY <3>1, <3>2 DEF CountingGroups
  <2> QED BY <2>1, <2>2
<1>7. ThreadsCounted' /\ DrawingGlobal' /\ DrawingLocal' /\ GroupsChosen'
  <2>1. step' \in {"groups", "done"}
    BY <1>1 DEF CountGroups
  <2> QED BY <1>1, <2>1 DEF ThreadsCounted, DrawingGlobal, DrawingLocal, GroupsChosen, Divides
<1> QED BY <1>4, <1>6, <1>7

LEMMA InvStep == ParametersInv /\ [ParamNext]_paramVars => ParametersInv'
<1> SUFFICES ASSUME ParametersInv, [ParamNext]_paramVars PROVE ParametersInv'
  OBVIOUS
<1>1. CASE DrawGlobal
  BY <1>1, GlobalStep
<1>2. CASE DrawLocal
  BY <1>2, LocalStep
<1>3. CASE CheckGroup
  BY <1>3, CheckStep
<1>4. CASE CountGroups
  BY <1>4, CountStep
<1>5. CASE UNCHANGED paramVars
  BY <1>5 DEF paramVars, ParametersInv, ParamTypeOK, ThreadsCounted, DrawingGlobal, DrawingLocal, GroupsChosen,
              CountingGroups, Divides, Quotients, Below, Product
<1> QED BY <1>1, <1>2, <1>3, <1>4, <1>5 DEF ParamNext, ParamsDone

-----------------------------------------------------------------------------
(* What follows from it *)

LEMMA GroupsTimesSize ==
  ASSUME ParametersInv, step = "done"
  PROVE  /\ noGroups \in Nat \ {0} /\ Product(localDim) \in Nat \ {0}
         /\ noGroups * Product(localDim) = noThreads
         /\ noThreads \div noGroups = Product(localDim)
<1> USE DEF ParametersInv
<1>1. \A d \in Dims : /\ localDim[d] \in Nat \ {0} /\ Quotients[d] \in Nat \ {0}
                      /\ globalDim[d] = localDim[d] * Quotients[d]
  BY QuotientFacts DEF GroupsChosen
<1> DEFINE Q == Quotients
<1>2. noGroups = Product(Q) /\ noThreads = Product(globalDim)
  BY DEF CountingGroups, ThreadsCounted
<1> HIDE DEF Q
<1>3. /\ localDim[1] \in Nat \ {0} /\ localDim[2] \in Nat \ {0} /\ localDim[3] \in Nat \ {0}
      /\ Q[1] \in Nat \ {0} /\ Q[2] \in Nat \ {0} /\ Q[3] \in Nat \ {0}
      /\ globalDim[1] = localDim[1] * Q[1] /\ globalDim[2] = localDim[2] * Q[2] /\ globalDim[3] = localDim[3] * Q[3]
  BY <1>1, DimsAre DEF Q
<1>4. noGroups \in Nat \ {0} /\ Product(localDim) \in Nat \ {0}
  BY <1>2, <1>3, Positive DEF Product
<1>5. noGroups * Product(localDim) = noThreads
  BY <1>2, <1>3, SMT DEF Product
<1> QED BY <1>4, <1>5, ExactQuotient

LEMMA InvImplies == ParametersInv => ParametersFit
<1> SUFFICES ASSUME ParametersInv PROVE ParametersFit
  OBVIOUS
<1> USE DEF ParametersInv
<1>1. ThreadsWithinLimit
  <2>1. noThreads \in Nat \ {0}
    BY DEF ParamTypeOK
  <2>2. GlobalLimit(noThreads) >= 1
    <3>1. GlobalLimit(noThreads) \in Nat \ {0}
      BY <2>1, LimitAtLeastOne DEF ThreadsCounted
    <3> QED BY <3>1, SMT
  <2> QED BY <2>2 DEF ThreadsCounted, ThreadsWithinLimit
<1>2. DivisorsComplete
  <2>1. SUFFICES ASSUME dim <= no_dims PROVE Divisors(globalDim[dim]) = {d \in 1..globalDim[dim] : globalDim[dim] % d = 0}
    BY DEF DivisorsComplete
  <2>2. dim \in Dims
    BY <2>1, DimsAre, SMT DEF ParamTypeOK
  <2>3. globalDim[dim] \in Nat \ {0}
    BY <2>2, LimitsPositive, SMT DEF ParamTypeOK
  <2> QED BY <2>3, DivisorsExact
<1>3. GroupsTile
  BY GroupsTimesSize DEF GroupsTile, Known, get_threads_per_group, GroupsChosen
<1>4. ItemsWithinBuffers
  <2>1. SUFFICES ASSUME step = "done" PROVE ItemsWithinBuffers
    BY DEF ItemsWithinBuffers, Known
  <2> DEFINE S == Product(localDim)
  <2>2. noGroups \in Nat \ {0} /\ S \in Nat \ {0} /\ noGroups * S = noThreads /\ get_threads_per_group = S
    BY <2>1, GroupsTimesSize DEF get_threads_per_group
  <2> HIDE DEF S
  <2>3. noThreads <= get_total_threads
    <3>1. noThreads \in Nat \ {0}
      BY <2>2, DividesProduct
    <3> QED BY <2>2, <3>1, DividesProduct DEF get_total_threads
  <2>4. {w[1] * S + w[2] : w \in (0..(noGroups - 1)) \X (0..(S - 1))} = 0..(noThreads - 1)
    BY <2>2, ItemsTile
  <2> QED BY <2>2, <2>3, <2>4 DEF ItemsWithinBuffers
<1> QED BY <1>1, <1>2, <1>3, <1>4 DEF ParametersFit

(* Whatever sizes InitRuntimeParameters draws, under whatever limits: every   *)
(* draw is of at least one number, exactly the divisors of a size can be      *)
(* drawn, groups are within the limit and tile the work-items, and the items  *)
(* of all groups are the items of a buffer (CLProgramGenerator.cpp:143-220).  *)
THEOREM ParametersAlwaysFit == ParamSpec => []ParametersFit
<1>1. ParamInit => ParametersInv
  BY InvInit
<1>2. ParametersInv /\ [ParamNext]_paramVars => ParametersInv'
  BY InvStep
<1>3. ParametersInv => ParametersFit
  BY InvImplies
<1> QED BY <1>1, <1>2, <1>3, PTL DEF ParamSpec
=============================================================================
