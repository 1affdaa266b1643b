----------------------- MODULE WorkGroupMeaningProofs -----------------------
(***************************************************************************)
(* What a group of work-items computes on its way through a kernel is what *)
(* the statements of the kernel mean, for any number of groups and         *)
(* work-items.                                                             *)
(*                                                                         *)
(* The argument: the way of a group (WorkGroupBarrierProofs) gets a ledger *)
(* for what the group has collected, what its reductions come to and who   *)
(* comes to which section.  The code of a statement takes the values and   *)
(* the ledger of the group to what After says of them; the generator puts  *)
(* the code of one statement behind that of another, so the end of the     *)
(* code has what MeantAfter says.                                          *)
(***************************************************************************)
EXTENDS WorkGroupBarrierProofs, FiniteSetTheorems, WellFoundedInduction

-----------------------------------------------------------------------------
(* Induction                                                               *)

\* A set of numbers that holds 0 and with each number the next one holds all.
LEMMA NatSet ==
    ASSUME NEW T \in SUBSET Nat, 0 \in T, \A n \in T : n + 1 \in T
    PROVE  T = Nat
<1>1. SUFFICES ASSUME Nat \ T # {} PROVE FALSE
  OBVIOUS
<1>2. PICK n \in Nat \ T : \A m \in Nat \ T : n <= m
  <2> DEFINE R == {ss \in Nat \X Nat : ss[1] < ss[2]}
  <2>1. IsWellFoundedOn(R, Nat)
    BY NatLessThanWellFounded, Zenon DEF OpToRel
  <2>2. PICK n \in Nat \ T : \A m \in Nat \ T : ~(<<m, n>> \in R)
    BY <1>1, <2>1, WFMin
  <2>3. ASSUME NEW m \in Nat \ T PROVE n <= m
    <3>1. <<m, n>> \in Nat \X Nat /\ <<m, n>>[1] = m /\ <<m, n>>[2] = n
      OBVIOUS
    <3>2. ~(m < n)
      BY <2>2, <3>1
    <3> QED BY <3>2, SMT
  <2> QED BY <2>3
<1>3. n # 0 /\ n - 1 \in Nat /\ (n - 1) + 1 = n
  BY <1>2, SMT
<1>4. n - 1 \in T
  BY <1>2, <1>3, SMT
<1> QED BY <1>2, <1>3, <1>4

-----------------------------------------------------------------------------
(* Reductions do not depend on the order of their operands                 *)

\* Remainders of sums.
LEMMA SumOfRest ==
    ASSUME NEW x \in Nat, NEW y \in Nat
    PROVE  ((x % Modulus) + y) % Modulus = (x + y) % Modulus
<1>0. Modulus \in Nat \ {0}
  BY SizesAssumption
<1> DEFINE q == x \div Modulus
           r == x % Modulus
           p == (r + y) \div Modulus
           u == (r + y) % Modulus
           w == (x + y) \div Modulus
           v == (x + y) % Modulus
<1>1. q \in Nat /\ r \in 0 .. Modulus - 1 /\ x = Modulus * q + r
  BY <1>0, SMT
<1>2. p \in Nat /\ u \in 0 .. Modulus - 1 /\ r + y = Modulus * p + u
  BY <1>0, <1>1, SMT
<1>3. w \in Nat /\ v \in 0 .. Modulus - 1 /\ x + y = Modulus * w + v
  BY <1>0, SMT
<1> HIDE DEF q, r, p, u, w, v
<1>4. Modulus * (q + p) + u = Modulus * w + v
  BY <1>0, <1>1, <1>2, <1>3, SMT
<1>5. q + p \in Nat
  BY <1>1, <1>2
<1> DEFINE z == q + p
<1> HIDE DEF z
<1>6. z \in Nat /\ Modulus * z + u = Modulus * w + v
  BY <1>4, <1>5 DEF z
<1>7. CASE z < w
  <2>1. PICK d \in Nat : w = z + 1 + d
    BY <1>3, <1>6, <1>7
  <2>2. Modulus * w = Modulus * z + Modulus + Modulus * d /\ Modulus * d \in Nat /\ Modulus * z \in Nat
    BY <1>0, <1>6, <2>1
  <2> QED BY <1>0, <1>2, <1>3, <1>6, <2>2
<1>8. CASE w < z
  <2>1. PICK d \in Nat : z = w + 1 + d
    BY <1>3, <1>6, <1>8
  <2>2. Modulus * z = Modulus * w + Modulus + Modulus * d /\ Modulus * d \in Nat /\ Modulus * w \in Nat
    BY <1>0, <1>3, <2>1
  <2> QED BY <1>0, <1>2, <1>3, <1>6, <2>2
<1>9. CASE z = w
  <2>1. Modulus * z \in Nat
    BY <1>0, <1>6
  <2>2. u = v
    BY <1>2, <1>3, <1>6, <1>9, <2>1
  <2> QED BY <2>2 DEF u, v, r
<1> QED BY <1>3, <1>6, <1>7, <1>8, <1>9

\* Two operands may change places.
LEMMA ApplyTwice ==
    ASSUME NEW fn \in AtomicFunctions, NEW a \in UInt, NEW b \in UInt, NEW c \in UInt
    PROVE  Apply(fn, Apply(fn, a, b), c) = Apply(fn, Apply(fn, a, c), b)
<1>0. Modulus \in Nat \ {0} /\ a \in Nat /\ b \in Nat /\ c \in Nat
      /\ a < Modulus /\ b < Modulus /\ c < Modulus
  BY SizesAssumption DEF UInt
<1>1. CASE fn = "add"
  <2>1. \A x, y : Apply(fn, x, y) = (x + y) % Modulus
    BY <1>1 DEF Apply
  <2>2. a + b \in Nat /\ a + c \in Nat /\ (a + b) + c = (a + c) + b
    BY <1>0
  <2>3. (((a + b) % Modulus) + c) % Modulus = ((a + b) + c) % Modulus
    BY <1>0, <2>2, SumOfRest
  <2>4. (((a + c) % Modulus) + b) % Modulus = ((a + c) + b) % Modulus
    BY <1>0, <2>2, SumOfRest
  <2> QED BY <2>1, <2>2, <2>3, <2>4
<1>2. CASE fn = "sub"
  <2> DEFINE d == Modulus - b
             e == Modulus - c
  <2>1. d \in Nat /\ e \in Nat
    BY <1>0
  <2>2. \A x \in Nat : x + Modulus - b = x + d /\ x + Modulus - c = x + e
    BY <1>0
  <2>3. \A x, y : Apply(fn, x, y) = (x + Modulus - y) % Modulus
    BY <1>2 DEF Apply
  <2> HIDE DEF d, e
  <2>4. (a + d) % Modulus \in Nat /\ (a + e) % Modulus \in Nat
    BY <1>0, <2>1
  <2>5. Apply(fn, a, b) = (a + d) % Modulus /\ Apply(fn, a, c) = (a + e) % Modulus
    BY <1>0, <2>2, <2>3
  <2>6. /\ Apply(fn, Apply(fn, a, b), c) = (((a + d) % Modulus) + e) % Modulus
        /\ Apply(fn, Apply(fn, a, c), b) = (((a + e) % Modulus) + d) % Modulus
    BY <2>2, <2>3, <2>4, <2>5
  <2>7. a + d \in Nat /\ a + e \in Nat /\ (a + d) + e = (a + e) + d
    BY <1>0, <2>1
  <2>8. (((a + d) % Modulus) + e) % Modulus = ((a + d) + e) % Modulus
    BY <2>1, <2>7, SumOfRest
  <2>9. (((a + e) % Modulus) + d) % Modulus = ((a + e) + d) % Modulus
    BY <2>1, <2>7, SumOfRest
  <2> QED BY <2>6, <2>7, <2>8, <2>9
<1>3. CASE fn = "min"
  <2>1. \A x, y : Apply(fn, x, y) = IF x < y THEN x ELSE y
    BY <1>3 DEF Apply
  <2> QED BY <1>0, <2>1
<1>4. CASE fn = "max"
  <2>1. \A x, y : Apply(fn, x, y) = IF x < y THEN y ELSE x
    BY <1>4 DEF Apply
  <2> QED BY <1>0, <2>1
<1>5. /\ Bits(a) \in SUBSET BitsOfWord /\ Bits(b) \in SUBSET BitsOfWord
      /\ Bits(c) \in SUBSET BitsOfWord
  BY DEF Bits
<1>6. \A bits \in SUBSET BitsOfWord : Bits(OfBits(bits)) = bits
  BY BitsAssumption DEF OfBits
<1> DEFINE A == Bits(a)
           B == Bits(b)
           C == Bits(c)
<1> HIDE DEF A, B, C
<1>7. A \in SUBSET BitsOfWord /\ B \in SUBSET BitsOfWord /\ C \in SUBSET BitsOfWord
  BY <1>5 DEF A, B, C
<1>8. CASE fn = "and"
  <2>1. \A x, y : Apply(fn, x, y) = OfBits(Bits(x) \cap Bits(y))
    BY <1>8 DEF Apply
  <2>2. Bits(OfBits(A \cap B)) = A \cap B /\ Bits(OfBits(A \cap C)) = A \cap C
    BY <1>6, <1>7
  <2>3. (A \cap B) \cap C = (A \cap C) \cap B
    OBVIOUS
  <2>4. /\ Apply(fn, Apply(fn, a, b), c) = OfBits((A \cap B) \cap C)
        /\ Apply(fn, Apply(fn, a, c), b) = OfBits((A \cap C) \cap B)
    <3>1. Apply(fn, a, b) = OfBits(A \cap B) /\ Apply(fn, a, c) = OfBits(A \cap C)
      BY <2>1 DEF A, B, C
    <3>2. /\ Apply(fn, OfBits(A \cap B), c) = OfBits(Bits(OfBits(A \cap B)) \cap C)
          /\ Apply(fn, OfBits(A \cap C), b) = OfBits(Bits(OfBits(A \cap C)) \cap B)
      BY <2>1 DEF B, C
    <3> QED BY <2>2, <3>1, <3>2
  <2> QED BY <2>3, <2>4
<1>9. CASE fn = "or"
  <2>1. \A x, y : Apply(fn, x, y) = OfBits(Bits(x) \cup Bits(y))
    BY <1>9 DEF Apply
  <2>2. Bits(OfBits(A \cup B)) = A \cup B /\ Bits(OfBits(A \cup C)) = A \cup C
    BY <1>6, <1>7
  <2>3. (A \cup B) \cup C = (A \cup C) \cup B
    OBVIOUS
  <2>4. /\ Apply(fn, Apply(fn, a, b), c) = OfBits((A \cup B) \cup C)
        /\ Apply(fn, Apply(fn, a, c), b) = OfBits((A \cup C) \cup B)
    <3>1. Apply(fn, a, b) = OfBits(A \cup B) /\ Apply(fn, a, c) = OfBits(A \cup C)
      BY <2>1 DEF A, B, C
    <3>2. /\ Apply(fn, OfBits(A \cup B), c) = OfBits(Bits(OfBits(A \cup B)) \cup C)
          /\ Apply(fn, OfBits(A \cup C), b) = OfBits(Bits(OfBits(A \cup C)) \cup B)
      BY <2>1 DEF B, C
    <3> QED BY <2>2, <3>1, <3>2
  <2> QED BY <2>3, <2>4
<1>10. CASE fn = "xor"
  <2> DEFINE D(x, y) == (x \cup y) \ (x \cap y)
  <2>1. \A x, y : Apply(fn, x, y) = OfBits(D(Bits(x), Bits(y)))
    BY <1>10 DEF Apply
  <2>2. D(A, B) \in SUBSET BitsOfWord /\ D(A, C) \in SUBSET BitsOfWord
    BY <1>7
  <2>3. Bits(OfBits(D(A, B))) = D(A, B) /\ Bits(OfBits(D(A, C))) = D(A, C)
    BY <1>6, <2>2
  <2>4. D(D(A, B), C) = D(D(A, C), B)
    OBVIOUS
  <2> HIDE DEF D
  <2> QED BY <2>1, <2>3, <2>4 DEF A, B, C
<1> QED BY <1>1, <1>2, <1>3, <1>4, <1>8, <1>9, <1>10 DEF AtomicFunctions

\* f lists what the first work-items have combined.
Upto(fn, base, x, L, N, f) ==
    f = [n \in 0 .. N |->
            IF n = 0 THEN base
            ELSE IF n - 1 \in L THEN Apply(fn, f[n - 1], x[n - 1])
            ELSE f[n - 1]]

\* There is such a list.
LEMMA UptoExists ==
    ASSUME NEW fn, NEW base, NEW x, NEW L
    PROVE  \A N \in Nat : \E f : Upto(fn, base, x, L, N, f)
<1> DEFINE T == {N \in Nat : \E f : Upto(fn, base, x, L, N, f)}
<1>1. 0 \in T
  <2> DEFINE h == [n \in 0 .. 0 |-> base]
  <2>1. h = [n \in 0 .. 0 |-> IF n = 0 THEN base
                              ELSE IF n - 1 \in L THEN Apply(fn, h[n - 1], x[n - 1]) ELSE h[n - 1]]
    OBVIOUS
  <2> HIDE DEF h
  <2>2. Upto(fn, base, x, L, 0, h)
    BY <2>1 DEF Upto
  <2> QED BY <2>2
<1>2. ASSUME NEW N \in T PROVE N + 1 \in T
  <2>1. PICK f : Upto(fn, base, x, L, N, f)
    OBVIOUS
  <2> DEFINE last == IF N \in L THEN Apply(fn, f[N], x[N]) ELSE f[N]
             h == [n \in 0 .. N + 1 |-> IF n <= N THEN f[n] ELSE last]
  <2>2. \A n \in 0 .. N : f[n] = IF n = 0 THEN base
                                ELSE IF n - 1 \in L THEN Apply(fn, f[n - 1], x[n - 1]) ELSE f[n - 1]
    BY <2>1 DEF Upto
  <2>3. h[N + 1] = last /\ \A n \in 0 .. N : h[n] = f[n]
    OBVIOUS
  <2>4. ASSUME NEW n \in 0 .. N + 1
        PROVE  h[n] = IF n = 0 THEN base
                      ELSE IF n - 1 \in L THEN Apply(fn, h[n - 1], x[n - 1]) ELSE h[n - 1]
    <3> HIDE DEF h
    <3>1. CASE n = N + 1
      <4>1. n - 1 = N /\ N \in 0 .. N /\ n # 0
        BY <3>1
      <4> QED BY <2>3, <3>1, <4>1
    <3>2. CASE n \in 1 .. N
      <4>1. n - 1 \in 0 .. N /\ n \in 0 .. N
        BY <3>2
      <4> QED BY <2>2, <2>3, <4>1
    <3>3. CASE n = 0
      BY <2>2, <2>3, <3>3
    <3> QED BY <3>1, <3>2, <3>3
  <2>5. h = [n \in 0 .. N + 1 |-> IF n = 0 THEN base
                ELSE IF n - 1 \in L THEN Apply(fn, h[n - 1], x[n - 1]) ELSE h[n - 1]]
    <3> DEFINE k == [n \in 0 .. N + 1 |-> IF n = 0 THEN base
                ELSE IF n - 1 \in L THEN Apply(fn, h[n - 1], x[n - 1]) ELSE h[n - 1]]
    <3>1. \A n \in 0 .. N + 1 : h[n] = k[n]
      BY <2>4
    <3>2. h = [n \in 0 .. N + 1 |-> h[n]] /\ k = [n \in 0 .. N + 1 |-> k[n]]
      OBVIOUS
    <3> HIDE DEF h, k
    <3>3. h = k
      BY <3>1, <3>2
    <3> QED BY <3>3 DEF k
  <2> HIDE DEF h
  <2>6. Upto(fn, base, x, L, N + 1, h)
    BY <2>5 DEF Upto
  <2> QED BY <2>6
<1>3. T = Nat
  <2>1. T \in SUBSET Nat
    OBVIOUS
  <2> HIDE DEF T
  <2> QED BY <1>1, <1>2, <2>1, NatSet
<1> QED BY <1>3

\* What Combined computes, one work-item after the other.
LEMMA CombinedList ==
    ASSUME NEW fn, NEW base, NEW x, NEW L
    PROVE  \E f : /\ Combined(fn, base, x, L) = f[Size]
                  /\ f[0] = base
                  /\ \A n \in Lids : f[n + 1] = IF n \in L THEN Apply(fn, f[n], x[n]) ELSE f[n]
<1> DEFINE f == CHOOSE f : Upto(fn, base, x, L, Size, f)
<1>0. Size \in Nat /\ 0 \in 0 .. Size
  BY SizesAssumption
<1>1. Upto(fn, base, x, L, Size, f)
  BY <1>0, UptoExists
<1>2. Combined(fn, base, x, L) = f[Size]
  BY DEF Combined, Upto
<1> HIDE DEF f
<1>3. \A n \in 0 .. Size : f[n] = IF n = 0 THEN base
                              ELSE IF n - 1 \in L THEN Apply(fn, f[n - 1], x[n - 1]) ELSE f[n - 1]
  BY <1>1 DEF Upto
<1>4. f[0] = base
  BY <1>0, <1>3
<1>5. ASSUME NEW n \in Lids PROVE f[n + 1] = IF n \in L THEN Apply(fn, f[n], x[n]) ELSE f[n]
  <2>1. PICK k \in 0 .. Size : k = n + 1 /\ k # 0 /\ k - 1 = n
    BY <1>0 DEF Lids
  <2>2. f[k] = IF k - 1 \in L THEN Apply(fn, f[k - 1], x[k - 1]) ELSE f[k - 1]
    BY <1>3, <2>1
  <2>3. f[k] = IF n \in L THEN Apply(fn, f[n], x[n]) ELSE f[n]
    BY <2>1, <2>2
  <2> QED BY <2>1, <2>3
<1> QED BY <1>2, <1>4, <1>5

\* Numbers up to Size: 0 and with each the next one.
LEMMA UptoSize ==
    ASSUME NEW T, 0 \in T, \A n \in Lids : n \in T => n + 1 \in T
    PROVE  Size \in T /\ \A n \in Lids : n \in T
<1> DEFINE S == {n \in Nat : n <= Size => n \in T}
<1>0. Size \in Nat
  BY SizesAssumption
<1>1. 0 \in S
  OBVIOUS
<1>2. ASSUME NEW n \in S PROVE n + 1 \in S
  <2>1. n + 1 <= Size => n \in Lids /\ n <= Size
    BY <1>0 DEF Lids
  <2> QED BY <2>1
<1>3. S = Nat
  <2>1. S \in SUBSET Nat
    OBVIOUS
  <2> HIDE DEF S
  <2> QED BY <1>1, <1>2, <2>1, NatSet
<1>4. \A n \in Nat : n <= Size => n \in T
  BY <1>3
<1>5. \A n \in Lids : n \in Nat /\ n <= Size
  BY <1>0 DEF Lids
<1> QED BY <1>0, <1>4, <1>5

\* It is a value.
LEMMA CombinedType ==
    ASSUME NEW fn \in AtomicFunctions, NEW base \in UInt, NEW x \in [Lids -> UInt], NEW L
    PROVE  Combined(fn, base, x, L) \in UInt
<1>1. PICK f : /\ Combined(fn, base, x, L) = f[Size]
               /\ f[0] = base
               /\ \A n \in Lids : f[n + 1] = IF n \in L THEN Apply(fn, f[n], x[n]) ELSE f[n]
  BY CombinedList
<1> DEFINE T == {n \in Nat : f[n] \in UInt}
<1>2. 0 \in T
  BY <1>1
<1>3. ASSUME NEW n \in Lids, n \in T PROVE n + 1 \in T
  <2>1. f[n] \in UInt /\ x[n] \in UInt /\ n + 1 \in Nat
    BY <1>3
  <2>2. Apply(fn, f[n], x[n]) \in UInt
    BY <2>1, ApplyType
  <2> QED BY <1>1, <2>1, <2>2
<1>4. Size \in T
  <2> HIDE DEF T
  <2> QED BY <1>2, <1>3, UptoSize
<1> QED BY <1>1, <1>4

\* Nobody adds nothing.
LEMMA CombinedNone ==
    ASSUME NEW fn, NEW base, NEW x
    PROVE  Combined(fn, base, x, {}) = base
<1>1. PICK f : /\ Combined(fn, base, x, {}) = f[Size]
               /\ f[0] = base
               /\ \A n \in Lids : f[n + 1] = IF n \in {} THEN Apply(fn, f[n], x[n]) ELSE f[n]
  BY CombinedList
<1> DEFINE T == {n \in Nat : f[n] = base}
<1>2. 0 \in T
  BY <1>1
<1>3. ASSUME NEW n \in Lids, n \in T PROVE n + 1 \in T
  BY <1>1, <1>3
<1>4. Size \in T
  <2> HIDE DEF T
  <2> QED BY <1>2, <1>3, UptoSize
<1> QED BY <1>1, <1>4

\* One more work-item adds its operand, whatever its place.
LEMMA CombinedOne ==
    ASSUME NEW fn \in AtomicFunctions, NEW base \in UInt, NEW x \in [Lids -> UInt],
           NEW L, NEW l \in Lids, l \notin L
    PROVE  Combined(fn, base, x, L \cup {l}) = Apply(fn, Combined(fn, base, x, L), x[l])
<1>1. PICK f : /\ Combined(fn, base, x, L) = f[Size]
               /\ f[0] = base
               /\ \A n \in Lids : f[n + 1] = IF n \in L THEN Apply(fn, f[n], x[n]) ELSE f[n]
  BY CombinedList
<1> DEFINE M == L \cup {l}
<1>2. PICK h : /\ Combined(fn, base, x, M) = h[Size]
               /\ h[0] = base
               /\ \A n \in Lids : h[n + 1] = IF n \in M THEN Apply(fn, h[n], x[n]) ELSE h[n]
  BY CombinedList
<1>3. l \in Nat /\ Size \in Nat /\ ~(Size <= l)
  BY SizesAssumption DEF Lids
<1> DEFINE T == {n \in Nat : /\ f[n] \in UInt
                             /\ h[n] = IF n <= l THEN f[n] ELSE Apply(fn, f[n], x[l])}
<1>4. 0 \in T
  BY <1>1, <1>2, <1>3
<1>5. ASSUME NEW n \in Lids, n \in T PROVE n + 1 \in T
  <2>1. n \in Nat /\ f[n] \in UInt /\ x[n] \in UInt /\ x[l] \in UInt
        /\ h[n] = IF n <= l THEN f[n] ELSE Apply(fn, f[n], x[l])
    BY <1>5
  <2>2. /\ f[n + 1] = IF n \in L THEN Apply(fn, f[n], x[n]) ELSE f[n]
        /\ h[n + 1] = IF n \in M THEN Apply(fn, h[n], x[n]) ELSE h[n]
    BY <1>1, <1>2
  <2> DEFINE a == f[n]
             y == x[n]
             z == x[l]
  <2> HIDE DEF a, y, z, M
  <2>3. Apply(fn, a, y) \in UInt
    BY <2>1, ApplyType DEF a, y
  <2>4. f[n + 1] \in UInt
    BY <2>1, <2>2, <2>3 DEF a, y
  <2>5. CASE n < l
    <3>1. n \in M <=> n \in L
      BY <1>3, <2>1, <2>5 DEF M
    <3>2. n <= l /\ n + 1 <= l
      BY <1>3, <2>1, <2>5
    <3>3. h[n + 1] = f[n + 1]
      BY <2>1, <2>2, <3>1, <3>2
    <3> QED BY <2>1, <2>4, <3>2, <3>3
  <2>6. CASE n = l
    <3>1. n \in M /\ n \notin L /\ n <= l /\ ~(n + 1 <= l)
      BY <1>3, <2>1, <2>6 DEF M
    <3>2. h[n + 1] = Apply(fn, f[n], x[n]) /\ f[n + 1] = f[n]
      BY <2>1, <2>2, <3>1
    <3> QED BY <2>1, <2>4, <2>6, <3>1, <3>2
  <2>7. CASE n > l
    <3>1. (n \in M <=> n \in L) /\ ~(n <= l) /\ ~(n + 1 <= l)
      BY <1>3, <2>1, <2>7 DEF M
    <3>2. CASE n \in L
      <4>1. Apply(fn, Apply(fn, a, z), y) = Apply(fn, Apply(fn, a, y), z)
        BY <2>1, ApplyTwice DEF a, y, z
      <4>2. h[n + 1] = Apply(fn, Apply(fn, a, z), y) /\ f[n + 1] = Apply(fn, a, y)
        BY <2>1, <2>2, <3>1, <3>2 DEF a, y, z
      <4>3. h[n + 1] = Apply(fn, f[n + 1], x[l])
        BY <4>1, <4>2 DEF z
      <4> QED BY <2>1, <2>4, <3>1, <4>3
    <3>3. CASE n \notin L
      <4>1. h[n + 1] = Apply(fn, f[n + 1], x[l])
        BY <2>1, <2>2, <3>1, <3>3
      <4> QED BY <2>1, <2>4, <3>1, <4>1
    <3> QED BY <3>2, <3>3
  <2> QED BY <1>3, <2>1, <2>5, <2>6, <2>7
<1>6. Size \in T
  <2> HIDE DEF T
  <2> QED BY <1>4, <1>5, UptoSize
<1>7. h[Size] = Apply(fn, f[Size], x[l])
  BY <1>3, <1>6
<1> QED BY <1>1, <1>2, <1>7

-----------------------------------------------------------------------------
(* What the statements mean                                                *)

\* f lists what the first statements of q mean to the group g.
Means(g, q, N, f) ==
    f = [n \in 0 .. N |-> IF n = 0 THEN Fresh ELSE After(f[n - 1], g, q[n])]

\* There is such a list.
LEMMA MeansExists ==
    ASSUME NEW g, NEW q
    PROVE  \A N \in Nat : \E f : Means(g, q, N, f)
<1> DEFINE T == {N \in Nat : \E f : Means(g, q, N, f)}
<1>1. 0 \in T
  <2> DEFINE h == [n \in 0 .. 0 |-> Fresh]
  <2>1. h = [n \in 0 .. 0 |-> IF n = 0 THEN Fresh ELSE After(h[n - 1], g, q[n])]
    OBVIOUS
  <2> HIDE DEF h
  <2>2. Means(g, q, 0, h)
    BY <2>1 DEF Means
  <2> QED BY <2>2
<1>2. ASSUME NEW N \in T PROVE N + 1 \in T
  <2>1. PICK f : Means(g, q, N, f)
    OBVIOUS
  <2> DEFINE last == After(f[N], g, q[N + 1])
             h == [n \in 0 .. N + 1 |-> IF n <= N THEN f[n] ELSE last]
  <2>2. \A n \in 0 .. N : f[n] = IF n = 0 THEN Fresh ELSE After(f[n - 1], g, q[n])
    BY <2>1 DEF Means
  <2>3. h[N + 1] = last /\ \A n \in 0 .. N : h[n] = f[n]
    OBVIOUS
  <2>4. ASSUME NEW n \in 0 .. N + 1
        PROVE  h[n] = IF n = 0 THEN Fresh ELSE After(h[n - 1], g, q[n])
    <3> HIDE DEF h
    <3>1. CASE n = N + 1
      <4>1. n - 1 = N /\ N \in 0 .. N /\ n # 0
        BY <3>1
      <4> QED BY <2>3, <3>1, <4>1
    <3>2. CASE n \in 1 .. N
      <4>1. n - 1 \in 0 .. N /\ n \in 0 .. N
        BY <3>2
      <4> QED BY <2>2, <2>3, <4>1
    <3>3. CASE n = 0
      BY <2>2, <2>3, <3>3
    <3> QED BY <3>1, <3>2, <3>3
  <2>5. h = [n \in 0 .. N + 1 |-> IF n = 0 THEN Fresh ELSE After(h[n - 1], g, q[n])]
    <3> DEFINE k == [n \in 0 .. N + 1 |-> IF n = 0 THEN Fresh ELSE After(h[n - 1], g, q[n])]
    <3>1. \A n \in 0 .. N + 1 : h[n] = k[n]
      BY <2>4
    <3>2. h = [n \in 0 .. N + 1 |-> h[n]] /\ k = [n \in 0 .. N + 1 |-> k[n]]
      OBVIOUS
    <3> HIDE DEF h, k
    <3>3. h = k
      BY <3>1, <3>2
    <3> QED BY <3>3 DEF k
  <2> HIDE DEF h
  <2>6. Means(g, q, N + 1, h)
    BY <2>5 DEF Means
  <2> QED BY <2>6
<1>3. T = Nat
  <2>1. T \in SUBSET Nat
    OBVIOUS
  <2> HIDE DEF T
  <2> QED BY <1>1, <1>2, <2>1, NatSet
<1> QED BY <1>3

\* What MeantAfter computes, one statement after the other.
LEMMA MeantList ==
    ASSUME NEW g, prog \in Seq(Statement)
    PROVE  \E f : /\ MeantAfter(g) = f[Len(prog)]
                  /\ f[0] = Fresh
                  /\ \A n \in 1 .. Len(prog) : f[n] = After(f[n - 1], g, prog[n])
<1> DEFINE f == CHOOSE f : Means(g, prog, Len(prog), f)
<1>0. Len(prog) \in Nat
  OBVIOUS
<1>1. Means(g, prog, Len(prog), f)
  BY <1>0, MeansExists
<1>2. MeantAfter(g) = f[Len(prog)]
  BY DEF MeantAfter, Means
<1> HIDE DEF f
<1>3. \A n \in 0 .. Len(prog) : f[n] = IF n = 0 THEN Fresh ELSE After(f[n - 1], g, prog[n])
  BY <1>1 DEF Means
<1>4. f[0] = Fresh
  BY <1>0, <1>3
<1>5. \A n \in 1 .. Len(prog) : f[n] = After(f[n - 1], g, prog[n])
  BY <1>0, <1>3
<1> QED BY <1>2, <1>4, <1>5

-----------------------------------------------------------------------------
(* What a group does to the buffers of atomics on its way                  *)

\* What the group has collected, what its reductions come to, and which of its
\* work-items come to which sections, when it is at a place.
Ledgers ==
    [coll : UInt, red : [Spaces -> UInt], come : SUBSET (Lids \X (Nat \ {0}))]

\* What a group has before it runs.
Blank == [coll |-> 0, red |-> [sp \in Spaces |-> 0], come |-> {}]

\* A barrier that ends a reduction.
Fires(i) == i > 1 /\ code[i].op = "barrier" /\ code[i - 1].op = "atomic"

\* What the work-item l adds to the reduction in front of the barrier i, if the
\* others have x in common.
OperandAt(g, i, x, l) ==
    LET e == code[i - 2].expr
    IN  ((IF e.source = "id" THEN (g * Size + l + e.add) % Modulus ELSE x)
            + IF code[i - 1].addGlobal THEN g * Size + l ELSE 0) % Modulus

\* What all of them add.
OperandsAt(g, i, x) == [l \in Lids |-> OperandAt(g, i, x, l)]

\* The work-items that take the divided branch at i.
TakersAt(g, i) == {l \in Lids : (g * Size + l + code[i - 1].expr.add) % Modulus # 0}

\* Those that come to a section from the place i.
Coming(g, i) ==
    IF code[i].op = "section" THEN Lids \X {i}
    ELSE IF Divided(i) /\ code[i].skip # 0 THEN TakersAt(g, i) \X {i + 1}
    ELSE {}

\* The ledger l after the instruction at the place of s.
Book(g, s, l) ==
    LET i == s.place
    IN  [coll |-> IF code[i].op = "collect" THEN (l.coll + l.red[code[i].space]) % Modulus
                  ELSE l.coll,
         red  |-> IF Fires(i)
                    THEN [l.red EXCEPT ![code[i - 1].space] =
                            Combined(code[i - 1].fn, @, OperandsAt(g, i, s.reg), Lids)]
                    ELSE l.red,
         come |-> l.come \cup Coming(g, i)]

\* The ledgers at the places of path.
Booked(g, n, path, books) ==
    /\ TraceOK(g, n, path)
    /\ books[1] = Blank
    /\ \A k \in 1 .. n - 1 : books[k + 1] = Book(g, path[k], books[k])
    /\ \A k \in 1 .. n : \A p \in books[k].come :
          p[2] <= Len(code) /\ p[2] < path[k].place /\ code[p[2]].op = "section"
    /\ \A k, m \in 1 .. n : k < m =>
          /\ path[k].bar = path[m].bar => books[k].red = books[m].red
          /\ books[k].come \subseteq books[m].come
          /\ \A p \in books[m].come : p[2] < path[k].place => p \in books[k].come

\* The group g comes to s on its way, with the ledger l.
Visits(g, s, l) ==
    \E n \in Nat \ {0} : \E path \in [1 .. n -> States] : \E books \in [1 .. n -> Ledgers] :
        Booked(g, n, path, books) /\ path[n] = s /\ books[n] = l

\* The fields of the instructions of a reduction.
LEMMA ReductionFields ==
    ASSUME NEW x \in Instruction
    PROVE  /\ x.op = "atomic" => x.fn \in AtomicFunctions /\ x.space \in Spaces /\ x.addGlobal \in BOOLEAN
           /\ x.op \in {"collect", "store"} => x.space \in Spaces
           /\ x.op = "eval" => x.expr \in Expression /\ x.expr.add \in Nat
<1>1. x.op = "atomic" => x.fn \in AtomicFunctions /\ x.space \in Spaces /\ x.addGlobal \in BOOLEAN
  BY DEF Instruction
<1>2. x.op \in {"collect", "store"} => x.space \in Spaces
  BY DEF Instruction
<1>3. x.op = "eval" => x.expr \in Expression
  BY DEF Instruction
<1>4. \A e \in Expression : e.add \in Nat
  BY DEF Expression
<1> QED BY <1>1, <1>2, <1>3, <1>4

\* The code in front of a barrier that ends a reduction.
LEMMA FiresFacts ==
    ASSUME Ready, NEW i \in 1 .. Len(code), Fires(i)
    PROVE  /\ i - 1 \in 1 .. Len(code) /\ i - 2 \in 1 .. Len(code)
           /\ code[i - 1].op = "atomic" /\ code[i - 2].op = "eval"
           /\ code[i - 1].fn \in AtomicFunctions /\ code[i - 1].space \in Spaces
           /\ code[i - 1].addGlobal \in BOOLEAN
           /\ code[i - 2].expr \in Expression /\ code[i - 2].expr.add \in Nat
<1>1. i - 1 \in 1 .. Len(code) /\ code[i - 1].op = "atomic"
  BY CodeFacts DEF Fires
<1>2. LaidAt(code, i - 1) /\ code[i - 1] \in Instruction
  BY <1>1, CodeFacts
<1> DEFINE j == i - 1
<1>3. j > 1 /\ code[j - 1].op = "eval"
  BY <1>1, <1>2 DEF LaidAt
<1>4. j - 1 = i - 2
  BY <1>1
<1>5. i - 2 \in 1 .. Len(code)
  BY <1>1, <1>3, <1>4
<1>6. code[i - 2].op = "eval"
  BY <1>3, <1>4
<1> QED BY <1>1, <1>2, <1>5, <1>6, ReductionFields, CodeFacts

\* What the work-items add are values.
LEMMA OperandsType ==
    ASSUME Ready, NEW i \in 1 .. Len(code), Fires(i), NEW g \in Groups, NEW x \in UInt
    PROVE  OperandsAt(g, i, x) \in [Lids -> UInt]
<1> SUFFICES ASSUME NEW l \in Lids PROVE OperandAt(g, i, x, l) \in UInt
  BY DEF OperandsAt
<1> DEFINE e == code[i - 2].expr
           y == IF e.source = "id" THEN (g * Size + l + e.add) % Modulus ELSE x
           z == IF code[i - 1].addGlobal THEN g * Size + l ELSE 0
<1>0. Size \in Nat /\ g \in Nat /\ l \in Nat /\ e.add \in Nat
  BY FiresFacts, SizesAssumption DEF Lids, Groups
<1>1. g * Size \in Nat
  BY <1>0
<1>2. g * Size + l \in Nat /\ g * Size + l + e.add \in Int
  BY <1>0, <1>1
<1>3. y \in Nat
  <2>1. (g * Size + l + e.add) % Modulus \in UInt
    BY <1>2, Reduced
  <2>2. \A u \in UInt : u \in Nat
    BY SizesAssumption DEF UInt
  <2> QED BY <2>1, <2>2
<1>4. z \in Nat
  BY <1>2
<1>5. y + z \in Int
  BY <1>3, <1>4
<1> HIDE DEF y, z
<1>6. (y + z) % Modulus \in UInt
  BY <1>5, Reduced
<1> QED BY <1>6 DEF OperandAt, y, z

\* Who comes to a section from a place comes to one behind it, in front of the
\* next place.
LEMMA ComingFacts ==
    ASSUME Ready, NEW g \in Groups, NEW s, s.place \in 1 .. Len(code)
    PROVE  /\ Coming(g, s.place) \subseteq Lids \X (Nat \ {0})
           /\ \A p \in Coming(g, s.place) :
                 /\ p[2] \in 1 .. Len(code) /\ code[p[2]].op = "section"
                 /\ p[2] >= s.place /\ p[2] < NextPlace(s)
<1> DEFINE i == s.place
<1>1. CASE code[i].op = "section"
  <2>1. Coming(g, i) = Lids \X {i}
    BY <1>1 DEF Coming
  <2>2. i < NextPlace(s)
    BY NextPlaceFacts, CodeFacts
  <2> QED BY <1>1, <2>1, <2>2, CodeFacts
<1>2. CASE code[i].op # "section" /\ Divided(i) /\ code[i].skip # 0
  <2>1. Coming(g, i) = TakersAt(g, i) \X {i + 1}
    BY <1>2 DEF Coming
  <2>2. i < Len(code) /\ code[i + 1].op = "section" /\ i \in Nat
    BY <1>2, CodeFacts DEF Divided, LaidAt
  <2>3. i + 1 \in 1 .. Len(code) /\ i + 1 > 1 /\ (i + 1) - 1 = i
    BY <2>2, CodeFacts
  <2>4. PassedBy(i + 1)
    <3>1. PICK j : j = i + 1 /\ j - 1 = i
      BY <2>3
    <3> QED BY <1>2, <2>2, <2>3, <3>1 DEF PassedBy
  <2>5. Home(i + 1) = i + 1 + 2
    BY <2>2, <2>3, <2>4 DEF Home
  <2>6. ~Skips(s)
    BY <1>2 DEF Skips, Divided
  <2>7. NextPlace(s) = Home(i + 1)
    BY <2>2, <2>6 DEF NextPlace
  <2>8. TakersAt(g, i) \subseteq Lids
    BY DEF TakersAt
  <2> QED BY <2>1, <2>2, <2>3, <2>5, <2>7, <2>8, CodeFacts
<1>3. CASE code[i].op # "section" /\ ~(Divided(i) /\ code[i].skip # 0)
  BY <1>3 DEF Coming
<1> QED BY <1>1, <1>2, <1>3

\* An instruction takes ledgers to ledgers.
LEMMA BookType ==
    ASSUME Ready, NEW g \in Groups, NEW s \in States, s.place <= Len(code), NEW l \in Ledgers
    PROVE  Book(g, s, l) \in Ledgers
<1> DEFINE i == s.place
<1>0. i \in 1 .. Len(code) /\ s.reg \in UInt
  BY CodeFacts DEF States
<1>1. l.coll \in UInt /\ l.red \in [Spaces -> UInt] /\ l.come \subseteq Lids \X (Nat \ {0})
  BY DEF Ledgers
<1>2. Book(g, s, l).coll \in UInt
  <2>1. CASE code[i].op = "collect"
    <3>1. l.red[code[i].space] \in UInt
      BY <1>0, <1>1, <2>1, CodeFacts, ReductionFields
    <3>2. \A x, y \in UInt : x + y \in Int
      BY SizesAssumption DEF UInt
    <3>3. (l.coll + l.red[code[i].space]) % Modulus \in UInt
      BY <1>1, <3>1, <3>2, Reduced
    <3> QED BY <2>1, <3>3 DEF Book
  <2>2. CASE code[i].op # "collect"
    BY <1>1, <2>2 DEF Book
  <2> QED BY <2>1, <2>2
<1>3. Book(g, s, l).red \in [Spaces -> UInt]
  <2>1. CASE Fires(i)
    <3> DEFINE sp == code[i - 1].space
               x == OperandsAt(g, i, s.reg)
               y == Combined(code[i - 1].fn, l.red[sp], x, Lids)
    <3>1. sp \in Spaces /\ code[i - 1].fn \in AtomicFunctions
      BY <1>0, <2>1, FiresFacts
    <3>2. x \in [Lids -> UInt]
      BY <1>0, <2>1, OperandsType
    <3>3. y \in UInt
      BY <1>1, <3>1, <3>2, CombinedType
    <3>4. Book(g, s, l).red = [l.red EXCEPT ![sp] = y]
      BY <2>1 DEF Book
    <3> HIDE DEF y, sp
    <3> QED BY <1>1, <3>1, <3>3, <3>4
  <2>2. CASE ~Fires(i)
    BY <1>1, <2>2 DEF Book
  <2> QED BY <2>1, <2>2
<1>4. Book(g, s, l).come \subseteq Lids \X (Nat \ {0})
  BY <1>0, <1>1, ComingFacts DEF Book
<1>5. Book(g, s, l) = [coll |-> Book(g, s, l).coll, red |-> Book(g, s, l).red,
                       come |-> Book(g, s, l).come]
  BY DEF Book
<1> HIDE DEF i
<1> QED BY <1>2, <1>3, <1>4, <1>5 DEF Ledgers

\* Without a barrier the reductions stay.
LEMMA RedKept ==
    ASSUME NEW g, NEW s, NEW l, code[s.place].op # "barrier"
    PROVE  Book(g, s, l).red = l.red
BY DEF Book, Fires

\* The ledgers on the longer way.
LEMMA LongerBooked ==
    ASSUME Ready, NEW g \in Groups, NEW n \in Nat \ {0}, NEW path \in [1 .. n -> States],
           NEW books \in [1 .. n -> Ledgers], Booked(g, n, path, books),
           path[n].place <= Len(code)
    PROVE  \E longer \in [1 .. n + 1 -> States], more \in [1 .. n + 1 -> Ledgers] :
              /\ Booked(g, n + 1, longer, more)
              /\ longer[n + 1] = Effect(g, path[n])
              /\ more[n + 1] = Book(g, path[n], books[n])
<1> DEFINE s == path[n]
           r == Effect(g, s)
           l == books[n]
           b == Book(g, s, l)
           more == [k \in 1 .. n + 1 |-> IF k <= n THEN books[k] ELSE b]
<1>0. n \in 1 .. n /\ n + 1 \in 1 .. n + 1 /\ 1 \in 1 .. n /\ n = (n + 1) - 1 /\ n \in 1 .. (n + 1) - 1
  OBVIOUS
<1>1. s \in States /\ l \in Ledgers /\ s.place \in 1 .. Len(code) /\ s.bar \in Nat /\ s.bar < s.place
  BY <1>0, CodeFacts DEF States, Booked, TraceOK
<1>2. PICK longer \in [1 .. n + 1 -> States] :
          TraceOK(g, n + 1, longer) /\ \A k \in 1 .. n : longer[k] = path[k]
  BY Longer DEF Booked
<1>3. longer[n + 1] = r
  BY <1>0, <1>2 DEF TraceOK
<1>4. b \in Ledgers
  BY <1>1, BookType
<1>5. more \in [1 .. n + 1 -> Ledgers]
  BY <1>4
<1>6. more[n + 1] = b /\ \A k \in 1 .. n : more[k] = books[k]
  OBVIOUS
<1> HIDE DEF more
<1>7. more[1] = Blank
  BY <1>0, <1>6 DEF Booked
<1>8. \A k \in 1 .. (n + 1) - 1 : more[k + 1] = Book(g, longer[k], more[k])
  <2> TAKE k \in 1 .. (n + 1) - 1
  <2>1. CASE k = n
    BY <1>0, <1>2, <1>6, <2>1
  <2>2. CASE k # n
    <3>1. k \in 1 .. n - 1 /\ k + 1 \in 1 .. n /\ k \in 1 .. n
      BY <2>2
    <3> QED BY <1>2, <1>6, <3>1 DEF Booked
  <2> QED BY <2>1, <2>2
<1>9. r.place = NextPlace(s) /\ r.place > s.place /\ r.place \in Nat /\ s.place \in Nat
  BY <1>1, NextPlaceFacts, CodeFacts DEF Effect
<1>10. b.come = l.come \cup Coming(g, s.place)
  BY DEF Book
<1>11. \A k \in 1 .. n + 1 : \A p \in more[k].come :
          p[2] <= Len(code) /\ p[2] < longer[k].place /\ code[p[2]].op = "section"
  <2> SUFFICES ASSUME NEW k \in 1 .. n + 1, NEW p \in more[k].come
               PROVE  p[2] <= Len(code) /\ p[2] < longer[k].place /\ code[p[2]].op = "section"
    OBVIOUS
  <2>1. CASE k \in 1 .. n
    BY <1>2, <1>6, <2>1 DEF Booked
  <2>2. CASE k = n + 1
    <3>1. longer[k].place = r.place /\ p \in b.come
      BY <1>3, <1>6, <2>2
    <3>2. CASE p \in l.come
      <4>1. p[2] <= Len(code) /\ p[2] < s.place /\ code[p[2]].op = "section"
        BY <1>0, <3>2 DEF Booked
      <4>2. p[2] \in Nat
        BY <1>1, <3>2 DEF Ledgers
      <4> QED BY <1>9, <3>1, <4>1, <4>2
    <3>3. CASE p \in Coming(g, s.place)
      BY <1>1, <1>9, <3>1, <3>3, ComingFacts
    <3> QED BY <1>10, <3>1, <3>2, <3>3
  <2> QED BY <2>1, <2>2
<1>12. \A k, m \in 1 .. n + 1 : k < m =>
          /\ longer[k].bar = longer[m].bar => more[k].red = more[m].red
          /\ more[k].come \subseteq more[m].come
          /\ \A p \in more[m].come : p[2] < longer[k].place => p \in more[k].come
  <2> SUFFICES ASSUME NEW k \in 1 .. n + 1, NEW m \in 1 .. n + 1, k < m
               PROVE  /\ longer[k].bar = longer[m].bar => more[k].red = more[m].red
                      /\ more[k].come \subseteq more[m].come
                      /\ \A p \in more[m].come : p[2] < longer[k].place => p \in more[k].come
    OBVIOUS
  <2>1. k \in 1 .. n /\ longer[k] = path[k] /\ path[k] \in States /\ more[k] = books[k]
    BY <1>2, <1>6
  <2>2. CASE m \in 1 .. n
    BY <1>2, <1>6, <2>1, <2>2 DEF Booked
  <2>3. CASE m = n + 1
    <3>1. longer[m] = r /\ more[m] = b
      BY <1>3, <1>6, <2>3
    <3>2. /\ path[k].bar = s.bar => books[k].red = l.red
          /\ books[k].come \subseteq l.come
          /\ \A p \in l.come : p[2] < path[k].place => p \in books[k].come
          /\ path[k].place <= s.place /\ path[k].bar < path[k].place
      <4>1. CASE k = n
        BY <1>1, <4>1
      <4>2. CASE k # n
        <5>1. k < n
          BY <2>1, <4>2
        <5>2. path[k].place < s.place /\ path[k].bar < path[k].place
          BY <1>0, <2>1, <5>1 DEF Booked, TraceOK
        <5>3. path[k].place <= s.place
          BY <1>1, <2>1, <5>2 DEF States
        <5>4. /\ path[k].bar = s.bar => books[k].red = l.red
              /\ books[k].come \subseteq l.come
              /\ \A p \in l.come : p[2] < path[k].place => p \in books[k].come
          BY <1>0, <2>1, <5>1 DEF Booked
        <5> QED BY <5>2, <5>3, <5>4
      <4> QED BY <4>1, <4>2
    <3>3. ASSUME path[k].bar = r.bar PROVE books[k].red = b.red
      <4>1. r.bar = IF code[s.place].op = "barrier" THEN s.place ELSE s.bar
        BY DEF Effect
      <4>2. path[k].bar < s.place
        BY <1>1, <2>1, <3>2 DEF States
      <4>3. code[s.place].op # "barrier"
        BY <1>1, <3>3, <4>1, <4>2
      <4> QED BY <3>2, <3>3, <4>1, <4>3, RedKept
    <3>4. ASSUME NEW p \in b.come, p[2] < path[k].place PROVE p \in books[k].come
      <4>1. CASE p \in l.come
        BY <3>2, <3>4, <4>1
      <4>2. CASE p \in Coming(g, s.place)
        <5>1. p[2] >= s.place /\ p[2] \in Nat
          BY <1>1, <4>2, ComingFacts, CodeFacts
        <5> QED BY <1>1, <2>1, <3>2, <3>4, <5>1 DEF States
      <4> QED BY <1>10, <4>1, <4>2
    <3> HIDE DEF b, r, l, s
    <3> QED BY <1>10, <2>1, <3>1, <3>2, <3>3, <3>4
  <2> QED BY <2>2, <2>3
<1> HIDE DEF b, r, l, s
<1>13. Booked(g, n + 1, longer, more)
  BY <1>2, <1>7, <1>8, <1>11, <1>12 DEF Booked
<1> QED BY <1>3, <1>5, <1>6, <1>13 DEF b, r, l, s

\* The group is at its start.
LEMMA VisitsStart ==
    ASSUME Ready, NEW g \in Groups
    PROVE  Visits(g, Start, Blank)
<1> DEFINE path == [k \in 1 .. 1 |-> Start]
           books == [k \in 1 .. 1 |-> Blank]
<1>1. Start \in States
  BY SizesAssumption DEF Start, States, UInt
<1>2. Blank \in Ledgers
  BY SizesAssumption DEF Blank, Ledgers, UInt
<1>3. path \in [1 .. 1 -> States] /\ books \in [1 .. 1 -> Ledgers]
  BY <1>1, <1>2
<1>4. path[1] = Start /\ books[1] = Blank
  OBVIOUS
<1>5. Start.place = 1 /\ Start.bar = 0 /\ Start.local = 1 /\ Blank.come = {}
  BY DEF Start, Blank
<1>6. code[1].op = "init" /\ 1 <= Len(code) /\ 1 <= Len(code) + 1
  BY CodeFacts
<1> HIDE DEF path, books
<1>7. TraceOK(g, 1, path)
  BY <1>4, <1>5, <1>6 DEF TraceOK
<1>8. Booked(g, 1, path, books)
  BY <1>4, <1>5, <1>7 DEF Booked
<1>9. 1 \in Nat \ {0}
  OBVIOUS
<1> QED BY <1>3, <1>4, <1>8, <1>9 DEF Visits

\* It goes on from where it comes to.
LEMMA VisitsNext ==
    ASSUME Ready, NEW g \in Groups, NEW s, NEW l, Visits(g, s, l), s.place <= Len(code)
    PROVE  Visits(g, Effect(g, s), Book(g, s, l))
<1>1. PICK n \in Nat \ {0} : \E path \in [1 .. n -> States] : \E books \in [1 .. n -> Ledgers] :
          Booked(g, n, path, books) /\ path[n] = s /\ books[n] = l
  BY DEF Visits
<1>2. PICK path \in [1 .. n -> States], books \in [1 .. n -> Ledgers] :
          Booked(g, n, path, books) /\ path[n] = s /\ books[n] = l
  BY <1>1
<1>3. PICK longer \in [1 .. n + 1 -> States], more \in [1 .. n + 1 -> Ledgers] :
          /\ Booked(g, n + 1, longer, more)
          /\ longer[n + 1] = Effect(g, path[n])
          /\ more[n + 1] = Book(g, path[n], books[n])
  BY <1>2, LongerBooked
<1>4. PICK m \in Nat \ {0} : m = n + 1
  OBVIOUS
<1> QED BY <1>2, <1>3, <1>4 DEF Visits

\* What it comes to is of the right type.
LEMMA VisitsType ==
    ASSUME NEW g \in Groups, NEW s, NEW l, Visits(g, s, l)
    PROVE  /\ s \in States /\ l \in Ledgers /\ s.place <= Len(code) + 1
           /\ \A p \in l.come : p[2] <= Len(code) /\ p[2] < s.place /\ code[p[2]].op = "section"
<1>1. PICK n \in Nat \ {0} : \E path \in [1 .. n -> States] : \E books \in [1 .. n -> Ledgers] :
          Booked(g, n, path, books) /\ path[n] = s /\ books[n] = l
  BY DEF Visits
<1>2. PICK path \in [1 .. n -> States], books \in [1 .. n -> Ledgers] :
          Booked(g, n, path, books) /\ path[n] = s /\ books[n] = l
  BY <1>1
<1>3. n \in 1 .. n
  OBVIOUS
<1> QED BY <1>2, <1>3 DEF Booked, TraceOK

-----------------------------------------------------------------------------
(* What the code of a statement computes                                   *)

Meanings ==
    [local : UInt, global : UInt, collected : UInt, reduction : [Spaces -> UInt],
     counter : [Counters -> Nat], special : [Spaces -> [Counters -> UInt]]]

\* Those who come to sections with the counter c.
Comers(come, c) == {p \in come : code[p[2]].counter = c}

\* The special values are those of the sections whose turn has come.
SpecialsDue(m) ==
    /\ \A i \in 1 .. Len(code) : code[i].op = "section" =>
          m.special[code[i].space][code[i].counter] =
             IF m.counter[code[i].counter] > code[i].at THEN code[i + 1].add % Modulus ELSE 0
    /\ \A sp \in Spaces, c \in Counters :
          (\A i \in 1 .. Len(code) :
              ~(code[i].op = "section" /\ code[i].space = sp /\ code[i].counter = c))
            => m.special[sp][c] = 0

\* What the group has in common at s, with the ledger l, is what m says.
Agrees(m, s, l) ==
    /\ m \in Meanings /\ SpecialsDue(m)
    /\ m.local = s.local /\ m.global = s.global
    /\ m.collected = l.coll /\ m.reduction = l.red
    /\ \A c \in Counters : m.counter[c] = Cardinality(Comers(l.come, c))

\* The group comes to the place j, and to the values of m.
Reaches(g, j, m) ==
    \E s \in States, l \in Ledgers : Visits(g, s, l) /\ s.place = j /\ Agrees(m, s, l)

\* The instructions of d are those of the code behind the place n.
Lies(d, n) == n + Len(d) <= Len(code) /\ \A k \in 1 .. Len(d) : code[n + k] = d[k]

\* An instruction that leaves the ledger as it is.
LEMMA PassPlain ==
    ASSUME Ready, NEW g \in Groups, NEW s, NEW l, Visits(g, s, l),
           NEW i \in 1 .. Len(code), s.place = i,
           code[i].op \notin {"section", "result", "collect"}, ~Fires(i),
           ~(Divided(i) /\ code[i].skip # 0)
    PROVE  /\ Visits(g, Effect(g, s), l)
           /\ code[i].op \notin {"branch", "gate"} => Effect(g, s).place = i + 1
<1>1. s \in States /\ l \in Ledgers
  BY VisitsType
<1>2. Coming(g, i) = {}
  BY DEF Coming
<1>3. Book(g, s, l) = [coll |-> l.coll, red |-> l.red, come |-> l.come]
  BY <1>2 DEF Book
<1>4. Book(g, s, l) = l
  BY <1>1, <1>3 DEF Ledgers
<1>5. Visits(g, Effect(g, s), l)
  BY <1>4, VisitsNext, CodeFacts
<1>6. ASSUME code[i].op \notin {"branch", "gate"} PROVE Effect(g, s).place = i + 1
  <2>1. Home(i + 1) = i + 1
    BY <1>6, StraightOn
  <2>2. ~Skips(s)
    BY <1>6 DEF Skips
  <2>3. s.place + 1 + 0 = i + 1
    BY CodeFacts
  <2> QED BY <2>1, <2>2, <2>3 DEF Effect, NextPlace
<1> QED BY <1>5, <1>6

\* A barrier that does not end a reduction.
LEMMA FiresNot ==
    ASSUME Ready, NEW i \in 1 .. Len(code), i + 1 <= Len(code) => code[i + 1].op # "collect"
    PROVE  ~Fires(i)
<1> SUFFICES ASSUME Fires(i) PROVE FALSE
  OBVIOUS
<1>1. PICK j \in 1 .. Len(code) : j = i - 1 /\ code[j].op = "atomic"
  BY FiresFacts
<1>2. j + 1 < Len(code) /\ code[j + 2].op = "collect"
  BY <1>1, CodeFacts DEF LaidAt
<1>3. j + 2 = i + 1 /\ i + 1 <= Len(code)
  BY <1>1, <1>2, CodeFacts
<1> QED BY <1>2, <1>3

\* What an expression is for all of the group it is for each of its work-items.
LEMMA MeantShared ==
    ASSUME NEW m, NEW s, m.local = s.local, m.global = s.global, NEW g, NEW k,
           NEW e \in Expression, e.source # "id"
    PROVE  Meant(m, g, k, e) = GroupValue(g, s, e)
BY DEF Meant, GroupValue, Expression, Sources, Spaces

\* It is a value, and so is what it is for a work-item.
LEMMA MeantType ==
    ASSUME NEW m \in Meanings, NEW g \in Groups, NEW k \in Lids, NEW e \in Expression
    PROVE  Meant(m, g, k, e) \in UInt
<1> DEFINE x == CASE e.source = "local"  -> m.local
                  [] e.source = "global" -> m.global
                  [] e.source = "group"  -> g
                  [] e.source = "id"     -> g * Size + k
                  [] OTHER               -> 0
<1>1. m.local \in Nat /\ m.global \in Nat /\ g \in Nat /\ k \in Nat /\ Size \in Nat /\ e.add \in Nat
  BY SizesAssumption DEF Meanings, UInt, Groups, Lids, Expression
<1>2. g * Size + k \in Nat
  <2>1. g * Size \in Nat
    BY <1>1
  <2> QED BY <1>1, <2>1
<1>3. x \in Nat
  BY <1>1, <1>2
<1>4. Meant(m, g, k, e) = (x + e.add) % Modulus
  BY DEF Meant
<1> HIDE DEF x
<1>5. x + e.add \in Int
  BY <1>1, <1>3
<1> QED BY <1>4, <1>5, Reduced

\* An assignment.
LEMMA AssignRuns ==
    ASSUME Ready, NEW g \in Groups, NEW b \in Leaf, b.stm = "assign", b.expr.source # "id",
           NEW n \in Nat, Lies(OutputAssign(b), n), NEW m, Reaches(g, n + 1, m)
    PROVE  Reaches(g, n + 2 + 1, AfterSimple(m, g, Lids, b))
<1>1. PICK s \in States, l \in Ledgers : Visits(g, s, l) /\ s.place = n + 1 /\ Agrees(m, s, l)
  BY DEF Reaches
<1>2. PICK i : i = n + 1 /\ i \in 1 .. Len(code) /\ i + 1 \in 1 .. Len(code)
               /\ code[i] = Eval(b.expr) /\ code[i + 1] = [op |-> "store", space |-> b.space]
  <2>1. Len(OutputAssign(b)) = 2 /\ OutputAssign(b)[1] = Eval(b.expr)
        /\ OutputAssign(b)[2] = [op |-> "store", space |-> b.space]
    BY DEF OutputAssign
  <2>2. n + 2 <= Len(code) /\ code[n + 1] = Eval(b.expr)
        /\ code[n + 2] = [op |-> "store", space |-> b.space]
    BY <2>1 DEF Lies
  <2>3. (n + 1) + 1 = n + 2
    OBVIOUS
  <2> QED BY <2>2, <2>3, CodeFacts
<1>3. b.expr \in Expression /\ b.space \in Spaces
  BY DEF Leaf
<1>4. code[i].op = "eval" /\ code[i].expr = b.expr /\ code[i + 1].op = "store"
      /\ code[i + 1].space = b.space
  BY <1>2 DEF Eval
<1> DEFINE s1 == Effect(g, s)
           s2 == Effect(g, s1)
<1>5. Visits(g, s1, l) /\ s1.place = i + 1
  BY <1>1, <1>2, <1>4, PassPlain DEF Fires, Divided
<1>6. s1.local = s.local /\ s1.global = s.global /\ s1.reg = GroupValue(g, s, b.expr)
  BY <1>1, <1>2, <1>4 DEF Effect
<1>7. Visits(g, s2, l) /\ s2.place = (i + 1) + 1
  BY <1>2, <1>4, <1>5, PassPlain DEF Fires, Divided
<1>8. /\ s2.local = IF b.space = "local" THEN s1.reg ELSE s1.local
      /\ s2.global = IF b.space = "global" THEN s1.reg ELSE s1.global
  BY <1>4, <1>5 DEF Effect
<1>9. s1.reg = Meant(m, g, 0, b.expr)
  BY <1>1, <1>3, <1>6, MeantShared DEF Agrees
<1> HIDE DEF s1, s2
<1>10. 0 \in Lids
  BY SizesAssumption DEF Lids
<1>11. Meant(m, g, 0, b.expr) \in UInt
  BY <1>1, <1>3, <1>10, MeantType DEF Agrees
<1> DEFINE v == Meant(m, g, 0, b.expr)
           m2 == AfterSimple(m, g, Lids, b)
<1>12. m2 = IF b.space = "local" THEN [m EXCEPT !.local = v] ELSE [m EXCEPT !.global = v]
  BY <1>3 DEF AfterSimple, Spaces
<1> HIDE DEF v
<1>13. /\ m2 \in Meanings /\ m2.special = m.special /\ m2.counter = m.counter
       /\ m2.collected = m.collected /\ m2.reduction = m.reduction
       /\ m2.local = IF b.space = "local" THEN v ELSE m.local
       /\ m2.global = IF b.space = "global" THEN v ELSE m.global
  BY <1>1, <1>3, <1>11, <1>12 DEF Agrees, Meanings, Spaces, v
<1> HIDE DEF m2
<1>14. Agrees(m2, s2, l)
  BY <1>1, <1>3, <1>6, <1>8, <1>9, <1>13 DEF Agrees, SpecialsDue, Spaces, v
<1>15. s2 \in States /\ s2.place = n + 2 + 1
  BY <1>2, <1>7, VisitsType
<1> QED BY <1>7, <1>14, <1>15 DEF Reaches, m2

\* A StatementComm changes ids only.
LEMMA CommRuns ==
    ASSUME Ready, NEW g \in Groups, NEW b \in Leaf, b.stm = "comm",
           NEW n \in Nat, Lies(OutputComm(b), n), NEW m, Reaches(g, n + 1, m)
    PROVE  Reaches(g, n + 3 + 1, m)
<1>1. PICK s \in States, l \in Ledgers : Visits(g, s, l) /\ s.place = n + 1 /\ Agrees(m, s, l)
  BY DEF Reaches
<1>2. PICK i, j, k : /\ i = n + 1 /\ j = i + 1 /\ k = j + 1 /\ k + 1 = n + 3 + 1
                     /\ i \in 1 .. Len(code) /\ j \in 1 .. Len(code) /\ k \in 1 .. Len(code)
                     /\ code[i].op = "barrier" /\ code[j].op = "eval" /\ code[k].op = "permute"
  <2>1. Len(OutputComm(b)) = 3 /\ OutputComm(b)[1].op = "barrier"
        /\ OutputComm(b)[2].op = "eval" /\ OutputComm(b)[3].op = "permute"
    BY DEF OutputComm, Barrier, Eval
  <2>2. n + 3 <= Len(code) /\ code[n + 1].op = "barrier" /\ code[n + 2].op = "eval"
        /\ code[n + 3].op = "permute"
    BY <2>1 DEF Lies
  <2>3. (n + 1) + 1 = n + 2 /\ (n + 2) + 1 = n + 3
    OBVIOUS
  <2> QED BY <2>2, <2>3, CodeFacts
<1> DEFINE s1 == Effect(g, s)
           s2 == Effect(g, s1)
           s3 == Effect(g, s2)
<1>3. ~Fires(i) /\ ~Fires(j) /\ ~Fires(k)
  BY <1>2, FiresNot DEF Fires
<1>4. Visits(g, s1, l) /\ s1.place = j
  BY <1>1, <1>2, <1>3, PassPlain DEF Divided
<1>5. s1.local = s.local /\ s1.global = s.global
  BY <1>1, <1>2 DEF Effect
<1> HIDE DEF s1
<1>6. Visits(g, s2, l) /\ s2.place = k
  BY <1>2, <1>3, <1>4, PassPlain DEF Divided
<1>7. s2.local = s.local /\ s2.global = s.global
  BY <1>2, <1>4, <1>5 DEF Effect
<1> HIDE DEF s2
<1>8. Visits(g, s3, l) /\ s3.place = n + 3 + 1
  BY <1>2, <1>3, <1>6, PassPlain DEF Divided
<1>9. s3.local = s.local /\ s3.global = s.global
  BY <1>2, <1>6, <1>7 DEF Effect
<1> HIDE DEF s3
<1>10. Agrees(m, s3, l)
  BY <1>1, <1>9 DEF Agrees
<1> QED BY <1>8, <1>10, VisitsType DEF Reaches

\* Nor does a gated barrier change what is hashed.
LEMMA GatedBarrierRuns ==
    ASSUME Ready, NEW g \in Groups, NEW n \in Nat, Lies(OutputGatedBarrier, n),
           NEW m, Reaches(g, n + 1, m)
    PROVE  Reaches(g, n + 6 + 1, m)
<1>1. PICK s \in States, l \in Ledgers : Visits(g, s, l) /\ s.place = n + 1 /\ Agrees(m, s, l)
  BY DEF Reaches
<1> DEFINE d == OutputGatedBarrier
<1>2. /\ n + 6 <= Len(code) /\ n + 1 \in 1 .. Len(code)
      /\ code[n + 1].op = "gate" /\ code[n + 1].skip = 5
      /\ code[n + 2].op = "take" /\ code[n + 3].op = "barrier" /\ code[n + 4].op = "give"
      /\ code[n + 5].op = "barrier" /\ code[n + 6].op = "shut"
  <2>1. Len(d) = 6 /\ d[1] = [op |-> "gate", skip |-> 5] /\ d[2].op = "take"
        /\ d[3].op = "barrier" /\ d[4].op = "give" /\ d[5].op = "barrier" /\ d[6].op = "shut"
    BY DEF OutputGatedBarrier, Barrier
  <2>2. n + Len(d) <= Len(code) /\ \A q \in 1 .. Len(d) : code[n + q] = d[q]
    BY DEF Lies
  <2> HIDE DEF d
  <2>3. n + 6 <= Len(code) /\ \A q \in 1 .. 6 : code[n + q] = d[q]
    BY <2>1, <2>2
  <2>4. /\ code[n + 1] = d[1] /\ code[n + 2] = d[2] /\ code[n + 3] = d[3]
        /\ code[n + 4] = d[4] /\ code[n + 5] = d[5] /\ code[n + 6] = d[6]
    BY <2>3
  <2>5. n + 1 \in 1 .. Len(code)
    <3>1. Len(code) \in Nat
      BY CodeFacts
    <3> QED BY <2>3, <3>1
  <2> QED BY <2>1, <2>3, <2>4, <2>5
<1>3. PICK i1, i2, i3, i4, i5, i6, i7 :
          /\ i1 = n + 1 /\ i2 = n + 2 /\ i3 = n + 3 /\ i4 = n + 4 /\ i5 = n + 5 /\ i6 = n + 6
          /\ i7 = n + 7
  OBVIOUS
<1>4. /\ i1 + 1 = i2 /\ i2 + 1 = i3 /\ i3 + 1 = i4 /\ i4 + 1 = i5 /\ i5 + 1 = i6 /\ i6 + 1 = i7
      /\ n + 6 + 1 = i7 /\ i1 + 1 + 5 = i7 /\ i6 = i1 + 5
      /\ i1 \in 1 .. Len(code) /\ i2 \in 1 .. Len(code) /\ i3 \in 1 .. Len(code)
      /\ i4 \in 1 .. Len(code) /\ i5 \in 1 .. Len(code) /\ i6 \in 1 .. Len(code)
      /\ i7 \in 1 .. Len(code) + 1
  <2>1. Len(code) \in Nat /\ n + 6 <= Len(code)
    BY <1>2, CodeFacts
  <2> QED BY <1>3, <2>1
<1>5. /\ code[i1].op = "gate" /\ code[i1].skip = 5
      /\ code[i2].op = "take" /\ code[i3].op = "barrier" /\ code[i4].op = "give"
      /\ code[i5].op = "barrier" /\ code[i6].op = "shut"
  BY <1>2, <1>3
<1>6. ~Fires(i1) /\ ~Fires(i2) /\ ~Fires(i3) /\ ~Fires(i4) /\ ~Fires(i5) /\ ~Fires(i6)
  BY <1>4, <1>5, FiresNot DEF Fires
<1> DEFINE s1 == Effect(g, s)
<1>7. Visits(g, s1, l)
  BY <1>1, <1>3, <1>4, <1>5, <1>6, PassPlain DEF Divided
<1>8. s1.local = s.local /\ s1.global = s.global
  BY <1>1, <1>3, <1>5 DEF Effect
<1>9. s1.place = NextPlace(s)
  BY DEF Effect
<1> HIDE DEF s1
<1>10. CASE s.gate # 0
  <2>1. Skips(s)
    BY <1>1, <1>3, <1>5, <1>10 DEF Skips
  <2>2. NextPlace(s) = Home(i7)
    BY <1>1, <1>3, <1>4, <1>5, <2>1 DEF NextPlace
  <2>3. Home(i7) = i7
    <3>1. CASE i7 > Len(code)
      BY <3>1 DEF Home
    <3>2. CASE i7 <= Len(code)
      <4>1. i7 - 1 = i6 /\ i7 \in 1 .. Len(code)
        BY <1>4, <3>2, CodeFacts
      <4>2. ~PassedBy(i7)
        BY <1>5, <4>1 DEF PassedBy, Divided
      <4>3. code[i7].op # "result"
        BY <1>5, <4>1, CodeFacts DEF ShapeAt
      <4> QED BY <3>2, <4>2, <4>3 DEF Home
    <3> QED BY <1>4, <3>1, <3>2, CodeFacts
  <2>4. Agrees(m, s1, l)
    BY <1>1, <1>8 DEF Agrees
  <2> QED BY <1>4, <1>7, <1>9, <2>2, <2>3, <2>4, VisitsType DEF Reaches
<1>11. CASE s.gate = 0
  <2>1. s1.place = i2
    <3>1. ~Skips(s)
      BY <1>1, <1>3, <1>5, <1>11 DEF Skips
    <3>2. NextPlace(s) = Home(i2)
      BY <1>1, <1>3, <1>4, <3>1 DEF NextPlace
    <3>3. Home(i1 + 1) = i1 + 1
      BY <1>4, <1>5, StraightOn
    <3> QED BY <1>4, <1>9, <3>2, <3>3
  <2> DEFINE s2 == Effect(g, s1)
             s3 == Effect(g, s2)
             s4 == Effect(g, s3)
             s5 == Effect(g, s4)
             s6 == Effect(g, s5)
  <2>2. Visits(g, s2, l) /\ s2.place = i3
    BY <1>4, <1>5, <1>6, <1>7, <2>1, PassPlain DEF Divided
  <2>3. s2.local = s.local /\ s2.global = s.global
    BY <1>5, <1>8, <2>1 DEF Effect
  <2> HIDE DEF s2
  <2>4. Visits(g, s3, l) /\ s3.place = i4
    BY <1>4, <1>5, <1>6, <2>2, PassPlain DEF Divided
  <2>5. s3.local = s.local /\ s3.global = s.global
    BY <1>5, <2>2, <2>3 DEF Effect
  <2> HIDE DEF s3
  <2>6. Visits(g, s4, l) /\ s4.place = i5
    BY <1>4, <1>5, <1>6, <2>4, PassPlain DEF Divided
  <2>7. s4.local = s.local /\ s4.global = s.global
    BY <1>5, <2>4, <2>5 DEF Effect
  <2> HIDE DEF s4
  <2>8. Visits(g, s5, l) /\ s5.place = i6
    BY <1>4, <1>5, <1>6, <2>6, PassPlain DEF Divided
  <2>9. s5.local = s.local /\ s5.global = s.global
    BY <1>5, <2>6, <2>7 DEF Effect
  <2> HIDE DEF s5
  <2>10. Visits(g, s6, l) /\ s6.place = i7
    BY <1>4, <1>5, <1>6, <2>8, PassPlain DEF Divided
  <2>11. s6.local = s.local /\ s6.global = s.global
    BY <1>5, <2>8, <2>9 DEF Effect
  <2> HIDE DEF s6
  <2>12. Agrees(m, s6, l)
    BY <1>1, <2>11 DEF Agrees
  <2> QED BY <1>4, <2>10, <2>12, VisitsType DEF Reaches
<1>12. s.gate \in {0, 1}
  BY DEF States
<1> QED BY <1>10, <1>11, <1>12

\* What a group adds to a reduction is what the statement says.
LEMMA OperandsMeant ==
    ASSUME NEW m \in Meanings, NEW s, m.local = s.local, m.global = s.global, NEW g \in Groups,
           NEW b, b.expr \in Expression, b.addGlobal \in BOOLEAN, NEW i \in Nat,
           code[i - 2].expr = b.expr, code[i - 1].addGlobal = b.addGlobal
    PROVE  /\ OperandsAt(g, i, GroupValue(g, s, b.expr)) = Operands(m, g, b)
           /\ Operands(m, g, b) \in [Lids -> UInt]
<1>1. ASSUME NEW k \in Lids
      PROVE  /\ OperandAt(g, i, GroupValue(g, s, b.expr), k)
                  = (Meant(m, g, k, b.expr) + IF b.addGlobal THEN g * Size + k ELSE 0) % Modulus
             /\ (Meant(m, g, k, b.expr) + IF b.addGlobal THEN g * Size + k ELSE 0) % Modulus \in UInt
  <2>1. Meant(m, g, k, b.expr)
          = IF b.expr.source = "id" THEN (g * Size + k + b.expr.add) % Modulus
            ELSE GroupValue(g, s, b.expr)
    <3>1. CASE b.expr.source = "id"
      BY <3>1 DEF Meant
    <3>2. CASE b.expr.source # "id"
      BY <3>2, MeantShared
    <3> QED BY <3>1, <3>2
  <2>2. Meant(m, g, k, b.expr) \in Nat
    <3>1. \A u \in UInt : u \in Nat
      BY SizesAssumption DEF UInt
    <3> QED BY <3>1, MeantType
  <2> DEFINE z == IF b.addGlobal THEN g * Size + k ELSE 0
  <2>3. z \in Nat
    <3>1. g \in Nat /\ k \in Nat /\ Size \in Nat
      BY SizesAssumption DEF Groups, Lids
    <3>2. g * Size \in Nat
      BY <3>1
    <3>3. g * Size + k \in Nat
      BY <3>1, <3>2
    <3> QED BY <3>3
  <2>4. OperandAt(g, i, GroupValue(g, s, b.expr), k) = (Meant(m, g, k, b.expr) + z) % Modulus
    BY <2>1 DEF OperandAt
  <2> HIDE DEF z
  <2>5. Meant(m, g, k, b.expr) + z \in Int
    BY <2>2, <2>3
  <2>6. (Meant(m, g, k, b.expr) + z) % Modulus \in UInt
    BY <2>5, Reduced
  <2> QED BY <2>4, <2>6 DEF z
<1> QED BY <1>1 DEF OperandsAt, Operands

\* A reduction combines the operands of all work-items, and the first collects it.
LEMMA ReductionRuns ==
    ASSUME Ready, NEW g \in Groups, NEW b \in Leaf, b.stm = "reduction",
           NEW n \in Nat, Lies(OutputReduction(b), n), NEW m, Reaches(g, n + 1, m)
    PROVE  Reaches(g, n + 5 + 1, AfterSimple(m, g, Lids, b))
<1>1. PICK s \in States, l \in Ledgers : Visits(g, s, l) /\ s.place = n + 1 /\ Agrees(m, s, l)
  BY DEF Reaches
<1>2. b.expr \in Expression /\ b.space \in Spaces /\ b.fn \in AtomicFunctions /\ b.addGlobal \in BOOLEAN
  BY DEF Leaf
<1> DEFINE d == OutputReduction(b)
<1>3. /\ Len(d) = 5 /\ d[1].op = "eval" /\ d[1].expr = b.expr
      /\ d[2].op = "atomic" /\ d[2].fn = b.fn /\ d[2].space = b.space /\ d[2].addGlobal = b.addGlobal
      /\ d[3].op = "barrier" /\ d[4].op = "collect" /\ d[4].space = b.space /\ d[5].op = "barrier"
  BY DEF OutputReduction, Barrier, Eval
<1>4. n + Len(d) <= Len(code) /\ \A q \in 1 .. Len(d) : code[n + q] = d[q]
  BY DEF Lies
<1> HIDE DEF d
<1>5. PICK i1, i2, i3, i4, i5, i6 :
          /\ i1 = n + 1 /\ i2 = n + 2 /\ i3 = n + 3 /\ i4 = n + 4 /\ i5 = n + 5 /\ i6 = n + 6
  OBVIOUS
<1>6. /\ i1 + 1 = i2 /\ i2 + 1 = i3 /\ i3 + 1 = i4 /\ i4 + 1 = i5 /\ i5 + 1 = i6
      /\ n + 5 + 1 = i6 /\ i3 - 1 = i2 /\ i3 - 2 = i1 /\ i3 \in Nat /\ i3 > 1 /\ i5 - 1 = i4
      /\ i1 \in 1 .. Len(code) /\ i2 \in 1 .. Len(code) /\ i3 \in 1 .. Len(code)
      /\ i4 \in 1 .. Len(code) /\ i5 \in 1 .. Len(code)
  <2>1. Len(code) \in Nat /\ n + 5 <= Len(code)
    BY <1>3, <1>4, CodeFacts
  <2> QED BY <1>5, <2>1
<1>7. code[i1] = d[1] /\ code[i2] = d[2] /\ code[i3] = d[3] /\ code[i4] = d[4] /\ code[i5] = d[5]
  BY <1>3, <1>4, <1>5
<1>8. /\ code[i1].op = "eval" /\ code[i1].expr = b.expr
      /\ code[i2].op = "atomic" /\ code[i2].fn = b.fn /\ code[i2].space = b.space
      /\ code[i2].addGlobal = b.addGlobal
      /\ code[i3].op = "barrier" /\ code[i4].op = "collect" /\ code[i4].space = b.space
      /\ code[i5].op = "barrier"
  BY <1>3, <1>7
<1>9. ~Fires(i1) /\ ~Fires(i2) /\ Fires(i3) /\ ~Fires(i4) /\ ~Fires(i5)
  BY <1>6, <1>8 DEF Fires
<1> DEFINE s1 == Effect(g, s)
           s2 == Effect(g, s1)
           s3 == Effect(g, s2)
           s4 == Effect(g, s3)
           s5 == Effect(g, s4)
           l3 == Book(g, s2, l)
           l4 == Book(g, s3, l3)
           x == Operands(m, g, b)
           total == Combined(b.fn, l.red[b.space], x, Lids)
<1>10. m \in Meanings /\ m.local = s.local /\ m.global = s.global /\ m.reduction = l.red
       /\ m.collected = l.coll
  BY <1>1 DEF Agrees
<1>11. Visits(g, s1, l) /\ s1.place = i2
  BY <1>1, <1>5, <1>6, <1>8, <1>9, PassPlain DEF Divided
<1>12. s1.local = s.local /\ s1.global = s.global /\ s1.reg = GroupValue(g, s, b.expr)
  BY <1>1, <1>5, <1>8 DEF Effect
<1> HIDE DEF s1
<1>13. Visits(g, s2, l) /\ s2.place = i3
  BY <1>6, <1>8, <1>9, <1>11, PassPlain DEF Divided
<1>14. s2.local = s.local /\ s2.global = s.global /\ s2.reg = s1.reg
  BY <1>8, <1>11, <1>12 DEF Effect
<1> HIDE DEF s2
<1>15. OperandsAt(g, i3, s2.reg) = x /\ x \in [Lids -> UInt]
  <2>1. code[i3 - 2].expr = b.expr /\ code[i3 - 1].addGlobal = b.addGlobal
    BY <1>6, <1>8
  <2>2. OperandsAt(g, i3, GroupValue(g, s, b.expr)) = Operands(m, g, b)
        /\ Operands(m, g, b) \in [Lids -> UInt]
    BY <1>2, <1>6, <1>10, <2>1, OperandsMeant
  <2>3. s2.reg = GroupValue(g, s, b.expr)
    BY <1>12, <1>14
  <2> QED BY <2>2, <2>3
<1> HIDE DEF x
<1>16. Visits(g, s3, l3)
  BY <1>6, <1>13, VisitsNext
<1>17. s3.place = i4
  <2>1. Home(i3 + 1) = i3 + 1
    BY <1>6, <1>8, StraightOn
  <2>2. ~Skips(s2)
    BY <1>8, <1>13 DEF Skips
  <2>3. s2.place + 1 + 0 = i4
    BY <1>6, <1>13
  <2> QED BY <1>6, <2>1, <2>2, <2>3 DEF Effect, NextPlace
<1>18. s3.local = s.local /\ s3.global = s.global
  BY <1>8, <1>13, <1>14 DEF Effect
<1>19. l3.coll = l.coll /\ l3.come = l.come /\ l3.red = [l.red EXCEPT ![b.space] = total]
  <2>1. Coming(g, i3) = {}
    BY <1>8 DEF Coming, Divided
  <2>2. code[i3 - 1] = code[i2]
    BY <1>6
  <2> QED BY <1>8, <1>9, <1>13, <1>15, <2>1, <2>2 DEF Book
<1>20. total \in UInt /\ l.red \in [Spaces -> UInt] /\ l.coll \in UInt
  BY <1>2, <1>15, CombinedType DEF Ledgers
<1> HIDE DEF s3, l3, total
<1>21. l3.red[b.space] = total
  BY <1>2, <1>19, <1>20
<1>22. Visits(g, s4, l4)
  BY <1>6, <1>16, <1>17, VisitsNext
<1>23. s4.place = i5
  <2>1. Home(i4 + 1) = i4 + 1
    BY <1>6, <1>8, StraightOn
  <2>2. ~Skips(s3)
    BY <1>8, <1>17 DEF Skips
  <2>3. s3.place + 1 + 0 = i5
    BY <1>6, <1>17
  <2> QED BY <1>6, <2>1, <2>2, <2>3 DEF Effect, NextPlace
<1>24. s4.local = s.local /\ s4.global = s.global
  BY <1>8, <1>17, <1>18 DEF Effect
<1>25. l4.coll = (l.coll + total) % Modulus /\ l4.come = l.come /\ l4.red = l3.red
  <2>1. Coming(g, i4) = {}
    BY <1>8 DEF Coming, Divided
  <2> QED BY <1>8, <1>9, <1>17, <1>19, <1>21, <2>1 DEF Book
<1> HIDE DEF s4, l4
<1>26. Visits(g, s5, l4) /\ s5.place = i6
  BY <1>6, <1>8, <1>9, <1>22, <1>23, PassPlain DEF Divided
<1>27. s5.local = s.local /\ s5.global = s.global
  BY <1>8, <1>23, <1>24 DEF Effect
<1> HIDE DEF s5
<1> DEFINE m2 == AfterSimple(m, g, Lids, b)
           sum == (m.collected + total) % Modulus
<1>28. m2 = [m EXCEPT !.reduction[b.space] = total, !.collected = sum]
  BY <1>10 DEF AfterSimple, AfterReduction, x, total
<1>29. sum \in UInt
  <2>1. \A u, v \in UInt : u + v \in Int
    BY SizesAssumption DEF UInt
  <2> QED BY <1>10, <1>20, <2>1, Reduced
<1>30. sum = (l.coll + total) % Modulus
  BY <1>10
<1> HIDE DEF m2, sum
<1>31. /\ m2 \in Meanings /\ m2.special = m.special /\ m2.counter = m.counter
       /\ m2.local = m.local /\ m2.global = m.global
       /\ m2.collected = sum /\ m2.reduction = [m.reduction EXCEPT ![b.space] = total]
  BY <1>2, <1>10, <1>20, <1>28, <1>29 DEF Meanings
<1>32. Agrees(m2, s5, l4)
  BY <1>1, <1>10, <1>19, <1>25, <1>27, <1>30, <1>31 DEF Agrees, SpecialsDue
<1> QED BY <1>6, <1>26, <1>32, VisitsType DEF Reaches, m2

\* Work-items and those of them that come to one section.
LEMMA FiniteLids ==
    ASSUME NEW T \in SUBSET Lids, NEW q
    PROVE  /\ IsFiniteSet(T) /\ Cardinality(T) \in Nat
           /\ IsFiniteSet(T \X {q}) /\ Cardinality(T \X {q}) = Cardinality(T)
<1>1. IsFiniteSet(Lids)
  BY FS_Interval, SizesAssumption DEF Lids
<1>2. IsFiniteSet(T)
  BY <1>1, FS_Subset
<1>3. Cardinality(T) \in Nat
  BY <1>2, FS_CardinalityType
<1>4. IsFiniteSet({q}) /\ Cardinality({q}) = 1
  BY FS_Singleton
<1>5. IsFiniteSet(T \X {q}) /\ Cardinality(T \X {q}) = Cardinality(T) * Cardinality({q})
  BY <1>2, <1>4, FS_Product
<1>6. Cardinality(T) * 1 = Cardinality(T)
  BY <1>3
<1> QED BY <1>2, <1>3, <1>4, <1>5, <1>6

\* Finitely many come to the sections in front of a place.
LEMMA FiniteCome ==
    ASSUME NEW come \in SUBSET (Lids \X (Nat \ {0})), NEW q \in Nat, \A p \in come : p[2] <= q, NEW c
    PROVE  IsFiniteSet(come) /\ IsFiniteSet(Comers(come, c)) /\ Cardinality(Comers(come, c)) \in Nat
<1>1. IsFiniteSet(Lids) /\ IsFiniteSet(1 .. q)
  BY FS_Interval, SizesAssumption DEF Lids
<1>2. IsFiniteSet(Lids \X (1 .. q))
  BY <1>1, FS_Product
<1>3. come \subseteq Lids \X (1 .. q)
  OBVIOUS
<1>4. IsFiniteSet(come)
  BY <1>2, <1>3, FS_Subset
<1>5. Comers(come, c) \subseteq come
  BY DEF Comers
<1>6. IsFiniteSet(Comers(come, c))
  BY <1>4, <1>5, FS_Subset
<1> QED BY <1>4, <1>6, FS_CardinalityType

\* Those in T come to the section at q.
Adds(come, more, q, T, c) ==
    Cardinality(Comers(more, c))
       = Cardinality(Comers(come, c)) + IF code[q].counter = c THEN Cardinality(T) ELSE 0

\* Those who come to one more section.
LEMMA MoreComers ==
    ASSUME NEW come \in SUBSET (Lids \X (Nat \ {0})), NEW q \in Nat, \A p \in come : p[2] < q,
           NEW T \in SUBSET Lids, NEW c, NEW more, more = come \cup (T \X {q})
    PROVE  Adds(come, more, q, T, c)
<1> DEFINE old == Comers(come, c)
           new == T \X {q}
<1>1. IsFiniteSet(old) /\ Cardinality(old) \in Nat
  <2>1. \A p \in come : p[2] <= q
    OBVIOUS
  <2> QED BY <2>1, FiniteCome
<1>2. IsFiniteSet(new) /\ Cardinality(new) = Cardinality(T) /\ Cardinality(T) \in Nat
  BY FiniteLids
<1>3. CASE code[q].counter = c
  <2>1. Comers(come \cup new, c) = old \cup new
    BY <1>3 DEF Comers
  <2>2. old \cap new = {}
    BY DEF Comers
  <2> HIDE DEF old, new
  <2>3. Cardinality(old \cup new) = Cardinality(old) + Cardinality(new) - Cardinality(old \cap new)
    BY <1>1, <1>2, FS_Union
  <2>4. Cardinality({}) = 0
    BY FS_EmptySet
  <2>5. Cardinality(old \cup new) = Cardinality(old) + Cardinality(T)
    <3>1. Cardinality(old \cap new) = 0
      BY <2>2, <2>4
    <3>2. Cardinality(old \cup new) = Cardinality(old) + Cardinality(T) - 0
      BY <1>2, <2>3, <3>1
    <3> QED BY <1>1, <1>2, <3>2
  <2> QED BY <1>3, <2>1, <2>5 DEF old, new, Adds
<1>4. CASE code[q].counter # c
  <2>1. Comers(come \cup new, c) = old
    BY <1>4 DEF Comers
  <2> HIDE DEF old, new
  <2>2. Cardinality(old) = Cardinality(old) + 0
    BY <1>1
  <2> QED BY <1>4, <2>1, <2>2 DEF old, new, Adds
<1> QED BY <1>3, <1>4

\* What some work-items do to a section is what the statement says.
LEMMA SectionMeant ==
    ASSUME Ready, NEW q \in 1 .. Len(code), NEW b \in Section,
           code[q] = SectionCode(b)[1], code[q + 1] = SectionCode(b)[2],
           NEW m, NEW s \in States, NEW l \in Ledgers, Agrees(m, s, l), \A p \in l.come : p[2] < q,
           NEW T \in SUBSET Lids,
           NEW r, r.local = s.local, r.global = s.global,
           NEW k, k.coll = l.coll, k.red = l.red, k.come = l.come \cup (T \X {q})
    PROVE  Agrees(AfterSection(m, T, b), r, k)
<1>1. /\ code[q].op = "section" /\ code[q].space = b.space /\ code[q].counter = b.counter
      /\ code[q].at = b.at /\ code[q + 1].add = b.result
  BY DEF SectionCode
<1>2. b.space \in Spaces /\ b.counter \in Counters /\ b.at \in Nat /\ b.result \in Nat
  BY <1>1, AtSection DEF Ready
<1>3. m \in Meanings /\ SpecialsDue(m) /\ m.counter \in [Counters -> Nat]
      /\ m.special \in [Spaces -> [Counters -> UInt]]
  BY DEF Agrees, Meanings
<1>4. Cardinality(T) \in Nat
  BY FiniteLids
<1> DEFINE passed == m.counter[b.counter] + Cardinality(T)
           once == m.counter[b.counter] <= b.at /\ b.at < passed
           old == m.special[b.space][b.counter]
           new == IF once THEN b.result % Modulus ELSE old
           m2 == AfterSection(m, T, b)
<1>5. passed \in Nat /\ m.counter[b.counter] \in Nat
  BY <1>2, <1>3, <1>4
<1>6. new \in UInt
  <2>1. b.result % Modulus \in UInt
    BY <1>2, Reduced
  <2> QED BY <1>2, <1>3, <2>1
<1>7. m2 = [m EXCEPT !.counter[b.counter] = passed, !.special[b.space][b.counter] = new]
  BY DEF AfterSection
<1>8. new = IF passed > b.at THEN b.result % Modulus ELSE 0
  <2>1. old = IF m.counter[b.counter] > b.at THEN b.result % Modulus ELSE 0
    BY <1>1, <1>3 DEF SpecialsDue
  <2> HIDE DEF passed
  <2>2. passed >= m.counter[b.counter]
    BY <1>4, <1>5 DEF passed
  <2>3. once <=> m.counter[b.counter] <= b.at /\ b.at < passed
    OBVIOUS
  <2> HIDE DEF old, once
  <2> QED BY <1>2, <1>5, <2>1, <2>2, <2>3
<1> HIDE DEF m2, new, once, passed, old
<1>9. /\ m2 \in Meanings
      /\ m2.local = m.local /\ m2.global = m.global
      /\ m2.collected = m.collected /\ m2.reduction = m.reduction
      /\ m2.counter = [m.counter EXCEPT ![b.counter] = passed]
      /\ m2.special = [m.special EXCEPT ![b.space][b.counter] = new]
  BY <1>2, <1>3, <1>5, <1>6, <1>7 DEF Meanings
<1>10. m2.counter[b.counter] = passed /\ m2.special[b.space][b.counter] = new
  BY <1>2, <1>3, <1>9
<1>11. \A c \in Counters : c # b.counter =>
          m2.counter[c] = m.counter[c] /\ \A sp \in Spaces : m2.special[sp][c] = m.special[sp][c]
  BY <1>2, <1>3, <1>9
<1>12. \A sp \in Spaces : sp # b.space => m2.special[sp] = m.special[sp]
  BY <1>2, <1>3, <1>9
<1> HIDE DEF Meanings
<1>13. ASSUME NEW i \in 1 .. Len(code), code[i].op = "section"
       PROVE  m2.special[code[i].space][code[i].counter] =
                IF m2.counter[code[i].counter] > code[i].at THEN code[i + 1].add % Modulus ELSE 0
  <2>1. code[i].space \in Spaces /\ code[i].counter \in Counters
    BY <1>13, AtSection DEF Ready
  <2>2. CASE code[i].counter = b.counter
    <3>1. code[i] = code[q] /\ code[i + 1] = code[q + 1]
      BY <1>1, <1>13, <2>2 DEF Ready, Inv, CodeInv, Sound, Agree
    <3> QED BY <1>1, <1>8, <1>10, <3>1
  <2>3. CASE code[i].counter # b.counter
    BY <1>3, <1>11, <1>13, <2>1, <2>3 DEF SpecialsDue
  <2> QED BY <2>2, <2>3
<1>14. ASSUME NEW sp \in Spaces, NEW c \in Counters,
              \A i \in 1 .. Len(code) :
                 ~(code[i].op = "section" /\ code[i].space = sp /\ code[i].counter = c)
       PROVE  m2.special[sp][c] = 0
  <2>1. sp # b.space \/ c # b.counter
    BY <1>1, <1>14
  <2>2. m2.special[sp][c] = m.special[sp][c]
    BY <1>11, <1>12, <2>1
  <2>3. m.special[sp][c] = 0
    BY <1>3, <1>14 DEF SpecialsDue
  <2> QED BY <2>2, <2>3
<1>15. SpecialsDue(m2)
  BY <1>13, <1>14 DEF SpecialsDue
<1>16. ASSUME NEW c \in Counters PROVE m2.counter[c] = Cardinality(Comers(k.come, c))
  <2>1. l.come \in SUBSET (Lids \X (Nat \ {0})) /\ q \in Nat
    BY CodeFacts DEF Ledgers
  <2>2. Cardinality(Comers(k.come, c))
          = Cardinality(Comers(l.come, c)) + IF b.counter = c THEN Cardinality(T) ELSE 0
    <3>1. PICK come, more : come = l.come /\ more = k.come
      OBVIOUS
    <3>2. more = come \cup (T \X {q}) /\ come \in SUBSET (Lids \X (Nat \ {0}))
          /\ \A p \in come : p[2] < q
      BY <2>1, <3>1
    <3>3. Adds(come, more, q, T, c)
      BY <2>1, <3>2, MoreComers
    <3> QED BY <1>1, <3>1, <3>3 DEF Adds
  <2>3. m.counter[c] = Cardinality(Comers(l.come, c)) /\ m.counter[c] \in Nat
    BY <1>3 DEF Agrees
  <2>4. CASE c = b.counter
    BY <1>10, <2>2, <2>3, <2>4 DEF passed
  <2>5. CASE c # b.counter
    BY <1>11, <2>2, <2>3, <2>5
  <2> QED BY <2>4, <2>5
<1>17. m.local = s.local /\ m.global = s.global /\ m.collected = l.coll /\ m.reduction = l.red
  BY DEF Agrees
<1> QED BY <1>9, <1>15, <1>16, <1>17 DEF Agrees, m2

\* Where the code of a section lies.
LEMMA SectionLies ==
    ASSUME Ready, NEW b \in Section, b.body.stm = "nothing", NEW n \in Nat,
           Lies(OutputSimple(b), n)
    PROVE  /\ Len(OutputSimple(b)) = 2
           /\ n + 1 \in 1 .. Len(code) /\ n + 2 \in 1 .. Len(code)
           /\ code[n + 1] = SectionCode(b)[1] /\ code[(n + 1) + 1] = SectionCode(b)[2]
           /\ code[n + 1].op = "section"
<1> DEFINE d == SectionCode(b)
<1>1. OutputSimple(b) = d
  BY SectionOutput
<1>2. Len(d) = 2 /\ d[1].op = "section"
  BY DEF SectionCode
<1> HIDE DEF d
<1>3. n + 2 <= Len(code) /\ code[n + 1] = d[1] /\ code[n + 2] = d[2]
  BY <1>1, <1>2 DEF Lies
<1>4. Len(code) \in Nat /\ (n + 1) + 1 = n + 2
  BY CodeFacts
<1> QED BY <1>1, <1>2, <1>3, <1>4 DEF d

\* A section that all come to.
LEMMA SectionRuns ==
    ASSUME Ready, NEW g \in Groups, NEW b \in Section, b.body.stm = "nothing",
           NEW n \in Nat, Lies(OutputSimple(b), n), NEW m, Reaches(g, n + 1, m)
    PROVE  Reaches(g, n + 2 + 1, AfterSimple(m, g, Lids, b))
<1>1. PICK s \in States, l \in Ledgers : Visits(g, s, l) /\ s.place = n + 1 /\ Agrees(m, s, l)
  BY DEF Reaches
<1>2. PICK i \in 1 .. Len(code) : /\ i = n + 1 /\ code[i] = SectionCode(b)[1]
                                  /\ code[i + 1] = SectionCode(b)[2] /\ code[i].op = "section"
                                  /\ i + 2 = n + 2 + 1
  BY SectionLies
<1> DEFINE r == Effect(g, s)
           k == Book(g, s, l)
<1>3. Visits(g, r, k)
  BY <1>1, <1>2, VisitsNext, CodeFacts
<1>4. r.place = i + 2
  <2>1. Home(i + 1) = i + 2
    BY <1>2, HomeAtSection
  <2>2. ~Skips(s)
    BY <1>1, <1>2 DEF Skips
  <2>3. s.place + 1 + 0 = i + 1
    BY <1>1, <1>2
  <2> QED BY <2>1, <2>2, <2>3 DEF Effect, NextPlace
<1>5. r.local = s.local /\ r.global = s.global
  BY <1>1, <1>2 DEF Effect
<1>6. k.coll = l.coll /\ k.red = l.red /\ k.come = l.come \cup (Lids \X {i})
  BY <1>1, <1>2 DEF Book, Fires, Coming
<1> HIDE DEF r, k
<1>7. \A p \in l.come : p[2] < i
  BY <1>1, <1>2, VisitsType
<1>8. Agrees(AfterSection(m, Lids, b), r, k)
  BY <1>1, <1>2, <1>5, <1>6, <1>7, SectionMeant
<1>9. AfterSimple(m, g, Lids, b) = AfterSection(m, Lids, b)
  BY DEF AfterSimple, Section
<1> QED BY <1>2, <1>3, <1>4, <1>8, <1>9, VisitsType DEF Reaches

\* A statement that is neither a branch nor a loop.
LEMMA SimpleRuns ==
    ASSUME Ready, NEW g \in Groups, NEW b \in Simple,
           b.stm = "section" => b.body.stm = "nothing",
           b.stm = "assign" => b.expr.source # "id",
           NEW n \in Nat, Lies(OutputSimple(b), n), NEW m, Reaches(g, n + 1, m)
    PROVE  Reaches(g, n + Len(OutputSimple(b)) + 1, AfterSimple(m, g, Lids, b))
<1>1. CASE b.stm = "section"
  <2>1. b \in Section
    BY <1>1 DEF Simple, Leaf
  <2>2. Len(OutputSimple(b)) = 2
    BY <1>1, <2>1, SectionLies
  <2> QED BY <1>1, <2>1, <2>2, SectionRuns
<1>2. CASE b.stm # "section"
  <2>1. b \in Leaf /\ OutputSimple(b) = OutputLeaf(b)
    BY <1>2 DEF Simple, Section, OutputSimple
  <2>2. CASE b.stm = "nothing"
    <3>1. OutputSimple(b) = <<>> /\ AfterSimple(m, g, Lids, b) = m
      BY <2>1, <2>2, LeafCases DEF AfterSimple
    <3>2. Len(<<>>) = 0 /\ n + 0 + 1 = n + 1
      OBVIOUS
    <3> QED BY <3>1, <3>2
  <2>3. CASE b.stm = "assign"
    <3>1. OutputSimple(b) = OutputAssign(b) /\ Len(OutputAssign(b)) = 2
      BY <2>1, <2>3, LeafCases DEF OutputAssign
    <3> QED BY <2>1, <2>3, <3>1, AssignRuns
  <2>4. CASE b.stm = "comm"
    <3>1. OutputSimple(b) = OutputComm(b) /\ Len(OutputComm(b)) = 3
      BY <2>1, <2>4, LeafCases DEF OutputComm
    <3>2. AfterSimple(m, g, Lids, b) = m
      BY <2>4 DEF AfterSimple
    <3> QED BY <2>1, <2>4, <3>1, <3>2, CommRuns
  <2>5. CASE b.stm = "reduction"
    <3>1. OutputSimple(b) = OutputReduction(b) /\ Len(OutputReduction(b)) = 5
      BY <2>1, <2>5, LeafCases DEF OutputReduction
    <3> QED BY <2>1, <2>5, <3>1, ReductionRuns
  <2>6. CASE b.stm = "barrier"
    <3>1. OutputSimple(b) = OutputGatedBarrier /\ Len(OutputGatedBarrier) = 6
      BY <2>1, <2>6, LeafCases DEF OutputGatedBarrier
    <3>2. AfterSimple(m, g, Lids, b) = m
      BY <2>6 DEF AfterSimple
    <3> QED BY <2>1, <2>6, <3>1, <3>2, GatedBarrierRuns
  <2> QED BY <2>1, <2>2, <2>3, <2>4, <2>5, <2>6 DEF Leaf
<1> QED BY <1>1, <1>2

\* Behind a branch that takes nobody apart is a place.
LEMMA BehindBranch ==
    ASSUME Ready, NEW i \in 1 .. Len(code), code[i].op = "branch", ~Divided(i) \/ code[i].skip = 0
    PROVE  Home(i + 1) = i + 1
<1>1. CASE i + 1 > Len(code)
  BY <1>1 DEF Home
<1>2. CASE i + 1 <= Len(code)
  <2>1. PICK j \in 1 .. Len(code) : j = i + 1 /\ j - 1 = i
    BY <1>2, CodeFacts
  <2>2. ~PassedBy(j)
    BY <2>1 DEF PassedBy
  <2>3. code[j].op # "result"
    BY <2>1, CodeFacts DEF ShapeAt
  <2>4. ~(j > Len(code))
    BY <2>1, CodeFacts
  <2> QED BY <2>1, <2>2, <2>3, <2>4 DEF Home
<1> QED BY <1>1, <1>2, CodeFacts

\* A branch around a statement.
LEMMA IfRuns ==
    ASSUME Ready, NEW g \in Groups, NEW s \in Statement, s.stm = "if",
           s.expr \in Expression, s.body \in Simple,
           s.body.stm = "section" => s.body.body.stm = "nothing",
           s.body.stm = "assign" => s.body.expr.source # "id",
           s.expr.source = "id" => s.body.stm \in {"nothing", "section"},
           NEW n \in Nat, Lies(OutputIf(s), n), NEW m, Reaches(g, n + 1, m)
    PROVE  Reaches(g, n + Len(OutputIf(s)) + 1, After(m, g, s))
<1> DEFINE b == s.body
           e == s.expr
           d == OutputSimple(b)
           T == Takers(m, g, e)
<1>1. d \in Seq(Instruction) /\ (\A k \in 1 .. Len(d) : d[k].op # "branch") /\ Len(d) \in Nat
  BY SimpleCode
<1>2. OutputIf(s) = <<Eval(e), [op |-> "branch", skip |-> Len(d)]>> \o d
  BY DEF OutputIf
<1> HIDE DEF d
<1>3. /\ Len(OutputIf(s)) = 2 + Len(d)
      /\ OutputIf(s)[1] = Eval(e) /\ OutputIf(s)[2] = [op |-> "branch", skip |-> Len(d)]
      /\ \A k \in 1 .. Len(d) : OutputIf(s)[2 + k] = d[k]
  BY <1>1, <1>2
<1>4. /\ n + 2 + Len(d) <= Len(code) /\ Lies(d, n + 2)
      /\ code[n + 1] = Eval(e) /\ code[n + 2] = [op |-> "branch", skip |-> Len(d)]
  <2>1. n + (2 + Len(d)) <= Len(code) /\ \A k \in 1 .. 2 + Len(d) : code[n + k] = OutputIf(s)[k]
    BY <1>3 DEF Lies
  <2>2. \A k \in 1 .. Len(d) : code[(n + 2) + k] = d[k]
    <3> TAKE k \in 1 .. Len(d)
    <3>1. 2 + k \in 1 .. 2 + Len(d) /\ n + (2 + k) = (n + 2) + k
      BY <1>1
    <3> QED BY <1>3, <2>1, <3>1
  <2>3. 1 \in 1 .. 2 + Len(d) /\ 2 \in 1 .. 2 + Len(d) /\ n + (2 + Len(d)) = (n + 2) + Len(d)
    BY <1>1
  <2> QED BY <1>3, <2>1, <2>2, <2>3 DEF Lies
<1>5. PICK i, j : /\ i = n + 1 /\ j = n + 2 /\ j = i + 1 /\ i = j - 1 /\ j > 1
                  /\ i \in 1 .. Len(code) /\ j \in 1 .. Len(code)
  <2>1. Len(code) \in Nat
    BY CodeFacts
  <2> QED BY <1>1, <1>4, <2>1
<1>6. code[i].op = "eval" /\ code[i].expr = e /\ code[j].op = "branch" /\ code[j].skip = Len(d)
  <2>1. code[i] = Eval(e) /\ code[j] = [op |-> "branch", skip |-> Len(d)]
    BY <1>4, <1>5
  <2> QED BY <2>1 DEF Eval
<1>7. Divided(j) <=> e.source = "id"
  BY <1>5, <1>6 DEF Divided
<1>8. PICK s0 \in States, l \in Ledgers : Visits(g, s0, l) /\ s0.place = i /\ Agrees(m, s0, l)
  BY <1>5 DEF Reaches
<1>9. m \in Meanings /\ m.local = s0.local /\ m.global = s0.global
  BY <1>8 DEF Agrees
<1> DEFINE s1 == Effect(g, s0)
           s2 == Effect(g, s1)
<1>10. Visits(g, s1, l) /\ s1.place = j
  BY <1>5, <1>6, <1>8, PassPlain DEF Fires, Divided
<1>11. s1.local = s0.local /\ s1.global = s0.global /\ s1.reg = GroupValue(g, s0, e)
  BY <1>6, <1>8 DEF Effect
<1> HIDE DEF s1
<1>12. s2.local = s0.local /\ s2.global = s0.global
  BY <1>6, <1>10, <1>11 DEF Effect
<1>13. s2.place = NextPlace(s1)
  BY DEF Effect
<1> HIDE DEF s2
<1>14. Agrees(m, s2, l)
  BY <1>8, <1>12 DEF Agrees
<1>15. After(m, g, s) = IF T = {} THEN m ELSE AfterSimple(m, g, T, b)
  BY DEF After
<1>16. T \in SUBSET Lids
  BY DEF Takers
<1>17. n + Len(OutputIf(s)) + 1 = j + Len(d) + 1 /\ j + Len(d) + 1 \in Nat
  BY <1>1, <1>3, <1>5
<1>18. ASSUME ~(Divided(j) /\ Len(d) # 0) PROVE Visits(g, s2, l)
  BY <1>5, <1>6, <1>10, <1>18, PassPlain DEF Fires, s2
<1> HIDE DEF T
<1>23. ASSUME e.source # "id" PROVE \A k \in Lids : Meant(m, g, k, e) = s1.reg
  BY <1>9, <1>11, <1>23, MeantShared
<1>24. T = {k \in Lids : Meant(m, g, k, e) # 0}
  BY DEF T, Takers
<1>19. CASE e.source = "id" /\ b.stm = "nothing"
  <2>1. d = <<>> /\ Len(d) = 0
    BY <1>19, LeafCases DEF OutputSimple, d
  <2>2. Visits(g, s2, l)
    BY <1>18, <2>1
  <2>3. s2.place = j + 1
    <3>1. ~Skips(s1)
      BY <1>6, <1>7, <1>10, <1>19 DEF Skips
    <3>2. NextPlace(s1) = Home(j + 1)
      BY <1>5, <1>10, <3>1 DEF NextPlace
    <3> QED BY <1>5, <1>6, <1>13, <2>1, <3>2, BehindBranch
  <2>4. After(m, g, s) = m
    BY <1>15, <1>19 DEF AfterSimple
  <2>5. j + Len(d) + 1 = j + 1
    BY <1>5, <2>1
  <2> QED BY <1>14, <1>17, <2>2, <2>3, <2>4, <2>5, VisitsType DEF Reaches
<1>20. CASE e.source = "id" /\ b.stm = "section"
  <2>1. b \in Section /\ b.body.stm = "nothing"
    BY <1>20 DEF Simple, Leaf
  <2>2. PICK q \in 1 .. Len(code) : /\ q = j + 1 /\ q - 1 = j /\ code[q] = SectionCode(b)[1]
                                    /\ code[q + 1] = SectionCode(b)[2] /\ code[q].op = "section"
                                    /\ Len(d) = 2 /\ q + 2 = j + Len(d) + 1
    <3>1. n + 2 \in Nat /\ Lies(OutputSimple(b), n + 2)
      BY <1>4 DEF d
    <3>2. /\ Len(d) = 2 /\ (n + 2) + 1 \in 1 .. Len(code)
          /\ code[(n + 2) + 1] = SectionCode(b)[1] /\ code[((n + 2) + 1) + 1] = SectionCode(b)[2]
          /\ code[(n + 2) + 1].op = "section"
      BY <2>1, <3>1, SectionLies DEF d
    <3> QED BY <1>5, <3>2, CodeFacts
  <2> DEFINE k == Book(g, s1, l)
  <2>3. Visits(g, s2, k)
    BY <1>5, <1>10, VisitsNext, CodeFacts DEF s2
  <2>4. s2.place = q + 2
    <3>1. ~Skips(s1)
      BY <1>6, <1>7, <1>10, <1>20 DEF Skips
    <3>2. NextPlace(s1) = Home(q)
      BY <1>5, <1>10, <2>2, <3>1 DEF NextPlace
    <3>3. PassedBy(q)
      BY <1>6, <1>7, <1>20, <2>2, <1>5 DEF PassedBy
    <3>4. Home(q) = q + 2
      BY <2>2, <3>3, CodeFacts DEF Home
    <3> QED BY <1>13, <3>2, <3>4
  <2>5. TakersAt(g, j) = T
    BY <1>5, <1>6, <1>20, <1>24 DEF TakersAt, Meant
  <2>6. k.coll = l.coll /\ k.red = l.red /\ k.come = l.come \cup (T \X {q})
    <3>1. Coming(g, j) = T \X {q}
      BY <1>6, <1>7, <1>20, <2>2, <2>5 DEF Coming
    <3> QED BY <1>6, <1>10, <3>1 DEF Book, Fires
  <2> HIDE DEF k
  <2>7. k \in Ledgers /\ s2 \in States
    BY <2>3, VisitsType
  <2>8. CASE T = {}
    <3>1. k.come = l.come
      BY <2>6, <2>8
    <3>2. Agrees(m, s2, k)
      BY <1>14, <2>6, <3>1 DEF Agrees
    <3> QED BY <1>15, <1>17, <2>2, <2>3, <2>4, <2>7, <2>8, <3>2 DEF Reaches
  <2>9. CASE T # {}
    <3>1. \A p \in l.come : p[2] < q
      <4>1. \A p \in l.come : p[2] < j /\ p[2] \in Nat
        BY <1>10, VisitsType DEF Ledgers
      <4> QED BY <1>5, <2>2, <4>1
    <3>2. Agrees(AfterSection(m, T, b), s2, k)
      <4> HIDE DEF b
      <4> QED BY <1>8, <1>12, <1>16, <2>1, <2>2, <2>6, <3>1, SectionMeant
    <3>3. AfterSimple(m, g, T, b) = AfterSection(m, T, b)
      BY <1>20 DEF AfterSimple
    <3> QED BY <1>15, <1>17, <2>2, <2>3, <2>4, <2>7, <2>9, <3>2, <3>3 DEF Reaches
  <2> QED BY <2>8, <2>9
<1>21. CASE e.source # "id" /\ s1.reg # 0
  <2>1. T = Lids /\ T # {}
    <3>1. \A k \in Lids : Meant(m, g, k, e) = s1.reg
      BY <1>21, <1>23
    <3>2. 0 \in Lids
      BY SizesAssumption DEF Lids
    <3> QED BY <1>21, <1>24, <3>1, <3>2
  <2>2. Visits(g, s2, l)
    BY <1>7, <1>18, <1>21
  <2>3. s2.place = j + 1
    <3>1. ~Skips(s1)
      BY <1>6, <1>10, <1>21 DEF Skips
    <3>2. NextPlace(s1) = Home(j + 1)
      BY <1>5, <1>10, <3>1 DEF NextPlace
    <3> QED BY <1>5, <1>6, <1>7, <1>13, <1>21, <3>2, BehindBranch
  <2>4. Reaches(g, j + 1, m)
    BY <1>14, <2>2, <2>3, VisitsType DEF Reaches
  <2>5. Reaches(g, j + Len(d) + 1, AfterSimple(m, g, Lids, b))
    <3>1. j \in Nat /\ Lies(OutputSimple(b), j)
      BY <1>4, <1>5 DEF d
    <3> QED BY <2>4, <3>1, SimpleRuns DEF d
  <2> QED BY <1>15, <1>17, <2>1, <2>5
<1>22. CASE e.source # "id" /\ s1.reg = 0
  <2>1. T = {}
    <3>1. \A k \in Lids : Meant(m, g, k, e) = s1.reg
      BY <1>22, <1>23
    <3> QED BY <1>22, <1>24, <3>1
  <2>2. Visits(g, s2, l)
    BY <1>7, <1>18, <1>22
  <2>3. s2.place = j + Len(d) + 1
    <3>1. Skips(s1)
      BY <1>6, <1>7, <1>10, <1>22 DEF Skips
    <3>2. PICK x : x = j + Len(d) + 1 /\ x = j + 1 + Len(d) /\ x - 1 = j + Len(d) /\ x \in Nat \ {0}
      BY <1>1, <1>5
    <3>3. NextPlace(s1) = Home(x)
      BY <1>6, <1>10, <3>1, <3>2 DEF NextPlace
    <3>4. Home(x) = x
      <4>1. CASE x > Len(code)
        BY <4>1 DEF Home
      <4>2. CASE x <= Len(code)
        <5>1. x \in 1 .. Len(code) /\ j + Len(d) < Len(code)
          <6>1. Len(code) \in Nat
            BY CodeFacts
          <6> QED BY <1>1, <1>5, <3>2, <4>2, <6>1
        <5>2. HeadAt(code, x)
          <6>1. LaidAt(code, j)
            BY <1>5, CodeFacts
          <6>2. HeadAt(code, j + Len(d) + 1)
            BY <1>6, <5>1, <6>1 DEF LaidAt
          <6> QED BY <3>2, <6>2
        <5>3. code[x].op # "result"
          BY <5>2 DEF HeadAt, Inner
        <5>4. ~PassedBy(x)
          <6>1. CASE Len(d) = 0
            BY <1>5, <1>6, <3>2, <6>1 DEF PassedBy
          <6>2. CASE Len(d) # 0
            <7>1. Len(d) \in 1 .. Len(d)
              BY <1>1, <6>2
            <7>2. code[j + Len(d)] = d[Len(d)]
              BY <1>4, <1>5, <7>1 DEF Lies
            <7> QED BY <1>1, <3>2, <7>1, <7>2 DEF PassedBy, Divided
          <6> QED BY <6>1, <6>2
        <5> QED BY <4>2, <5>3, <5>4 DEF Home
      <4> QED BY <3>2, <4>1, <4>2, CodeFacts
    <3> QED BY <1>13, <3>2, <3>3, <3>4
  <2> QED BY <1>14, <1>15, <1>17, <2>1, <2>2, <2>3, VisitsType DEF Reaches
<1> QED BY <1>19, <1>20, <1>21, <1>22

\* Code that lies behind other code.
LEMMA LiesInParts ==
    ASSUME Ready, NEW c, NEW d, c \in Seq(Instruction), d \in Seq(Instruction),
           NEW n \in Nat, Lies(c \o d, n)
    PROVE  Lies(c, n) /\ Lies(d, n + Len(c))
<1>1. Len(c) \in Nat /\ Len(d) \in Nat /\ Len(c \o d) = Len(c) + Len(d) /\ Len(code) \in Nat
  BY CodeFacts
<1>2. n + (Len(c) + Len(d)) <= Len(code) /\ \A k \in 1 .. Len(c) + Len(d) : code[n + k] = (c \o d)[k]
  BY <1>1 DEF Lies
<1>3. n + Len(c) <= Len(code) /\ (n + Len(c)) + Len(d) <= Len(code)
  BY <1>1, <1>2
<1>4. \A k \in 1 .. Len(c) : code[n + k] = c[k]
  <2> TAKE k \in 1 .. Len(c)
  <2>1. k \in 1 .. Len(c) + Len(d) /\ (c \o d)[k] = c[k]
    BY <1>1
  <2> QED BY <1>2, <2>1
<1>5. \A k \in 1 .. Len(d) : code[(n + Len(c)) + k] = d[k]
  <2> TAKE k \in 1 .. Len(d)
  <2>1. Len(c) + k \in 1 .. Len(c) + Len(d) /\ (c \o d)[Len(c) + k] = d[k]
    BY <1>1
  <2>2. n + (Len(c) + k) = (n + Len(c)) + k
    BY <1>1
  <2> QED BY <1>2, <2>1, <2>2
<1> QED BY <1>3, <1>4, <1>5 DEF Lies

\* The code of a statement computes what the statement means.
LEMMA StatementRuns ==
    ASSUME Ready, NEW g \in Groups, NEW s \in Statement, LaidOut(s),
           NEW n \in Nat, Lies(OutputStatement(s), n), NEW m, Reaches(g, n + 1, m)
    PROVE  Reaches(g, n + Len(OutputStatement(s)) + 1, After(m, g, s))
<1>1. s \in Parts(s)
  BY DEF Parts
<1>2. HasBody(s) => s.body \in Parts(s)
  BY DEF Parts
<1>3. CASE s.stm = "if"
  <2>1. s.expr \in Expression /\ s.body \in Simple /\ OutputStatement(s) = OutputIf(s)
    BY <1>3 DEF Statement, Simple, Leaf, Section, OutputStatement
  <2>2. s.body \in Parts(s)
    BY <1>2, <1>3 DEF HasBody
  <2>3. /\ s.body.stm = "section" => s.body.body.stm = "nothing"
        /\ s.body.stm = "assign" => s.body.expr.source # "id"
        /\ s.expr.source = "id" => s.body.stm \in {"nothing", "section"}
    BY <1>3, <2>2 DEF LaidOut
  <2> QED BY <1>3, <2>1, <2>3, IfRuns
<1>4. CASE s.stm = "for"
  <2> DEFINE b == s.body
             d == OutputSimple(b)
  <2>1. b \in Simple /\ OutputStatement(s) = d \o d
    BY <1>4 DEF Statement, Simple, Leaf, Section, OutputStatement, OutputFor
  <2>2. b \in Parts(s)
    BY <1>2, <1>4 DEF HasBody
  <2>3. (b.stm = "section" => b.body.stm = "nothing") /\ (b.stm = "assign" => b.expr.source # "id")
    BY <2>2 DEF LaidOut
  <2>4. d \in Seq(Instruction) /\ Len(d) \in Nat
    BY <2>1, <2>3, SimpleCode
  <2>5. Lies(d, n) /\ Lies(d, n + Len(d))
    BY <2>1, <2>4, LiesInParts
  <2>6. Len(OutputStatement(s)) = Len(d) + Len(d)
    BY <2>1, <2>4
  <2> HIDE DEF b
  <2> DEFINE m1 == AfterSimple(m, g, Lids, b)
             m2 == AfterSimple(m1, g, Lids, b)
  <2>7. Reaches(g, n + Len(d) + 1, m1)
    BY <2>1, <2>3, <2>5, SimpleRuns
  <2>8. PICK k \in Nat : k = n + Len(d) /\ k + Len(d) + 1 = n + (Len(d) + Len(d)) + 1
    BY <2>4
  <2> HIDE DEF m1
  <2>9. Lies(d, k) /\ Reaches(g, k + 1, m1)
    BY <2>5, <2>7, <2>8
  <2>10. Reaches(g, k + Len(d) + 1, m2)
    BY <2>1, <2>3, <2>9, SimpleRuns
  <2>11. After(m, g, s) = m2
    BY <1>4 DEF After, b, m1
  <2> QED BY <2>6, <2>8, <2>10, <2>11
<1>5. CASE s.stm \notin {"if", "for"}
  <2>1. s \in Simple /\ OutputStatement(s) = OutputSimple(s)
    BY <1>5 DEF Statement, OutputStatement
  <2>2. (s.stm = "section" => s.body.stm = "nothing") /\ (s.stm = "assign" => s.expr.source # "id")
    BY <1>1 DEF LaidOut
  <2>3. After(m, g, s) = AfterSimple(m, g, Lids, s)
    BY <1>5 DEF After
  <2> QED BY <2>1, <2>2, <2>3, SimpleRuns
<1> QED BY <1>3, <1>4, <1>5

-----------------------------------------------------------------------------
(* Where the statements lie                                                *)

\* off[n] is the end of the code of the first n statements.
LaidAlong(off) ==
    /\ off[0] = 2
    /\ \A n \in 1 .. Len(prog) :
          /\ LaidOut(prog[n])
          /\ Lies(OutputStatement(prog[n]), off[n - 1])
          /\ off[n] = off[n - 1] + Len(OutputStatement(prog[n]))
    /\ phase = "generate" => Len(code) = off[Len(prog)]
    /\ phase = "run" => Lies(Epilogue, off[Len(prog)]) /\ Len(code) = off[Len(prog)] + 7

\* The code is the prologue, the statements in their order and the epilogue.
LayoutInv == \E off \in [0 .. Len(prog) -> Nat] : LaidAlong(off)

\* Before its first statement a group has what Fresh says.
LEMMA FreshReached ==
    ASSUME Ready, NEW g \in Groups
    PROVE  Reaches(g, 2 + 1, Fresh)
<1>0. Len(code) \in Nat /\ 1 \in 1 .. Len(code) /\ 2 \in 1 .. Len(code)
      /\ code[1].op = "init" /\ code[2].op = "barrier" /\ 1 + 1 = 2
  <2>1. Len(code) \in Nat /\ Len(code) >= 2
    BY CodeFacts
  <2>2. 1 \in 1 .. Len(code)
    BY <2>1
  <2> QED BY <2>1, <2>2, CodeFacts
<1>1. ~Fires(1) /\ ~Fires(2)
  <2>1. 2 - 1 = 1
    OBVIOUS
  <2> QED BY <1>0, <2>1 DEF Fires
<1> DEFINE s1 == Effect(g, Start)
           s2 == Effect(g, s1)
<1>2. Visits(g, s1, Blank) /\ s1.place = 1 + 1
  <2>1. Start.place = 1
    BY DEF Start
  <2> QED BY <1>0, <1>1, <2>1, VisitsStart, PassPlain DEF Divided
<1>3. s1.local = 1 /\ s1.global = 1
  <2>1. Start.place = 1 /\ Start.local = 1 /\ Start.global = 1
    BY DEF Start
  <2> QED BY <1>0, <2>1 DEF Effect
<1> HIDE DEF s1
<1>4. Visits(g, s2, Blank) /\ s2.place = 2 + 1
  BY <1>0, <1>1, <1>2, PassPlain DEF Divided
<1>5. s2.local = 1 /\ s2.global = 1
  BY <1>0, <1>2, <1>3 DEF Effect
<1> HIDE DEF s2
<1>6. 1 \in UInt /\ 0 \in UInt
  BY SizesAssumption DEF UInt
<1>7. Fresh \in Meanings
  BY <1>6 DEF Fresh, Meanings
<1>8. SpecialsDue(Fresh)
  <2>1. ASSUME NEW i \in 1 .. Len(code), code[i].op = "section"
        PROVE  Fresh.special[code[i].space][code[i].counter] =
                 IF Fresh.counter[code[i].counter] > code[i].at THEN code[i + 1].add % Modulus ELSE 0
    <3>1. code[i].space \in Spaces /\ code[i].counter \in Counters /\ code[i].at \in Nat
      BY <2>1, AtSection DEF Ready
    <3>2. Fresh.special[code[i].space][code[i].counter] = 0 /\ Fresh.counter[code[i].counter] = 0
      BY <3>1 DEF Fresh
    <3>3. ~(0 > code[i].at)
      BY <3>1
    <3> QED BY <3>2, <3>3
  <2>2. \A sp \in Spaces, c \in Counters : Fresh.special[sp][c] = 0
    BY DEF Fresh
  <2> QED BY <2>1, <2>2 DEF SpecialsDue
<1>9. \A c \in Counters : Fresh.counter[c] = Cardinality(Comers(Blank.come, c))
  <2>1. \A c \in Counters : Comers(Blank.come, c) = {} /\ Fresh.counter[c] = 0
    BY DEF Comers, Blank, Fresh
  <2> QED BY <2>1, FS_EmptySet
<1>10. /\ Fresh.local = 1 /\ Fresh.global = 1 /\ Fresh.collected = Blank.coll
       /\ Fresh.reduction = Blank.red
  BY DEF Fresh, Blank
<1>11. Agrees(Fresh, s2, Blank)
  BY <1>5, <1>7, <1>8, <1>9, <1>10 DEF Agrees
<1> QED BY <1>4, <1>11, VisitsType DEF Reaches

\* Behind the statements a group has what they mean.
LEMMA MeaningReached ==
    ASSUME Ready, prog \in Seq(Statement), NEW g \in Groups,
           NEW off \in [0 .. Len(prog) -> Nat], LaidAlong(off)
    PROVE  Reaches(g, off[Len(prog)] + 1, MeantAfter(g))
<1>1. PICK f : /\ MeantAfter(g) = f[Len(prog)]
               /\ f[0] = Fresh
               /\ \A n \in 1 .. Len(prog) : f[n] = After(f[n - 1], g, prog[n])
  BY MeantList
<1> DEFINE T == {n \in Nat : n <= Len(prog) => Reaches(g, off[n] + 1, f[n])}
<1>2. Len(prog) \in Nat
  OBVIOUS
<1>3. 0 \in T
  BY <1>1, FreshReached DEF LaidAlong
<1>4. ASSUME NEW n \in T PROVE n + 1 \in T
  <2> SUFFICES ASSUME n + 1 <= Len(prog) PROVE Reaches(g, off[n + 1] + 1, f[n + 1])
    BY <1>4
  <2>1. PICK k : k = n + 1 /\ k - 1 = n /\ k \in 1 .. Len(prog) /\ n \in 0 .. Len(prog)
    BY <1>2, <1>4
  <2>2. Reaches(g, off[n] + 1, f[n]) /\ off[n] \in Nat
    BY <1>2, <1>4, <2>1
  <2> DEFINE s == prog[k]
  <2>3. s \in Statement
    BY <2>1
  <2>4. LaidOut(s) /\ Lies(OutputStatement(s), off[n]) /\ off[k] = off[n] + Len(OutputStatement(s))
    BY <2>1 DEF LaidAlong
  <2>5. f[k] = After(f[n], g, s)
    BY <1>1, <2>1
  <2> HIDE DEF s
  <2>6. Reaches(g, off[n] + Len(OutputStatement(s)) + 1, After(f[n], g, s))
    BY <2>2, <2>3, <2>4, StatementRuns
  <2> QED BY <2>1, <2>4, <2>5, <2>6
<1>5. T = Nat
  <2>1. T \in SUBSET Nat
    OBVIOUS
  <2> HIDE DEF T
  <2> QED BY <1>3, <1>4, <2>1, NatSet
<1> QED BY <1>1, <1>2, <1>5

\* Added code leaves the rest where it is.
LEMMA LiesKept ==
    ASSUME code \in Seq(Instruction), NEW e, e \in Seq(Instruction), code' = code \o e,
           NEW d, d \in Seq(Instruction), NEW n \in Nat, Lies(d, n)
    PROVE  Lies(d, n)'
<1>1. Len(code) \in Nat /\ Len(e) \in Nat /\ Len(d) \in Nat /\ Len(code') = Len(code) + Len(e)
  OBVIOUS
<1>2. \A k \in 1 .. Len(code) : code'[k] = code[k]
  OBVIOUS
<1>3. n + Len(d) <= Len(code) /\ \A k \in 1 .. Len(d) : code[n + k] = d[k]
  BY DEF Lies
<1>4. n + Len(d) <= Len(code')
  BY <1>1, <1>3
<1>5. \A k \in 1 .. Len(d) : code'[n + k] = d[k]
  <2> TAKE k \in 1 .. Len(d)
  <2>1. n + k \in 1 .. Len(code)
    BY <1>1, <1>3
  <2> QED BY <1>2, <1>3, <2>1
<1> QED BY <1>4, <1>5 DEF Lies

\* The kernel begins with its prologue.
LEMMA InitLayout == Init => LayoutInv
<1> SUFFICES ASSUME Init PROVE LayoutInv
  OBVIOUS
<1> DEFINE off == [n \in 0 .. 0 |-> 2]
<1>1. prog = <<>> /\ code = Prologue /\ phase = "generate"
  BY DEF Init
<1>2. Len(prog) = 0 /\ Len(code) = 2
  BY <1>1 DEF Prologue
<1>3. off \in [0 .. Len(prog) -> Nat] /\ off[0] = 2
  BY <1>2
<1> HIDE DEF off
<1>4. LaidAlong(off)
  BY <1>1, <1>2, <1>3 DEF LaidAlong
<1> QED BY <1>3, <1>4 DEF LayoutInv

\* What a laid out statement prints is code.
LEMMA StatementCode ==
    ASSUME NEW s \in Statement, LaidOut(s)
    PROVE  OutputStatement(s) \in Seq(Instruction)
BY StatementBlock DEF Block, Laid

\* A statement is put behind the others.
LEMMA AddStatementLayout ==
    ASSUME NoBarrierInSections, RowsReadNoBuffer, NoDivergentReductions, Ready,
           prog \in Seq(Statement), NEW s \in Statements, AddStatement(s), LayoutInv
    PROVE  LayoutInv'
<1>1. cl_options \in OptionSets /\ code \in Seq(Instruction)
  BY CodeFacts DEF Ready, Inv, CodeInv
<1>2. LaidOut(s) /\ s \in Statement
  BY <1>1, GeneratedAreLaidOut, StatementsAssumption
<1>3. phase = "generate" /\ phase' = phase /\ prog' = Append(prog, s)
      /\ code' = code \o OutputStatement(s)
  BY DEF AddStatement
<1>4. PICK off \in [0 .. Len(prog) -> Nat] : LaidAlong(off)
  BY DEF LayoutInv
<1>5. PICK e : e = OutputStatement(s) /\ e \in Seq(Instruction) /\ Len(e) \in Nat
  BY <1>2, StatementCode
<1>6. PICK N \in Nat : N = Len(prog)
  OBVIOUS
<1>7. Len(prog') = N + 1 /\ prog'[N + 1] = s /\ \A n \in 1 .. N : prog'[n] = prog[n]
  BY <1>2, <1>3, <1>6
<1>8. PICK L \in Nat : L = Len(code) /\ off[N] = L
  BY <1>1, <1>3, <1>4, <1>6 DEF LaidAlong
<1>9. Len(code') = L + Len(e) /\ \A k \in 1 .. Len(e) : code'[L + k] = e[k]
  BY <1>1, <1>3, <1>5, <1>8
<1> DEFINE off2 == [n \in 0 .. N + 1 |-> IF n <= N THEN off[n] ELSE L + Len(e)]
<1>10. off2 \in [0 .. N + 1 -> Nat]
  BY <1>5, <1>6
<1>11. off2[N + 1] = L + Len(e) /\ \A n \in 0 .. N : off2[n] = off[n]
  OBVIOUS
<1> HIDE DEF off2
<1>12. ASSUME NEW n \in 1 .. N + 1
       PROVE  /\ LaidOut(prog'[n])
              /\ Lies(OutputStatement(prog[n]), off2[n - 1])'
              /\ off2[n] = off2[n - 1] + Len(OutputStatement(prog'[n]))
  <2>1. CASE n = N + 1
    <3>1. prog'[n] = s /\ n - 1 = N /\ off2[n - 1] = L /\ off2[n] = L + Len(e)
      BY <1>7, <1>8, <1>11, <2>1
    <3>2. L + Len(e) <= Len(code')
      BY <1>5, <1>9
    <3>3. Lies(e, L)'
      BY <1>9, <3>2 DEF Lies
    <3>4. Lies(OutputStatement(prog[n]), off2[n - 1])'
      BY <1>5, <3>1, <3>3 DEF Lies
    <3> QED BY <1>2, <1>5, <3>1, <3>4
  <2>2. CASE n # N + 1
    <3>1. n \in 1 .. N /\ n - 1 \in 0 .. N /\ n \in 0 .. N
      BY <2>2
    <3>2. prog'[n] = prog[n] /\ off2[n - 1] = off[n - 1] /\ off2[n] = off[n] /\ off[n - 1] \in Nat
      BY <1>6, <1>7, <1>11, <3>1
    <3>3. LaidOut(prog[n]) /\ Lies(OutputStatement(prog[n]), off[n - 1])
          /\ off[n] = off[n - 1] + Len(OutputStatement(prog[n]))
      BY <1>4, <1>6, <3>1 DEF LaidAlong
    <3>4. PICK q : q = prog[n] /\ q \in Statement
      BY <1>6, <3>1
    <3>5. PICK d : d = OutputStatement(q) /\ d \in Seq(Instruction)
      BY <3>3, <3>4, StatementCode
    <3>6. PICK k \in Nat : k = off[n - 1]
      BY <3>2
    <3>7. Lies(d, k)'
      BY <1>1, <1>3, <1>5, <3>3, <3>4, <3>5, <3>6, LiesKept
    <3>8. Lies(OutputStatement(prog[n]), off2[n - 1])'
      BY <3>2, <3>4, <3>5, <3>6, <3>7 DEF Lies
    <3> QED BY <3>2, <3>3, <3>8
  <2> QED BY <2>1, <2>2
<1>13. off2[0] = 2
  BY <1>4, <1>6, <1>11 DEF LaidAlong
<1>14. phase' = "generate" /\ phase' # "run" /\ Len(code') = off2[Len(prog')]
  BY <1>3, <1>7, <1>9, <1>11
<1>15. LaidAlong(off2)'
  BY <1>7, <1>12, <1>13, <1>14 DEF LaidAlong
<1>16. off2 \in [0 .. Len(prog') -> Nat]
  BY <1>7, <1>10
<1> QED BY <1>15, <1>16 DEF LayoutInv

\* The epilogue is put behind the statements.
LEMMA LaunchLayout ==
    ASSUME Ready, prog \in Seq(Statement), Launch, LayoutInv
    PROVE  LayoutInv'
<1>1. code \in Seq(Instruction)
  BY CodeFacts
<1>2. phase = "generate" /\ phase' = "run" /\ prog' = prog /\ code' = code \o Epilogue
  BY DEF Launch
<1>3. PICK off \in [0 .. Len(prog) -> Nat] : LaidAlong(off)
  BY DEF LayoutInv
<1>4. Epilogue \in Seq(Instruction) /\ Len(Epilogue) = 7
  <2>1. Len(Epilogue) = 7
    BY DEF Epilogue
  <2>2. Epilogue \in Seq(Instruction)
    BY EpiloguePiece DEF Piece, Sound, Shape
  <2> QED BY <2>1, <2>2
<1>5. PICK L \in Nat : L = Len(code) /\ off[Len(prog)] = L
  BY <1>1, <1>2, <1>3 DEF LaidAlong
<1>6. PICK e : e = Epilogue /\ e \in Seq(Instruction) /\ Len(e) = 7
  BY <1>4
<1>7. Len(code') = L + 7 /\ \A k \in 1 .. 7 : code'[L + k] = e[k]
  <2>1. code' = code \o e
    BY <1>2, <1>6
  <2>2. Len(code \o e) = Len(code) + Len(e) /\ \A k \in 1 .. Len(e) : (code \o e)[Len(code) + k] = e[k]
    <3>1. Len(code \o e) = Len(code) + Len(e)
      BY <1>1, <1>6, ConcatProperties
    <3>2. ASSUME NEW k \in 1 .. Len(e) PROVE (code \o e)[Len(code) + k] = e[k]
      <4>1. PICK i : i = Len(code) + k /\ i \in 1 .. Len(code) + Len(e) /\ i > Len(code) /\ i - Len(code) = k
        BY <1>5, <1>6
      <4>2. (code \o e)[i] = IF i <= Len(code) THEN code[i] ELSE e[i - Len(code)]
        BY <1>1, <1>6, <4>1, ConcatProperties
      <4> QED BY <1>5, <4>1, <4>2
    <3> QED BY <3>1, <3>2
  <2> QED BY <1>5, <1>6, <2>1, <2>2
<1>8. Lies(e, L)'
  BY <1>6, <1>7 DEF Lies
<1>9. ASSUME NEW n \in 1 .. Len(prog)
      PROVE  /\ LaidOut(prog'[n])
             /\ Lies(OutputStatement(prog[n]), off[n - 1])'
             /\ off[n] = off[n - 1] + Len(OutputStatement(prog'[n]))
  <2>1. n - 1 \in 0 .. Len(prog) /\ off[n - 1] \in Nat
    <3>1. n - 1 \in 0 .. Len(prog)
      OBVIOUS
    <3> QED BY <3>1
  <2>2. LaidOut(prog[n]) /\ Lies(OutputStatement(prog[n]), off[n - 1])
        /\ off[n] = off[n - 1] + Len(OutputStatement(prog[n]))
    BY <1>3 DEF LaidAlong
  <2>3. PICK q : q = prog[n] /\ q \in Statement
    OBVIOUS
  <2>4. PICK d : d = OutputStatement(q) /\ d \in Seq(Instruction)
    BY <2>2, <2>3, StatementCode
  <2>5. PICK k \in Nat : k = off[n - 1]
    BY <2>1
  <2>6. Lies(d, k)'
    BY <1>1, <1>2, <1>4, <2>2, <2>3, <2>4, <2>5, LiesKept
  <2>7. Lies(OutputStatement(prog[n]), off[n - 1])'
    BY <1>2, <2>3, <2>4, <2>5, <2>6 DEF Lies
  <2> QED BY <1>2, <2>2, <2>7
<1>10. off[0] = 2
  BY <1>3 DEF LaidAlong
<1>11. Lies(Epilogue, off[Len(prog)])' /\ Len(code') = off[Len(prog')] + 7
  BY <1>2, <1>5, <1>6, <1>7, <1>8 DEF Lies
<1>12. LaidAlong(off)'
  BY <1>2, <1>9, <1>10, <1>11 DEF LaidAlong
<1> QED BY <1>2, <1>12 DEF LayoutInv

\* The layout is kept.
LEMMA NextLayout ==
    ASSUME NoBarrierInSections, RowsReadNoBuffer, NoDivergentReductions
    PROVE  Whole /\ LayoutInv /\ [Next]_vars => LayoutInv'
<1> SUFFICES ASSUME Whole, LayoutInv, [Next]_vars PROVE LayoutInv'
  OBVIOUS
<1>1. Ready /\ prog \in Seq(Statement)
  BY DEF Whole, Ready, DataOK
<1>2. ASSUME NEW s \in Statements, AddStatement(s) PROVE LayoutInv'
  BY <1>1, <1>2, AddStatementLayout
<1>3. CASE Launch
  BY <1>1, <1>3, LaunchLayout
<1>4. ASSUME UNCHANGED <<phase, prog, code>> PROVE LayoutInv'
  BY <1>4 DEF LayoutInv, LaidAlong, Lies
<1>5. ASSUME NEW t \in WorkItems, RunInside(t) PROVE UNCHANGED <<phase, prog, code>>
  <2>1. UNCHANGED generator
    BY <1>5 DEF RunInside, InitBuffers, Evaluate, Store, Branch, Permute, Reduce, Collect,
                EnterSection, LeaveSection, TestGate, TakeInside, GiveInside, ShutGate, Hash
  <2> QED BY <2>1 DEF generator
<1>6. ASSUME NEW g \in Groups, PassBarrier(g) PROVE UNCHANGED <<phase, prog, code>>
  BY <1>6 DEF PassBarrier, generator
<1>7. CASE UNCHANGED vars
  BY <1>4, <1>7 DEF vars, generator
<1>8. \A t \in WorkItems : ~TakeBeyond(t) /\ ~GiveBeyond(t)
  BY NobodyBeyond DEF Whole
<1> QED BY <1>2, <1>3, <1>4, <1>5, <1>6, <1>7, <1>8, NextCases DEF Rest

\* The epilogue is what lies behind the place z.
EpilogueAt(z) ==
    /\ Len(code) = z + 7
    /\ code[z + 1].op = "barrier"
    /\ code[z + 2].op = "hash" /\ code[z + 2].what = "v_collective"
    /\ code[z + 3].op = "barrier"
    /\ code[z + 4].op = "hash" /\ code[z + 4].what = "g_special_values"
    /\ code[z + 5].op = "barrier"
    /\ code[z + 6].op = "hash" /\ code[z + 6].what = "l_special_values"
    /\ code[z + 7].op = "hash" /\ code[z + 7].what = "comm_values"

\* An instruction of the epilogue leaves what a group has as it is.
LEMMA EpilogueRuns ==
    ASSUME Ready, NEW g \in Groups, NEW i \in 1 .. Len(code), code[i].op \in {"barrier", "hash"},
           i + 1 <= Len(code) => code[i + 1].op # "collect",
           NEW m, Reaches(g, i, m)
    PROVE  Reaches(g, i + 1, m)
<1>1. PICK s \in States, l \in Ledgers : Visits(g, s, l) /\ s.place = i /\ Agrees(m, s, l)
  BY DEF Reaches
<1>2. ~Fires(i)
  BY FiresNot
<1> DEFINE r == Effect(g, s)
<1>3. Visits(g, r, l) /\ r.place = i + 1
  BY <1>1, <1>2, PassPlain DEF Divided
<1>4. r.local = s.local /\ r.global = s.global
  BY <1>1 DEF Effect
<1> HIDE DEF r
<1>5. Agrees(m, r, l)
  BY <1>1, <1>4 DEF Agrees
<1> QED BY <1>3, <1>5, VisitsType DEF Reaches

\* All along the epilogue a group has what its kernel means.
LEMMA EndReached ==
    ASSUME Ready, prog \in Seq(Statement), LayoutInv, phase = "run"
    PROVE  \E z \in Nat : /\ EpilogueAt(z)
                          /\ \A g \in Groups : \A k \in 1 .. 8 : Reaches(g, z + k, MeantAfter(g))
<1>1. PICK off \in [0 .. Len(prog) -> Nat] : LaidAlong(off)
  BY DEF LayoutInv
<1>2. PICK z \in Nat : z = off[Len(prog)] /\ Lies(Epilogue, z) /\ Len(code) = z + 7
  <2>1. Len(prog) \in 0 .. Len(prog)
    OBVIOUS
  <2> QED BY <1>1, <2>1 DEF LaidAlong
<1> DEFINE d == Epilogue
<1>3. /\ Len(d) = 7 /\ d[1].op = "barrier"
      /\ d[2].op = "hash" /\ d[2].what = "v_collective" /\ d[3].op = "barrier"
      /\ d[4].op = "hash" /\ d[4].what = "g_special_values" /\ d[5].op = "barrier"
      /\ d[6].op = "hash" /\ d[6].what = "l_special_values"
      /\ d[7].op = "hash" /\ d[7].what = "comm_values"
  BY DEF Epilogue, Barrier
<1>4. \A k \in 1 .. Len(d) : code[z + k] = d[k]
  BY <1>2 DEF Lies
<1> HIDE DEF d
<1>5. /\ code[z + 1] = d[1] /\ code[z + 2] = d[2] /\ code[z + 3] = d[3] /\ code[z + 4] = d[4]
      /\ code[z + 5] = d[5] /\ code[z + 6] = d[6] /\ code[z + 7] = d[7]
  BY <1>3, <1>4
<1>6. EpilogueAt(z)
  BY <1>2, <1>3, <1>5 DEF EpilogueAt
<1>7. ASSUME NEW k \in 1 .. 7 PROVE code[z + k].op \in {"barrier", "hash"}
  <2>1. k = 1 \/ k = 2 \/ k = 3 \/ k = 4 \/ k = 5 \/ k = 6 \/ k = 7
    OBVIOUS
  <2> QED BY <1>6, <2>1 DEF EpilogueAt
<1>8. ASSUME NEW g \in Groups, NEW k \in 1 .. 8 PROVE Reaches(g, z + k, MeantAfter(g))
  <2> DEFINE m == MeantAfter(g)
  <2>1. Reaches(g, z + 1, m)
    BY <1>1, <1>2, MeaningReached
  <2> HIDE DEF m
  <2>2. ASSUME NEW j \in 1 .. 7, Reaches(g, z + j, m) PROVE Reaches(g, z + (j + 1), m)
    <3>1. PICK i \in 1 .. Len(code) : i = z + j /\ i + 1 = z + (j + 1)
      BY <1>2
    <3>2. code[i].op \in {"barrier", "hash"}
      BY <1>7, <3>1
    <3>3. i + 1 <= Len(code) => code[i + 1].op # "collect"
      <4> SUFFICES ASSUME i + 1 <= Len(code) PROVE code[i + 1].op # "collect"
        OBVIOUS
      <4>1. j + 1 \in 1 .. 7
        BY <1>2, <3>1
      <4>2. code[z + (j + 1)].op \in {"barrier", "hash"}
        BY <1>7, <4>1
      <4> QED BY <3>1, <4>2
    <3> QED BY <2>2, <3>1, <3>2, <3>3, EpilogueRuns
  <2> DEFINE T == {j \in Nat : j < 8 => Reaches(g, z + (j + 1), m)}
  <2>3. 0 \in T
    BY <2>1
  <2>4. ASSUME NEW j \in T PROVE j + 1 \in T
    <3> SUFFICES ASSUME j + 1 < 8 PROVE Reaches(g, z + ((j + 1) + 1), m)
      BY <2>4
    <3>1. PICK x : x = j + 1 /\ x \in 1 .. 7
      BY <2>4
    <3>2. Reaches(g, z + x, m)
      BY <2>4, <3>1
    <3> QED BY <2>2, <3>1, <3>2
  <2>5. T = Nat
    <3>1. T \in SUBSET Nat
      OBVIOUS
    <3> HIDE DEF T
    <3> QED BY <2>3, <2>4, <3>1, NatSet
  <2>6. k - 1 \in Nat /\ k - 1 < 8 /\ (k - 1) + 1 = k
    OBVIOUS
  <2> QED BY <2>5, <2>6 DEF m
<1> QED BY <1>6, <1>8
=============================================================================
