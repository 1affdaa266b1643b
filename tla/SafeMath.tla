------------------------------ MODULE SafeMath ------------------------------
(***************************************************************************)
(* Arithmetic of a generated program: an operator, the flags of its safe    *)
(* version (SafeOpFlags.cpp), the wrapper that is printed for it            *)
(* (FunctionInvocationBinary.cpp) and what the wrapper computes in the      *)
(* three headers of the runtime: as C does, for every value of its          *)
(* operands.  Types are [bits, signed], with widths scaled down.            *)
(***************************************************************************)
EXTENDS Integers, Bitwise

CONSTANTS Bits,       \* sizes "int8" .. "int64" to their width
          Platforms   \* [name, int, long]: the widths of the types of C

VARIABLES header,     \* "functions", "macros" or "notmp" (math_notmp)
          platform,
          safety,     \* [math, ids]: --no-safe-math, the ids of --safe-math-wrappers
          step,       \* "operator", "operands", "print", "printed"
          op,
          of,         \* [kind, signed]: operands are "scalar", "vector" or the "subscript" of an array
          flags,      \* [op1, op2, size]: SafeOpFlags
          wrapper     \* what was printed: [op, size, s1, s2, as]

smVars == <<header, platform, safety, step, op, of, flags, wrapper>>

Sizes == {"int8", "int16", "int32", "int64"}
Shifts == {"lshift", "rshift"}
Safe == {"add", "sub", "mul", "mod", "div"} \cup Shifts     \* safe_ops
Others == {"cmp", "and"}    \* that have no wrapper: comparisons and logical operators, bits

Scalar == [kind |-> "scalar", signed |-> FALSE]

-----------------------------------------------------------------------------
(* C *)

Type(bits, signed) == [bits |-> bits, signed |-> signed]
CInt == Type(platform.int, TRUE)
UInt == Type(platform.int, FALSE)
MinOf(t) == IF t.signed THEN -(2^(t.bits - 1)) ELSE 0
MaxOf(t) == IF t.signed THEN 2^(t.bits - 1) - 1 ELSE 2^t.bits - 1
Values(t) == MinOf(t) .. MaxOf(t)
Convert(t, v) == LET m == v % 2^t.bits IN IF t.signed /\ m > MaxOf(t) THEN m - 2^t.bits ELSE m

UB == 2^30   \* a value no type has: what is computed is undefined

Promoted(t) == IF t.bits < platform.int THEN CInt ELSE t
Result(t, v) == IF v \in Values(t) THEN v ELSE IF t.signed THEN UB ELSE Convert(t, v)
Quotient(a, b) == IF (a < 0) = (b < 0) THEN (IF a < 0 THEN (-a) \div (-b) ELSE a \div b)
                  ELSE IF a < 0 THEN -((-a) \div b) ELSE -(a \div (-b))
BitsAnd(t, a, b) == Convert(t, (a % 2^t.bits) & (b % 2^t.bits))
BitsXor(t, a, b) == Convert(t, (a % 2^t.bits) ^^ (b % 2^t.bits))

\* Shifts of negative numbers and into the sign are what every target makes of
\* them; the count has to be within the promoted type.
Shift(t, o, a, n) ==
  IF n \notin 0 .. t.bits - 1 THEN UB
  ELSE IF o = "lshift" THEN Convert(t, a * 2^n) ELSE a \div 2^n

\* What o is in mathematics, for operands it is defined for.
Exact(o, a, b) ==
  CASE o = "minus" -> -a
    [] o = "add" -> a + b
    [] o = "sub" -> a - b
    [] o = "mul" -> a * b
    [] o = "div" -> Quotient(a, b)
    [] o = "mod" -> a - b * Quotient(a, b)
    [] o = "lshift" -> a * 2^b
    [] o = "rshift" -> a \div 2^b

-----------------------------------------------------------------------------
(* The headers: when a wrapper gives its first operand, and what it computes *)

\* Only values that fill an int can overflow: the functions leave the check out.
Unchecked(t) == header = "functions" /\ MaxOf(t) < MaxOf(CInt)

AddOverflows(t, a, b) == (a > 0 /\ b > 0 /\ a > MaxOf(t) - b) \/ (a < 0 /\ b < 0 /\ a < MinOf(t) - b)

\* The sign bit of t: as a negative int in the functions, not in the macros.
SignBit(t) == IF header = "functions" THEN MinOf(t) ELSE Convert(Promoted(t), 2^(t.bits - 1))
SubOverflows(t, a, b) ==
  LET p == Promoted(t)
      x == BitsXor(p, a, b)
      difference == Result(p, BitsXor(p, a, BitsAnd(p, x, SignBit(t))) - b)
  IN IF difference = UB THEN UB ELSE IF BitsAnd(p, x, BitsXor(p, difference, b)) < 0 THEN 1 ELSE 0

MulOverflows(t, a, b) ==
  IF a > 0
    THEN IF b > 0 THEN a > Quotient(MaxOf(t), b) ELSE b < Quotient(MinOf(t), a)
  ELSE IF b > 0 THEN a < Quotient(MinOf(t), b) ELSE a # 0 /\ b < Quotient(MaxOf(t), a)

\* Only zero: for a mutant.
ByZero(t, a, b) == b = 0

DivUndefined(t, a, b) == b = 0 \/ (t.signed /\ a = MinOf(t) /\ b = -1)

\* The functions name maxshift without an argument: every type has the limit of 32 bits.
MaxShift(t) == IF header # "functions" THEN t.bits ELSE Bits["int32"]
ShiftUndefined(t, o, a, n) ==
  IF n < 0 \/ n >= MaxShift(t) THEN 1
  ELSE IF header = "notmp" THEN 0
  ELSE IF a < 0 THEN 1
  ELSE IF o = "rshift" THEN 0
  ELSE LET limit == Shift(Promoted(t), "rshift", MaxOf(t), n) IN IF limit = UB THEN UB ELSE IF a > limit THEN 1 ELSE 0

Flag(b) == IF b THEN 1 ELSE 0

\* 1 when the wrapper gives the first operand.
GivesFirst(o, t, a, b) ==
  CASE o \in Shifts -> ShiftUndefined(t, o, a, b)
    [] o \in {"mod", "div"} -> Flag(DivUndefined(t, a, b))
    [] o \in {"minus", "add", "sub", "mul"} /\ (~t.signed \/ Unchecked(t)) -> 0
    [] o = "minus" -> Flag(a = MinOf(t))
    [] o = "add" -> Flag(AddOverflows(t, a, b))
    [] o = "sub" -> SubOverflows(t, a, b)
    [] o = "mul" -> Flag(MulOverflows(t, a, b))

\* promote: the type an unsigned product is computed in.
Promote(t) == IF t.bits # Bits["int64"] THEN UInt
              ELSE IF header = "macros" THEN Type(platform.long, FALSE) ELSE t

Computed(o, t, a, b) ==
  LET p == IF o = "mul" /\ ~t.signed THEN Promote(t) ELSE Promoted(t) IN
  IF o \in Shifts THEN Shift(p, o, a, b)
  ELSE IF o \in {"mod", "div"} /\ b = 0 THEN UB
  ELSE IF o = "mul" THEN Result(p, Convert(p, a) * Convert(p, b))
  ELSE Result(p, Exact(o, a, b))

\* The wrapper w for operands that its parameters have: its value in the type of
\* the program (a macro has the promoted type).
Value(w, a, b) ==
  LET t == Type(Bits[w.size], w.s1)
      first == GivesFirst(w.op, t, a, b)
      v == IF first = UB THEN UB ELSE IF first = 1 THEN a ELSE Computed(w.op, t, a, b)
  IN IF v = UB THEN UB ELSE Convert(t, v)

\* Bound: of wide types, the values around zero, the limits and their roots.
Operands(t) ==
  IF t.bits <= 4 THEN Values(t)
  ELSE UNION {{2^n + d, d - 2^n} : n \in {0, t.bits \div 2, t.bits - 1, t.bits}, d \in -1 .. 1} \cap Values(t)

\* The values the second parameter gets: the count of a shift is an int, or what
\* is left of it in the temporary variable of math_notmp.
Seconds(w) ==
  IF w.op \notin Shifts THEN Operands(Type(Bits[w.size], w.s1))
  ELSE LET n == Type(platform.int, w.s2) IN
       IF header = "notmp" THEN {Convert(n, v) : v \in Operands(Type(Bits[w.size], w.s2))} ELSE Operands(n)

-----------------------------------------------------------------------------
(* The generator *)

\* MspSafeOpSizeFilter: what the filter rejects, where int has 16 bits.
MspFilter(o, size) == o \in {"mul", "lshift", "rshift"} /\ size \in {"int32", "int64"}

\* SafeOpFlags::make_random: only a binary operator has two signs.
MakeFlags(o, binary) ==
  \E s1, s2 \in BOOLEAN, size \in Sizes :
    /\ ~binary => s2 = s1
    /\ platform.name = "msp" => ~MspFilter(o, size)
    /\ flags' = [op1 |-> s1, op2 |-> s2, size |-> size]

\* What becomes of an operator of vectors: signed ones get what cannot overflow,
\* unsigned ones what does not give a signed result, and no division.
OfVectors(o, signed) ==
  IF signed THEN (IF o \in Safe \cup {"minus"} THEN "and" ELSE o)
  ELSE IF o \in {"cmp", "div", "mod"} THEN "add" ELSE o

DummyFlags == [op1 |-> FALSE, op2 |-> FALSE, size |-> "int8"]   \* make_dummy_flags

\* An operator o of scalars, or of vectors whose items are signed or not.
MakeOperator(o, binary) ==
  \/ op' = o /\ of' = Scalar /\ MakeFlags(o, binary)
  \/ \E s \in BOOLEAN :
       op' = OfVectors(o, s) /\ of' = [kind |-> "vector", signed |-> s] /\ flags' = DummyFlags

MakeRandomUnary ==
  /\ step = "operator"
  /\ MakeOperator("minus", FALSE) /\ step' = "print"
  /\ UNCHANGED <<header, platform, safety, wrapper>>

\* MspBinaryFilter keeps div and mod away from the target without them.
MakeRandomBinary ==
  /\ step = "operator"
  /\ \E o \in Safe \cup Others :
       /\ platform.name = "msp" => o \notin {"div", "mod"}
       /\ MakeOperator(o, TRUE)
  /\ step' = "operands"
  /\ UNCHANGED <<header, platform, safety, wrapper>>

\* x += 1 and x -= 1 of a loop: flags for an assignment are not filtered by an operator.
MakeCompoundAssign ==
  /\ step = "operator"
  /\ op' \in {"add", "sub"} /\ of' = Scalar /\ MakeFlags("assign", FALSE) /\ step' = "print"
  /\ UNCHANGED <<header, platform, safety, wrapper>>

\* The index of an item: an induction variable and an offset, with no flags at all.
itemize_array ==
  /\ step = "operator"
  /\ op' = "add" /\ of' = [kind |-> "subscript", signed |-> TRUE] /\ step' = "print"
  /\ UNCHANGED <<header, platform, safety, flags, wrapper>>

\* A divisor that may be zero: another operator, with the same flags.
MakeOperands ==
  /\ step = "operands"
  /\ op' \in {op} \cup (IF op \in {"div", "mod"} THEN (Safe \cup Others) \ ({"div", "mod"} \cup Shifts) ELSE {})
  /\ step' = "print"
  /\ UNCHANGED <<header, platform, safety, of, flags, wrapper>>

\* SafeOpFlags::to_string: the second operand has the type of the first one,
\* unless it is a count.
to_string(o, f) == [op |-> o, size |-> f.size, s1 |-> f.op1, s2 |-> IF o \in Shifts THEN f.op2 ELSE f.op1, as |-> "wrapper"]

\* Names get ids in the order they are printed in: any, here.
safe_math_wrapper(id) == safety.ids = {} \/ id \in safety.ids

\* Vectors and subscripts are printed as they are, and scalars that are not to be wrapped
\* with a cast of both operands (FunctionInvocationBinary.cpp:332, 345-369).
Output ==
  /\ step = "print" /\ op \notin Others
  /\ \E id \in 1 .. 2 :
       wrapper' = [to_string(op, flags) EXCEPT
                     !.as = IF of.kind # "scalar" THEN "plain"
                            ELSE IF safety.math /\ safe_math_wrapper(id) THEN "wrapper" ELSE "cast"]
  /\ step' = "printed"
  /\ UNCHANGED <<header, platform, safety, op, of, flags>>

Done == (step = "printed" \/ (step = "print" /\ op \in Others)) /\ UNCHANGED smVars

\* Bound: options for less safety are given with one header.
Init ==
  /\ header \in {"functions", "macros", "notmp"} /\ platform \in Platforms
  /\ safety \in [math : BOOLEAN, ids : {{}, {1}}] /\ (safety # [math |-> TRUE, ids |-> {}] => header = "macros")
  /\ step = "operator" /\ op = "none" /\ of = Scalar /\ flags = [op1 |-> TRUE, op2 |-> TRUE, size |-> "int8"]
  /\ wrapper = [op |-> "none", size |-> "int8", s1 |-> TRUE, s2 |-> TRUE, as |-> "nothing"]

Next == MakeRandomUnary \/ MakeRandomBinary \/ MakeCompoundAssign \/ itemize_array \/ MakeOperands \/ Output \/ Done

Spec == Init /\ [][Next]_smVars

-----------------------------------------------------------------------------
(* Properties *)

CallsWrapper == step = "printed" /\ wrapper.as = "wrapper"

\* The wrappers the headers declare: the signs of both operands agree, but for shifts.
WrapperDeclared == CallsWrapper => (wrapper.op \in Shifts \/ wrapper.s1 = wrapper.s2)

\* Where the headers do not keep what they promise:
\* functions on a target with a narrower int take counts up to 31 for every type
\* (maxshift in safe_math.m4): there, shifts are not safe.
WideCounts == header = "functions" /\ platform.int < Bits["int32"] /\ wrapper.op \in Shifts

\* An unsigned product of 64 bits is computed in unsigned long by the macros
\* (safe_math_macros.m4:126): half of it is lost where long has 32 bits.
NarrowLong == header = "macros" /\ platform.long < Bits["int64"] /\ wrapper.op = "mul" /\ wrapper.size = "int64"

\* The functions do not shift a value of 64 bits by 32 and more, although maxshift has a
\* case for int64_t (safe_math.m4:40): its users leave the argument out.
ShortLimit == header = "functions" /\ wrapper.op \in Shifts /\ wrapper.size = "int64"

\* The macros give the first operand for differences of narrow types with different
\* signs, as the sign bit of their check is a positive int there (safe_math_macros.m4:57).
NarrowDifference == header # "functions" /\ wrapper.op = "sub" /\ Bits[wrapper.size] < platform.int

\* For all operands a wrapper computes what the operator does, modulo the width
\* of the type, or gives its first operand; nothing that it computes on the way
\* is undefined: no signed overflow, no division by zero, no count beyond the
\* type (safe_math.m4:41).
DefinedAndExact ==
  CallsWrapper /\ ~WideCounts /\ ~NarrowLong =>
    LET t == Type(Bits[wrapper.size], wrapper.s1) IN
    \A a \in Operands(t), b \in Seconds(wrapper) :
      LET first == GivesFirst(wrapper.op, t, a, b) IN
      Value(wrapper, a, b) = IF first = 1 THEN a ELSE Convert(t, Exact(wrapper.op, a, b))

\* What the type does not have, or C does not define.
Needed(o, t, a, b) ==
  IF o \in {"div", "mod"} THEN b = 0 \/ Quotient(a, b) \notin Values(t)
  ELSE IF o \in Shifts THEN b \notin 0 .. t.bits - 1 \/ a < 0 \/ Exact(o, a, b) \notin Values(t)
  ELSE Exact(o, a, b) \notin Values(t)

\* The first operand stands in only where it has to.
FirstOnlyIfNeeded ==
  CallsWrapper /\ ~WideCounts /\ ~ShortLimit /\ ~NarrowDifference =>
    LET t == Type(Bits[wrapper.size], wrapper.s1) IN
    \A a \in Operands(t), b \in Seconds(wrapper) : GivesFirst(wrapper.op, t, a, b) = 1 => Needed(wrapper.op, t, a, b)

\* Items of vectors are computed in their own type; OpenCL takes counts modulo its width.
ItemValue(o, t, a, b) == IF o \in Shifts THEN Shift(t, o, a, b % t.bits) ELSE Result(t, Exact(o, a, b))

\* Operators of vectors have no wrappers: they are defined for all operands, as signed
\* vectors are not computed with (FunctionInvocation.cpp:195-209).
VectorsDefined ==
  step = "printed" /\ of.kind = "vector" =>
    /\ wrapper.op \notin {"div", "mod"}
    /\ \A size \in {"int8", "int16"} :
         LET t == Type(Bits[size], of.signed) IN \A a, b \in Operands(t) : ItemValue(wrapper.op, t, a, b) # UB

\* A scalar is left without a wrapper only if an option says so.
WrappedUnlessTold == step = "printed" /\ of.kind = "scalar" /\ safety = [math |-> TRUE, ids |-> {}] => wrapper.as = "wrapper"

\* Without options against it, an operation of scalars is printed as a wrapper there is.
\* A wrapper never computes what C does not define, and computes what the operator does
\* or gives its first operand (safe_math.m4:41, SafeOpFlags.cpp:180); both but for the
\* functions' shifts where int has 16 bits, and the second but for 64-bit products of the
\* macros where long has 32.  The first operand is given only where the result is not of the
\* type, but for the functions' 64-bit shifts and the macros' narrow differences.
\* Operations of vectors need no wrapper.  Nothing is said of scalars that an option leaves
\* without one, and of subscripts (LoopsStayInside of ArrayLoops is about those).
OperationsSafe == WrapperDeclared /\ DefinedAndExact /\ FirstOnlyIfNeeded /\ VectorsDefined /\ WrappedUnlessTold
=============================================================================
