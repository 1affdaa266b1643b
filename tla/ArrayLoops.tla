------------------------------ MODULE ArrayLoops ------------------------------
(***************************************************************************)
(* Loops over arrays (StatementFor.cpp, StatementArrayOp.cpp, parts of      *)
(* ArrayVariable.cpp and VariableSelector.cpp).  No index is checked in the *)
(* program that is written: a loop gets a bound for its induction variable, *)
(* and the items of an array inside of it are built from induction          *)
(* variables, whose bounds are known, and offsets that are chosen from them.*)
(***************************************************************************)
EXTENDS Integers, Sequences, FiniteSets

CONSTANTS IVs,        \* integer variables: [name, bits, signed, volatile]
          MaxDims,    \* CGOptions::max_array_dimensions
          MaxPerDim,  \* CGOptions::max_array_length_per_dimension
          MaxLength,  \* CGOptions::max_array_length
          Offset,     \* the random values of init and limit are 0 .. 2 * Offset - 1, less Offset (60 and 30)
          MaxIncr,    \* the increments are 0 .. MaxIncr - 1 (10)
          Sizes,      \* bound: the sizes that are tried, of 1 .. MaxPerDim
          NoArrays,   \* bound: arrays
          NoLoops     \* bound: nested loops; none is in a loop with a random control

VARIABLES arrays,     \* the collectives: tuples of sizes
          directives, \* rw_directive of the contexts in use: sets of arrays that must be used
          loops,      \* the loops around: [iv, bound, init, limit, incr, test]
          item        \* the item that was made last: [array, indices, initialised], an index is [loop, offset]

aVars == <<arrays, directives, loops, item>>

INVALID_BOUND == 1000
NoItem == [array |-> 0, indices |-> <<>>, initialised |-> FALSE]

-----------------------------------------------------------------------------
(* Shapes *)

\* Bound: of the random numbers below n, the first and the last.
PureUpto(n) == IF n = 0 THEN {0} ELSE {0, n - 1}

RECURSIVE Total(_)
Total(sizes) == IF sizes = <<>> THEN 1 ELSE sizes[1] * Total(Tail(sizes))

\* A dimension that would make the array too long is cut.
DimenSize(total, dimen) == IF total * dimen > MaxLength THEN MaxLength \div total ELSE dimen

\* The sizes chosen one after the other; a dimension of no items is left out.
RECURSIVE Shapes(_, _)
Shapes(dimension, sizes) ==
  IF dimension = 0 THEN {sizes}
  ELSE UNION {LET size == DimenSize(Total(sizes), d) IN
                Shapes(dimension - 1, IF size > 0 THEN Append(sizes, size) ELSE sizes) : d \in Sizes}

CreateArrayVariable ==
  /\ Len(arrays) < NoArrays
  /\ loops = <<>>
  /\ \E dimension \in 1 .. MaxDims : \E sizes \in Shapes(dimension, <<>>) : arrays' = Append(arrays, sizes)
  /\ item' = NoItem /\ UNCHANGED <<directives, loops>>

-----------------------------------------------------------------------------
(* Loop control *)

\* init is 0 or random, also below 0 for an unsigned variable, whose limit is above 0;
\* the step goes from init towards limit, whatever the test is.
RandomControls(signed) ==
  {[init |-> i, limit |-> l, incr |-> IF l >= i THEN s ELSE -s, test |-> t, bound |-> INVALID_BOUND] :
     i \in -Offset .. Offset - 1,
     l \in IF signed THEN -Offset .. Offset - 1 ELSE 1 .. 2 * Offset,
     s \in 1 .. MaxIncr - 1,
     t \in {"<", "<=", ">", ">=", "==", "!="}}

\* The bound of going up is not rounded to the last value: for a mutant.
LastUpUnrounded(bound, init, incr) == bound - incr

LastUp(bound, init, incr) == ((bound - init) \div incr) * incr + init

Step(n) == IF n = 0 THEN 1 ELSE n

\* bound: the last index of the shortest dimension.  Going down is for signed variables.
Upward(bound) ==
  {[init |-> i, limit |-> bound, incr |-> s, test |-> "<=", bound |-> LastUp(bound, i, s)] :
     i \in PureUpto(bound \div 2), s \in {Step(n) : n \in {1} \cup PureUpto(bound \div 4)}}
Downward(bound) ==
  {[init |-> bound - i, limit |-> l, incr |-> -s, test |-> ">=", bound |-> bound - i] :
     i \in PureUpto(bound \div 2), l \in PureUpto(bound \div 2), s \in {Step(n) : n \in {1} \cup PureUpto(bound \div 4)}}
ArrayControls(bound, signed) == Upward(bound) \cup IF signed THEN Downward(bound) ELSE {}

-----------------------------------------------------------------------------
(* Induction variables *)

\* is_nonwritable: the induction variables of the loops around are not written.
Writable(v) == \A i \in DOMAIN loops : loops[i].iv # v

\* A new integer when no other is left.
NewVar == [name |-> <<"new", Len(loops)>>, bits |-> 16, signed |-> TRUE, volatile |-> FALSE]
SelectLoopCtrlVar(invalid) ==
  LET ok == {v \in IVs : Writable(v) /\ v \notin invalid} IN
  IF ok # {} THEN ok ELSE {NewVar}

Directive == directives[Len(directives)]
SmallestSize(a) == CHOOSE n \in {arrays[a][d] : d \in DOMAIN arrays[a]} : \A d \in DOMAIN arrays[a] : n <= arrays[a][d]

\* A volatile variable is dropped and another one selected.
MakeIteration(directive) ==
  /\ Len(loops) < NoLoops /\ \A i \in DOMAIN loops : loops[i].bound # INVALID_BOUND
  /\ \E v \in SelectLoopCtrlVar({w \in IVs : w.volatile}) :
       \E c \in IF directive # {}
                 THEN UNION {ArrayControls(SmallestSize(a) - 1, v.signed) : a \in directive}
                 ELSE RandomControls(v.signed) :
         loops' = Append(loops, [iv |-> v, bound |-> c.bound, init |-> c.init, limit |-> c.limit,
                                 incr |-> c.incr, test |-> c.test])

\* A loop with the arrays its body must use, besides those of the context.
MakeRandomArrayLoop ==
  /\ \E chosen \in SUBSET DOMAIN arrays :
       /\ directives' = Append(directives, Directive \cup chosen)
       /\ MakeIteration(Directive \cup chosen)
  /\ item' = NoItem /\ UNCHANGED arrays

\* A loop of its own, or one that is nested because an array has more dimensions.
MakeRandom ==
  /\ directives' = Append(directives, Directive)
  /\ MakeIteration(Directive)
  /\ item' = NoItem /\ UNCHANGED arrays

EndLoop ==
  /\ loops # <<>>
  /\ loops' = SubSeq(loops, 1, Len(loops) - 1)
  /\ directives' = SubSeq(directives, 1, Len(directives) - 1)
  /\ item' = NoItem /\ UNCHANGED arrays

Counting(v, n) == [iv |-> v, bound |-> n, init |-> 0, limit |-> n, incr |-> 1, test |-> "<"]

\* All members, with a variable of its own for every dimension.
MakeRandomArrayInit ==
  /\ \E a \in DOMAIN arrays : \E cvs \in [DOMAIN arrays[a] -> IVs \cup {NewVar}] :
       /\ \A d \in DOMAIN cvs : cvs[d] \in SelectLoopCtrlVar({cvs[e] : e \in 1 .. d - 1})
       /\ item' = [array |-> a, indices |-> [d \in DOMAIN cvs |-> [loop |-> Counting(cvs[d], arrays[a][d]), offset |-> 0]],
                   initialised |-> TRUE]
  /\ UNCHANGED <<arrays, directives, loops>>

-----------------------------------------------------------------------------
(* Items *)

Fitting(len) == {i \in DOMAIN loops : loops[i].bound # INVALID_BOUND /\ loops[i].bound < len}

Offsets(len, bound) == IF len - bound > 1 THEN PureUpto(len - bound) ELSE {0}

Index(len) == UNION {{[loop |-> loops[i], offset |-> o] : o \in Offsets(len, loops[i].bound)} : i \in Fitting(len)}

\* The indices of an item: an induction variable that fits and an offset.  Fails
\* when there are fewer loops than dimensions, or none fits.
Indices(sizes) ==
  IF Len(sizes) > Len(loops) THEN {}
  ELSE {f \in [DOMAIN sizes -> UNION {Index(sizes[d]) : d \in DOMAIN sizes}] :
          \A d \in DOMAIN sizes : f[d] \in Index(sizes[d])}

\* A variable that must be used is used; three times of four it is crossed off.
SelectMustUseVar ==
  /\ \E a \in Directive : \E indices \in Indices(arrays[a]) :
       /\ item' = [array |-> a, indices |-> indices, initialised |-> FALSE]
       /\ \E directive \in {Directive, Directive \ {a}} :
            directives' = [directives EXCEPT ![Len(directives)] = directive]
  /\ UNCHANGED <<arrays, loops>>

-----------------------------------------------------------------------------
Init == arrays = <<>> /\ directives = <<{}>> /\ loops = <<>> /\ item = NoItem

Next == \/ CreateArrayVariable \/ MakeRandomArrayLoop \/ MakeRandom \/ EndLoop
        \/ MakeRandomArrayInit
        \/ SelectMustUseVar

Spec == Init /\ [][Next]_aVars

-----------------------------------------------------------------------------
(* Execution of a loop *)

Holds(l, v) ==
  CASE l.test = "<" -> v < l.limit [] l.test = "<=" -> v <= l.limit
    [] l.test = ">" -> v > l.limit [] l.test = ">=" -> v >= l.limit
    [] l.test = "==" -> v = l.limit [] l.test = "!=" -> v # l.limit

\* What a variable has after an assignment: it wraps around at its width.
Convert(iv, n) ==
  LET m == n % 2^iv.bits IN IF iv.signed /\ m >= 2^(iv.bits - 1) THEN m - 2^iv.bits ELSE m

Start(l) == Convert(l.iv, l.init)
After(l, v) == Convert(l.iv, v + l.incr)

\* The values the body sees: up to one that ends the loop, or that was seen before.
RECURSIVE ValuesFrom(_, _, _)
ValuesFrom(l, v, seen) == IF Holds(l, v) /\ v \notin seen THEN ValuesFrom(l, After(l, v), seen \cup {v}) ELSE seen
Values(l) == ValuesFrom(l, Start(l), {})

\* The total length is limited by cutting dimensions, which may not leave an
\* array without one (ArrayVariable.cpp:147).
ShapesFit == \A a \in DOMAIN arrays : arrays[a] # <<>> /\ Total(arrays[a]) <= MaxLength

\* Whatever values the induction variables take, whatever the order and the nesting
\* of the loops and the shapes of the arrays that share them, an index is within its
\* dimension (StatementFor.cpp:113, VariableSelector.cpp:1448).
IndicesInBounds ==
  \A d \in DOMAIN item.indices :
    LET index == item.indices[d] IN
    \A v \in Values(index.loop) :
      v + index.offset \in 0 .. arrays[item.array][d] - 1

\* No two loops around a statement, and no two dimensions of an array that is
\* initialised, count with the same variable (StatementFor.cpp:410).
CountersDistinct ==
  /\ \A i, j \in DOMAIN loops : i # j => loops[i].iv # loops[j].iv
  /\ \A d, e \in DOMAIN item.indices :
       (d # e /\ item.initialised) =>
         item.indices[d].loop.iv # item.indices[e].loop.iv

\* A loop over arrays ends, whatever the width of its variable: a step passes the limit
\* and does not wrap around.  Of other loops this is not so, although their steps are
\* made to reach the limit (StatementFor.cpp:85): an unsigned variable may start below 0
\* or step below it, from 2 by 9 with a limit of 1; a test of equality may be jumped over;
\* >= may hold for the limit only at the start of a loop that goes up.
LoopsEnd ==
  \A i \in DOMAIN loops :
    loops[i].bound # INVALID_BOUND /\ Holds(loops[i], Start(loops[i])) =>
      \E v \in Values(loops[i]) : ~Holds(loops[i], After(loops[i], v))

\* A loop that goes over arrays ends, by a counter of its own, and every access in it is
\* inside of an array that has kept its dimensions (StatementFor.cpp:113).  Nothing is said
\* of when other loops end.
LoopsStayInside == ShapesFit /\ IndicesInBounds /\ CountersDistinct /\ LoopsEnd
=============================================================================
