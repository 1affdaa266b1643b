------------------------------- MODULE Vectors -------------------------------
(***************************************************************************)
(* Vector expressions and initialisers (CLSmith/ExpressionVector.cpp and    *)
(* CLSmith/Vector.cpp).  An expression that is to be a vector, or a scalar  *)
(* out of one, is built from parts and cut to size; OpenCL takes a literal  *)
(* only if the parts fill it, or if it is a single scalar.                  *)
(***************************************************************************)
EXTENDS Integers, Sequences, FiniteSets

CONSTANTS Lengths,   \* kSizes that are tried: powers of 2, at least 2
          MaxNest    \* bound: make_random in make_random

VARIABLES frames,    \* calls of ExpressionVector::make_random:
                     \* [type, size, kind, remain, parts]; type 1 is a scalar
          returned   \* the last expression: [type, width, size, accesses]

vVars == <<frames, returned>>

Nothing == [type |-> 0, width |-> 0, size |-> 0, accesses |-> <<>>]

-----------------------------------------------------------------------------
(* Lengths *)

\* The lengths that are at most max, all of them for 0.
RandomVectorLengths(max) == {n \in Lengths : max = 0 \/ n <= max}

\* A part is smaller than the whole.
SubVectorLimit(size, remain) == IF remain = size THEN remain - 1 ELSE remain

\* The type of a part is promoted to any length: for a mutant.
SubTypesAny(n) == Lengths

SubTypes(n) == {n}

-----------------------------------------------------------------------------
Top == frames[Len(frames)]
SetTop(f) == Append(SubSeq(frames, 1, Len(frames) - 1), f)
Frame(type, size) == [type |-> type, size |-> size, kind |-> "?", remain |-> 0, parts |-> 0]

\* The caller gets a part.
Return(expr) ==
  /\ returned' = expr
  /\ LET rest == SubSeq(frames, 1, Len(frames) - 1) IN
     frames' = IF rest = <<>> THEN <<>>
               ELSE [rest EXCEPT ![Len(rest)].parts = @ + expr.width]

\* CLExpression chooses a vector for a scalar only where the depth allows it.
MakeExpression ==
  /\ frames = <<>>
  /\ \E type \in {1} \cup Lengths : frames' = <<Frame(type, 0)>>
  /\ UNCHANGED returned

\* Too deep: one constant for all components.
MakeConstant ==
  /\ frames # <<>> /\ Top.kind = "?" /\ Top.type # 1
  /\ Return([type |-> Top.type, width |-> Top.type, size |-> Top.type, accesses |-> <<>>])

ChooseKind ==
  /\ frames # <<>> /\ Top.kind = "?"
  /\ \E size \in IF Top.size = 0 THEN RandomVectorLengths(0) ELSE {Top.size} :
     \E kind \in {"literal", "variable", "simd", "builtin"} :
       /\ kind = "simd" => Len(frames) < MaxNest
       /\ frames' = SetTop([Top EXCEPT !.size = size, !.kind = kind,
                              !.remain = IF kind = "literal" THEN size ELSE IF kind = "simd" THEN 1 ELSE 0,
                              !.parts = IF kind \in {"variable", "builtin"} THEN size ELSE 0])
  /\ UNCHANGED returned

\* A constant or any expression of the scalar type.
AddScalar ==
  /\ frames # <<>> /\ Top.kind = "literal" /\ Top.remain > 0
  /\ frames' = SetTop([Top EXCEPT !.remain = @ - 1, !.parts = @ + 1])
  /\ UNCHANGED returned

AddSubVector ==
  /\ frames # <<>> /\ Top.kind = "literal" /\ Top.remain > 2 /\ Len(frames) < MaxNest
  /\ \E n \in RandomVectorLengths(SubVectorLimit(Top.size, Top.remain)) : \E type \in SubTypes(n) :
       frames' = Append(SetTop([Top EXCEPT !.remain = @ - n]), Frame(type, n))
  /\ UNCHANGED returned

\* A vector expression of the length; of any size again.
AddVectorExpression ==
  /\ frames # <<>> /\ Top.kind = "simd" /\ Top.remain = 1
  /\ frames' = Append(SetTop([Top EXCEPT !.remain = 0]), Frame(Top.size, 0))
  /\ UNCHANGED returned

AccessCount(size, itemise_to) == IF size = itemise_to THEN 0 ELSE itemise_to

\* Half of the components by a suffix, all of them, or chosen ones.
Itemise ==
  /\ frames # <<>> /\ Top.kind # "?" /\ Top.remain = 0
  /\ LET n == AccessCount(Top.size, Top.type) IN
     IF Top.size = Top.type * 2
       THEN Return([type |-> Top.type, width |-> Top.size \div 2, size |-> Top.size, accesses |-> <<>>])
       ELSE \E component \in {0, Top.size - 1} :
              Return([type |-> Top.type, width |-> IF n = 0 THEN Top.size ELSE n, size |-> Top.size,
                      accesses |-> [i \in 1 .. n |-> component]])

Init == frames = <<>> /\ returned = Nothing

Next == \/ MakeExpression \/ MakeConstant \/ ChooseKind
        \/ AddScalar \/ AddSubVector \/ AddVectorExpression \/ Itemise

Spec == Init /\ [][Next]_vVars

-----------------------------------------------------------------------------
(* Initialisers *)

RandomIndex(idx) == (171 * 171 + (idx + 7) * (idx + 13)) * 487

Skip(size) == size - 1

\* The scalars and the commas, less one, of the initialiser of a vector, from
\* component idx on; a nested vector is smaller than what is left.
RECURSIVE Scalars(_, _), Commas(_, _)
Nested(size, idx) ==
  IF size - idx > 2 /\ RandomIndex(idx) % 500 >= 250
    THEN LET fits == {k \in 1 .. 4 : 2 ^ k <= size - idx - 1} IN 2 ^ ((RandomIndex(idx) % Cardinality(fits)) + 1)
    ELSE 0
After(size, idx) == IF Nested(size, idx) = 0 THEN idx + 1 ELSE idx + Skip(Nested(size, idx)) + 1
Scalars(size, idx) ==
  IF idx >= size THEN 0
  ELSE (IF Nested(size, idx) = 0 THEN 1 ELSE Scalars(Nested(size, idx), 0)) + Scalars(size, After(size, idx))
Commas(size, idx) ==
  IF idx >= size THEN 0 ELSE (IF size - idx > 1 THEN 1 ELSE 0) + Commas(size, After(size, idx))
RECURSIVE Items(_, _)
Items(size, idx) == IF idx >= size THEN 0 ELSE 1 + Items(size, After(size, idx))

\* An initialiser has as many scalars as the vector has components, and a comma
\* between any two items and none after the last (Vector.cpp:159).
InitialisersFill ==
  frames = <<>> => \A size \in {2, 4, 8, 16} : Scalars(size, 0) = size /\ Commas(size, 0) = Items(size, 0) - 1

\* When the parts of an expression are complete they fill the vector, whatever
\* they were cut from themselves, or are a single scalar (ExpressionVector.cpp:56).
PartsFill ==
  \A i \in DOMAIN frames :
    LET f == frames[i] IN
    (i = Len(frames) /\ f.kind # "?" /\ f.remain = 0) => f.parts = f.size

\* The expression has the length of its type, and picks components that exist
\* (ExpressionVector.cpp:100).
WidthsMatch ==
  returned # Nothing =>
    /\ returned.width = returned.type
    /\ \A i \in DOMAIN returned.accesses : returned.accesses[i] < returned.size

\* The parts of a literal are smaller than the literal: "it should be guarded to
\* prevent infinite recursion" (ExpressionVector.cpp:66).
PartsAreSmaller ==
  \A i \in 2 .. Len(frames) : frames[i - 1].kind = "literal" => frames[i].size < frames[i - 1].size

\* Whatever a vector is put together of, literals in literals and parts of variables, it
\* has the components its type says, and the nesting ends (ExpressionVector.cpp).
VectorsFill == InitialisersFill /\ PartsFill /\ WidthsMatch /\ PartsAreSmaller
=============================================================================
