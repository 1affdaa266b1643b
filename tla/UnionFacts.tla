------------------------------ MODULE UnionFacts ------------------------------
(***************************************************************************)
(* What csmith knows of unions (FactUnion.cpp): which field was written     *)
(* last, and so which fields may be read, along assignments and branches;   *)
(* beside it what FactPointTo.cpp knows of a pointer that is a field of a   *)
(* union.  memory is the set of what the unions may hold in a run.  Storage *)
(* is units: the low bits of the first byte, the rest of it, the bytes 1 to *)
(* 8.  Bytes that a store does not give a value to are unspecified.         *)
(***************************************************************************)
EXTENDS Integers, Sequences, FiniteSets, TLC

CONSTANTS Layouts,       \* the kinds of the fields of a union type: sequences of kinds
          TypeSensitive, \* CGOptions::union_read_type_sensitive
          Arrays,        \* the variables that are arrays of unions
          InnerZeros,    \* may a 64-bit zero be assigned inside a structure, behind its start?
          MaxStores      \* bound: assignments

VARIABLES fields,   \* the union type
          facts,    \* [last, points_to]: the facts about every variable
          memory,   \* the possible contents of the variables
          branches, \* the branches that are open, with the facts of where they come from
          stores    \* the number of assignments

ufVars == <<fields, facts, memory, branches, stores>>

UnionVars == {"u1", "u2"}
Outside == "x"      \* a variable that is no part of a union
BOTTOM == 0         \* no field may be read
SIZE_UNKNOWN == 100

Byte0 == {"low", "high"}
Layout ==    \* size, what a store of the whole field gives a value to, and its parts
  [int8   |-> [size |-> 1, units |-> Byte0, parts |-> {}],
   int32  |-> [size |-> 4, units |-> Byte0 \cup {"1", "2", "3"}, parts |-> {}],
   int64  |-> [size |-> 8, units |-> Byte0 \cup {"1", "2", "3", "4", "5", "6", "7"}, parts |-> {}],
   bits   |-> [size |-> 4, units |-> {"low"}, parts |-> {}],
   char_p |-> [size |-> 0, units |-> Byte0 \cup {"1", "2", "3", "4", "5", "6", "7"}, parts |-> {}],
   packed |-> [size |-> 3, units |-> Byte0 \cup {"1", "2"},
               parts |-> {[units |-> Byte0, padding |-> {}], [units |-> {"1", "2"}, padding |-> {}]}],
   wide   |-> [size |-> 9, units |-> Byte0 \cup {"1", "2", "3", "4", "5", "6", "7", "8"},
               parts |-> {[units |-> {"1", "2", "3", "4", "5", "6", "7", "8"}, padding |-> {}]}],
   padded |-> [size |-> SIZE_UNKNOWN, units |-> Byte0 \cup {"4", "5", "6", "7"},
               parts |-> {[units |-> {"4", "5", "6", "7"}, padding |-> {}]}],
   nested |-> [size |-> SIZE_UNKNOWN, units |-> Byte0 \cup {"2", "3"},
               parts |-> {[units |-> Byte0 \cup {"2", "3"}, padding |-> {"1"}]}]]
Size(f) == Layout[fields[f]].size
Units(f) == Layout[fields[f]].units
IsPointer(f) == fields[f] = "char_p"
HasPointer == \E f \in DOMAIN fields : IsPointer(f)

-----------------------------------------------------------------------------
(* The lattice: fields, and BOTTOM *)

\* Bit-fields are not told apart: for a mutant.
BySizeOnly(f, g) == f = BOTTOM \/ IF g = BOTTOM THEN FALSE ELSE f = g \/ Size(f) <= Size(g)

\* Whatever g lets a program read, f does not let it read more.
Imply(f, g) ==
  \/ f = BOTTOM
  \/ IF g = BOTTOM THEN FALSE
     ELSE \/ f = g
          \/ /\ TypeSensitive
             /\ IF IsPointer(f) /\ IsPointer(g) THEN TRUE
                ELSE /\ SIZE_UNKNOWN \notin {Size(f), Size(g)}
                     /\ Size(f) <= Size(g) /\ fields[g] # "bits"

Join(f, g) == CASE Imply(f, g) -> f
                [] ~Imply(f, g) /\ Imply(g, f) -> g
                [] OTHER -> BOTTOM

\* The union is known, the pointers in it are not: for a mutant.
NoDangling(v, f) == Imply(f, facts.last[v])

\* A field may be read; a pointer moreover has to point to something.
IsReadable(v, f) == /\ Imply(f, facts.last[v])
                    /\ IsPointer(f) => "garbage" \notin facts.points_to[v]

-----------------------------------------------------------------------------
(* The facts behind an assignment whose left side is one of targets: the    *)
(* facts of the variables in new, renewed or merged                         *)

Update(old, new, merge(_, _)) ==
  [v \in UnionVars |->
     IF v \notin DOMAIN new THEN old[v]
     ELSE IF Cardinality(DOMAIN new) = 1 /\ v \notin Arrays THEN new[v] ELSE merge(old[v], new[v])]
Either(s, t) == s \cup t

\* A store through a pointer is taken for one to every union: for a mutant.
CertainlyWritten(targets, f) == [v \in targets \cap UnionVars |-> f]

\* Where a store is uncertain nothing may be read behind it.
FieldWritten(targets, f) == [v \in targets \cap UnionVars |-> IF Cardinality(targets) > 1 THEN BOTTOM ELSE f]

\* What a store to another field or a part of one leaves of the pointers in a union.
PointersWritten(targets, zero) ==
  [v \in (IF HasPointer THEN targets \cap UnionVars ELSE {}) |-> IF zero THEN {"null"} ELSE {"garbage"}]

\* Padding does not matter: for a mutant.
PartIgnored(targets, part) == [v \in {} |-> BOTTOM]

\* Padding inside a union makes it unreadable, any other part leaves the last field.
PartWritten(targets, part) == [v \in (IF part.padding # {} THEN targets \cap UnionVars ELSE {}) |-> BOTTOM]

Behind(last, points_to) == [last |-> Update(facts.last, last, Join),
                            points_to |-> Update(facts.points_to, points_to, Either)]

-----------------------------------------------------------------------------
(* What happens in a run: one of the targets is written, in an array maybe  *)
(* another element than the one that is looked at                           *)

InMemory(targets, value(_, _)) ==
  UNION {{[m EXCEPT ![v] = value(m, v)] : v \in targets \cap UnionVars} : m \in memory}
  \cup (IF targets \ (UnionVars \ Arrays) # {} THEN memory ELSE {})
Stored(f, pointer) == [defined |-> Units(f), pointer |-> pointer]

Store(last, points_to, contents) ==
  /\ stores < MaxStores
  /\ stores' = stores + 1
  /\ facts' = Behind(last, points_to)
  /\ memory' = contents
  /\ UNCHANGED <<fields, branches>>

Uncertain == {{v} : v \in UnionVars} \cup {UnionVars, {"u1", Outside}, {"u2", Outside}}

\* An integer, a bit-field or a structure is written, directly or through a pointer.
WriteField ==
  \E targets \in Uncertain, f \in DOMAIN fields, zero \in BOOLEAN :
    /\ ~IsPointer(f) /\ (fields[f] = "bits" => Outside \notin targets /\ targets # UnionVars)
    /\ zero => fields[f] = "int64"
    /\ Store(FieldWritten(targets, f), PointersWritten(targets, zero),
             InMemory(targets, LAMBDA m, v : Stored(f, IF zero THEN "null" ELSE "none")))

WritePointer ==
  \E targets \in Uncertain, f \in DOMAIN fields, value \in {"null", Outside} :
    /\ IsPointer(f)
    /\ Store(FieldWritten(targets, f), [v \in targets \cap UnionVars |-> {value}],
             InMemory(targets, LAMBDA m, v : Stored(f, value)))

WritePart ==
  \E targets \in Uncertain, f \in DOMAIN fields :
    \E part \in Layout[fields[f]].parts, zero \in {FALSE, InnerZeros /\ fields[f] = "wide"} :
      Store(PartWritten(targets, part), PointersWritten(targets, zero),
            InMemory(targets, LAMBDA m, v :
              [defined |-> (m[v].defined \ part.padding) \cup part.units, pointer |-> "none"]))

\* Unions are assigned to unions; both sides may be uncertain.
CopyUnion ==
  \E targets \in {{"u1"}, {"u2"}, UnionVars}, from \in {{"u1"}, {"u2"}, UnionVars} :
    LET some == CHOOSE v \in from : TRUE
        joined == IF from = {some} THEN facts.last[some] ELSE Join(facts.last["u1"], facts.last["u2"])
    IN Store([v \in targets |-> joined],
             [v \in (IF HasPointer THEN targets ELSE {}) |-> UNION {facts.points_to[r] : r \in from}],
             UNION {InMemory(targets, LAMBDA m, v : m[r]) : r \in from})

\* A constant gives its first field a value.
Initial == [last |-> 1, points_to |-> IF IsPointer(1) THEN {"null"} ELSE {"garbage"},
            held |-> Stored(1, IF IsPointer(1) THEN "null" ELSE "none")]
WriteConstant ==
  \E targets \in {{"u1"}, {"u2"}, UnionVars} :
    Store([v \in targets |-> Initial.last], [v \in (IF HasPointer THEN targets ELSE {}) |-> Initial.points_to],
          InMemory(targets, LAMBDA m, v : Initial.held))

-----------------------------------------------------------------------------
(* Branches *)

Here == [facts |-> facts, memory |-> memory]

Branch ==
  /\ Len(branches) = 0 /\ stores < MaxStores
  /\ branches' = Append(branches, Here)
  /\ UNCHANGED <<fields, facts, memory, stores>>

Otherwise ==
  /\ Len(branches) = 1
  /\ branches' = Append(branches, Here)
  /\ facts' = branches[1].facts /\ memory' = branches[1].memory
  /\ UNCHANGED <<fields, stores>>

\* The facts of both branches are merged.
Together(one, other) == [last |-> [v \in UnionVars |-> Join(one.last[v], other.last[v])],
                         points_to |-> [v \in UnionVars |-> one.points_to[v] \cup other.points_to[v]]]
Merge ==
  /\ Len(branches) = 2
  /\ facts' = Together(branches[2].facts, facts)
  /\ memory' = memory \cup branches[2].memory
  /\ branches' = <<>>
  /\ UNCHANGED <<fields, stores>>

Done == stores = MaxStores /\ branches = <<>> /\ UNCHANGED ufVars

Init ==
  /\ fields \in Layouts
  /\ facts = [last |-> [v \in UnionVars |-> Initial.last], points_to |-> [v \in UnionVars |-> Initial.points_to]]
  /\ memory = {[v \in UnionVars |-> Initial.held]}
  /\ branches = <<>> /\ stores = 0

Next == \/ WriteField \/ WritePointer \/ WritePart \/ CopyUnion \/ WriteConstant
        \/ Branch \/ Otherwise \/ Merge
        \/ Done

Spec == Init /\ [][Next]_ufVars

-----------------------------------------------------------------------------
(* A field that FactUnion lets the program read, with all that is merged    *)
(* and uncertain on the way, has a value in every run, and it is no address:*)
(* no compiler decides it.                                                  *)
BytesDefined ==
  \A v \in UnionVars, f \in DOMAIN fields, m \in memory :
    IsReadable(v, f) /\ ~IsPointer(f) => Units(f) \subseteq m[v].defined /\ m[v].pointer # Outside

(* A pointer in a union that may be read holds what its points-to fact says:*)
(* the two analyses agree, although the size of a pointer counts as 0       *)
(* (Type.cpp:1580) and so no integer was ever too narrow for it.            *)
PointersHeld ==
  \A v \in UnionVars, f \in DOMAIN fields, m \in memory :
    IsReadable(v, f) /\ IsPointer(f) => m[v].pointer \in facts.points_to[v]

\* What the program may read of a union was written as what it is read, in every run:
\* bytes of numbers, or the pointer the points-to fact knows (FactUnion.cpp).
UnionReadsDefined == BytesDefined /\ PointersHeld
=============================================================================
