-------------------------------- MODULE Types --------------------------------
(***************************************************************************)
(* Type.cpp: the types of a program.  Structures and unions are made one    *)
(* after the other, field by field; what is chosen afterwards is marked as  *)
(* used and declared, with all it is made of.  Four parts of csmith number  *)
(* the members of an aggregate on their own: its declaration, its variables *)
(* (Variable.cpp), its constants (Constant.cpp) and the list of its integer *)
(* members for hashes and initialisation of arrays.                         *)
(***************************************************************************)
EXTENDS Integers, Sequences, FiniteSets

CONSTANTS Simples,               \* the simple types: [name, size, signed]
          MaxFields,             \* max_struct_fields, max_union_fields
          MaxNestedStructLevel,  \* max_nested_struct_level
          MaxIndirectLevel,      \* max_indirect_level
          MaxAggregates,         \* bound: structures and unions
          MaxAllFields,          \* bound: fields of all of them
          MaxPointers,           \* bound: pointer types
          MaxUsed                \* bound: aggregates that are chosen

VARIABLES AllTypes,       \* the types but for pointers
          derived_types,  \* pointer types: what they point to
          used,           \* aggregates that were chosen
          making,         \* the aggregate that gets its fields
          progress,       \* "structs", "unions", "program", "printed"
          declared        \* the declarations, in order

tyVars == <<AllTypes, derived_types, used, making, progress, declared>>

(* A type is a number: n > 0 is AllTypes[n], -n is the n-th pointer type. *)

None == [kind |-> "none", fields |-> <<>>, lens |-> <<>>, wanted |-> 0]
Simple(s) == [kind |-> "simple", name |-> s.name, size |-> s.size, signed |-> s.signed, fields |-> <<>>, lens |-> <<>>]

T(r) == AllTypes[r]
IsPointer(r) == r < 0
IsAggregate(r) == r > 0 /\ T(r).kind \in {"struct", "union"}
IsStruct(r) == r > 0 /\ T(r).kind = "struct"
IsSimple(r) == r > 0 /\ T(r).kind = "simple"
PtrType(r) == derived_types[-r]
Fields(r) == DOMAIN T(r).fields

-----------------------------------------------------------------------------
(* What is known of a type *)

is_unamed_padding(r, i) == T(r).lens[i] = 0
is_bitfield(r, i) == T(r).lens[i] >= 0

\* Fields are older than the types that have them, so that functions on types count up.
get_struct_depth(r) ==
  LET f[t \in 1 .. Len(AllTypes)] ==
        IF ~IsStruct(t) THEN 0
        ELSE LET depths == {f[T(t).fields[i]] : i \in {j \in Fields(t) : T(t).fields[j] > 0}} \cup {0}
             IN 1 + CHOOSE d \in depths : \A e \in depths : d >= e
  IN IF r < 0 THEN 0 ELSE f[r]

has_bitfields(r) ==
  LET f[t \in 1 .. Len(AllTypes)] ==
        \E i \in Fields(t) : is_bitfield(t, i) \/ (IsStruct(T(t).fields[i]) /\ f[T(t).fields[i]])
  IN r > 0 /\ f[r]

get_indirect_level(r) ==
  LET f[n \in 1 .. Len(derived_types)] == IF derived_types[n] < 0 THEN 1 + f[-derived_types[n]] ELSE 1
  IN IF r < 0 THEN f[-r] ELSE 0

Pointees(r) ==
  LET f[n \in 1 .. Len(derived_types)] ==
        {derived_types[n]} \cup (IF derived_types[n] < 0 THEN f[-derived_types[n]] ELSE {})
  IN IF r < 0 THEN f[-r] ELSE {}

is_dereferenced_from(r, t) == r \in Pointees(t)

is_convertable(r, t) ==
  \/ r = t
  \/ IsSimple(r) /\ IsSimple(t)
  \/ /\ IsPointer(r) /\ IsPointer(t)
     /\ \/ PtrType(r) = PtrType(t)
        \/ IsSimple(PtrType(r)) /\ IsSimple(PtrType(t)) /\ T(PtrType(r)).size = T(PtrType(t)).size

is_derivable(r, t) == is_convertable(r, t) \/ is_dereferenced_from(r, t) \/ (IsPointer(r) /\ PtrType(r) = t)

match(r, t, mt) ==
  CASE mt = "eExact" -> r = t
    [] mt = "eConvert" -> is_convertable(r, t)
    [] mt = "eDereference" -> is_dereferenced_from(r, t)
    [] mt = "eDerefExact" -> r = t \/ is_dereferenced_from(r, t)
    [] mt = "eFlexible" -> is_derivable(r, t)

-----------------------------------------------------------------------------
(* Members, as the four parts see them.  A name is its path of numbers. *)

\* Members that have a name, and the number of the i-th field among them.
Numbered(r) == {i \in Fields(r) : ~is_unamed_padding(r, i)}
Number(r, i) == Cardinality({j \in Numbered(r) : j < i})

\* OutputStructUnion.
Declared(r) == {<<Number(r, i), T(r).fields[i]>> : i \in Numbered(r)}

\* Variable::create_field_vars.
FieldVars(r) == {<<Number(r, i), T(r).fields[i]>> : i \in Fields(r) \ {j \in Fields(r) : is_unamed_padding(r, j)}}

\* GenerateRandomStructConstant: a value and, but in front of the first field, a comma; a
\* union gets a value for its first field.
StructConstant(r) ==
  IF T(r).kind = "union" THEN [values |-> 1, commas |-> 0]
  ELSE [values |-> Cardinality({i \in Fields(r) : T(r).lens[i] # 0}),
        commas |-> Cardinality({i \in Fields(r) : T(r).lens[i] # 0 /\ i > 1})]

\* get_int_subfield_names; fields of the union that is initialised are left out.
SubfieldNames(r, excluded) ==
  LET f[t \in 1 .. Len(AllTypes)] ==
        IF IsSimple(t) THEN {<<>>}
        ELSE UNION {{<<Number(t, i)>> \o name : name \in (IF T(t).fields[i] > 0 THEN f[T(t).fields[i]] ELSE {})} : i \in Numbered(t)}
  IN {name \in f[r] : name = <<>> \/ name[1] \notin excluded}

\* The names that the variables of an aggregate have.
VariableNames(r) ==
  LET f[t \in 1 .. Len(AllTypes)] ==
        IF IsSimple(t) THEN {<<>>}
        ELSE UNION {{<<v[1]>> \o name : name \in (IF v[2] > 0 THEN f[v[2]] ELSE {})} : v \in FieldVars(t)}
  IN f[r]

-----------------------------------------------------------------------------
(* Making types *)

Aggregates == {r \in 1 .. Len(AllTypes) : IsAggregate(r)}

AllFields ==
  LET sum[r \in 0 .. Len(AllTypes)] == IF r = 0 THEN 0 ELSE sum[r - 1] + Cardinality(Fields(r)) IN sum[Len(AllTypes)]

Begin(kind) ==
  /\ progress = (IF kind = "struct" THEN "structs" ELSE "unions")
  /\ making.kind = "none" /\ Cardinality(Aggregates) < MaxAggregates
  /\ \E n \in 1 .. MaxFields : n + AllFields <= MaxAllFields /\ making' = [None EXCEPT !.kind = kind, !.wanted = n]
  /\ UNCHANGED <<AllTypes, derived_types, used, progress, declared>>

Missing == making.kind # "none" /\ Len(making.fields) < making.wanted
Add(field, len) ==
  making' = [making EXCEPT !.fields = Append(@, field), !.lens = Append(@, len)]

Unsigned == CHOOSE r \in 1 .. Len(AllTypes) : IsSimple(r) /\ ~T(r).signed /\ T(r).size = 4

\* make_one_bitfield: a length of zero needs a field with a length in front of it.
ZeroAllowed(lens) == lens # <<>> /\ lens[Len(lens)] # 0

MakeOneBitfield ==
  /\ Missing
  /\ \E len \in {0, 1} :
       /\ len = 0 => ZeroAllowed(making.lens)
       /\ Add(Unsigned, len)
  /\ UNCHANGED <<AllTypes, derived_types, used, progress, declared>>

\* ChooseRandomTypeFilter for fields.
FieldType(r) == get_struct_depth(r) < MaxNestedStructLevel

MakeOneStructField ==
  /\ Missing /\ making.kind = "struct"
  /\ \E r \in 1 .. Len(AllTypes) : FieldType(r) /\ Add(r, -1)
  /\ UNCHANGED <<AllTypes, derived_types, used, progress, declared>>

UnionMember(r) == ~has_bitfields(r)

find_pointer_type(t) ==
  IF \E n \in 1 .. Len(derived_types) : derived_types[n] = t THEN derived_types ELSE Append(derived_types, t)

PointerTo(t, types) == -(CHOOSE n \in 1 .. Len(types) : types[n] = t)

\* make_one_union_field: simple types, structures, and char*.
MakeOneUnionField ==
  /\ Missing /\ making.kind = "union"
  /\ \/ /\ \E r \in 1 .. Len(AllTypes) : T(r).kind # "union" /\ UnionMember(r) /\ Add(r, -1)
        /\ UNCHANGED derived_types
     \/ /\ derived_types' = find_pointer_type(1)
        /\ Add(PointerTo(1, derived_types'), -1)
  /\ UNCHANGED <<AllTypes, used, progress, declared>>

FinishType ==
  /\ making.kind # "none" /\ ~Missing
  /\ AllTypes' = Append(AllTypes, [kind |-> making.kind, fields |-> making.fields, lens |-> making.lens])
  /\ making' = None
  /\ UNCHANGED <<derived_types, used, progress, declared>>

\* GenerateAllTypes: structures first, then unions.
Advance ==
  /\ making.kind = "none" /\ progress \in {"structs", "unions"}
  /\ progress' = (IF progress = "structs" THEN "unions" ELSE "program")
  /\ UNCHANGED <<AllTypes, derived_types, used, making, declared>>

-----------------------------------------------------------------------------
(* Choosing and declaring types *)

\* choose_random and the filters of types: an aggregate that they let through is used from
\* then on.
ChooseType ==
  /\ progress = "program" /\ Cardinality(used) < MaxUsed
  /\ \E r \in Aggregates : used' = used \cup {r}
  /\ UNCHANGED <<AllTypes, derived_types, making, progress, declared>>

\* make_random_pointer_type; the limit of levels is for pointers to pointers.
MakePointer ==
  /\ progress = "program" /\ Len(derived_types) < MaxPointers
  /\ \/ \E n \in 1 .. Len(derived_types) :
          /\ get_indirect_level(-n) < MaxIndirectLevel
          /\ derived_types' = find_pointer_type(-n)
          /\ UNCHANGED used
     \/ \E r \in 1 .. Len(AllTypes) :
          /\ used' = (IF IsAggregate(r) THEN used \cup {r} ELSE used)
          /\ derived_types' = find_pointer_type(IF IsSimple(r) THEN 1 ELSE r)
  /\ UNCHANGED <<AllTypes, making, progress, declared>>

\* Only the type itself is declared: for a mutant.
OutputAlone(done, r) == IF r \in {done[i] : i \in DOMAIN done} THEN done ELSE Append(done, r)

\* OutputStructUnion: what a type is made of is declared first, nothing twice.
OutputStructUnion(done, r) ==
  LET Out[t \in 1 .. Len(AllTypes)] ==   \* what t needs, in order
        LET inner[i \in 0 .. Len(T(t).fields)] ==
              IF i = 0 THEN <<>>
              ELSE LET g == T(t).fields[i]
                   IN IF IsAggregate(g) THEN inner[i - 1] \o Out[g] ELSE inner[i - 1]
        IN Append(inner[Len(T(t).fields)], t)
      Kept[i \in 0 .. Len(Out[r])] ==
        IF i = 0 THEN done
        ELSE IF Out[r][i] \in {Kept[i - 1][j] : j \in DOMAIN Kept[i - 1]} THEN Kept[i - 1]
        ELSE Append(Kept[i - 1], Out[r][i])
  IN Kept[Len(Out[r])]

OutputStructUnionDeclarations ==
  /\ progress = "program"
  /\ declared' = LET upTo[r \in 0 .. Len(AllTypes)] ==
                       IF r = 0 THEN <<>>
                       ELSE IF r \in used /\ IsAggregate(r) THEN OutputStructUnion(upTo[r - 1], r) ELSE upTo[r - 1]
                 IN upTo[Len(AllTypes)]
  /\ progress' = "printed"
  /\ UNCHANGED <<AllTypes, derived_types, used, making>>

Done == progress = "printed" /\ UNCHANGED tyVars

Init ==
  /\ AllTypes = [i \in DOMAIN Simples |-> Simple(Simples[i])]
  /\ derived_types = <<>> /\ used = {} /\ making = None /\ progress = "structs" /\ declared = <<>>

Next ==
  \/ Begin("struct") \/ Begin("union") \/ MakeOneBitfield \/ MakeOneStructField \/ MakeOneUnionField
  \/ FinishType \/ Advance
  \/ ChooseType \/ MakePointer \/ OutputStructUnionDeclarations \/ Done

Spec == Init /\ [][Next]_tyVars

-----------------------------------------------------------------------------
(* Properties *)

\* The declaration, the variables and the constants of an aggregate agree on its members,
\* and what is initialised or hashed by name is a variable.
MembersAgree ==
  \A r \in Aggregates :
    /\ FieldVars(r) = Declared(r)
    /\ SubfieldNames(r, {}) = VariableNames(r)
    /\ T(r).kind = "struct" => StructConstant(r).values = Cardinality(Declared(r))
    /\ StructConstant(r).values = StructConstant(r).commas + 1

\* No bit-field of no length is the first of an aggregate or follows another one: it has
\* something to align, and an aggregate has a member.
PaddingFollowsMember ==
  \A r \in Aggregates : \A i \in Fields(r) : is_unamed_padding(r, i) => i > 1 /\ ~is_unamed_padding(r, i - 1)

\* Structures are not nested deeper than --max-nested-struct-level, unions not at all, and
\* no member of a union has bit-fields inside, whose layout the implementation defines.
NestingLimited ==
  \A r \in Aggregates :
    /\ get_struct_depth(r) <= MaxNestedStructLevel
    /\ T(r).kind = "union" => \A i \in Fields(r) : LET g == T(r).fields[i] IN
         g > 0 => T(g).kind # "union" /\ \A k \in Fields(g) : ~is_bitfield(g, k) /\ ~(T(g).fields[k] > 0 /\ has_bitfields(T(g).fields[k]))

\* Every aggregate that the program may name is declared once, behind its members.
DeclaredBehindMembers ==
  progress = "printed" =>
    /\ \A i, j \in DOMAIN declared : declared[i] = declared[j] => i = j
    /\ \A r \in used : IsAggregate(r) => \E i \in DOMAIN declared : declared[i] = r
    /\ \A n \in 1 .. Len(derived_types) :
         IsAggregate(derived_types[n]) => \E i \in DOMAIN declared : declared[i] = derived_types[n]
    /\ \A i \in DOMAIN declared : \A k \in Fields(declared[i]) :
         IsAggregate(T(declared[i]).fields[k]) => \E j \in 1 .. i - 1 : declared[j] = T(declared[i]).fields[k]

\* Pointer types are one per type, so that types are compared by identity; levels of those
\* that the program asks for are limited.
PointersAreUnique ==
  /\ \A m, n \in 1 .. Len(derived_types) : derived_types[m] = derived_types[n] => m = n
  /\ \A n \in 1 .. Len(derived_types) : get_indirect_level(-n) <= MaxIndirectLevel

\* A variable that matches can be turned into what is wanted: by its address, by
\* dereferences, or by a conversion between simple types or pointers to them of one size.
MatchesConvert ==
  LET refs == (1 .. Len(AllTypes)) \cup {-n : n \in 1 .. Len(derived_types)}
      RECURSIVE Deref(_, _)
      Deref(r, n) == IF n = 0 \/ ~IsPointer(r) THEN r ELSE Deref(PtrType(r), n - 1)
  IN progress = "program" => \A r, t \in refs :
       /\ match(r, t, "eFlexible") =>
            \/ \E n \in 0 .. get_indirect_level(t) : Deref(t, n) = r
            \/ IsPointer(r) /\ PtrType(r) = t
            \/ is_convertable(r, t) /\ IsPointer(r) = IsPointer(t) /\ get_indirect_level(r) = get_indirect_level(t)
       /\ match(r, t, "eDereference") = (\E n \in 1 .. get_indirect_level(t) : Deref(t, n) = r)
       /\ is_convertable(r, t) = is_convertable(t, r)
       /\ IsAggregate(r) \/ IsAggregate(t) => (is_convertable(r, t) = (r = t))

\* The types of a program can be declared in the order they are printed, their variables
\* and constants have the members they have, and what is taken to match can be
\* converted (Type.cpp).
TypesWellFormed ==
  /\ MembersAgree
  /\ PaddingFollowsMember
  /\ NestingLimited
  /\ DeclaredBehindMembers
  /\ PointersAreUnique
  /\ MatchesConvert
=============================================================================
