----------------------------- MODULE Enumeration -----------------------------
(***************************************************************************)
(* --dfs-exhaustive with --expand-struct: every structure type is made in   *)
(* advance (Enumerator.h, Type.cpp 762-1040).  One enumerator chooses which  *)
(* fields are bit-fields, one for each of its values goes through types,     *)
(* qualifiers and lengths, and this is repeated for each level of nesting.   *)
(***************************************************************************)
EXTENDS Integers, Sequences, FiniteSets

CONSTANTS SimpleCount,       \* simple types of AllTypes; the first ones
          Filtered,          \* those that the filter of simple types rejects
          Settings           \* options, and the random lengths: [fields, levels, prob, const, packed, random]

VARIABLES settings,      \* one of Settings
          level,         \* of nesting, that is made
          all_types,     \* what fields may be
          accum_types,   \* what was made
          bitfields,     \* the enumerator of bit-fields; <<>> between levels
          fields,        \* the enumerator of one of its values; <<>> when it has none
          combined           \* combinations of the latter so far

enVars == <<settings, level, all_types, accum_types, bitfields, fields, combined>>

-----------------------------------------------------------------------------
(* Enumerator: elements in the order of their names *)

Elem(name, bound) == [name |-> name, bound |-> bound, value |-> 0, is_bool |-> FALSE, only |-> FALSE]
add_bool_elem(name, prob) == [Elem(name, IF prob \in {0, 100} THEN 1 ELSE 2) EXCEPT !.is_bool = TRUE, !.only = prob = 100]
add_bool_elem_of_bool(name, set) == [Elem(name, IF set THEN 2 ELSE 1) EXCEPT !.is_bool = TRUE]

get_elem(e, name) ==
  LET o == e[CHOOSE i \in DOMAIN e : e[i].name = name]
  IN IF ~o.is_bool THEN o.value ELSE IF o.bound = 1 THEN o.only ELSE o.value # 0

\* Values behind the element stay: for a mutant.
KeepAfter(e, i) == [e EXCEPT ![i].value = @ + 1]

\* reset_after_backward_pos.
AdvanceAt(e, i) ==
  [j \in DOMAIN e |-> IF j = i THEN [e[j] EXCEPT !.value = @ + 1] ELSE IF j > i THEN [e[j] EXCEPT !.value = 0] ELSE e[j]]

\* next: the last element that has a value left; roll_back_current_pos.  <<>> at the end.
Left(e) == {i \in DOMAIN e : e[i].value + 1 < e[i].bound}
next(e) == IF Left(e) = {} THEN <<>> ELSE AdvanceAt(e, CHOOSE i \in Left(e) : \A j \in Left(e) : j <= i)

Combination(e) == [i \in DOMAIN e |-> e[i].value]

-----------------------------------------------------------------------------
(* Structures *)

\* The type of bit-fields is simple type 0.
SimpleType(i) == [simple |-> i, fields |-> <<>>, packed |-> FALSE]

Is == 0 .. settings.fields - 1

\* One value of const_prob and volatile_prob each (get_all_qualifiers).
Qualifiers == LET e == <<add_bool_elem(<<"const", 0>>, settings.const), add_bool_elem(<<"volatile", 0>>, 0)>>
                  all[q \in {e, next(e)}] == 1
              IN Cardinality((DOMAIN all) \ {<<>>})

\* init_is_bitfield_enumerator.
BitfieldEnumerator == [i \in 1 .. settings.fields |-> add_bool_elem(<<"bitfield", i - 1>>, settings.prob)]

\* init_fields_enumerator; names in the order of the strings.
FieldsEnumerator(types) ==
  LET Bit(i) == get_elem(bitfields, <<"bitfield", i>>)
      Chosen(S(_), T(_)) == [i \in 1 .. settings.fields |-> IF T(i - 1) THEN <<S(i - 1)>> ELSE <<>>]
      Flat(s) == LET f[n \in 0 .. Len(s)] == IF n = 0 THEN <<>> ELSE f[n - 1] \o s[n] IN f[Len(s)]
      Named(kind, bound, forBits) ==
        LET E(i) == Elem(<<kind, i>>, bound)
            W(i) == Bit(i) = forBits
        IN Flat(Chosen(E, W))
      Signs == LET E(i) == add_bool_elem_of_bool(<<"bitfield_sign", i>>, FALSE)
                   W(i) == Bit(i)
               IN Flat(Chosen(E, W))
  IN Named("bitfield_length", 2, TRUE) \o Named("bitfield_qualifier", Qualifiers, TRUE) \o Signs
     \o Named("field", types, FALSE) \o <<add_bool_elem_of_bool(<<"packed", 0>>, settings.packed)>>
     \o Named("qualifier", Qualifiers, FALSE)

get_bitfield_length(flag) == IF flag = 0 THEN 0 ELSE settings.random

\* make_one_bitfield_by_enum gives up.
PaddingMisplaced(i, field, last_is_zero) == (i = 0 \/ last_is_zero) /\ field.len = 0

Field(i) ==
  IF get_elem(bitfields, <<"bitfield", i>>)
  THEN [type |-> 0, len |-> get_bitfield_length(get_elem(fields, <<"bitfield_length", i>>)),
        qual |-> get_elem(fields, <<"bitfield_qualifier", i>>)]
  ELSE [type |-> get_elem(fields, <<"field", i>>) + 1, len |-> -1, qual |-> get_elem(fields, <<"qualifier", i>>)]

\* The length of the field before, where that is a bit-field.
ZeroBefore(i) == i > 0 /\ Field(i - 1).len = 0

\* make_all_struct_types_with_bitfields: the structure of a combination, if there is one.
Struct ==
  LET bits == {i \in Is : get_elem(bitfields, <<"bitfield", i>>)}
      dropped == \/ \E i \in bits : PaddingMisplaced(i, Field(i), ZeroBefore(i))
                 \/ \E i \in Is \ bits : Field(i).type \in Filtered
                 \/ settings.prob \in 1 .. 99 /\ (bits = Is \/ bits = {})
  IN IF dropped THEN <<>>
     ELSE <<[simple |-> -1, fields |-> [i \in 1 .. settings.fields |->
                           [Field(i - 1) EXCEPT !.type = IF @ = 0 THEN SimpleType(0) ELSE all_types[@]]],
             packed |-> get_elem(fields, <<"packed", 0>>)]>>

Simple == [i \in 1 .. SimpleCount |-> SimpleType(i)]
IsStruct(t) == t.simple = -1

\* make_all_struct_types: the next level takes what was made, and starts anew.
BeginLevel ==
  /\ bitfields = <<>> /\ level < settings.levels
  /\ level' = level + 1
  /\ all_types' = accum_types /\ accum_types' = Simple
  /\ bitfields' = BitfieldEnumerator
  /\ UNCHANGED <<settings, fields, combined>>

BeginFields ==
  /\ bitfields # <<>> /\ fields = <<>>
  /\ fields' = FieldsEnumerator(Len(all_types))
  /\ combined' = {}
  /\ UNCHANGED <<settings, level, all_types, accum_types, bitfields>>

\* The structures of the level below take the places of the first ones of this level.
delete_useless_structs(accum) ==
  [i \in DOMAIN accum |-> IF i <= Len(all_types) /\ i > SimpleCount THEN all_types[i] ELSE accum[i]]

MakeStruct ==
  /\ fields # <<>>
  /\ combined' = combined \cup {Combination(fields)}
  /\ fields' = next(fields)
  /\ LET made == accum_types \o Struct
         last == fields' = <<>> /\ next(bitfields) = <<>>
     IN accum_types' = (IF last THEN delete_useless_structs(made) ELSE made)
  /\ bitfields' = (IF fields' = <<>> THEN next(bitfields) ELSE bitfields)
  /\ UNCHANGED <<settings, level, all_types>>

Done == bitfields = <<>> /\ level = settings.levels /\ UNCHANGED enVars

Init ==
  /\ settings \in Settings
  /\ level = -1 /\ all_types = <<>> /\ accum_types = Simple
  /\ bitfields = <<>> /\ fields = <<>> /\ combined = {}

Next == BeginLevel \/ BeginFields \/ MakeStruct \/ Done

Spec == Init /\ [][Next]_enVars

-----------------------------------------------------------------------------
(* Properties *)

\* No combination is met twice, and none is missed when an enumerator ends.
CombinationsOnce ==
  fields # <<>> =>
    /\ Combination(fields) \notin combined
    /\ next(fields) = <<>> =>
         Cardinality(combined) + 1 = LET f[i \in 0 .. Len(fields)] == IF i = 0 THEN 1 ELSE f[i - 1] * fields[i].bound
                                 IN f[Len(fields)]

\* A structure of an enumeration has no bit-field of no length in front or twice in a row.
EnumeratedPaddingLegal ==
  \A k \in SimpleCount + 1 .. Len(accum_types) :
    LET f == accum_types[k].fields IN
      \A i \in DOMAIN f : f[i].len = 0 => i > 1 /\ f[i - 1].len # 0

\* A structure that another one has as a field is among the types at the end of a level:
\* the deletion takes none of these.
FieldsAlive ==
  bitfields = <<>> /\ level >= 0 =>
    \A k \in SimpleCount + 1 .. Len(accum_types) : \A i \in 1 .. settings.fields :
      LET t == accum_types[k].fields[i].type
      IN IsStruct(t) => \E j \in DOMAIN accum_types : accum_types[j] = t

\* On the lowest level every structure is made once.
StructsOnce ==
  level = 0 /\ settings.random = 1 => \A i, j \in DOMAIN accum_types : accum_types[i] = accum_types[j] => i = j

\* The enumeration meets every legal combination of fields once, and what it deletes is
\* not a field of what it keeps (Type.cpp).
StructsEnumerated == CombinationsOnce /\ EnumeratedPaddingLegal /\ FieldsAlive /\ StructsOnce
=============================================================================
