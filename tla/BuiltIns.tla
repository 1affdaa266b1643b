------------------------------- MODULE BuiltIns -------------------------------
(***************************************************************************)
(* Calls of the built-in integer functions of OpenCL                        *)
(* (CLSmith/FunctionInvocationBuiltIn.cpp).  The types of the parameters    *)
(* are conversions of the type of the result.  Some conversions toss a coin *)
(* for a pair of parameters and keep it in a static variable.  The types    *)
(* are converted when a call is generated and again, for casts, when it is  *)
(* printed, then with the calls in its parameters in between.               *)
(***************************************************************************)
EXTENDS Integers, Sequences, FiniteSets

CONSTANTS Functions,   \* the functions that are tried
          ResultTypes, \* result types that are tried, vectors: [simple, len], len 0 is a scalar
          NoCalls      \* bound: calls

VARIABLES phase,       \* "make", "print", "done"
          calls,       \* [func, type, params, subs]: the types, and the calls that are parameters
          casts,       \* of a call: the types its parameters were cast to, or NoCast
          printing,    \* stack of calls that are being printed
          flip_next, demote_next

bVars == <<phase, calls, casts, printing, flip_next, demote_next>>

-----------------------------------------------------------------------------
(* Types: the numbers of eSimpleType *)

eChar == 1
eShort == 2
eInt == 3
eLong == 4
eLongLong == 5
eUChar == 6
eUShort == 7
eUInt == 8
eULong == 9
eULongLong == 10

SizeInBytes(t) == CASE t.simple \in {eChar, eUChar} -> 1 [] t.simple \in {eShort, eUShort} -> 2
                    [] t.simple \in {eInt, eLong, eUInt, eULong} -> 4 [] OTHER -> 8
IsSigned(t) == t.simple <= eLongLong
Demote(t) == [t EXCEPT !.len = 0]
ToUnsigned(t) == IF IsSigned(t) THEN [t EXCEPT !.simple = @ + 5] ELSE t
Flip(t) == [t EXCEPT !.simple = IF IsSigned(t) THEN @ + 5 ELSE @ - 5]

\* The next type in the order of the enumeration; two of them have 4 bytes.
Narrow(t) ==
  LET simple == t.simple - (IF SizeInBytes(t) > 1 THEN 1 ELSE 0) IN
  [t EXCEPT !.simple = IF simple \in {eInt, eUInt} THEN simple - 1 ELSE simple]

-----------------------------------------------------------------------------
(* Conversions *)

\* A new coin for every parameter: for a mutant.
AnyCoin(next) == {-1, 1}

\* The second parameter of a pair takes what the first one left.
Coin(next) == IF next = 0 THEN {-1, 1} ELSE {next}

Left(next, coin) == IF next = 0 THEN coin ELSE 0

\* The outcomes of ConvertParameterType: the type, and what is left for the next one.
Convert(type, conversion, flip, demote) ==
  LET to(t) == [type |-> t, flip |-> flip, demote |-> demote] IN
  CASE conversion = "exact" -> {to(type)}
    [] conversion = "flipSignChance" -> {to(type), to(Flip(type))}
    [] conversion = "flipSignChance2" ->
         {[type |-> IF c = 1 THEN Flip(type) ELSE type, flip |-> Left(flip, c), demote |-> demote] : c \in Coin(flip)}
    [] conversion = "demoteChance" -> {to(type), to(Demote(type))}
    [] conversion = "demoteChance2" ->
         {[type |-> IF c = 1 THEN Demote(type) ELSE type, flip |-> flip, demote |-> Left(demote, c)] : c \in Coin(demote)}
    [] conversion = "narrow" -> {to(Narrow(type))}
    [] conversion = "toUnsignNarrow" -> {to(Narrow(ToUnsigned(type)))}

ParamMap(func) ==
  CASE func = "abs" -> <<"flipSignChance">>
    [] func = "abs_diff" -> <<"flipSignChance2", "flipSignChance2">>
    [] func = "clamp" -> <<"exact", "demoteChance2", "demoteChance2">>
    [] func \in {"max", "min"} -> <<"exact", "demoteChance">>
    [] func = "upsample" -> <<"narrow", "toUnsignNarrow">>
    [] func \in {"clz", "popcount", "ctz"} -> <<"exact">>
    [] func \in {"mad_hi", "mad_sat", "mad24"} -> <<"exact", "exact", "exact">>
    [] OTHER -> <<"exact", "exact">>

Allowed(func, type) ==
  /\ func \notin {"ctz", "popcount"}
  /\ func \in {"abs", "abs_diff"} => ~IsSigned(type)
  /\ func = "upsample" => type.simple \notin {eChar, eUChar}
  /\ func \in {"mad24", "mul24"} => type.simple \in {eInt, eUInt}

RECURSIVE ConvertAll(_, _, _, _)
ConvertAll(type, conversions, flip, demote) ==
  IF conversions = <<>> THEN {[params |-> <<>>, flip |-> flip, demote |-> demote]}
  ELSE UNION {{[r EXCEPT !.params = <<c.type>> \o @] :
                 r \in ConvertAll(type, Tail(conversions), c.flip, c.demote)} :
                c \in Convert(type, conversions[1], flip, demote)}

-----------------------------------------------------------------------------
(* Generation *)

FunctionSelector(type, parent, idx) ==
  \E func \in {f \in Functions : Allowed(f, type)} :
  \E r \in ConvertAll(type, ParamMap(func), flip_next, demote_next) :
    /\ calls' = Append(IF parent = 0 THEN calls ELSE [calls EXCEPT ![parent].subs[idx] = Len(calls) + 1],
                       [func |-> func, type |-> type, params |-> r.params, subs |-> [i \in DOMAIN r.params |-> 0]])
    /\ flip_next' = r.flip /\ demote_next' = r.demote

MakeCall ==
  /\ phase = "make" /\ calls = <<>>
  /\ \E type \in ResultTypes : FunctionSelector(type, 0, 0)
  /\ UNCHANGED <<phase, casts, printing>>

\* A call in a parameter, in a vector expression of any length.
MakeParameter ==
  /\ phase = "make" /\ Len(calls) \in 1 .. NoCalls - 1
  /\ \E parent \in DOMAIN calls : \E idx \in DOMAIN calls[parent].params :
       /\ calls[parent].subs[idx] = 0
       /\ \E type \in ResultTypes :
            /\ type.simple = calls[parent].params[idx].simple
            /\ FunctionSelector(type, parent, idx)
  /\ UNCHANGED <<phase, casts, printing>>

-----------------------------------------------------------------------------
(* Output *)

NoCast == [simple |-> 0, len |-> 0]

StartPrinting ==
  /\ phase = "make" /\ calls # <<>> /\ phase' = "print" /\ printing' = <<1>>
  /\ casts' = [c \in DOMAIN calls |-> <<>>]
  /\ UNCHANGED <<calls, flip_next, demote_next>>

Cast(t) == Demote(t)

\* A scalar is cast to the type that is expected, which is converted anew; then
\* the parameter itself is printed.
PrintParameter ==
  /\ phase = "print" /\ printing # <<>>
  /\ LET c == printing[Len(printing)]
         call == calls[c]
         idx == Len(casts[c]) + 1
     IN
     /\ idx \in DOMAIN call.params
     /\ IF call.params[idx].len = 0
          THEN \E r \in Convert(call.type, ParamMap(call.func)[idx], flip_next, demote_next) :
                 /\ casts' = [casts EXCEPT ![c] = Append(@, Cast(r.type))]
                 /\ flip_next' = r.flip /\ demote_next' = r.demote
          ELSE /\ casts' = [casts EXCEPT ![c] = Append(@, NoCast)]
               /\ UNCHANGED <<flip_next, demote_next>>
     /\ printing' = IF call.subs[idx] = 0 THEN printing ELSE Append(printing, call.subs[idx])
  /\ UNCHANGED <<phase, calls>>

EndCall ==
  /\ phase = "print" /\ printing # <<>>
  /\ LET c == printing[Len(printing)] IN Len(casts[c]) = Len(calls[c].params)
  /\ printing' = SubSeq(printing, 1, Len(printing) - 1)
  /\ UNCHANGED <<phase, calls, casts, flip_next, demote_next>>

EndPrinting ==
  /\ phase = "print" /\ printing = <<>> /\ phase' = "done"
  /\ UNCHANGED <<calls, casts, printing, flip_next, demote_next>>

Done == phase = "done" /\ UNCHANGED bVars

Init ==
  /\ phase = "make" /\ calls = <<>> /\ casts = <<>> /\ printing = <<>>
  /\ flip_next = 0 /\ demote_next = 0

Next == MakeCall \/ MakeParameter \/ StartPrinting \/ PrintParameter \/ EndCall \/ EndPrinting \/ Done

Spec == Init /\ [][Next]_bVars

-----------------------------------------------------------------------------
\* The halves of upsample have half the size of the result, the low one has no
\* sign, whatever the order of the enumeration is (FunctionInvocationBuiltIn.cpp:67).
HalvesAreHalf ==
  \A c \in DOMAIN calls :
    calls[c].func = "upsample" =>
      /\ \A i \in 1 .. 2 : SizeInBytes(calls[c].params[i]) * 2 = SizeInBytes(calls[c].type)
      /\ IsSigned(calls[c].params[1]) = IsSigned(calls[c].type)
      /\ ~IsSigned(calls[c].params[2])

\* The parameters of a pair are generated with one type, and no coin is left for
\* the next call ("where the next depends on the previous",
\* FunctionInvocationBuiltIn.h:33).
PairsAgree ==
  /\ \A c \in DOMAIN calls :
       /\ calls[c].func = "abs_diff" => calls[c].params[1] = calls[c].params[2]
       /\ calls[c].func = "clamp" => calls[c].params[2] = calls[c].params[3]
  /\ phase = "make" => flip_next = 0 /\ demote_next = 0

\* A scalar is cast to exactly the type it was generated for ("the type must be the
\* exact expected type", FunctionInvocationBuiltIn.cpp:125), although the coins are
\* tossed anew and calls in between take coins that are not theirs.
CastsExact ==
  \A c \in DOMAIN casts : \A i \in DOMAIN casts[c] :
    casts[c][i] # NoCast => casts[c][i] = calls[c].params[i]

\* OpenCL finds an overload for each call of a built-in function: the types that were
\* tossed when it was generated are the ones it is printed with
\* (FunctionInvocationBuiltIn.cpp).
ArgumentsFitCalls == HalvesAreHalf /\ PairsAgree /\ CastsExact
=============================================================================
