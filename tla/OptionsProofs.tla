---------------------------- MODULE OptionsProofs ----------------------------
(***************************************************************************)
(* Options that reach the generator go together, for command lines of any   *)
(* length, whatever follows what, and for any numbers.  An option is only    *)
(* known by what was assigned to it last, so the invariant says of each one   *)
(* that matters which values it may have while the line is read, and what    *)
(* the resolution and the checks leave.                                    *)
(***************************************************************************)
EXTENDS Options, TLAPS

Value(o, f) == IF f \in DOMAIN o THEN o[f] ELSE Default(f)

-----------------------------------------------------------------------------
(* Assignments *)

\* An option has the value of an assignment to it, or the one that it had.
LEMMA Assigned ==
  ASSUME NEW o, NEW new, NEW f
  PROVE  /\ (\A a \in new : a[1] # f) => Value(Assign(o, new), f) = Value(o, f)
         /\ (\E a \in new : a[1] = f) => \E a \in new : a[1] = f /\ Value(Assign(o, new), f) = a[2]
<1> DEFINE keys == {a[1] : a \in new}
<1>1. Assign(o, new) = [g \in keys \cup DOMAIN o |-> IF g \in keys THEN (CHOOSE a \in new : a[1] = g)[2] ELSE o[g]]
  BY DEF Assign
<1>2. ASSUME \A a \in new : a[1] # f PROVE Value(Assign(o, new), f) = Value(o, f)
  <2>1. f \notin keys
    BY <1>2
  <2> QED
    BY <1>1, <2>1 DEF Value
<1>3. ASSUME NEW b \in new, b[1] = f PROVE \E a \in new : a[1] = f /\ Value(Assign(o, new), f) = a[2]
  <2>1. f \in keys
    BY <1>3
  <2> DEFINE c == CHOOSE a \in new : a[1] = f
  <2>2. c \in new /\ c[1] = f
    BY <1>3
  <2>3. Value(Assign(o, new), f) = c[2]
    BY <1>1, <2>1 DEF Value
  <2> QED
    BY <2>2, <2>3
<1> QED
  BY <1>2, <1>3

\* The same, for the options as they are and will be.
LEMMA AssignedOptions ==
  ASSUME NEW new, options' = Assign(options, new), NEW f
  PROVE  /\ (\A a \in new : a[1] # f) => CG(f)' = CG(f)
         /\ (\E a \in new : a[1] = f) => \E a \in new : a[1] = f /\ CG(f)' = a[2]
<1>1. CG(f) = Value(options, f) /\ CG(f)' = Value(options', f)
  BY DEF CG, Value
<1> QED
  BY <1>1, Assigned

-----------------------------------------------------------------------------
(* Arguments *)

IsPair(arg) == arg = <<arg[1], arg[2]>>

\* What the arguments of csmith say of the options that matter below.
Search(arg) ==
  /\ arg[1] # "random_based"
  /\ arg[1] = "dfs_exhaustive" => arg[2] = TRUE
  /\ arg[1] \in {"max_exhaustive_depth", "max_split_files"} => arg[2] \in Int

\* And those of CLSmith.
OpenCL(arg) ==
  /\ arg[1] \notin Extensions \cup {"dfs_exhaustive", "go_delta"}
  /\ arg[1] \in {"loops", "arrays"} => arg[2] = FALSE

LEMMA ProductsPair == \A S, T : \A arg \in S \X T : IsPair(arg)
BY DEF IsPair

\* What On and Off assign.
LEMMA OnMeans ==
  ASSUME NEW S
  PROVE  /\ \A a \in On(S) : a[1] \in S /\ a[2] = TRUE
         /\ \A f \in S : \E a \in On(S) : a[1] = f
<1>1. \A a \in On(S) : a[1] \in S /\ a[2] \in {TRUE}
  BY DEF On
<1>2. \A f \in S : <<f, TRUE>> \in On(S) /\ <<f, TRUE>>[1] = f
  BY DEF On
<1> QED
  BY <1>1, <1>2, Zenon

LEMMA OffMeans ==
  ASSUME NEW S
  PROVE  /\ \A a \in Off(S) : a[1] \in S /\ a[2] = FALSE
         /\ \A f \in S : \E a \in Off(S) : a[1] = f
<1>1. \A a \in Off(S) : a[1] \in S /\ a[2] \in {FALSE}
  BY DEF Off
<1>2. \A f \in S : <<f, FALSE>> \in Off(S) /\ <<f, FALSE>>[1] = f
  BY DEF Off
<1> QED
  BY <1>1, <1>2, Zenon

LEMMA SizesMean == \A arg \in Sizes : IsPair(arg) /\ Search(arg)
<1>1. \A arg \in Sizes : IsPair(arg)
  BY ProductsPair, Zenon DEF Sizes, Number, On, Text
<1>2. \A arg \in Sizes : Search(arg)
  BY NumbersGiven DEF Sizes, Number, On, Text, Search
<1> QED
  BY <1>1, <1>2

LEMMA ModesMean == \A arg \in Modes : IsPair(arg) /\ Search(arg)
<1>1. \A arg \in Modes : IsPair(arg)
  BY ProductsPair, Zenon DEF Modes, Both, On, Text
<1>2. \A arg \in Modes : Search(arg)
  BY DEF Modes, Both, On, Text, Search
<1> QED
  BY <1>1, <1>2

LEMMA StructsMean == \A arg \in Structs : IsPair(arg) /\ Search(arg)
<1>1. \A arg \in Structs : IsPair(arg)
  BY ProductsPair, Zenon DEF Structs, Number, On, Text
<1>2. \A arg \in Structs : Search(arg)
  BY NumbersGiven DEF Structs, Number, On, Text, Search
<1> QED
  BY <1>1, <1>2

LEMMA KindsMean == \A arg \in Kinds : IsPair(arg) /\ Search(arg)
<1>1. \A arg \in Kinds : IsPair(arg)
  BY ProductsPair, Zenon DEF Kinds, Number, Both, On
<1>2. \A arg \in Kinds : Search(arg)
  BY NumbersGiven DEF Kinds, Number, Both, On, Search
<1> QED
  BY <1>1, <1>2

LEMMA QualifiersMean == \A arg \in Qualifiers : IsPair(arg) /\ Search(arg)
<1>1. \A arg \in Qualifiers : IsPair(arg)
  BY ProductsPair, Zenon DEF Qualifiers, Both, On
<1>2. \A arg \in Qualifiers : Search(arg)
  BY DEF Qualifiers, Both, On, Search
<1> QED
  BY <1>1, <1>2

LEMMA FilesMean == \A arg \in Files : IsPair(arg) /\ Search(arg)
<1>1. \A arg \in Files : IsPair(arg)
  BY ProductsPair, Zenon DEF Files, Number, On, Text
<1>2. \A arg \in Files : Search(arg)
  BY NumbersGiven DEF Files, Number, On, Text, Search
<1> QED
  BY <1>1, <1>2

LEMMA WrappersMean == \A arg \in Wrappers : IsPair(arg) /\ Search(arg)
<1>1. \A arg \in Wrappers : IsPair(arg)
  BY ProductsPair, Zenon DEF Wrappers, Number, Both, On, Text
<1>2. \A arg \in Wrappers : Search(arg)
  BY NumbersGiven DEF Wrappers, Number, Both, On, Text, Search
<1> QED
  BY <1>1, <1>2

LEMMA OperatorsMean == \A arg \in Operators : IsPair(arg) /\ Search(arg)
<1>1. \A arg \in Operators : IsPair(arg)
  BY ProductsPair, Zenon DEF Operators, Number, Both
<1>2. \A arg \in Operators : Search(arg)
  BY NumbersGiven DEF Operators, Number, Both, Search
<1> QED
  BY <1>1, <1>2

LEMMA ExpressionsMean == \A arg \in Expressions : IsPair(arg) /\ Search(arg)
<1>1. \A arg \in Expressions : IsPair(arg)
  BY ProductsPair, Zenon DEF Expressions, Both, On, Off, Text
<1>2. \A arg \in Expressions : Search(arg)
  BY DEF Expressions, Both, On, Off, Text, Search
<1> QED
  BY <1>1, <1>2

LEMMA CLArgumentsMean == \A arg \in CLArguments : IsPair(arg) /\ Search(arg) /\ OpenCL(arg)
<1>1. \A arg \in CLArguments : IsPair(arg)
  BY ProductsPair, Zenon DEF CLArguments, Number, On, Off, Text
<1>2. \A arg \in CLArguments : Search(arg)
  BY NumbersGiven DEF CLArguments, Number, On, Off, Text, Search
<1>3. \A arg \in CLArguments : OpenCL(arg)
  BY DEF CLArguments, Number, On, Off, Text, OpenCL, Extensions
<1> QED
  BY <1>1, <1>2, <1>3

LEMMA OtherArgumentsMean == \A arg \in OtherArguments : IsPair(arg) /\ Search(arg) /\ OpenCL(arg)
<1>1. \A arg \in OtherArguments : IsPair(arg)
  BY ProductsPair, Zenon DEF OtherArguments, On
<1> QED
  BY <1>1 DEF OtherArguments, On, Search, OpenCL, Extensions

LEMMA ArgumentsMean ==
  \A arg \in Arguments : IsPair(arg) /\ Search(arg) /\ (driver = "clsmith" => OpenCL(arg))
BY SizesMean, ModesMean, StructsMean, KindsMean, QualifiersMean, FilesMean, WrappersMean, OperatorsMean,
   ExpressionsMean, CLArgumentsMean, OtherArgumentsMean
DEF Arguments

-----------------------------------------------------------------------------
(* Invariants *)

\* At every moment: numbers are numbers, a search is what is not random, and CLSmith
\* has no argument that would make it search, replay or create an extension.
LineInv ==
  /\ driver \in {"csmith", "clsmith"}
  /\ CG("max_exhaustive_depth") \in Int /\ CG("max_split_files") \in Int
  /\ \/ CG("dfs_exhaustive") = FALSE /\ CG("random_based") = TRUE
     \/ CG("dfs_exhaustive") = TRUE /\ CG("random_based") = FALSE
  /\ driver = "clsmith" =>
       /\ CG("dfs_exhaustive") = FALSE /\ CG("go_delta") = "none"
       /\ \A e \in Extensions : CG(e) = FALSE
       /\ CG("loops") \in BOOLEAN /\ (CG("loops") = FALSE => CG("arrays") = FALSE)

\* Once the line was read: CLSmith has resolved what does not go together.
ResolvedInv ==
  driver = "clsmith" /\ stage \in {"check", "create", "generate"} =>
    /\ CG("consts") = FALSE /\ CG("bitfields") = FALSE
    /\ CG("atomics") \/ CG("track_divergence") => CG("gotos") = FALSE
    /\ CG("track_divergence") => CG("arrays") = FALSE
    /\ CG("vectors") => CG("array_ops") = FALSE

\* Once the options were checked: nothing is in conflict.
CheckedInv ==
  stage \in {"create", "generate"} =>
    /\ driver = "clsmith" => ~Conflict
    /\ driver = "csmith" =>
         /\ CG("dfs_exhaustive") = TRUE =>
              /\ CG("max_exhaustive_depth") > 0 /\ CG("max_split_files") <= 0
              /\ CG("fixed_struct_fields") = TRUE /\ ~has_extension_support
         /\ ~has_extension_conflict /\ ~has_delta_conflict
         /\ Given("go_delta") => Given("delta_input")

\* What was created is what the options ask for.
CreatedInv ==
  stage = "generate" =>
    /\ created.source = "dfs" <=> CG("dfs_exhaustive") = TRUE
    /\ created.source = "delta" => Given("go_delta")
    /\ created.source = "dfs" => created.extension = "none"
    /\ created.extension # "none" => created.extension \in Extensions /\ CG(created.extension)

OptionsInv == LineInv /\ ResolvedInv /\ CheckedInv /\ CreatedInv

LEMMA Defaults ==
  /\ Default("max_exhaustive_depth") = -1 /\ Default("max_split_files") = 0
  /\ Default("dfs_exhaustive") = FALSE /\ Default("random_based") = TRUE
  /\ Default("go_delta") = "none" /\ Default("loops") = TRUE
  /\ \A e \in Extensions : Default(e) = FALSE
BY DEF Default, Extensions

LEMMA InitOptions == OptionsInit => OptionsInv
<1> SUFFICES ASSUME OptionsInit PROVE OptionsInv
  OBVIOUS
<1>1. \A f : CG(f) = Default(f)
  BY DEF OptionsInit, CG
<1>2. CG("max_exhaustive_depth") = -1 /\ CG("max_split_files") = 0 /\ CG("go_delta") = "none"
  BY <1>1, Defaults
<1>3. CG("dfs_exhaustive") = FALSE /\ CG("random_based") = TRUE /\ CG("loops") = TRUE
  BY <1>1, Defaults, Zenon
<1>4. \A e \in Extensions : CG(e) = FALSE
  BY <1>1, Defaults
<1>5. LineInv
  <2>1. CG("max_exhaustive_depth") \in Int /\ CG("max_split_files") \in Int
    BY <1>2
  <2>2. driver \in {"csmith", "clsmith"}
    BY DEF OptionsInit
  <2>3. CG("loops") \in BOOLEAN /\ CG("loops") # FALSE
    BY <1>3, Zenon
  <2> QED
    BY <1>2, <1>3, <1>4, <2>1, <2>2, <2>3, Zenon DEF LineInv
<1> QED
  BY <1>5 DEF OptionsInit, OptionsInv, ResolvedInv, CheckedInv, CreatedInv

-----------------------------------------------------------------------------
(* Steps *)

\* An argument that sets options.
LEMMA SetKeepsLine ==
  ASSUME LineInv, NEW arg \in Arguments, options' = Assign(options, Sets(arg)), UNCHANGED driver
  PROVE  LineInv'
<1>1. IsPair(arg) /\ Search(arg) /\ (driver = "clsmith" => OpenCL(arg))
  BY ArgumentsMean
<1>2. CASE arg = <<"dfs_exhaustive", TRUE>>
  <2>1. Sets(arg) = On({"dfs_exhaustive"}) \cup Off({"random_based"})
    BY <1>2 DEF Sets
  <2>8. \A a \in Sets(arg) : (a[1] = "dfs_exhaustive" /\ a[2] = TRUE) \/ (a[1] = "random_based" /\ a[2] = FALSE)
    <3>1. \A a \in On({"dfs_exhaustive"}) : a[1] \in {"dfs_exhaustive"} /\ a[2] = TRUE
      BY OnMeans, Zenon
    <3>2. \A a \in Off({"random_based"}) : a[1] \in {"random_based"} /\ a[2] = FALSE
      BY OffMeans, Zenon
    <3> QED
      BY <2>1, <3>1, <3>2, Zenon
  <2>9. (\E a \in Sets(arg) : a[1] = "dfs_exhaustive") /\ (\E a \in Sets(arg) : a[1] = "random_based")
    <3>1. \E a \in On({"dfs_exhaustive"}) : a[1] = "dfs_exhaustive"
      BY OnMeans, Zenon
    <3>2. \E a \in Off({"random_based"}) : a[1] = "random_based"
      BY OffMeans, Zenon
    <3> QED
      BY <2>1, <3>1, <3>2, Zenon
  <2>2. CG("dfs_exhaustive")' = TRUE /\ CG("random_based")' = FALSE
    <3>1. \E a \in Sets(arg) : a[1] = "dfs_exhaustive" /\ CG("dfs_exhaustive")' = a[2]
      BY <2>9, AssignedOptions
    <3>2. \E a \in Sets(arg) : a[1] = "random_based" /\ CG("random_based")' = a[2]
      BY <2>9, AssignedOptions
    <3> QED
      BY <2>8, <3>1, <3>2, Zenon
  <2>3. \A f : f \notin {"dfs_exhaustive", "random_based"} => CG(f)' = CG(f)
    BY <2>8, AssignedOptions
  <2>4. driver = "csmith"
    BY <1>1, <1>2 DEF OpenCL, LineInv
  <2> QED
    BY <2>2, <2>3, <2>4 DEF LineInv
<1>3. CASE arg = <<"loops", FALSE>>
  <2>1. Sets(arg) = Off({"loops", "arrays"})
    BY <1>3 DEF Sets
  <2>8. \A a \in Sets(arg) : a[1] \in {"loops", "arrays"} /\ a[2] = FALSE
    <3>1. \A a \in Off({"loops", "arrays"}) : a[1] \in {"loops", "arrays"} /\ a[2] = FALSE
      BY OffMeans, Zenon
    <3> QED
      BY <2>1, <3>1, Zenon
  <2>9. (\E a \in Sets(arg) : a[1] = "loops") /\ (\E a \in Sets(arg) : a[1] = "arrays")
    <3>1. \A f \in {"loops", "arrays"} : \E a \in Off({"loops", "arrays"}) : a[1] = f
      BY OffMeans, Zenon
    <3> QED
      BY <2>1, <3>1, Zenon
  <2>2. CG("loops")' = FALSE /\ CG("arrays")' = FALSE
    <3>1. \E a \in Sets(arg) : a[1] = "loops" /\ CG("loops")' = a[2]
      BY <2>9, AssignedOptions
    <3>2. \E a \in Sets(arg) : a[1] = "arrays" /\ CG("arrays")' = a[2]
      BY <2>9, AssignedOptions
    <3> QED
      BY <2>8, <3>1, <3>2, Zenon
  <2>3. \A f : f \notin {"loops", "arrays"} => CG(f)' = CG(f)
    BY <2>8, AssignedOptions
  <2> QED
    BY <2>2, <2>3 DEF LineInv, Extensions
<1>4. CASE arg # <<"dfs_exhaustive", TRUE>> /\ arg # <<"loops", FALSE>>
  <2>1. Sets(arg) = {arg}
    BY <1>4 DEF Sets
  <2>2. CG(arg[1])' = arg[2]
    BY <2>1, AssignedOptions
  <2>3. \A f : f # arg[1] => CG(f)' = CG(f)
    BY <2>1, AssignedOptions
  <2>4. arg[1] \notin {"random_based", "dfs_exhaustive"}
    BY <1>1, <1>4 DEF IsPair, Search
  <2>5. driver = "clsmith" => arg[1] # "loops"
    BY <1>1, <1>4 DEF IsPair, OpenCL
  <2>6. CG("max_exhaustive_depth")' \in Int /\ CG("max_split_files")' \in Int
    BY <1>1, <2>2, <2>3 DEF LineInv, Search
  <2>7. driver = "clsmith" =>
          /\ CG("go_delta")' = "none" /\ \A e \in Extensions : CG(e)' = FALSE
          /\ CG("loops")' = CG("loops") /\ (CG("arrays")' = FALSE \/ CG("arrays")' = CG("arrays"))
    BY <1>1, <2>2, <2>3, <2>5 DEF LineInv, OpenCL
  <2> QED
    BY <2>3, <2>4, <2>6, <2>7 DEF LineInv
<1> QED
  BY <1>2, <1>3, <1>4

\* What the resolution may assign to, and what it assigns.
LEMMA ResolveMeans ==
  /\ \A a \in ResolveCGOptions :
       /\ a[1] \in {"force_globals_static", "bitfields", "packed_struct", "hash_value_printf", "consts",
                   "union_read_type_sensitive", "empty_blocks", "max_funcs", "max_blk_depth", "max_expr_depth",
                   "max_block_size", "arrays", "gotos", "array_ops", "longlong", "use_struct"}
       /\ a[1] \in {"consts", "bitfields", "gotos", "arrays", "array_ops"} => a[2] = FALSE
  /\ \A f \in {"consts", "bitfields"} : \E a \in ResolveCGOptions : a[1] = f
  /\ CG("atomics") \/ CG("track_divergence") => \E a \in ResolveCGOptions : a[1] = "gotos"
  /\ CG("track_divergence") => \E a \in ResolveCGOptions : a[1] = "arrays"
  /\ CG("vectors") => \E a \in ResolveCGOptions : a[1] = "array_ops"
<1> DEFINE always == {"force_globals_static", "bitfields", "packed_struct", "hash_value_printf", "consts",
                      "union_read_type_sensitive", "empty_blocks"}
           small == {<<"max_funcs", 3>>, <<"max_blk_depth", 3>>, <<"max_expr_depth", 5>>, <<"max_block_size", 20>>}
           tracked == {"arrays", "gotos"}
           vectors == {"array_ops"}
           atomic == {"gotos"}
           embedded == {"longlong", "use_struct"}
<1>1. ResolveCGOptions = Off(always) \cup Conjunct(small, CG("small")) \cup Conjunct(Off(tracked), CG("track_divergence"))
                         \cup Conjunct(Off(vectors), CG("vectors")) \cup Conjunct(Off(atomic), CG("atomics"))
                         \cup Conjunct(Off(embedded), CG("embedded"))
  BY Zenon DEF ResolveCGOptions
<1>2. \A S, on : Conjunct(S, on) \subseteq S
  BY Zenon DEF Conjunct
<1>3. ResolveCGOptions \subseteq Off(always) \cup small \cup Off(tracked) \cup Off(vectors) \cup Off(atomic) \cup Off(embedded)
  BY <1>1, <1>2, Zenon
<1>4. \A a \in small : a[1] \in {"max_funcs", "max_blk_depth", "max_expr_depth", "max_block_size"}
  OBVIOUS
<1> HIDE DEF always, small, tracked, vectors, atomic, embedded
<1>5. \A a \in Off(always) \cup Off(tracked) \cup Off(vectors) \cup Off(atomic) \cup Off(embedded) :
        a[1] \in always \cup tracked \cup vectors \cup atomic \cup embedded /\ a[2] = FALSE
  <2>1. \A S : \A a \in Off(S) : a[1] \in S /\ a[2] = FALSE
    BY OffMeans, Zenon
  <2> QED
    BY <2>1, Zenon
<1>6. \A a \in ResolveCGOptions :
       /\ a[1] \in {"force_globals_static", "bitfields", "packed_struct", "hash_value_printf", "consts",
                   "union_read_type_sensitive", "empty_blocks", "max_funcs", "max_blk_depth", "max_expr_depth",
                   "max_block_size", "arrays", "gotos", "array_ops", "longlong", "use_struct"}
       /\ a[1] \in {"consts", "bitfields", "gotos", "arrays", "array_ops"} => a[2] = FALSE
  <2> SUFFICES ASSUME NEW a \in ResolveCGOptions
               PROVE  /\ a[1] \in {"force_globals_static", "bitfields", "packed_struct", "hash_value_printf", "consts",
                                   "union_read_type_sensitive", "empty_blocks", "max_funcs", "max_blk_depth",
                                   "max_expr_depth", "max_block_size", "arrays", "gotos", "array_ops", "longlong",
                                   "use_struct"}
                      /\ a[1] \in {"consts", "bitfields", "gotos", "arrays", "array_ops"} => a[2] = FALSE
    OBVIOUS
  <2>1. CASE a \in small
    <3>1. a[1] \in {"max_funcs", "max_blk_depth", "max_expr_depth", "max_block_size"}
      BY <1>4, <2>1
    <3> QED
      BY <3>1
  <2>2. CASE a \notin small
    <3>1. a[1] \in always \cup tracked \cup vectors \cup atomic \cup embedded /\ a[2] = FALSE
      BY <1>3, <1>5, <2>2, Zenon
    <3> QED
      BY <3>1 DEF always, tracked, vectors, atomic, embedded
  <2> QED
    BY <2>1, <2>2
<1>7. \A f \in always : \E a \in ResolveCGOptions : a[1] = f
  BY <1>1, OffMeans, Zenon
<1>8. CG("track_divergence") => \A f \in tracked : \E a \in ResolveCGOptions : a[1] = f
  <2>1. CG("track_divergence") => Conjunct(Off(tracked), CG("track_divergence")) = Off(tracked)
    BY Zenon DEF Conjunct
  <2>2. CG("track_divergence") => Off(tracked) \subseteq ResolveCGOptions
    BY <1>1, <2>1, Zenon
  <2>3. \A f \in tracked : \E a \in Off(tracked) : a[1] = f
    BY OffMeans, Zenon
  <2> QED
    BY <2>2, <2>3, Zenon
<1>9. CG("vectors") => \A f \in vectors : \E a \in ResolveCGOptions : a[1] = f
  <2>1. CG("vectors") => Conjunct(Off(vectors), CG("vectors")) = Off(vectors)
    BY Zenon DEF Conjunct
  <2>2. CG("vectors") => Off(vectors) \subseteq ResolveCGOptions
    BY <1>1, <2>1, Zenon
  <2>3. \A f \in vectors : \E a \in Off(vectors) : a[1] = f
    BY OffMeans, Zenon
  <2> QED
    BY <2>2, <2>3, Zenon
<1>10. CG("atomics") => \A f \in atomic : \E a \in ResolveCGOptions : a[1] = f
  <2>1. CG("atomics") => Conjunct(Off(atomic), CG("atomics")) = Off(atomic)
    BY Zenon DEF Conjunct
  <2>2. CG("atomics") => Off(atomic) \subseteq ResolveCGOptions
    BY <1>1, <2>1, Zenon
  <2>3. \A f \in atomic : \E a \in Off(atomic) : a[1] = f
    BY OffMeans, Zenon
  <2> QED
    BY <2>2, <2>3, Zenon
<1> QED
  BY <1>6, <1>7, <1>8, <1>9, <1>10 DEF always, tracked, vectors, atomic

LEMMA ParseKeeps ==
  ASSUME OptionsInv, NEW arg \in Arguments, ParseArgument(arg)
  PROVE  OptionsInv'
<1>1. UNCHANGED driver /\ stage' \in {"parse", "refused", "stopped"}
  BY DEF ParseArgument
<1>2. LineInv'
  <2>1. CASE UNCHANGED options
    BY <1>1, <2>1 DEF OptionsInv, LineInv, CG
  <2>2. CASE options' = Assign(options, Sets(arg))
    BY <1>1, <2>2, SetKeepsLine DEF OptionsInv
  <2> QED
    BY <2>1, <2>2 DEF ParseArgument
<1> QED
  BY <1>1, <1>2 DEF OptionsInv, ResolvedInv, CheckedInv, CreatedInv

LEMMA EndOfLineKeeps ==
  ASSUME OptionsInv, EndOfLine
  PROVE  OptionsInv'
<1>1. UNCHANGED driver /\ stage' = "check"
  BY DEF EndOfLine
<1>2. CASE driver # "clsmith"
  <2>1. UNCHANGED options
    BY <1>2 DEF EndOfLine
  <2>2. LineInv'
    BY <1>1, <2>1 DEF OptionsInv, LineInv, CG
  <2> QED
    BY <1>1, <1>2, <2>2 DEF OptionsInv, ResolvedInv, CheckedInv, CreatedInv
<1>3. CASE driver = "clsmith"
  <2>1. options' = Assign(options, ResolveCGOptions)
    BY <1>3 DEF EndOfLine
  <2>2. \A f : (\A a \in ResolveCGOptions : a[1] # f) => CG(f)' = CG(f)
    BY <2>1, AssignedOptions
  <2>3. \A f : (\E a \in ResolveCGOptions : a[1] = f) => \E a \in ResolveCGOptions : a[1] = f /\ CG(f)' = a[2]
    BY <2>1, AssignedOptions
  <2>4. \A f \in {"consts", "bitfields", "gotos", "arrays", "array_ops"} :
          /\ (\E a \in ResolveCGOptions : a[1] = f) => CG(f)' = FALSE
          /\ CG(f)' = FALSE \/ CG(f)' = CG(f)
    BY <2>2, <2>3, ResolveMeans, Zenon
  <2>5. \A f \in {"max_exhaustive_depth", "max_split_files", "dfs_exhaustive", "random_based", "go_delta", "loops", "atomics",
                  "track_divergence", "vectors"} \cup Extensions : CG(f)' = CG(f)
    BY <2>2, ResolveMeans DEF Extensions
  <2>6. LineInv'
    BY <1>1, <2>4, <2>5 DEF OptionsInv, LineInv
  <2>7. ResolvedInv'
    BY <2>4, <2>5, ResolveMeans DEF ResolvedInv
  <2> QED
    BY <1>1, <2>6, <2>7 DEF OptionsInv, CheckedInv, CreatedInv
<1> QED
  BY <1>2, <1>3

\* CLSmith only looks for conflicts.
LEMMA CheckCLKeeps ==
  ASSUME OptionsInv, NEW expands, NEW known, NEW writable, Check(expands, known, writable), driver = "clsmith"
  PROVE  OptionsInv'
<1>1. stage = "check" /\ stage' \in {"refused", "create"} /\ UNCHANGED <<options, driver, created>>
  BY DEF Check
<1>2. stage' = "create" => ~Conflict
  BY DEF Check
<1>3. \A f : CG(f)' = CG(f)
  BY <1>1 DEF CG
<1>4. LineInv'
  BY <1>1, <1>3 DEF OptionsInv, LineInv
<1>5. ResolvedInv'
  BY <1>1, <1>3 DEF OptionsInv, ResolvedInv
<1>6. CheckedInv'
  BY <1>1, <1>2, <1>3 DEF CheckedInv, Conflict
<1> QED
  BY <1>1, <1>4, <1>5, <1>6 DEF OptionsInv, CreatedInv

\* csmith settles two options, of which none is looked at by the check.
LEMMA CheckKeeps ==
  ASSUME OptionsInv, NEW expands, NEW known, NEW writable, Check(expands, known, writable), driver = "csmith"
  PROVE  OptionsInv'
<1> DEFINE new == Conjunct(On({"fixed_struct_fields"}), CG("dfs_exhaustive")) \cup Text({"split_files_dir"})
<1>1. /\ stage' \in {"refused", "create"} /\ UNCHANGED <<driver, created>>
      /\ options' = Assign(options, new)
  BY DEF Check, LineInv, OptionsInv
<1>2. stage' = "create" => ~has_conflict(expands, known, writable)
  BY DEF Check
<1>3. \A a \in new : a[1] \in {"fixed_struct_fields", "split_files_dir"}
  BY DEF Conjunct, On, Text
<1>4. \A f : f \notin {"fixed_struct_fields", "split_files_dir"} => CG(f)' = CG(f)
  <2> HIDE DEF new
  <2> QED
    BY <1>1, <1>3, AssignedOptions
<1>5. CG("dfs_exhaustive") = TRUE => CG("fixed_struct_fields")' = TRUE
  <2> SUFFICES ASSUME CG("dfs_exhaustive") = TRUE PROVE CG("fixed_struct_fields")' = TRUE
    OBVIOUS
  <2>1. On({"fixed_struct_fields"}) \subseteq new
    BY Zenon DEF Conjunct
  <2>2. \E a \in On({"fixed_struct_fields"}) : a[1] = "fixed_struct_fields"
    BY OnMeans, Zenon
  <2>3. \A a \in new : a[1] = "fixed_struct_fields" => a[2] = TRUE
    BY DEF Conjunct, On, Text
  <2> HIDE DEF new
  <2>4. \E a \in new : a[1] = "fixed_struct_fields"
    BY <2>1, <2>2, Zenon
  <2>5. \E a \in new : a[1] = "fixed_struct_fields" /\ CG("fixed_struct_fields")' = a[2]
    BY <1>1, <2>4, AssignedOptions
  <2> QED
    BY <2>3, <2>5, Zenon
<1> HIDE DEF new
<1>6. LineInv'
  BY <1>1, <1>4 DEF OptionsInv, LineInv, Extensions
<1>7. ASSUME stage' = "create" PROVE CheckedInv'
  <2>1. /\ ~has_random_based_conflict /\ ~resolve_exhaustive_options(expands)
        /\ ~has_extension_conflict /\ ~has_delta_conflict
        /\ Given("go_delta") => Given("delta_input")
    BY <1>2, <1>7 DEF has_conflict
  <2>2. \A e \in Extensions : CG(e)' = CG(e)
    BY <1>4 DEF Extensions
  <2>3. ~has_extension_conflict'
    BY <2>1, <2>2 DEF has_extension_conflict
  <2>4. ~has_delta_conflict' /\ (Given("go_delta")' => Given("delta_input")')
    BY <1>4, <2>1 DEF has_delta_conflict, Given
  <2>5. CG("dfs_exhaustive")' = TRUE =>
          /\ CG("max_exhaustive_depth")' > 0 /\ CG("max_split_files")' <= 0
          /\ CG("fixed_struct_fields")' = TRUE /\ ~has_extension_support'
    <3> SUFFICES ASSUME CG("dfs_exhaustive")' = TRUE
                 PROVE  /\ CG("max_exhaustive_depth")' > 0 /\ CG("max_split_files")' <= 0
                        /\ CG("fixed_struct_fields")' = TRUE /\ ~has_extension_support'
      OBVIOUS
    <3>1. CG("dfs_exhaustive") = TRUE /\ CG("random_based") = FALSE
      BY <1>4 DEF OptionsInv, LineInv
    <3>2. ~(CG("max_split_files") > 0)
      BY <2>1, <3>1 DEF has_random_based_conflict
    <3>3. ~(CG("max_exhaustive_depth") <= 0) /\ ~has_extension_support
      BY <2>1, <3>1, Zenon DEF resolve_exhaustive_options
    <3>4. ~has_extension_support'
      BY <2>2, <3>3 DEF has_extension_support
    <3> QED
      BY <1>4, <1>5, <3>1, <3>2, <3>3, <3>4 DEF OptionsInv, LineInv
  <2> QED
    BY <1>1, <2>3, <2>4, <2>5 DEF CheckedInv
<1>8. stage' # "create" => CheckedInv'
  BY <1>1 DEF CheckedInv
<1> QED
  BY <1>1, <1>6, <1>7, <1>8 DEF OptionsInv, ResolvedInv, CreatedInv

LEMMA CreateKeeps ==
  ASSUME OptionsInv, NEW readable, CreateInstance(readable)
  PROVE  OptionsInv'
<1>1. /\ stage = "create" /\ stage' \in {"stopped", "refused", "generate"}
      /\ UNCHANGED <<options, driver, args>>
  BY DEF CreateInstance
<1>2. \A f : CG(f)' = CG(f)
  BY <1>1 DEF CG
<1>3. LineInv'
  BY <1>1, <1>2 DEF OptionsInv, LineInv
<1>4. ResolvedInv'
  BY <1>1, <1>2 DEF OptionsInv, ResolvedInv
<1>5. CheckedInv'
  BY <1>1, <1>2 DEF OptionsInv, CheckedInv, Conflict, has_extension_support, has_extension_conflict, has_delta_conflict, Given
<1>6. CreatedInv'
  <2>1. CASE CG("dfs_exhaustive") = TRUE
    <3>1. created' = [source |-> "dfs", writer |-> "dfs", extension |-> "none"]
      BY <2>1 DEF CreateInstance
    <3> QED
      BY <1>2, <2>1, <3>1 DEF CreatedInv
  <2>2. CASE CG("dfs_exhaustive") = FALSE
    <3>1. created' = [source |-> RandomSource, writer |-> IF Given("reducer") THEN "reducer" ELSE "default",
                      extension |-> CreateExtension]
      BY <2>2 DEF CreateInstance
    <3>2. RandomSource \in {"delta", "default"} /\ (RandomSource = "delta" => Given("go_delta"))
      BY DEF RandomSource
    <3>3. CreateExtension # "none" => CreateExtension \in Extensions /\ CG(CreateExtension)
      BY DEF CreateExtension, has_extension_support
    <3>4. Given("go_delta")' = Given("go_delta")
      BY <1>2 DEF Given
    <3> QED
      BY <1>2, <2>2, <3>1, <3>2, <3>3, <3>4 DEF CreatedInv
  <2> QED
    BY <2>1, <2>2 DEF OptionsInv, LineInv
<1> QED
  BY <1>3, <1>4, <1>5, <1>6 DEF OptionsInv

LEMMA StepKeeps == OptionsInv /\ [OptionsNext]_optionVars => OptionsInv'
<1> SUFFICES ASSUME OptionsInv, [OptionsNext]_optionVars PROVE OptionsInv'
  OBVIOUS
<1>1. CASE UNCHANGED optionVars
  <2>1. \A f : CG(f)' = CG(f)
    BY <1>1 DEF optionVars, CG
  <2> QED
    BY <1>1, <2>1 DEF optionVars, OptionsInv, LineInv, ResolvedInv, CheckedInv, CreatedInv, Conflict, has_extension_support,
                      has_extension_conflict, has_delta_conflict, Given
<1>2. ASSUME NEW expands \in BOOLEAN, NEW known \in BOOLEAN, NEW writable \in BOOLEAN, Check(expands, known, writable)
      PROVE  OptionsInv'
  BY <1>2, CheckCLKeeps, CheckKeeps DEF OptionsInv, LineInv
<1> QED
  BY <1>1, <1>2, ParseKeeps, EndOfLineKeeps, CreateKeeps DEF OptionsNext, OptionsDone

-----------------------------------------------------------------------------
(* What the invariant says of options that reach the generator *)

LEMMA SourcesMatch == OptionsInv => SourceMatches
<1> SUFFICES ASSUME OptionsInv, Generates PROVE
      /\ (created.source = "dfs") = ~CG("random_based")
      /\ created.source = "delta" => Given("delta_input") /\ ~Given("delta_monitor")
      /\ created.source = "dfs" => created.extension = "none" /\ ~has_extension_support
      /\ created.extension # "none" => ~allow_int64 /\ \A e \in Extensions : CG(e) => e = created.extension
  BY DEF SourceMatches
<1>1. stage = "generate" /\ driver \in {"csmith", "clsmith"}
  BY DEF Generates, OptionsInv, LineInv
<1>2. (created.source = "dfs") = ~CG("random_based")
  BY <1>1 DEF OptionsInv, CreatedInv, LineInv
<1>3. created.source = "delta" => Given("delta_input") /\ ~Given("delta_monitor")
  BY <1>1 DEF OptionsInv, CreatedInv, CheckedInv, LineInv, has_delta_conflict, Given
<1>4. created.source = "dfs" => created.extension = "none" /\ ~has_extension_support
  BY <1>1 DEF OptionsInv, CreatedInv, CheckedInv, LineInv
<1>5. ASSUME created.extension # "none" PROVE ~allow_int64 /\ \A e \in Extensions : CG(e) => e = created.extension
  <2>1. created.extension \in Extensions /\ CG(created.extension)
    BY <1>1, <1>5 DEF OptionsInv, CreatedInv
  <2>2. driver = "csmith"
    BY <1>1, <2>1, Zenon DEF OptionsInv, LineInv
  <2>3. ~has_extension_conflict
    BY <1>1, <2>2 DEF OptionsInv, CheckedInv
  <2> QED
    BY <2>1, <2>3, Zenon DEF allow_int64, has_extension_support, has_extension_conflict
<1> QED
  BY <1>2, <1>3, <1>4, <1>5

LEMMA SearchesBounded == OptionsInv => SearchBounded
BY DEF SearchBounded, Generates, OptionsInv, LineInv, CheckedInv

LEMMA FeaturesMeet == OptionsInv => FeaturesCompatible
BY DEF FeaturesCompatible, Generates, OptionsInv, LineInv, ResolvedInv, CheckedInv, Conflict

\* Whatever the line says and in whatever order, the options that reach the generator go
\* together (CGOptions::has_conflict, CLOptions::Conflict and ResolveCGOptions).
THEOREM OptionsGoTogether == OptionsSpec => []OptionsConsistent
<1>1. OptionsInit => OptionsInv
  BY InitOptions
<1>2. OptionsInv /\ [OptionsNext]_optionVars => OptionsInv'
  BY StepKeeps
<1>3. OptionsInv => OptionsConsistent
  BY SourcesMatch, SearchesBounded, FeaturesMeet DEF OptionsConsistent
<1> QED
  BY <1>1, <1>2, <1>3, PTL DEF OptionsSpec
=============================================================================
