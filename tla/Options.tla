------------------------------- MODULE Options -------------------------------
(***************************************************************************)
(* The options of the two generators: csmith (RandomProgramGenerator) and     *)
(* CLSmith (CLRandomProgramGenerator) read a command line, resolve and check  *)
(* the options, and create what generates programs.                          *)
(*                                                                          *)
(* An argument is the assignment it makes, <<option, value>>.  A text is      *)
(* given or not; the options that nothing below asks for are only set.        *)
(***************************************************************************)
EXTENDS Integers, Sequences

CONSTANTS Numbers, \* values of options that are numbers
          Key,     \* arguments that may follow another one
          MaxLine  \* bound: arguments

\* A number is read as an unsigned long and kept as an int: it may be negative.
ASSUME NumbersGiven == Numbers \subseteq Int

VARIABLES driver,   \* "csmith" or "clsmith"
          args,     \* the arguments that were read
          options,  \* options that were set -> their values
          stage,    \* "parse", "check", "create", "generate", "refused", "stopped"
          created   \* random source, writer and extension of the generator

optionVars == <<driver, args, options, stage, created>>

Both(S) == S \X BOOLEAN
On(S) == S \X {TRUE}
Off(S) == S \X {FALSE}
Number(S) == S \X Numbers
Text(S) == S \X {"given"}

-----------------------------------------------------------------------------
(* The arguments of csmith, as the parser tries them *)

Sizes ==
  Number({"max_block_size", "max_funcs", "func1_max_params", "coverage_test_size", "max_split_files"})
  \cup On({"splat", "klee", "crest", "ccomp", "coverage_test"}) \cup Text({"split_files_dir"})

Modes ==
  On({"dfs_exhaustive", "compact_output", "msp", "prefix_name", "sequence_name_prefix", "compatible_check", "quiet"})
  \cup Both({"packed_struct", "bitfields", "paranoid", "nomain", "compound_assignment", "use_struct", "use_union", "accept_argc"})
  \cup On({"expand_struct", "fixed_struct_fields"}) \cup Text({"partial_expand"})

Structs ==
  Number({"max_struct_fields", "max_union_fields", "max_nested_struct_level", "max_exhaustive_depth", "max_indirect_level"})
  \cup Text({"struct_output", "dfs_debug_sequence", "output_file", "delta_monitor", "delta_output", "go_delta"})
  \cup On({"no_delta_reduction"})

Kinds ==
  On({"math_notmp", "strict_const_arrays"}) \cup Number({"max_array_dimensions", "max_array_length_per_dimension"})
  \cup Both({"math64", "inline_function", "longlong", "int8", "uint8", "pointers", "empty_blocks", "arrays", "jumps",
             "return_structs", "arg_structs", "return_unions"})

Qualifiers ==
  Both({"arg_unions", "volatiles", "volatile_pointers", "const_pointers", "addr_taken_of_locals", "consts",
        "dangling_global_ptrs", "divs", "muls", "gotos", "compute_hash", "builtins"})
  \cup On({"access_once", "strict_volatile_rule", "fresh_array_ctrl_var_names", "random_random", "blind_check_global"})

Files ==
  On({"step_hash_by_stmt", "deputy"}) \cup Number({"stop_by_stmt"})
  \cup Text({"monitored_funcs", "delta_input", "dump_default_probabilities", "dump_random_probabilities", "probability_configuration"})

Wrappers ==
  On({"const_as_condition", "match_exact_qualifiers", "concise", "identify_wrappers", "mark_mutable_const", "force_globals_static"})
  \cup Both({"no_return_dead_ptr", "force_non_uniform_array_init"}) \cup Text({"safe_math_wrapper"})
  \cup Number({"inline_function_prob", "builtin_function_prob", "null_pointer_dereference_prob"}) \cup Both({"generic", "x86"})

Operators ==
  Number({"dead_pointer_dereference_prob", "max_expr_depth", "max_blk_depth"})
  \cup Both({"union_read_type_sensitive", "pre_incr_operator", "pre_decr_operator", "post_incr_operator", "post_decr_operator",
             "unary_plus_operator", "use_embedded_assigns", "avoid_signed_overflow"})

Expressions ==
  Both({"use_comma_exprs", "take_union_field_addr", "vol_struct_union_fields"}) \cup Off({"hash_value_printf", "signed_char_index"})
  \cup On({"lang_cpp"}) \cup Text({"reducer"})

\* The arguments of CLSmith.
CLArguments ==
  On({"atomic_reductions", "atomics", "barriers", "divergence", "embedded", "emi", "fake_divergence", "group_divergence",
      "inter_thread_comm", "message_passing", "small", "track_divergence", "vectors"})
  \cup Off({"arrays", "loops", "safe_math"}) \cup Number({"emi_p_compound", "emi_p_leaf", "emi_p_lift"}) \cup Text({"output"})

\* An unknown option, or one without a proper value, and one that only asks for help.
OtherArguments == On({"invalid", "help"})

Arguments ==
  OtherArguments \cup (IF driver = "clsmith" THEN CLArguments
               ELSE Sizes \cup Modes \cup Structs \cup Kinds \cup Qualifiers \cup Files \cup Wrappers \cup Operators \cup Expressions)

\* set_default_settings, what is asked for below; a text is not given, all else is off.
Default(f) ==
  CASE f \in {"max_exhaustive_depth"} -> -1
    [] f \in {"max_split_files"} -> 0
    [] f \in {"max_funcs", "max_blk_depth"} -> 10
    [] f = "func1_max_params" -> 3
    [] f \in {"inline_function_prob", "builtin_function_prob"} -> 50
    [] f \in {"random_based", "use_struct", "math64", "longlong", "gotos", "arrays", "loops", "array_ops", "consts", "bitfields",
              "packed_struct", "empty_blocks"} -> TRUE
    [] f \in {"split_files_dir", "delta_monitor", "go_delta", "delta_output", "delta_input", "dump_default_probabilities",
              "dump_random_probabilities", "probability_configuration", "reducer",
              "partial_expand"} -> "none"
    [] OTHER -> FALSE

max_params == 5
CG(f) == IF f \in DOMAIN options THEN options[f] ELSE Default(f)
Given(f) == CG(f) = "given"

\* What an argument sets.
Sets(arg) ==
  CASE arg = <<"dfs_exhaustive", TRUE>> -> On({"dfs_exhaustive"}) \cup Off({"random_based"})
    [] arg = <<"loops", FALSE>> -> Off({"loops", "arrays"})
    [] OTHER -> {arg}

Assign(o, new) ==
  LET assigned == {a[1] : a \in new} IN
  [f \in assigned \cup DOMAIN o |-> IF f \in assigned THEN (CHOOSE a \in new : a[1] = f)[2] ELSE o[f]]

-----------------------------------------------------------------------------
(* Conflicts *)

Conjunct(f, on) == IF on THEN f ELSE {}

\* What OpenCL and the features of CLSmith do not allow is switched off, whatever the line said.
ResolveCGOptions ==
  Off({"force_globals_static", "bitfields", "packed_struct", "hash_value_printf", "consts", "union_read_type_sensitive", "empty_blocks"})
  \cup Conjunct({<<"max_funcs", 3>>, <<"max_blk_depth", 3>>, <<"max_expr_depth", 5>>, <<"max_block_size", 20>>}, CG("small"))
  \cup Conjunct(Off({"arrays", "gotos"}), CG("track_divergence")) \cup Conjunct(Off({"array_ops"}), CG("vectors"))
  \cup Conjunct(Off({"gotos"}), CG("atomics")) \cup Conjunct(Off({"longlong", "use_struct"}), CG("embedded"))

Conflict ==
  \/ CG("barriers") /\ CG("divergence") /\ ~CG("track_divergence")
  \/ CG("vectors") /\ CG("track_divergence")
  \/ CG("divergence") /\ (CG("fake_divergence") \/ CG("inter_thread_comm"))

has_random_based_conflict ==
  IF CG("random_based") THEN CG("sequence_name_prefix") ELSE Given("split_files_dir") \/ CG("max_split_files") > 0

Extensions == {"splat", "klee", "crest", "coverage_test"}
has_extension_support == \E e \in Extensions : CG(e)
has_extension_conflict == \E e, f \in Extensions : e # f /\ CG(e) /\ CG(f)

\* Mutant: the depth is not looked at.
resolve_expansion(expands) == CG("dfs_exhaustive") /\ ((Given("partial_expand") /\ ~expands) \/ has_extension_support)

\* expands: the names of --partial-expand are known.
resolve_exhaustive_options(expands) ==
  /\ CG("dfs_exhaustive")
  /\ \/ Given("partial_expand") /\ ~expands
     \/ CG("max_exhaustive_depth") <= 0
     \/ ~CG("use_struct") /\ CG("expand_struct")
     \/ has_extension_support

has_delta_conflict == Given("delta_monitor") /\ Given("go_delta")

Probability(f) == CG(f) \in 0 .. 100

\* known: the monitor is; writable: the directory of split files can be made.
has_conflict(expands, known, writable) ==
  \/ has_random_based_conflict \/ resolve_exhaustive_options(expands) \/ has_extension_conflict \/ has_delta_conflict
  \/ ~Probability("inline_function_prob") \/ ~Probability("builtin_function_prob")
  \/ CG("max_funcs") < 1 \/ CG("max_blk_depth") < 1 \/ CG("func1_max_params") > max_params
  \/ CG("max_split_files") > 0 /\ ~writable
  \/ Given("delta_monitor") /\ (~Given("delta_output") \/ ~known)
  \/ Given("go_delta") /\ (~Given("delta_input") \/ ~known)

allow_int64 == ~has_extension_support /\ CG("math64") /\ CG("longlong")

-----------------------------------------------------------------------------
(* main *)

ParseArgument(arg) ==
  /\ stage = "parse" /\ Len(args) < MaxLine /\ (args # <<>> => arg \in Key)
  /\ args' = Append(args, arg)
  /\ IF arg[1] = "invalid" THEN stage' = "refused" /\ UNCHANGED options
     ELSE IF arg[1] = "help" THEN stage' = "stopped" /\ UNCHANGED options
     ELSE options' = Assign(options, Sets(arg)) /\ UNCHANGED stage
  /\ UNCHANGED <<driver, created>>

EndOfLine ==
  /\ stage = "parse" /\ stage' = "check"
  /\ options' = (IF driver = "clsmith" THEN Assign(options, ResolveCGOptions) ELSE options)
  /\ UNCHANGED <<driver, args, created>>

\* The check of csmith settles options of the exhaustive search, and the directory, too.
Check(expands, known, writable) ==
  /\ stage = "check"
  /\ IF driver = "clsmith"
     THEN stage' = (IF Conflict THEN "refused" ELSE "create") /\ UNCHANGED options
     ELSE /\ stage' = (IF has_conflict(expands, known, writable) THEN "refused" ELSE "create")
          /\ options' = Assign(options, Conjunct(On({"fixed_struct_fields"}), CG("dfs_exhaustive")) \cup Text({"split_files_dir"}))
  /\ UNCHANGED <<driver, args, created>>

\* go_delta has set is_delta.
RandomSource == IF Given("go_delta") THEN "delta" ELSE "default"

CreateExtension == IF has_extension_support THEN CHOOSE e \in Extensions : CG(e) ELSE "none"

\* readable: the configuration of the probabilities.
CreateInstance(readable) ==
  /\ stage = "create"
  /\ created' = (IF CG("dfs_exhaustive") THEN [source |-> "dfs", writer |-> "dfs", extension |-> "none"]
                 ELSE [source |-> RandomSource, writer |-> IF Given("reducer") THEN "reducer" ELSE "default", extension |-> CreateExtension])
  /\ stage' = (IF Given("dump_default_probabilities") \/ Given("dump_random_probabilities") THEN "stopped"
               ELSE IF Given("probability_configuration") /\ ~readable THEN "refused"
               ELSE "generate")
  /\ UNCHANGED <<driver, args, options>>

OptionsDone == stage \in {"generate", "refused", "stopped"} /\ UNCHANGED optionVars

OptionsInit == driver \in {"csmith", "clsmith"} /\ args = <<>> /\ options = <<>> /\ stage = "parse" /\ created = [source |-> "none", writer |-> "none", extension |-> "none"]

OptionsNext ==
  \/ (\E arg \in Arguments : ParseArgument(arg)) \/ EndOfLine
  \/ (\E expands, known, writable \in BOOLEAN : Check(expands, known, writable))
  \/ (\E readable \in BOOLEAN : CreateInstance(readable)) \/ OptionsDone

OptionsSpec == OptionsInit /\ [][OptionsNext]_optionVars

-----------------------------------------------------------------------------
(* Properties *)

Generates == stage = "generate"

\* The generator asks is_random at each draw, and takes numbers from the source that was created for another option: the
\* two agree, a monitor that replays does so, and no extension is made for a search.
SourceMatches ==
  Generates =>
    /\ (created.source = "dfs") = ~CG("random_based")
    /\ created.source = "delta" => Given("delta_input") /\ ~Given("delta_monitor")
    /\ created.source = "dfs" => created.extension = "none" /\ ~has_extension_support
    /\ created.extension # "none" => ~allow_int64 /\ \A e \in Extensions : CG(e) => e = created.extension

\* An exhaustive search ends and writes one file: its depth has a bound, structures have a fixed number of fields
\* and a program is not split, which is when the number of files is positive.
SearchBounded ==
  Generates /\ CG("dfs_exhaustive") =>
    CG("max_exhaustive_depth") > 0 /\ CG("fixed_struct_fields") /\ CG("max_split_files") <= 0

\* Features that do not go together are never both in an OpenCL program, in whatever order the line names them.
FeaturesCompatible ==
  Generates /\ driver = "clsmith" =>
    /\ CG("atomics") \/ CG("track_divergence") => ~CG("gotos")
    /\ CG("track_divergence") => ~CG("arrays") /\ ~CG("vectors")
    /\ CG("vectors") => ~CG("array_ops")
    /\ CG("barriers") /\ CG("divergence") => CG("track_divergence")
    /\ ~(CG("divergence") /\ CG("inter_thread_comm"))
    /\ ~CG("loops") => ~CG("arrays")
    /\ ~CG("consts") /\ ~CG("bitfields")

\* Options that reach the generator go together, in whatever order a line names them
\* (CGOptions.cpp, CLOptions.cpp).
OptionsConsistent == SourceMatches /\ SearchBounded /\ FeaturesCompatible
=============================================================================
