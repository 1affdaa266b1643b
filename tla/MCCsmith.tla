------------------------------- MODULE MCCsmith -------------------------------
(***************************************************************************)
(* The parts that make, analyse and print a program, checked in one run: a  *)
(* behaviour is one of a part, the others stay in an initial state.         *)
(***************************************************************************)
EXTENDS MCDivergence

CONSTANTS CheckedParts   \* the parts that are checked

VARIABLES unit,
          arrays, directives, loops, item,
          block, next, curr_index, overwritten, index, where, stms,
          frames, returned,
          plan, fn, open, visits, env, at,
          phase, calls, casts, printing, flip_next, demote_next,
          header, platform, safety, step, op, of, flags, wrapper,
          AllTypes, derived_types, used, making, progress, declared,
          tree, reduced, ops, left_trees, right_trees, single, combinations, choice_at, alt_stms, choosing,
          group,   \* the instance of WorkGroup that runs
          cl_options, kernel_phase, prog, free_counters, permutations, instructions, ip, reg, tid, v_collective, gate, digest, in_section, l_comm_values, g_comm_values, reduction, counter, special, lb,
          cgs, open_ops, operand, expr_depth, no_ops, finished,
          selector_opts, open_blks, filled_blks, made_gotos, declared_in, half_made, handed_out,
          switched, made, initialising, requests, produced, conversion, selected,
          fields, facts, memory, branches, stores,
          options, texts, written, pending, passed

-----------------------------------------------------------------------------
(* Loops over arrays: dimensions that are cut (26 items of at most 13 each). *)

IV(n, b, s, v) == [name |-> <<n, 1>>, bits |-> b, signed |-> s, volatile |-> v]
LoopIVs == {IV("i", 8, TRUE, FALSE), IV("u", 8, FALSE, FALSE), IV("w", 16, FALSE, TRUE)}
Looped == INSTANCE ArrayLoops WITH IVs <- LoopIVs,
                                   MaxDims <- 2, MaxPerDim <- 13, MaxLength <- 26, Offset <- 2, MaxIncr <- 3,
                                   Sizes <- {13}, NoArrays <- 2, NoLoops <- 2

(* Summands of the special value: local variables of every kind. *)

Local(n, k, s) == [name |-> n, kind |-> k, sizes |-> s]
BlockLocals ==
            {Local("l_1", "scalar", <<>>), Local("l_2", "pointer", <<>>), Local("l_3", "item", <<>>),
             Local("l_4", "array", <<3>>), Local("l_5", "vector", <<2>>), Local("l_6", "vector", <<1, 2, 2>>),
             Local("l_7", "vector", <<3, 1, 2>>)}
Summed == INSTANCE SpecialValues WITH pc <- where, Front <- 2, Locals <- BlockLocals

Nested == INSTANCE Vectors WITH Lengths <- {2, 4}, MaxNest <- 3

\* char, int, unsigned char and unsigned short.
VectorTypes == {[simple |-> s, len |-> 2] : s \in {3, 5, 8, 9}} \cup {[simple |-> 3, len |-> 4]}
Called == INSTANCE BuiltIns WITH Functions <- {"abs", "abs_diff", "clamp", "max", "upsample", "mad24", "popcount"},
                                 ResultTypes <- VectorTypes, NoCalls <- 2

\* Every kind of statement, and a few more of some of them; fewer with a local pointer.
Plan(kinds, n, more, locals) == [kinds |-> {"assign"} \cup kinds, stms |-> n, visits |-> more, ptrs |-> locals]
FactPlans == {Plan({"use", "if", "for", "break", "continue", "return", "goto"}, 3, 1, {}),
              Plan({"use", "for", "break", "continue"}, 4, 1, {}), Plan({"use", "if", "return", "goto"}, 4, 0, {}),
              Plan({"for", "goto"}, 4, 0, {}),
              Plan({"use", "if", "for"}, 3, 0, {"q"}), Plan({"use", "goto"}, 3, 0, {"q"}), Plan({"use", "for", "break"}, 3, 0, {"q"})}
Analysed == INSTANCE Facts WITH calls <- visits, GlobalPtr <- "p", Target <- "g", LocalTargets <- {"t"},
                                MaxDepth <- 2, Plans <- FactPlans

(* Safe arithmetic: int8 .. int64, and int and long of OpenCL, IA32 and MSP430, scaled down. *)

MCBits == ("int8" :> 2 @@ "int16" :> 4 @@ "int32" :> 8 @@ "int64" :> 12)
Platform(n, i, l) == [name |-> n, int |-> i, long |-> l]
OpenCL == Platform("opencl", 8, 12)
MCPlatforms == {OpenCL, Platform("ia32", 8, 8), Platform("msp", 4, 8)}
Wrapped == INSTANCE SafeMath WITH Bits <- MCBits, Platforms <- MCPlatforms

\* Bounds: two simple types, three structures or unions with three fields altogether, so
\* that structures nest to the limit of two, and two pointer types.
MCSimples == <<[name |-> "Char", size |-> 1, signed |-> TRUE], [name |-> "UInt", size |-> 4, signed |-> FALSE]>>
Typed == INSTANCE Types WITH Simples <- MCSimples, MaxFields <- 3, MaxNestedStructLevel <- 2, MaxIndirectLevel <- 2,
                             MaxAggregates <- 3, MaxAllFields <- 3, MaxPointers <- 2, MaxUsed <- 1

(* The reducer's choices of operands. *)
Binaries == INSTANCE MCBinaryReduction

(* Kernels that run: a gated barrier, and ids that are handed on. *)

Menus == INSTANCE KernelMenus

\* A group of four work-items and one gated barrier among divergent code and sections.
Gated == INSTANCE WorkGroup WITH phase <- kernel_phase, code <- instructions, entered <- in_section,
            NGroups <- 1, Size <- 4, Dim0 <- 4, Modulus <- 4, NRows <- 1, Shuffles <- {[i \in 0 .. 3 |-> i]},
            NCounters <- 2, NItems <- 4, OptionSets <- {{"divergence", "track_divergence", "barriers", "atomics"}},
            Statements <- Menus!BarrierMenu, MaxStatements <- 2, Junk <- 2

\* A group of three whose buffer has two items.
Crowded == INSTANCE WorkGroup WITH phase <- kernel_phase, code <- instructions, entered <- in_section,
              NGroups <- 1, Size <- 3, Dim0 <- 3, Modulus <- 4, NRows <- 1, Shuffles <- {[i \in 0 .. 2 |-> i]},
              NCounters <- 2, NItems <- 2, OptionSets <- {{"divergence", "track_divergence", "barriers", "atomics"}},
              Statements <- Menus!CrowdedMenu, MaxStatements <- 2, Junk <- 2

\* A group of three around inter-thread communication; its shuffles are an exchange and a rotation.
Exchange == [i \in 0 .. 2 |-> IF i = 0 THEN 1 ELSE IF i = 1 THEN 0 ELSE i]
Rotation == [i \in 0 .. 2 |-> (i + 1) % 3]
Ids == INSTANCE WorkGroup WITH phase <- kernel_phase, code <- instructions, entered <- in_section,
          NGroups <- 1, Size <- 3, Dim0 <- 3, Modulus <- 4, NRows <- 2, Shuffles <- {Exchange, Rotation},
          NCounters <- 2, NItems <- 4, OptionSets <- {{"inter_thread_comm"}},
          Statements <- Menus!IdsMenu, MaxStatements <- 3, Junk <- 2

Effected == INSTANCE MCEffects WITH frames <- open_ops, value <- operand, ops <- no_ops

\* Variables: two blocks in the body, one traverses arrays.
MCBlockTree == "b1" :> "none" @@ "b2" :> "b1" @@ "b3" :> "b1"
Scoped == INSTANCE Variables WITH opts <- selector_opts, stack <- open_blks, filled <- filled_blks, gotos <- made_gotos, scopes <- declared_in,
            frames <- half_made, chosen <- handed_out, Tree <- MCBlockTree, Body <- "b1", ArrayLoops <- {"b2"}, ParamLevels <- {1},
            Options <- {{"ccomp"}, {"no_addr_of_locals", "vectors"}}, Levels <- {"ccomp"} :> {2} @@ {"no_addr_of_locals", "vectors"} :> {2},
            MaxVars <- 2, MaxGotos <- {"ccomp"} :> 0 @@ {"no_addr_of_locals", "vectors"} :> 1

MCQualifierOptions ==
  {{"volatiles", "volatile_pointers"}, {"consts", "const_pointers"},
   {"consts", "const_pointers", "match_exact_qualifiers"},
   {"volatiles", "volatile_pointers", "strict_volatile_rule"}, {"consts", "volatiles"}}
MCTwoVariables == {"volatiles", "volatile_pointers"}

Qualified == INSTANCE Qualifiers
  WITH QualifierOptions <- MCQualifierOptions, MaxRequests <- 2,
       MaxLevels <- [o \in MCQualifierOptions |->
                       IF o = {"consts", "const_pointers"} THEN 4 ELSE 2],
       MaxVariables <- [o \in MCQualifierOptions |-> IF o = MCTwoVariables THEN 2 ELSE 1]

UnionLayouts ==
  {<<"int32", "char_p">>, <<"int64", "bits", "int8">>, <<"char_p", "packed">>, <<"padded", "int64">>,
   <<"int8", "int64", "char_p">>, <<"nested", "int8", "int64">>, <<"bits", "int64">>, <<"char_p", "wide">>}

UnionsKnown == INSTANCE UnionFacts
  WITH Layouts <- UnionLayouts, TypeSensitive <- TRUE, Arrays <- {"u2"}, InnerZeros <- FALSE, MaxStores <- 2

\* Names are static whatever csmith's command line says (CGOptions.cpp:289); split programs
\* also have those that the extern declarations of their header are written for.
OutputSettings ==
  {o \in [split : 0 .. 2, static : BOOLEAN, depth_protect : BOOLEAN, step_hash : BOOLEAN, compute_hash : BOOLEAN,
           nomain : BOOLEAN, extension : {"none", "splat", "klee", "crest", "coverage"}, blind_check_global : BOOLEAN,
           wrap_volatiles : BOOLEAN, access_once : BOOLEAN, struct_arrays : BOOLEAN] :
     /\ ~o.static => o.split > 0
     /\ o.split = 2 => o.extension = "none" /\ ~o.blind_check_global}

\* What the other units are checked with.
PlainOutput ==
  [split |-> 0, static |-> TRUE, depth_protect |-> FALSE, step_hash |-> FALSE, compute_hash |-> TRUE, nomain |-> FALSE,
   extension |-> "none", blind_check_global |-> FALSE, wrap_volatiles |-> FALSE, access_once |-> FALSE, struct_arrays |-> FALSE]

ProgramWritten == INSTANCE ProgramText WITH OutputOptions <- OutputSettings, Inputs <- 2, TestSize <- 3

-----------------------------------------------------------------------------
textVars == <<options, texts, written, pending, passed>>
unionsVars == <<fields, facts, memory, branches, stores>>
qualifiersVars == <<switched, made, initialising, requests, produced, conversion, selected>>
variablesVars == <<selector_opts, open_blks, filled_blks, made_gotos, declared_in, half_made, handed_out>>
effectsVars == <<cgs, open_ops, operand, expr_depth, no_ops, finished>>
kernelsVars == <<group, cl_options, kernel_phase, prog, free_counters, permutations, instructions, ip, reg, tid, v_collective, gate, digest, in_section, l_comm_values, g_comm_values, reduction, counter, special, lb>>
binariesVars == <<tree, reduced, ops, left_trees, right_trees, single, combinations, choice_at, alt_stms, choosing>>
typesVars == <<AllTypes, derived_types, used, making, progress, declared>>
arithVars == <<header, platform, safety, step, op, of, flags, wrapper>>
factVars == <<plan, fn, open, visits, env, at>>
loopVars == <<arrays, directives, loops, item>>
specialVars == <<block, next, curr_index, overwritten, index, where, stms>>
vectorVars == <<frames, returned>>
builtinVars == <<phase, calls, casts, printing, flip_next, demote_next>>

APlan == CHOOSE p \in FactPlans : p.visits = 0
AProgram == CHOOSE p \in Programs : TRUE

\* A part stays in one of its initial states while another one is checked.
MCInit ==
  /\ unit \in CheckedParts
  /\ (IF unit = "divergence" THEN TRUE ELSE program = AProgram) /\ Init
  /\ Looped!Init
  /\ (IF unit = "special" THEN TRUE ELSE block = <<>>) /\ Summed!Init
  /\ Nested!Init
  /\ Called!Init
  /\ (IF unit = "facts" THEN TRUE ELSE plan = APlan) /\ Analysed!Init
  /\ (IF unit = "arith" THEN TRUE ELSE header = "macros" /\ platform = OpenCL /\ safety = [math |-> TRUE, ids |-> {}]) /\ Wrapped!Init
  /\ Typed!Init
  /\ Binaries!Choosing!Init /\ (unit # "binaries" => tree = Binaries!Chain)
  /\ group \in (IF unit = "kernels" THEN {"gated", "crowded", "ids"} ELSE {"gated"})
  /\ (CASE group = "gated" -> Gated!Init [] group = "crowded" -> Crowded!Init [] group = "ids" -> Ids!Init)
  /\ Effected!Init /\ (unit # "effects" => cgs[1].context = Effected!NoEff)
  /\ Scoped!Init /\ (unit # "variables" => selector_opts = {"ccomp"})
  /\ Qualified!Init /\ (unit # "qualifiers" => switched = MCTwoVariables)
  /\ (IF unit = "unions" THEN TRUE ELSE fields = <<"int32", "char_p">>) /\ UnionsKnown!Init
  /\ (IF unit = "text" THEN TRUE ELSE options = PlainOutput) /\ ProgramWritten!Init

Still(name, state) == IF unit = name THEN TRUE ELSE UNCHANGED state
Others ==
  /\ UNCHANGED unit
  /\ Still("divergence", dVars) /\ Still("loops", loopVars) /\ Still("special", specialVars)
  /\ Still("vectors", vectorVars) /\ Still("builtins", builtinVars) /\ Still("facts", factVars)
  /\ Still("arith", arithVars)
  /\ Still("types", typesVars)
  /\ Still("binaries", binariesVars)
  /\ Still("kernels", kernelsVars)
  /\ Still("effects", effectsVars)
  /\ Still("variables", variablesVars)
  /\ Still("qualifiers", qualifiersVars)
  /\ Still("unions", unionsVars)
  /\ Still("text", textVars)

AnalyseDivergence == unit = "divergence" /\ Next /\ Others
MakeArrayLoops == unit = "loops" /\ Looped!Next /\ Others
AddSpecialValues == unit = "special" /\ Summed!Next /\ Others
MakeVectors == unit = "vectors" /\ Nested!Next /\ Others
MakeBuiltIns == unit = "builtins" /\ Called!Next /\ Others
AnalyseFacts == unit = "facts" /\ Analysed!Next /\ Others
CompileArithmetic == unit = "arith" /\ Wrapped!Next /\ Others
MakeTypes == unit = "types" /\ Typed!Next /\ Others
ReduceBinaries == unit = "binaries" /\ Binaries!Choosing!Next /\ Others
RunGated == unit = "kernels" /\ group = "gated" /\ Gated!Next /\ UNCHANGED group /\ Others
HandIdsOn == unit = "kernels" /\ group = "ids" /\ Ids!Next /\ UNCHANGED group /\ Others
RunCrowded == unit = "kernels" /\ group = "crowded" /\ Crowded!Next /\ UNCHANGED group /\ Others
MakeExpressions == unit = "effects" /\ Effected!Next /\ Others
MakeVariables == unit = "variables" /\ Scoped!Next /\ Others
Qualify == unit = "qualifiers" /\ Qualified!Next /\ Others
KnowUnions == unit = "unions" /\ UnionsKnown!Next /\ Others
WriteProgram == unit = "text" /\ ProgramWritten!Next /\ Others

MCNext == AnalyseDivergence \/ MakeArrayLoops \/ AddSpecialValues \/ MakeVectors \/ MakeBuiltIns \/ AnalyseFacts \/ CompileArithmetic \/ MakeTypes \/ ReduceBinaries \/ RunGated \/ HandIdsOn \/ RunCrowded \/ MakeExpressions \/ MakeVariables \/ Qualify \/ KnowUnions \/ WriteProgram

MCSpec == MCInit /\ [][MCNext]_<<unit, dVars, loopVars, specialVars, vectorVars, builtinVars, factVars, arithVars, typesVars, binariesVars, kernelsVars, effectsVars, variablesVars, qualifiersVars, unionsVars, textVars>>

\* Items of buffers change hands at barriers that all work-items of a group reach, or none
\* does (CLOutputMgr.cpp, StatementBarrier.cpp, StatementComm.cpp): a pair exchanges its
\* items once, also beside work-items that the buffer has no items for, no item is
\* accessed by two work-items while one of them writes it, and the ids stay a permutation
\* in a group that is not a pair.
KernelsExchange ==
  /\ unit = "kernels" /\ group = "gated" => Gated!ItemsExchanged /\ Gated!BarriersConverge
  /\ unit = "kernels" /\ group = "crowded" => Crowded!ItemsExchanged /\ Crowded!BarriersConverge
  /\ unit = "kernels" /\ group = "ids" => Ids!NoDataRace /\ Ids!TidsArePermutation

\* The properties of the other parts.
LoopsStayInside == unit = "loops" => Looped!LoopsStayInside
EverySummandOnce == unit = "special" => Summed!EverySummandOnce
VectorsFill == unit = "vectors" => Nested!VectorsFill
ArgumentsFitCalls == unit = "builtins" => Called!ArgumentsFitCalls
FactsSound == unit = "facts" => Analysed!FactsSound
OperationsSafe == unit = "arith" => Wrapped!OperationsSafe
TypesWellFormed == unit = "types" => Typed!TypesWellFormed
AlternativesSound == unit = "binaries" => Binaries!Choosing!AlternativesSound
EvaluationSound == unit = "effects" => Effected!EvaluationSound
VariablesInPlace == unit = "variables" => Scoped!VariablesInPlace
QualifiersSound == unit = "qualifiers" => Qualified!QualifiersSound
UnionReadsDefined == unit = "unions" => UnionsKnown!UnionReadsDefined
ProgramComplete == unit = "text" => ProgramWritten!ProgramComplete
=============================================================================
