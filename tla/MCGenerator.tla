----------------------------- MODULE MCGenerator -----------------------------
(***************************************************************************)
(* The parts of the generator around the program it writes, checked in one  *)
(* run: a behaviour is one of a part, the others stay in an initial state.  *)
(***************************************************************************)
EXTENDS RandomChoices, RuntimeParameters, Options, TLC

CONSTANTS CheckedParts   \* the parts that are checked

VARIABLES unit,
          sections, percentages, prog, rest, frames, flips,
          program, line, pos, set, call, kernel_args, result,
          code, accesses, blk, slots, size, at,
          phase, features, inSections, gates, allVars, globalList, global_vars_, buffers_, buffInit, prefix,
          definition, initialisation,
          making, calls, contexts, blocks, locals, stms, free, block_vars, atomic_parent, recorded, conditions, results,
          group, settled, prob, status, partial, given, expands, expanding, refused, drawn,
          settings, level, all_types, accum_types, bitfields, fields, combined,
          source, directives, monitored_var, drop_params, active_blks, replaced, pre_assigns, invocations, must_use, must_visit, used_vars, used_funcs, used_labels, all_blks, todo, reducing, output

-----------------------------------------------------------------------------
(* Sections to prune: blocks are numbered from 1, statements are names. *)

\* A loop with a branch and jumps in it, next to leaves.
LoopTree(outer) ==
  [roots |-> <<1>>, outer |-> outer,
   stms |-> <<<<"a", "for", "b">>, <<"if", "brk">>, <<"cnt", "c">>, <<"d">>>>,
   kind |-> [s \in {"a", "b", "c", "d", "for", "if", "brk", "cnt"} |->
               CASE s = "for" -> "for" [] s = "if" -> "if" [] s = "brk" -> "break"
                 [] s = "cnt" -> "continue" [] OTHER -> "leaf"],
   subs |-> [s \in {"a", "b", "c", "d", "for", "if", "brk", "cnt"} |->
               CASE s = "for" -> <<2>> [] s = "if" -> <<3, 4>> [] OTHER -> <<>>],
   dest |-> <<>>]

\* Two sections; two loops one in the other, whose jumps may change their loop.
NestTree ==
  [roots |-> <<1, 4>>, outer |-> FALSE,
   stms |-> <<<<"f1", "a">>, <<"f2", "c1">>, <<"c2", "b">>, <<"i1", "i2">>, <<"x">>, <<>>, <<"y">>, <<>>>>,
   kind |-> [s \in {"f1", "f2", "a", "b", "c1", "c2", "i1", "i2", "x", "y"} |->
               CASE s \in {"f1", "f2"} -> "for" [] s \in {"i1", "i2"} -> "if"
                 [] s = "c1" -> "continue" [] s = "c2" -> "break" [] OTHER -> "leaf"],
   subs |-> [s \in {"f1", "f2", "a", "b", "c1", "c2", "i1", "i2", "x", "y"} |->
               CASE s = "f1" -> <<2>> [] s = "f2" -> <<3>> [] s = "i1" -> <<5, 6>>
                 [] s = "i2" -> <<7, 8>> [] OTHER -> <<>>],
   dest |-> <<>>]

\* A backward goto out of a branch, and a forward one in the same block.
GotoTree ==
  [roots |-> <<1>>, outer |-> FALSE,
   stms |-> <<<<"a", "if", "g2", "b">>, <<"g1", "c">>, <<>>>>,
   kind |-> [s \in {"a", "b", "c", "if", "g1", "g2"} |->
               CASE s = "if" -> "if" [] s \in {"g1", "g2"} -> "goto" [] OTHER -> "leaf"],
   subs |-> [s \in {"a", "b", "c", "if", "g1", "g2"} |-> IF s = "if" THEN <<2, 3>> ELSE <<>>],
   dest |-> [g \in {"g1", "g2"} |-> IF g = "g1" THEN "a" ELSE "b"]]

\* Gotos into branches: from the block around, in which a branch follows, and from the other branch.
JumpInTree ==
  [roots |-> <<1>>, outer |-> FALSE,
   stms |-> <<<<"if", "g1", "if2">>, <<"x", "w">>, <<"g2">>, <<"y">>, <<>>>>,
   kind |-> [s \in {"if", "if2", "g1", "g2", "x", "y", "w"} |->
               CASE s \in {"if", "if2"} -> "if" [] s \in {"g1", "g2"} -> "goto" [] OTHER -> "leaf"],
   subs |-> [s \in {"if", "if2", "g1", "g2", "x", "y", "w"} |->
               CASE s = "if" -> <<2, 3>> [] s = "if2" -> <<4, 5>> [] OTHER -> <<>>],
   dest |-> [g \in {"g1", "g2"} |-> IF g = "g1" THEN "x" ELSE "w"]]

\* A goto to the break of a loop.
ToBreakTree ==
  [roots |-> <<1>>, outer |-> FALSE,
   stms |-> <<<<"g", "for", "a">>, <<"if", "brk">>, <<"x">>, <<>>>>,
   kind |-> [s \in {"g", "for", "if", "brk", "x", "a"} |->
               CASE s \in {"for", "if"} -> s [] s = "g" -> "goto" [] s = "brk" -> "break" [] OTHER -> "leaf"],
   subs |-> [s \in {"g", "for", "if", "brk", "x", "a"} |->
               CASE s = "for" -> <<2>> [] s = "if" -> <<3, 4>> [] OTHER -> <<>>],
   dest |-> [g \in {"g"} |-> "brk"]]

MCTrees == {LoopTree(FALSE), LoopTree(TRUE), NestTree, GotoTree, JumpInTree, ToBreakTree}

\* The defaults of CLOptions.cpp, and the ends of the scale.
MCPercentages == {[leaf |-> 50, compound |-> 10, lift |-> 10], [leaf |-> 0, compound |-> 0, lift |-> 100],
                  [leaf |-> 100, compound |-> 100, lift |-> 0]}

Pruning == INSTANCE EMIPruning WITH Trees <- MCTrees, Percentages <- MCPercentages, tree <- sections, p <- percentages

-----------------------------------------------------------------------------
(* Programs and command lines for the launcher *)

LaunchSizes == {[globals |-> <<4, 2>>, locals |-> <<2, 2>>], [globals |-> <<6>>, locals |-> <<3>>]}
MCPrograms == {[features |-> f, counters |-> 2, globals |-> s.globals, locals |-> s.locals] :
                 f \in SUBSET {"atomics", "atomic_reductions", "emi", "fake_divergence", "inter_thread_comm"}, s \in LaunchSizes}

A(opt, val) == [opt |-> opt, val |-> val]
B(opt) == [opt |-> opt]

\* The first lines of the files for -a: one without a program, one of a program with emi.
MCArgsFiles ==
  <<<<A("-n", "gpu"), A("-i", "inc"), A("-g", <<4>>), A("-l", <<2>>)>>,
    <<B("emi"), A("-b", 9), A("-g", <<4, 2>>), A("-l", <<2, 2>>), B("---unknown")>>>>

MCCommandLines ==
  {<<A("-f", "text"), A("-p", 0), A("-d", 1)>>,
   <<A("-p", 0), A("-d", 0)>>,
   <<A("-f", "text"), A("-p", 1)>>,
   <<A("-f", "text"), A("-p", 1), A("-d", 0), A("-l", <<2>>), A("-g", <<6>>)>>,
   <<A("-f", "text"), A("-p", 0), A("-d", 0), A("-l", <<0>>), A("-g", <<4>>)>>,
   <<A("-f", "text"), A("-p", 0), A("-d", 0), A("-l", <<4>>), A("-g", <<2>>)>>,
   <<A("-f", "text"), A("-p", 0), A("-d", 0), A("-l", <<1, 4>>), A("-g", <<4, 2>>)>>,
   <<A("-f", "text"), A("-n", "gpu"), B("---set_device_from_name")>>,
   <<A("-f", "text"), A("-n", "gpu"), A("-p", 0), A("-d", 0)>>,
   <<A("-f", "text"), A("-n", "tpu"), B("---set_device_from_name"), B("---bin")>>,
   <<A("-f", "text"), A("-p", 0), A("-d", 1), B("---bin"), B("---disable_opts"), A("-i", "inc")>>,
   <<A("-f", "text"), A("-p", 1), B("-d")>>,
   <<A("-f", "text"), B("emi"), A("-p", 0), A("-d", 1)>>,
   <<A("-f", "text"), B("-h")>>,
   <<A("-f", "text")>>,
   <<A("-f", "missing"), A("-p", 0), A("-d", 1)>>,
   <<A("-f", "missing"), A("-a", 1), A("-p", 1), A("-d", 1)>>,
   <<A("-f", "text"), A("-a", 1), B("---set_device_from_name"), A("-p", 0), A("-d", 0)>>,
   <<A("-f", "text"), A("-a", 3), A("-p", 0), A("-d", 1)>>,
   <<A("-f", "text"), A("-b", 9), A("-p", 0), A("-d", 1)>>,
   <<A("-f", "binary"), A("-a", 2), A("-p", 0), A("-d", 1)>>,
   <<A("-f", "binary"), A("-b", 9), A("-p", 0), A("-d", 1)>>,
   <<A("-f", "text"), A("--unknown", 0)>>}

MCPlatforms ==
  <<<<[names |-> {"", "cpu"}, dims |-> 3, items |-> 4, group |-> 8],
      [names |-> {"", "cpu", "fast"}, dims |-> 3, items |-> 64, group |-> 8]>>,
    <<[names |-> {"", "acc"}, dims |-> 1, items |-> 64, group |-> 2],
      [names |-> {"", "gpu"}, dims |-> 3, items |-> 64, group |-> 64],
      [names |-> {"", "gpu"}, dims |-> 3, items |-> 64, group |-> 64]>>>>

Launch == INSTANCE Launcher WITH Programs <- MCPrograms, CommandLines <- MCCommandLines, ArgsFiles <- MCArgsFiles,
                                 Platforms <- MCPlatforms, DefGlobal <- 4, DefLocal <- 2, args <- kernel_args

(* Blocks with unused variables: every order of used and unused variables, and every kind of use. *)
UseOf(v) == [term |-> "variable", var |-> v, args |-> <<>>]
Literal == [term |-> "constant", var |-> "", args |-> <<>>]
Applied(es) == [term |-> "function", var |-> "", args |-> es]
AssignedIn(v, e) == [term |-> "assignment", var |-> v, args |-> <<e>>]
UnusedStm(k, ts, es) == [kind |-> k, targets |-> ts, exprs |-> es]
UnusedBlock(ls, ini, ss) == [locals |-> ls, init |-> [v \in {ls[i] : i \in DOMAIN ls} |-> IF v \in DOMAIN ini THEN ini[v] ELSE <<Literal>>],
                       stms |-> ss]

UnusedStatements ==
  {<<UnusedStm("assign", {"a"}, <<UseOf("b")>>)>>, <<UnusedStm("return", {"c"}, <<>>)>>,
   <<UnusedStm("if", {}, <<Applied(<<UseOf("a"), AssignedIn("d", Literal)>>)>>)>>,
   <<UnusedStm("for", {"b"}, <<Literal, [Applied(<<UseOf("b"), UseOf("c")>>) EXCEPT !.term = "comma"], Literal>>)>>,
   <<UnusedStm("arrayOp", {"d", "a"}, <<Literal>>)>>,
   <<UnusedStm("assign", {"d.f"}, <<UseOf("c.f")>>), UnusedStm("assign", {"c"}, <<Literal>>)>>,
   <<UnusedStm("clStatement", {}, <<UseOf("a")>>), UnusedStm("break", {}, <<[Applied(<<UseOf("b")>>) EXCEPT !.term = "vector"]>>)>>,
   <<>>}

UnusedOrders == {<<"a", "b", "c", "d">>, <<"c", "d", "a", "b">>, <<"b", "d", "c", "a">>, <<"d", "a">>, <<>>}

SmallestCode == <<UnusedBlock(<<>>, <<>>, <<>>)>>

MCCodes ==
  {SmallestCode} \cup
  {<<UnusedBlock(o, i, s)>> : o \in UnusedOrders, i \in {<<>>, [x \in {"c"} |-> <<UseOf("a"), UseOf("b"), UseOf("d")>>]}, s \in UnusedStatements}
  \cup {<<UnusedBlock(<<"a", "b">>, <<>>, s), UnusedBlock(<<"c", "d">>, [x \in {"d"} |-> <<UseOf("b"), UseOf("a")>>], t)>> :
           s \in UnusedStatements, t \in UnusedStatements}

MCNamedVar == [v \in {"a", "b", "c", "d", "c.f", "d.f"} |-> CASE v = "c.f" -> "c" [] v = "d.f" -> "d" [] OTHER -> v]

Dropped == INSTANCE UnusedVars WITH Codes <- MCCodes, NamedVar <- MCNamedVar

\* csmith creates scalars, and arrays of which it uses items.
Scalar(n) == [name |-> n, item |-> 0]
MCGenerated == {[list |-> <<>>, items |-> {}],
                [list |-> <<Scalar("g_1")>>, items |-> {}],
                [list |-> <<Scalar("g_2"), Scalar("g_1")>>, items |-> {[name |-> "g_2", item |-> i] : i \in 1 .. 2}]}
MCFeatures == {f \cup g : f \in SUBSET {"atomics", "atomic_reductions", "emi", "fake_divergence"},
                          g \in {{"inter_thread_comm", "message_passing"}, {"barriers"}, {}}}
Shared == INSTANCE GlobalStruct WITH Generated <- MCGenerated, FeatureSets <- MCFeatures,
                                    Sections <- SUBSET {"local", "global"}, Barriers <- 0 .. 2

\* Bounds: four random blocks, one variable each, a counter.
MCOptions == {"atomics", "reductions", "comm", "messages", "emi"}
InSection == INSTANCE Sections WITH Options <- MCOptions, NoBlocks <- 4, NoStms <- 1, NoVars <- 1, Counters <- {1},
                                    phase <- making, vars <- locals, frames <- calls

\* Requests: bound, the values a filter rejects, and the depth that is needed.
R(bound, rejected, need) == [bound |-> bound, rejected |-> rejected, need |-> need]
MCRequests == {R(2, {}, 0), R(2, {0}, 3), R(2, {0, 1}, 0)}

\* Bounds: five kinds of statement with values of 0 to 4, three operators, a configuration of
\* one line; the values of a line are the ends.
MCStatements == <<"Assign", "Block", "For", "Return", "ArrayOp">>
MCThreshold == [Assign |-> 4, Block |-> 0, For |-> 1, Return |-> 2, ArrayOp |-> 3]
MCOperators == {"Add", "Mul", "Div", "Mod"}
MCLineValues == {0, 4}
Likelihood == INSTANCE Probabilities WITH Full <- 4, Statements <- MCStatements, Threshold <- MCThreshold,
                Operators <- MCOperators, LineValues <- MCLineValues, MaxLines <- 1, options <- settled

(* The structure types of the exhaustive search. *)
ESet(n, l, b, c, k, r) == [fields |-> n, levels |-> l, prob |-> b, const |-> c, packed |-> k, random |-> r]
MCSettings == {ESet(2, 1, 0, 10, FALSE, 1), ESet(2, 1, 50, 0, FALSE, 0), ESet(2, 1, 50, 0, TRUE, 1),
               ESet(2, 1, 50, 10, FALSE, 1), ESet(2, 1, 100, 10, FALSE, 1), ESet(3, 0, 50, 0, TRUE, 1), ESet(3, 0, 100, 0, FALSE, 0)}
MCFiltered == {2}
Enumerated == INSTANCE Enumeration WITH SimpleCount <- 2, Filtered <- MCFiltered, Settings <- MCSettings

(* A program to reduce: variable 11 and 12 are parameters of function 2, 13 is a local with the address of 12. *)
RedStm(k, u, v, c, q, d, w) == [kind |-> k, up |-> u, uses |-> v, call |-> c, subs |-> q, dest |-> d, ctrl |-> w]
RedBlk(q, u, k) == [stms |-> q, up |-> u, func |-> k]
MCReduced ==
  [stms |-> << RedStm("assign", 20, {1}, 1, <<>>, 0, 0),
               RedStm("if", 20, {2}, 5, <<21, 22>>, 0, 0),
               RedStm("for", 20, {3}, 0, <<23>>, 0, 3),
               RedStm("assign", 20, {4}, 4, <<>>, 0, 0),
               RedStm("return", 20, {5}, 0, <<>>, 0, 0),
               RedStm("assign", 21, {6}, 0, <<>>, 0, 0),
               RedStm("goto", 21, {6}, 0, <<>>, 9, 0),
               RedStm("assign", 22, {7}, 0, <<>>, 0, 0),
               RedStm("assign", 23, {8}, 0, <<>>, 0, 0),
               RedStm("goto", 23, {8}, 0, <<>>, 6, 0),
               RedStm("assign", 24, {11, 13}, 0, <<>>, 0, 0),
               RedStm("return", 24, {11}, 0, <<>>, 0, 0),
               RedStm("return", 25, {9}, 0, <<>>, 0, 0),
               RedStm("goto", 20, {2}, 0, <<>>, 16, 0),
               RedStm("array", 22, {4}, 0, <<26>>, 0, 0),
               RedStm("assign", 26, {7}, 0, <<>>, 0, 0) >>,
   blocks |-> 20 :> RedBlk(<<1, 14, 2, 3, 4, 5>>, 0, 1) @@ 21 :> RedBlk(<<6, 7>>, 20, 1) @@ 22 :> RedBlk(<<8, 15>>, 20, 1)
              @@ 23 :> RedBlk(<<9, 10>>, 20, 1) @@ 24 :> RedBlk(<<11, 12>>, 0, 2) @@ 26 :> RedBlk(<<16>>, 22, 1) @@ 25 :> RedBlk(<<13>>, 0, 3),
   funcs |-> <<[body |-> 20, params |-> <<>>], [body |-> 24, params |-> <<11, 12>>], [body |-> 25, params |-> <<>>]>>,
   calls |-> <<[func |-> 2, args |-> <<{1}, {2, 10}>>, inner |-> <<2, 0>>], [func |-> 3, args |-> <<>>, inner |-> <<>>],
               [func |-> 0, args |-> <<{1}, {}>>, inner |-> <<0, 2>>], [func |-> 0, args |-> <<{}, {10}>>, inner |-> <<3, 0>>],
               [func |-> 0, args |-> <<{2}, {14}>>, inner |-> <<0, 0>>]>>,
   address |-> [v \in 1 .. 14 |-> IF v = 13 THEN 12 ELSE IF v = 1 THEN 14 ELSE 0],
   focus |-> {3}, spare |-> 1]
MCRedPrograms == {MCReduced}
MCActive(r) == {{}, {20, 21, 22, 23, 24, 25, 26}, {20, 22, 23, 25}}
Reducing == INSTANCE Reduction WITH Programs <- MCRedPrograms, ActiveSets <- MCActive, MaxDirectives <- 2, stage <- reducing

\* Options: these may follow another one.
MCKeyArguments ==
  {<<"dfs_exhaustive", TRUE>>, <<"max_exhaustive_depth", 1>>, <<"delta_input", "given">>, <<"go_delta", "given">>, <<"klee", TRUE>>,
   <<"track_divergence", TRUE>>, <<"divergence", TRUE>>, <<"vectors", TRUE>>, <<"barriers", TRUE>>, <<"inter_thread_comm", TRUE>>,
   <<"atomics", TRUE>>, <<"max_split_files", 1>>, <<"probability_configuration", "given">>}
MCNumbers == {-1, 0, 1, 101}

-----------------------------------------------------------------------------
reductionVars == <<source, directives, monitored_var, drop_params, active_blks, replaced, pre_assigns, invocations, must_use, must_visit, used_vars, used_funcs, used_labels, all_blks, todo, reducing, output>>
enumerationVars == <<settings, level, all_types, accum_types, bitfields, fields, combined>>
probabilitiesVars == <<group, settled, prob, status, partial, given, expands, expanding, refused, drawn>>
emiVars == <<sections, percentages, prog, rest, frames, flips>>
launchVars == <<program, line, pos, set, call, kernel_args, result>>
sharedVars == <<phase, features, inSections, gates, allVars, globalList, global_vars_, buffers_, buffInit, prefix, definition, initialisation>>
sectionVars == <<making, calls, contexts, blocks, locals, stms, free, block_vars, atomic_parent, recorded, conditions, results>>
unusedVars == <<code, accesses, blk, slots, size, at>>

\* A part stays in one of its initial states while another one is checked.
MCInit ==
  /\ unit \in CheckedParts
  /\ Init
  /\ Pruning!Init /\ (unit # "emi" => sections = GotoTree /\ percentages = [leaf |-> 50, compound |-> 10, lift |-> 10])
  /\ ParamInit
  /\ Launch!Init /\ (unit # "launcher" => program.features = {} /\ Len(program.globals) = 1 /\ line = <<A("-p", 0), A("-d", 0)>>)
  /\ Dropped!Init /\ (unit # "unused" => code = SmallestCode)
  /\ Shared!Init /\ (unit # "globals" => features = {} /\ globalList = <<>>)
  /\ InSection!Init
  /\ Likelihood!Init /\ (unit # "probabilities" => group = "single")
  /\ Enumerated!Init /\ (unit # "enumeration" => settings = ESet(2, 1, 0, 10, FALSE, 1))
  /\ Reducing!Init /\ (unit # "reduction" => active_blks = <<>>)
  /\ OptionsInit /\ (unit # "options" => driver = "clsmith")

Still(name, state) == IF unit = name THEN TRUE ELSE UNCHANGED state
Others ==
  /\ UNCHANGED unit
  /\ Still("emi", emiVars) /\ Still("params", paramVars) /\ Still("launcher", launchVars)
  /\ Still("unused", unusedVars) /\ Still("globals", sharedVars)
  /\ Still("sections", sectionVars) /\ Still("choices", rcVars)
  /\ Still("probabilities", probabilitiesVars)
  /\ Still("enumeration", enumerationVars)
  /\ Still("reduction", reductionVars)
  /\ Still("options", optionVars)

PruneEMI == unit = "emi" /\ Pruning!Next /\ Others
InitRuntimeParameters == unit = "params" /\ ParamNext /\ Others
LaunchKernel == unit = "launcher" /\ Launch!Next /\ Others
ParseUnusedVars == unit = "unused" /\ Dropped!Next /\ Others
CollectGlobals == unit = "globals" /\ Shared!Next /\ Others
MakeSections == unit = "sections" /\ InSection!Next /\ Others
MakeChoices == unit = "choices" /\ Next /\ Others
Likely == unit = "probabilities" /\ Likelihood!Next /\ Others
MakeStructs == unit = "enumeration" /\ Enumerated!Next /\ Others
ReduceProgram == unit = "reduction" /\ Reducing!Next /\ Others
ReadOptions == unit = "options" /\ OptionsNext /\ Others

MCNext == PruneEMI \/ InitRuntimeParameters \/ LaunchKernel \/ ParseUnusedVars \/ CollectGlobals \/ MakeSections
          \/ MakeChoices \/ Likely \/ MakeStructs \/ ReduceProgram \/ ReadOptions

MCSpec == MCInit /\ [][MCNext]_<<unit, emiVars, paramVars, launchVars, unusedVars, sharedVars, sectionVars, rcVars, probabilitiesVars, enumerationVars, reductionVars, optionVars>>

\* The properties of the parts.
ProgramLaunched == unit = "launcher" => Launch!ProgramLaunched
UnusedOnlyDropped == unit = "unused" => Dropped!UnusedOnlyDropped
GlobalsInStruct == unit = "globals" => Shared!GlobalsInStruct
SectionsSound == unit = "sections" => InSection!SectionsSound
PruningSound == unit = "emi" => Pruning!PruningSound
DrawsFollowProbabilities == unit = "probabilities" => Likelihood!DrawsFollowProbabilities
StructsEnumerated == unit = "enumeration" => Enumerated!StructsEnumerated
ReducedCompiles == unit = "reduction" => Reducing!ReducedCompiles
=============================================================================
