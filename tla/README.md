# A verification of CLSmith

CLSmith generates random OpenCL C kernels.  It is csmith with a layer that adds
work-items, local and global memory, barriers, atomics and messages, and a host
program, `cl_launcher`, that runs a kernel.  What makes the layer hard is that
the kernels must be *deterministic*: their result is compared between OpenCL
implementations, so everything CLSmith lets work-items do to each other has to
come out the same under every schedule.  That is a property of the generated
code for all schedules, which no test of the generator reaches.  What makes the
csmith below it hard is that the kernels must be *defined*: no index, pointer,
operand or uninitialised byte may depend on what C leaves open, and the
generator knows that from analyses it runs while the program is still growing.

All paths below are relative to the repository, in `src/` and `src/CLSmith/`.

## The system

| Component | State | Operations | What makes it correct |
|---|---|---|---|
| Message passing, `StatementMessage.cpp` | generator: registered nodes, order of slots, flag counters, unlocks; kernel: four flags and ten fields in local memory | registration, two loops of `CreateOrdering`; nodes and end checks of each work-item | updates in one order, no races, no lost signal, termination |
| Inter-thread communication, `StatementComm.cpp` | `tid` of each work-item, an item per work-item in local and in global memory, permutations | barrier and new tid; reads and writes of the own item | tids of a group stay a permutation, items are never shared between barriers |
| Barriers, `StatementBarrier.cpp` | gates, 32-element buffers | plain and gated barrier, `GenerateBarriers` | all work-items reach the same barrier |
| Atomic sections, `ExpressionAtomic.cpp`, `StatementAtomicResult.cpp` | counters, special values; generator: free counters, `block_vars`, `atomic_parent` | `make_condition`, `MakeBlockVars`, `GenSpecialVals`, `OutputHashing` | one work-item per section, no barrier inside, results independent of who enters |
| Atomic reductions, `StatementAtomicReduction.cpp` | a target in local or global memory, `v_collective` | atomic operation, barrier, collect, barrier | the collected value does not depend on the schedule |
| Generation control, `CLStatement.cpp`, `CLOptions.cpp`, `CLProgramGenerator.cpp` | options, contexts, runtime parameters | choice of statements, `goGenerator` phases, `InitRuntimeParameters` | statements only where they are legal, dimensions divide and fit |
| EMI blocks, `StatementEMI.cpp` | registered dead blocks | pruning, lifting, merging | a well-formed tree with the dead code removed or lifted |
| Divergence analysis, `Divergence.cpp`, `Walker.cpp` | marks of variables, functions and blocks, saved at branches | `Process*` over the program | an over-approximation of what differs between work-items |
| Vectors and built-ins, `ExpressionVector.cpp`, `FunctionInvocationBuiltIn.cpp` | parts of literals, types of arguments, two coins | cutting to size, conversions, casts | literals have the components of their type, calls an overload |
| Output, `CLOutputMgr.cpp`, `Globals.cpp`, `MemoryBuffer.cpp`, `CLVariable.cpp` | the global struct, unused variables | collection, renaming, entry function, sweep | fields match initialisers, local memory is initialised before and hashed after a barrier |
| Host, `cl_launcher.c` | parsed arguments, OpenCL objects | parse, select device, build, run, read back | the kernel gets the arguments its text asks for |
| Random numbers, `RandomNumber.cpp`, `DFSRndNumGenerator.cpp`, `Probabilities.cpp` | sequences and trees of choices, tables | draw, record, replay, enumerate, configure | a record makes the same program again, every program once, draws end |
| Statements and analyses, `Block.cpp`, `StatementFor.cpp`, `FactMgr.cpp`, `FactUnion.cpp`, `Effect.cpp`, ... | program under construction, facts, effects, bounds | make, analyse, revisit | facts cover every run, operands do not depend on their order, indices fit |
| Types and variables, `Type.cpp`, `VariableSelector.cpp`, `CVQualifiers.cpp`, `Enumerator.h` | types, scopes, qualifiers | make, select, match | declared in front of use, values go where C lets them |
| Safe arithmetic, `SafeOpFlags.cpp`, `runtime/*.m4` | flags of wrappers | choose, print, compute | defined for all operands, exact where C is |
| Text, `DefaultOutputMgr.cpp` and extensions | streams of split files | write | declared, defined once, linked |
| Reducer, `Reducer.cpp`, `ReducerOutputMgr.cpp` | directives, what is still used | mark, walk, print | what is left compiles, alternatives replay |
| Options, `CGOptions.cpp`, `RandomProgramGenerator.cpp` | settings | parse, resolve, check | settings that exclude each other do not meet |

The generator is one sequential process.  Concurrency starts when the kernel it
printed runs: a group of work-items shares local memory, groups share global
memory, and the only ways to wait are `barrier` and, for messages, a spin loop.

The behaviours that are hard to get right: flags read one by one while others
write them, nodes that control flow skips or repeats, stores without fences,
barriers next to spin loops, tids that change hands at a barrier, a counter that
lets one of many work-items in; and, in the generator, state that is saved,
copied and restored around nested blocks, vectors that change under an
iteration, facts that a later goto makes stale, and code in two files that has
to count the same way.  `PROJECT.json` lists the hazards at their lines.

## Modules

### Kernels that run

| Module | Models |
|---|---|
| `MessageOrdering` | registration of nodes and `Message::CreateOrdering` |
| `MessagePassing` | the nodes and end checks as a work-group executes them; properties |
| `MessageAbstract` | what message passing promises: slots have their turn one after the other |
| `MCMessagePassing` | instances for TLC |
| `MessagePassingProofs` | proofs for all parameters |
| `KernelCode` | the code emitted for the other statements through which work-items meet |
| `WorkGroup` | the generator that adds these statements, and the work-items that run them; what a kernel means, as a function of its statements; properties |
| `KernelMenus`, `MCWorkGroup` | menus of statements, instances for TLC |
| `WorkGroupProofs`, `WorkGroupBarrierProofs`, `WorkGroupMeaningProofs`, `WorkGroupResultProofs` | proofs for all parameters |

Message passing stands alone: its nodes may lie anywhere and spin, so its model
keeps the rest of the kernel abstract, as sections between barriers.  The other
features meet at barriers only and are modelled together.

**MessageOrdering.**  `nodes` is `Message::nodes_`; a node is its index, which is the ID that
`CreateOrdering` gives it.  Each record keeps the work-item that owns the node
and the section of `func_1` it lies in: sections are separated by the barriers
that other features put in straight-line code.  `order` is `nodes_order_` with
`nodes_async_`: each slot has a key node and may have an asynchronous one.
`OrderNode` and `OrderPair` are a turn of the first loop, whose random choices
are existential; `EndOrdering` is its exit.  `ConstrainSlot` is a turn of the
second loop with everything it calls: the flags the previous slot signalled,
the flip of the flag set, the early break, checks and signal of one or two
nodes, the unlocks pushed to later nodes of the same work-items, and the end
checks.  `code` holds what is then printed for a node.  Which of the ten fields
a node updates is an existential choice; what the update computes is not
modelled beyond the fact that it is not commutative.

**MessagePassing.**  The kernel starts when `phase` becomes `"run"`.  Each work-item is in `func_1`
(`"body"`), at a place of a node, in its end checks, at a barrier, or done.
From the body it may enter any of its nodes of the current section, in any
order and repeatedly up to `MaxVisits`, because nodes sit in branches, loops
and functions.  A condition is a conjunction of flag comparisons; `todo` holds
the comparisons still to be made, and each comparison is an atomic read of its
own (`Compare`), so signals of others fall between any two of them.  The order
of the comparisons is free, which covers the order in which C evaluates `&&`.
`UpdateField` writes one field; `msg[f]` is the sequence of nodes that wrote
it.  With `Relaxed` the flag may become visible before fields written earlier
by the same work-item (`SignalEarly`), as OpenCL allows between fences.

**KernelCode.**  A statement is a record, and each `Output` function of the source is an operator
from a statement to instructions, one for each access to memory, barrier or
jump of the text it prints.  `OutputComm` is the barrier and the assignment to
`tid`; `OutputReduction` the atomic operation, a barrier, the collecting
work-item, a barrier; `OutputSection` the `if (atomic_inc(&counter) == at)`
with the body and the `atomic_add` that `GenSpecialVals` appends;
`OutputGatedBarrier` the gate around take, barrier, give, barrier.  Loops are
unrolled twice, an operand is a constant plus one thing it may read, and a
section holds one leaf.  The local variables a section sums up are abstracted
to a fixed `result`: `atomic_context` keeps its body to variables of its own
(`Sections`, `SpecialValues`).

**WorkGroup.**  `Init` chooses the options out of `OptionSets`.
`AddStatement` is a turn of `Block::make_random`.  Its guards are the early
returns of `CLStatement::make_random`, the filter of `Statement.cpp`, the
counters left in `free_counters` and the two conditions of `GenerateBarriers`:
one gated barrier, not in code the analysis takes to be divergent (`Divergent`).
The filter of atomic contexts keeps reductions, communication and sections out
of a section, but gated barriers are placed afterwards, by the analysis.
`Launch` ends the kernel with the epilogue of `OutputEntryFunction`.  The
work-items then run `code` from `ip`,
one instruction a step, in any order; `PassBarrier` lets a group go when all
its work-items wait.  `reduction`, `counter` and `special` are the buffers of
the same names in local and in global memory, `l_comm_values` and
`g_comm_values` those of communication, `lb` that of a gated barrier;
`digest` is what `transparent_crc` is given, in its order.  `entered` is a
history variable: who is inside which section.  Local memory starts with
`Junk`, global memory with what `cl_launcher` puts there.

`ResultsAreMeant` compares the digest of each work-item with `Meaning`, which
computes the values statement by statement, as if the group took each statement
together: `After` is what a statement makes of the values, a loop takes its body
twice, a branch on an id takes those work-items for which the condition holds.
It is the promise of the whole layer: the result does not depend on the
schedule, the shuffles or the ids.

### The generator around the program (composite `MCGenerator`)

| Module | Models | Promises |
|---|---|---|
| `EMIPruning` | `StatementEMI::PruneBlock`, `MergeBlock`, `RemoveBreakContinue`, `Block::remove_stmt`; vectors with their memory, so that an erase from under a range-for is visible | `PruningSound`: iterations stay in the vector, jumps keep loops and labels, variables their scope, statements their order |
| `RuntimeParameters` (`RuntimeParametersProofs`) | `InitRuntimeParameters`, `get_divisors` | `ParametersFit`: draws end, groups tile the work-items, buffers have an item for each |
| `Launcher` | `cl_launcher.c` from the first line to the results, every OpenCL call failing | `ProgramLaunched`: arguments match, items are allocated, sizes that were generated run, a named device is the chosen one |
| `UnusedVars` | `ParseUnusedVars` and its sweep over a vector it erases from | `UnusedOnlyDropped` |
| `GlobalStruct` | the phases of `goGenerator` behind generation | `GlobalsInStruct`: fields match initialisers, references name fields |
| `Sections` | generation of blocks with atomic sections: flags of contexts, `block_vars`, `atomic_parent` | `SectionsSound`: flags are lexical, sections run alone and name only their own variables on left sides |
| `RandomChoices` (`RandomChoicesProofs`) | default, delta and exhaustive generators, their records | `ChoicesReplay`: every program once, records make the same program |
| `Probabilities` | tables, groups, configuration, filters, partial expansion | `DrawsFollowProbabilities` |
| `Enumeration` | `Enumerator.h`, structures of the exhaustive search | `StructsEnumerated` |
| `Reduction` | the reducer: directives, the walk for what is used, what is printed | `ReducedCompiles` |
| `Options` (`OptionsProofs`) | command lines of csmith and CLSmith, resolution, checks, what is created | `OptionsConsistent` |

### Making, analysing and printing (composite `MCCsmith`)

| Module | Models | Promises |
|---|---|---|
| `Divergence` (`MCDivergence`) | the analysis behind `--track_divergence`, against runs of two threads | `DivergenceSound` |
| `ArrayLoops` | loops over arrays and the indices in them | `LoopsStayInside` |
| `SpecialValues` | the sum over the variables of a section | `EverySummandOnce` |
| `Vectors`, `BuiltIns` | vector literals; types of arguments of built-ins | `VectorsFill`, `ArgumentsFitCalls` |
| `Facts` | points-to facts while a function is made, against its runs | `FactsSound` |
| `UnionFacts` | what is known of unions, against the bytes of runs | `UnionReadsDefined` |
| `Effects` (`MCEffects`) | expressions under effect contexts, against every order of evaluation | `EvaluationSound` |
| `SafeMath` | flags, wrappers and three headers, against C | `OperationsSafe` |
| `Types` | structures, unions, pointers; their members in four places | `TypesWellFormed` |
| `Variables` | where variables are made, with gotos between blocks | `VariablesInPlace` |
| `Qualifiers` | `const` and `volatile` on every level | `QualifiersSound` |
| `BinaryReduction` (`MCBinaryReduction`) | choices of operands of the reducer | `AlternativesSound` |
| `ProgramText` | declarations, definitions and uses in split files, with extensions | `ProgramComplete` |
| `WorkGroup` | two more instances, with larger groups | `KernelsExchange` |

A promise is a conjunction of named parts, each with its own comment in the
module.  In a composite the variable `unit` selects the part that a behaviour is
about; `Others` keeps the variables of the parts that are not checked still, in
one of their initial states, so the parts add up and do not multiply.  The
composites also make sure that the parts can be put side by side at all: their
variables and constants are disjoint or renamed.

## Runs

| Run | Shows | Bounds |
|---|---|---|
| `message_two_threads` | order of nodes, order of updates, finished message at the hash | 2 work-items, 3 nodes in 2 sections, 2 visits each, all generator choices |
| `message_pair` | no racing updates; slots complete in order; refinement of `MessageAbstract` | 3 work-items, a pair followed by singles |
| `message_termination` | every work-item gets through; no signal is lost or repeated | 2 work-items, 3 nodes, one section, reordered stores, with fairness |
| `kernels` | one entry per section, barriers converge, ids stay a permutation, no data race, results are the meant ones, types | 2 groups of 2 work-items, all shuffles, 2 statements out of 14, 3 counters, two sets of options |
| `generator` | the promises of the parts around the program | see below |
| `csmith` | the promises of the parts that make, analyse and print | see below |
| `message_barrier_deadlock`, `comm_random_row`, `barrier_in_section`, `divergence_nested`, `binary_alternatives`, `operand_order` | findings | |

Why the bounds are enough to be interesting.  Flags are reused after two slots,
so three nodes already reuse a flag; a pair followed by singles goes through
both sets of flags and back; two visits allow a skipped node to be unlocked by a
later one and then entered.  For the work-group runs `KernelMenus` holds, for each
feature, a statement in straight line, in a branch and in a loop, and one the
generator must refuse.  Two passes of a loop by two work-items reach a counter's
pick on the first and on the second pass, and two reductions in a row are what a
collecting work-item could confuse; a part of `csmith` adds a group of four around a gated barrier,
a group of three around one whose buffer has two items (`Crowded`, see below), and
a group of three with three statements, which is what a hand-over needs: write,
pass on, read.  Values are below 4.  The
passing runs choose the row of permutations by an expression that reads no item
of the buffers, and use groups of one dimension.

**Groups that are larger than their buffer.**  The items that gated barriers exchange are in a
buffer of 32 (`StatementBarrier.cpp:27`), and nothing relates this to the size of a
group, of which `get_threads_per_group` makes up to 256 work-items
(`CLProgramGenerator.cpp:33`, `:162`).  `NItems` is therefore independent of `Size`.  A
work-item without an item reads any value (`TakeItem`), and what it gives to a
work-item without an item may end up in an item of the other local buffer, a reduction, a counter or a special
value of its group's local memory, or nowhere that matters (`GiveItem`,
`Overwrite`); `Accesses` counts it as an access to all of these.  The program is
undefined then: `SectionsRunOnce` and `ResultsAreMeant` do not hold of such groups.
What does is shown: `TypeOK` and `TidsInGroup` are proved for groups of any size, and
in the run `csmith` the work-items of `Crowded` that have items exchange them and
meet at the barriers beside the one that has none (`KernelsExchange`).  The run
`kernels` has groups that fit, and the other theorems have the hypothesis that
groups with gated barriers do (`GatedBarriersFit`).

The parts of the composites are small instances with every kind of thing a part
distinguishes:

* `EMIPruning`: six trees with loops, branches, jumps, empty and
  nested blocks, gotos into branches, out of loops and to a break; percentages 0, 10, 50, 100.  `RuntimeParameters`: 18
  work-items, 6 in a dimension and in a group, so that retries and both limits
  happen.  `Launcher`: 23 command lines with
  every option that is read, 64 programs as text or as binaries, two files of arguments, four devices of different
  limits and names, every call failing.  `Sections`: four random blocks, one
  variable each, one counter.  `RandomChoices`: depth 3, three kinds of request.
  `Probabilities`: values 0 to 4, four operators (`MCOperators`; those the
  filters of `--msp` and of sizes tell apart), one line of configuration with the ends as values
  (`MCLineValues`).  `Reduction`: one program of 16 statements with a kind of
  each, two directives, three sets of active blocks (`MCActive`).  `Options`:
  lines of up to three arguments, the second and third out of those that
  something depends on; a negative number, 0, 1 and one above the percentages.
* `ArrayLoops`: dimensions of 13 cut to 26 items, two arrays, two loops, a
  signed and an unsigned induction variable of 8 bits and a volatile one of 16 (`LoopIVs`), steps
  up to 2 where they are random (`MaxIncr`); dimensions above 127, which 8 bits could not count, are
  beyond the default options.  `Vectors`: lengths 2
  and 4, nesting 3.  `BuiltIns`: five vector types, seven functions of different
  shapes, two calls, one in the other.  `Facts`: seven plans of 3 or 4
  statements, three of them with a local pointer besides the global one.  `SafeMath`: widths scaled to 2, 4, 8 and 12 bits, operands at the
  limits of both types and next to them (`Operands`); operations of scalars and of vectors,
  options for less safety with one header.  `Types`: three structures
  with three fields altogether.  `Variables`: three blocks, two variables, one goto.
  `Qualifiers`: two requests, levels up to 4 or 2, one or two variables.
  `Effects`: five contexts; `MCEffects` has an item for every way two variables
  may overlap.  `UnionFacts`: eight layouts, two stores.  `ProgramText`: up to
  two files and all combinations of output options, names static as on every command
  line; split programs with the extern names their header is written for as well.
  Two files go without extension and without blind check.

`CHECK_DEADLOCK` is left on in every run.  In `WorkGroup` it is also what shows
that kernels end: instruction pointers only grow, and a kernel that has ended
rests (`Rest`), so a kernel that does not end would have to stop short of it.

Fairness (`MessagePassing!FairSpec`): the generator finishes, each work-item
that can take a step eventually does, and a barrier that all reached opens.  The
code needs this: a node spins until another work-item signals, so it relies on
independent forward progress.  OpenCL 1.x does not promise it for the
work-items of a group; on lock-step hardware termination is not guaranteed,
and the run says what holds on implementations that schedule fairly.  The other
modules need no fairness: their properties are safety properties.

## Findings

* `message_barrier_deadlock`: nodes and barriers may deadlock (`CLStatement.cpp:57`
  has a TODO there).
* `comm_random_row`: the expression that picks the row of permutations
  (`StatementComm.cpp:72`) is evaluated after the barrier and may read an item
  whose new owner is already writing it, so that work-items pick different rows
  and share an id.
* `barrier_in_section`: the condition of an atomic section counts as uniform
  (`Divergence.cpp:478`), so a gated barrier may be put where one work-item goes.
* `divergence_nested`: behind a branch the flag of the block around is read with
  `operator[]` from the map of one level (`Divergence.cpp:188`, `:420`, `:402`),
  and reads as false where it is in a saved state: what follows in a divergent
  block is not reported.
* `binary_alternatives`: `skipped` is a reference (`ReducerOutputMgr.cpp:527`),
  and assigning to it overwrites the right choices with the left ones.
* `operand_order`: parts of vector literals and arguments of built-ins are
  generated in one effect context (`ExpressionVector.cpp:72`,
  `FunctionInvocationBuiltIn.cpp:153`): `(int2)(x, ++x)`.

## Proofs

`PROJECT.json` lists the theorems; none has a bound.

**Message passing.**  `MessagePassingProofs` proves, for any set of work-items, fields and number of
nodes, sections and visits, and for both values of `Relaxed`: `TypeOK`,
`SlotsInOrder`, `FlagsAdvanceByOne` and `OrderExtendsSb`; and, when `Relaxed`
is FALSE, `NoRacingUpdates` and `FieldsInOrder`.  The assumptions are only that
the bounds are numbers.

The argument has two halves.  `PlanInv` says what the
second loop of the generator establishes: each (flag, value) pair signals one
node; the checks of a node contain the signals of the slot before it and the
value its own flag has before its signal; unlocks and end checks name nodes of
the same work-item; the two nodes of a pair update disjoint fields.  `Inv` adds
what a work-item knows in the middle of a condition: `Tested(n, c)`, a
comparison that was found to hold still holds as `>=`, and if it was the one on
the node's own flag, the node is still not signalled, since only its owner
signals for it.  When the last comparison holds, the node therefore has its
turn (`PassedHasTurn`): everything before it is signalled and it is not.
`SlotsInOrder` alone is not inductive because a step only sees one flag at a
time.  Race freedom follows because two nodes that have their turn at once can
only be the two of a pair (`TurnsDisjoint`).

The second half of the module adds, when `Relaxed` is FALSE, `HashSeesFinalMessage`
and that the flags implement `MessageAbstract` (`ImplementsTurns`).  Two more
facts about the plan are needed: the end checks wait for the last slot
(`EndsWithLast`), and a node waits for some slot (`SomeSlot`).  The invariants
are `Waited` and `Leaving`, what a work-item on its way out has seen, and
`WholeUpdates`: a signalled node that was entered has made its updates, a node
that was skipped none.  Each action of a kernel is then the update, the end of a
turn, or a stutter.

**Sections.**  `WorkGroupProofs` proves, for any number of groups, work-items, counters, rows
and statements, any permutations as shuffles, any sets of options that do not
conflict, and any power of two as `Modulus`: `SectionsRunOnce`, `TypeOK` and
`TidsInGroup`.  The assumptions on constants are that sizes are positive, that each set of
bits is the set of bits of some value (`BitsAssumption`, which makes `Modulus` a
power of two), and that shuffles are permutations; that the buffer of a gated
barrier has some number of items (`ItemsAssumption`) says nothing of the group.
`NoBarrierInSections` is a hypothesis of the theorems: a gated barrier in a section
may stop a kernel (`barrier_in_section`), and the argument is about sections that
are a test and a result.  `SectionsRunOnce` has `GatedBarriersFit` as well, since a
counter may be what is overwritten; `SectionsInv` is the only part of `Inv` that
depends on it (`NobodyBeyond`), so `TypeOK` and `TidsInGroup` need it not.

`SectionsRunOnce` is not inductive: it says nothing of where a work-item that
has entered is, so a step of `LeaveSection` could add a result twice.  `Inv`
adds three things.  `CodeInv` is about the generator: each counter guards at
most one section *or the two copies of one in an unrolled loop*, with the same
pick and the same result, and each result lies behind the test of its section.
`EnteredInv` ties `entered` to instruction pointers: exactly the work-items
between a test and its result are in it.  `SectionsInv` relates counter and
special value: below the pick nobody has entered, beyond it one has, and is
inside or has left its result.  Since a work-item only enters when the counter
equals the pick, and every test increments it, no second one can.  `DataOK`, the
types of the data, is proved on top of `Inv`; that the new id is in range is
where the group's base and the permutations are needed.

**Barriers, ids and races.**  `WorkGroupBarrierProofs` proves `BarriersConverge`, `TidsArePermutation`
and `NoDataRace` for all parameters.  None of them is near to inductive: that
two work-items wait at one barrier depends on all branches they took since the
launch, these on values that were read from items other work-items wrote, and
that they read the right values on the absence of races.  The three have to be
one induction, over what the work-items of a group have in common.

The *way* of a group is a sequence of common states: a place in the code, the
values of the own items in local and global memory, of the gate and of the last
expression, and the last barrier passed.  Each state of the way is the `Effect`
of the instruction at the one before (`TraceOK`), so the way is a function of the
program.  `Follows` says that there is such a way, that each work-item of the
group is in step with one of its states (`InStep`), and that all these states
are behind the same barrier.  `Owns` says that the items of both buffers are
shared out: `Own(t)` is the id of `t`, or the one it is about to get between the
barrier of a StatementComm and the assignment, when the item it was to own has
already changed hands.  Since permutations are onto, each id has an owner, and
when the barrier opens the new owner of an item finds in it what is common.
Only branches on an id take work-items apart; they guard nothing but a section
(or nothing), which touches no item, and `Home` counts a work-item in there as
being behind it.  A step of one work-item moves it along the way or adds the
next state; a barrier opens when all are at its state.  `BarriersConverge`
follows because equal last barriers on one way mean an equal next one,
`TidsArePermutation` because `Own` is injective, and `NoDataRace` from the kinds
of accesses (`AccessKinds`): two work-items behind the same barrier that access
an item between which one writes it would both own it.

The layout of the code that this rests on (`CodeLaid`: a barrier in front of
each permutation and around each collection and each hash of the buffers, jumps
lead to heads of statements) is an invariant of the generator, proved from the
`Output` operators of `KernelCode`.

The hypotheses are what the findings and the generator's gaps ask for, and the
instance of the run `kernels` meets them:
`NoBarrierInSections` as above; `RowsReadNoBuffer`, the expression of a
StatementComm reads no item of the buffers (`comm_random_row`);
`NoDivergentReductions`, no reduction under a branch on an id, which the options
`--divergence --atomic_reductions` admit although its barriers are then missed;
`GatedBarriersFit`, a group with gated barriers is no larger than their buffer;
and for `NoDataRace` `GatedInOneDimension`, since `Pair` looks at the first
dimension only.  CLSmith guarantees none of them; each is about command lines with the options
in question: `--atomics --barriers`, `--inter_thread_comm`, `--divergence
--atomic_reductions`, or `--barriers` for the last two.  Where none of these is possible, the generator may produce
any statement.

**Results.**  `WorkGroupMeaningProofs` and `WorkGroupResultProofs` prove `ResultsAreMeant`
(`ResultsMeant`) under the first four of these hypotheses: whatever the
schedule, a work-item that ends has hashed what the statements compute one after
the other.  It relates a recursion over the statements (`MeantAfter`), one over
the work-items of a group (`Combined`) and every interleaving of instructions,
so the proof has two halves.

The static half is about the way of a group, without work-items.  Each state of
the way gets a *ledger* (`Book`): what the group has collected, what its
reductions come to, and which of its work-items come to which sections.
`Reaches(g, j, m)` says that the way comes to the place `j` with what `m` says:
equal items, ledger equal to `m`, and special values those of the sections whose
counter has passed their pick (`Agrees`).  One lemma per statement takes
`Reaches` over its code to `After` of it (`AssignRuns`, `ReductionRuns`, ...);
`LayoutInv`, an invariant of the generator, says that the code is the statements'
code one after the other, then the epilogue; and `EndReached` puts them together
along the program.  That a reduction may be taken in any order is `ApplyTwice`,
for all seven operations: for sums from the lemma on remainders, for bit
operations from `BitsAssumption`.

The dynamic half is `DueInv`: wherever the work-items of a group are, the shared
values are what is due to those that have come by.  `ItemDue` is what a
work-item has itself: the operand it has computed, and, if it is the first of
its group, what it has collected.  `RedDue`: a target holds the ledger's value
combined with the operands of exactly those work-items that wait behind the
atomic operation, so when the barrier opens it holds that of the next ledger.
`CountDue`: a counter is the number of comers of the ledger at the end of the
way that are behind their section; together with `ComeDue`, whoever reaches a
section is one of them, so once all are behind the statements the counter is the
ledger's.  `SparesInv` is about special values no section writes, and `HashInv`
says of each place of the epilogue what has been hashed there (`ByThen`).

The induction theorems of the library cannot be used here (they take an operator
as a parameter), but induction over numbers can be had from a set: `NatSet`, a
set of numbers with 0 and all successors holds all, is proved from the
well-foundedness of `<`, and the facts about `MeantAfter` and `Combined`, which are
recursive functions, rest on it.

**Runtime parameters.**  `RuntimeParametersProofs` proves `ParametersFit` for any
positive limits.  `ParametersInv` adds to the types what each phase has done:
the dimensions not drawn yet are 1, so the product of the drawn ones is the
number of work-items and the quotient that limits the next draw is at least 1;
the local sizes drawn so far divide theirs and their product is the size of a
group; the number of groups is the product of the quotients counted so far.
That `get_divisors` finds all divisors, although it only walks up to the square
root and adds the root apart, is `DivisorsExact`; that the items of the groups
are the items of the buffers, each once, is `ItemsTile`.  The lemmas before it
give the solver what it does not know of products, quotients and remainders.

**Random choices.**  `RandomChoicesProofs` proves `ChoicesReplay` for any depth, any finite or
infinite set of requests, any filters and any number of records
(`ChoicesReplayed`).  `ChoicesAssumption` says that something is asked, that what
is asked has at least one value, and that the depth is positive, which the
options require.

`ChoicesReplay` says that all was tried when `all_done` is set, and nothing of the
time before; so the invariant has to say at every moment *what the search has
passed*.  `Decided` are the values of the states up to `decision_depth`, a path in
the tree of all choices.  A sequence of answers is `Passed` if it branches off to
the left of that path or, while a new program has not yet gone as far as the path
does, if it lies behind the path.  `Complete` says that all which was passed and
can be asked for (`Searched`: accepted values, room for what they need) is in the
tree.  Every step of the generator moves `Decided`: to the next value of the last
choice (`NextMove`), back over a choice that has no value left (`BackMove`), back to
where there is no room for what is to follow (`DeadEnd`), or one choice on; and
each time what is passed now was passed before, is in the tree, or is nothing that
can be asked for, because no accepted value lies between the old and the new one.
`StatesInv` is what that needs of the array of states: those up to
`decision_depth` are initialised and no others, which a backtrack that forgot to
reset the ones below would break.  `PrintedInv` adds that printed programs are
passed, whence a new one is not among them.

For a debug sequence the answers are a beginning of it (`DebugInv`), for a record a
beginning of the last program, the record being the values of that program with
the bounds they were asked with (`RecordInv`).  What is asked after the same answers
is the same, so the values fit; and a program that has ended is not the beginning
of another one (`EndsThere`), so both end together.  `seq_map` holds the answers so
far under consecutive positions, across the switch from the record to new values
(`switch_to_default_generator`), and `RecordRead` is about reading it in their
order.

**Options.**  `OptionsProofs` proves `OptionsConsistent` for command lines of any
length, whatever argument follows which, and any numbers (`OptionsGoTogether`); `NumbersGiven`
says that they are integers, negative ones included, since an `unsigned long` is
read and kept as an `int`.  What an option has is what was assigned to it last
(`Assigned`), so `OptionsInv` says of each option that matters which values it may
have, phase by phase: `LineInv` while the line is read (a search is what is not
random, CLSmith has no argument that searches, replays or extends, arrays go when
loops go), `ResolvedInv` what `ResolveCGOptions` leaves whatever the line said,
`CheckedInv` what passed `has_conflict` or `Conflict`, and `CreatedInv` that what was
created is what the options ask for.  The check of csmith assigns to two options
itself; that it looks at neither of them is part of the proof (`CheckKeeps`).

Model-checked only: `Termination`, which is liveness and out of the prover's
reach, like the rest of what depends on fairness; and the promises of the parts
in the composites other than `ParametersFit`, `ChoicesReplay` and `OptionsConsistent`.  Many of those
are about recursive walks over trees, in modules with RECURSIVE operators, which
the prover cannot use; the others are the next in the plan.

## What the models leave out, and what was met on the way

Each module states its bounds.  The following behaviours of the code were met
while modelling; the models either exclude them, which the module says, or show
them in a part that is not a property.

* Arrays and loops: with the default `max_array_length_per_dimension` of 10 the
  step of an array loop is always 1.  The comment "limit can be reached without
  wrap-around" (`StatementFor.cpp:85`) does not hold for loops that are not over arrays:
  an unsigned variable may start below 0, or step below it (init 2, limit 1, `>=`, step 9),
  `!=` may be jumped over, and `>=` may hold for the limit only at the start of a loop
  that goes up.  `LoopsEnd` claims nothing of them; such a loop does not hurt an index,
  since it has no bound and is never one.
* Vectors and built-ins: `kSIMD` never yields operators, `expr_depth` is not
  counted for the expressions of CLSmith, and vector types fall back to scalars
  when such an expression fails.
* Divergence: `*p = c` with a divergent `p` does not mark what `p` points to;
  marks of what an argument points to are not brought back from a call; a
  divergent return marks nothing behind it (a TODO there).  The flag that is
  read at `Divergence.cpp:356` after it was freed is a free choice.
* Facts: removing an earlier goto shifts the indices of those behind it, which
  are analysed again anyway.  `UnionFacts`: `TypeSensitive` is TRUE, as csmith
  sets it; with padding of inner structures zeroed by the compiler
  (`InnerZeros`) `PointersHeld` would not hold.
* Special values: the enumeration of a vector writes in front of its indices as well
  (`overwritten`, `StatementAtomicResult.cpp:62`): undefined behaviour of the generator,
  about which nothing is claimed.
* Random numbers: `--go-delta` without `--delta-output` overwrites its input;
  numbers missing in a debug sequence read as 0.
* Safe arithmetic (`OperationsSafe` names each case, and is not claimed there): the
  functions header limits shifts to 32 for every type, although `maxshift` has a
  case for `int64_t` (`safe_math.m4:40`; its users leave the argument out), so
  64-bit values shifted by 32 and more stay as they are (`ShortLimit`), and on targets
  with 16-bit `int` counts up to 31 are undefined (`WideCounts`); the macros compute
  64-bit products in `unsigned long` (`NarrowLong`); the macro for the difference of
  narrow types with different signs always gives the first operand
  (`NarrowDifference`).  Scalars that `--no-safe-math` or `--safe-math-wrappers` leave
  without a wrapper are printed in the model, and nothing is claimed of them.  The
  check of `mul24` lets `1 << 24` through.
* Probabilities: draws that never end are in the model, and `OnlyTheseEndless` names
  them: random or configured values that leave `--msp` only division and remainder,
  or the sizes of products and shifts, whose filter is registered with and without
  `--msp`, only 32 and 64 bits, or a configuration that leaves assignments no number.  A threshold group given as `(group,...)` asserts; a `[...]` line may hide kinds
  it does not name; `--partial-expand` knows six kinds and aborts on others.
* Types: `max_indirect_level` limits `make_random_pointer_type` only;
  `random_type_from_type(NULL)` dereferences it; the size of a pointer is 0.
  `eager_create_*_struct` does the same under `--expand-struct`.
* Enumeration: on nested levels `delete_useless_structs` replaces the first new
  structures, so `StructsOnce` is about the lowest level; a length of 0 makes
  duplicates.
* Reduction: `replace binary` and variables that must be used are in the walk.  Parameters whose address initialises a used local are kept while
  their arguments are not looked at (`PassedOver`); jumps into blocks that only
  the jump enters lose their labels (`Lost`).  `limit_binarys` may never end, its
  break at 10000 leaves reductions, folding in `INT64` ignores the width.
* Effects: `*a[i] = f()` depends on the order as well; overlapping fields,
  `--strict-volatile-rule` and dangling pointers are not modelled.
* Qualifiers: `random_stricter_*` is never reached; `make_init_value`
  (`VariableSelector.cpp:882`) drops volatiles under `--strict-volatile-rule`, which is
  excluded; `random_add_qualifiers` ignores `allow_const_volatile`.
* Options: the default `max_exhaustive_depth` of -1 is refused with "must be at
  least 0", 0 as well; CLSmith's `main` never calls `has_conflict`;
  `--delta-monitor`, `--go-delta` and `--reduce` are ignored with
  `--dfs-exhaustive`; an empty argument leaves its value uninitialised.
* Text: split programs of csmith keep `force_globals_static` and do not compile or link
  (`RandomProgramGenerator.cpp:1150`; CLSmith clears it, `CLOptions.cpp:58`, and never splits).
  They are in the model, and `Undeclared` names them; of their variables only that each is
  defined once is claimed (`ProgramLinks`).  Splitting with step hashes,
  wrapped volatiles, access-once or structure arrays does not compile; the values of
  `CoverageTestExtension` overlap.
* Sections: `select_array` of array operations ignores the section, and what a pointer
  leads to may be outside when it is written through (`Lhs.cpp:81`, `:86`), so
  `SectionsNameTheirOwn` is about names: the pointer is the section's, its target may not be.
* Unused variables: `--small` also drops variables that are used only in the further
  initial values of an array, in CLSmith's own statements or through a field
  (`Overlooked` of `UnusedVars`; `CLVariable.cpp:104`, `:116`, `:178`): the program does not
  compile then.  The three kinds are in the model, and the claim is about all others.
* EMI: a goto into a nested block is erased from the vector that is iterated over when its
  label is pruned (`JumpsIn` of `EMIPruning`), and blocks in a block that was merged leave
  the list of blocks although they are printed (`BlocksRegistered`); both are in the
  trees, and the properties name them.
* Launcher: the values of `-n` and `-i` of a file of arguments point into memory that is
  freed before they are read; any value may be read.
* Barriers: a group may be larger than their buffer (above), and items of gated barriers race when a group has a second dimension
  (`GatedInOneDimension`).
* Messages: the comment at `StatementMessage.cpp:131` differs from the code,
  without harm: the first loop stops as soon as the only work-items left are
  those of the last slot, which may be two, not one; the nodes left over are
  printed as nothing.  There is no fence between updates and the signal
  (`StatementMessage.cpp:467`): `FieldsInOrder` and `NoRacingUpdates` are about
  implementations that keep the order of stores (`Relaxed` is FALSE).

## Plan

Done: message passing; kernels; the generator around the program; making,
analysing and printing programs; the theorems above.  Left:

1. Theorems about the parts of the generator that walk over sequences and not
   over trees: `IterationValid` of `EMIPruning`, which needs a hypothesis on gotos
   into nested blocks.
2. Facts that are handed over between functions, and the effects of call chains.

## Not modelled

Statistics (`Bookkeeper.cpp`), help texts, the wording of types, expressions and
comments, the CRC, the drivers and scripts: text, or nothing that anything else
reads.  `PROJECT.json` lists every part with what is left out of it.
