---------------------------- MODULE RandomChoices ----------------------------
(***************************************************************************)
(* Where random numbers come from (RandomNumber.cpp and the generators):    *)
(* the default generator, which records them for --delta-monitor, the one   *)
(* of --go-delta, which replays a record up to a random point, and the one  *)
(* of --dfs-exhaustive, which enumerates all programs.  A program is made by *)
(* choices: what is asked next depends on the answers so far.               *)
(***************************************************************************)
EXTENDS Integers, Sequences, FiniteSets

CONSTANTS MaxExhaustiveDepth,   \* CGOptions::max_exhaustive_depth
          Requests,             \* what is asked: [bound, rejected, need]: values a filter
                                \* rejects, the depth that what follows needs (DepthSpec)
          MaxRuns               \* bound: programs that are recorded; their choices are
                                \* at most MaxExhaustiveDepth

\* What is asked has a number of values, and something is asked.  The depth of
\* --max-exhaustive-depth is refused if it is not positive.
ChoicesAssumption ==
  /\ MaxExhaustiveDepth \in Nat \ {0}
  /\ Requests # {}
  /\ Requests \subseteq [bound : Nat \ {0}, rejected : SUBSET Nat, need : Nat]

ASSUME RequestsGiven == ChoicesAssumption

VARIABLES tree,      \* what is asked after which answers, chosen when it is asked first
          mode,      \* the generator that is used; "none" between two programs
          answers,   \* of this program so far
          programs,  \* the programs that were made, as sequences of answers
          dfs,       \* [states, decision_depth, current_pos, all_done, error]
          delta,     \* [file, seq_map, rand_depth, random_point, asserts]
          debug      \* --dfs-debug-sequence

rcVars == <<tree, mode, answers, programs, dfs, delta, debug>>

End == [bound |-> 0, rejected |-> {}, need |-> 0]
TooDeep == CHOOSE r \in Requests : TRUE
Asked == tree[answers]
Accepted(request) == (0 .. request.bound - 1) \ request.rejected
Last == programs[Len(programs)]

\* The generator wants to know: the tree has it, or gets it.
Ask ==
  /\ mode # "none" /\ answers \notin DOMAIN tree
  /\ \E r \in CASE answers = <<>> -> Requests
               [] answers # <<>> /\ Len(answers) < MaxExhaustiveDepth -> Requests \cup {End}
               [] OTHER -> {End} \cup (IF mode = "dfs" THEN {TooDeep} ELSE {}) :
       /\ mode # "dfs" => Accepted(r) # {} \/ r = End   \* no filter of the code rejects everything
       /\ tree' = [a \in DOMAIN tree \cup {answers} |-> IF a = answers THEN r ELSE tree[a]]
  /\ UNCHANGED <<mode, answers, programs, dfs, delta, debug>>

Asking == mode # "none" /\ answers \in DOMAIN tree /\ Asked # End
Finished == mode # "none" /\ answers \in DOMAIN tree /\ Asked = End

-----------------------------------------------------------------------------
(* DFSRndNumGenerator; states are numbered from 0 *)

Uninit(states, first) == [i \in DOMAIN states |-> IF i >= first THEN [states[i] EXCEPT !.init = FALSE] ELSE states[i]]
Least(S) == CHOOSE x \in S : \A y \in S : x <= y

\* The next program starts where this one does not go on.
Restart(d) == [d EXCEPT !.current_pos = -1, !.error = FALSE]

\* Nodes below stay as they are: for a mutant.
BacktrackAbove(d) ==
  [d EXCEPT !.decision_depth = @ - 1, !.all_done = d.decision_depth = 0, !.error = TRUE]

\* No value is left: the choice before is switched.
Backtrack(d) ==
  [d EXCEPT !.states = Uninit(@, d.current_pos), !.decision_depth = @ - 1,
            !.all_done = d.decision_depth = 0, !.error = TRUE]

EagerBacktracking(d, need) == d.current_pos > 0 /\ MaxExhaustiveDepth - d.current_pos < need
Eager(d) ==
  [d EXCEPT !.decision_depth = IF d.current_pos > d.decision_depth THEN @ ELSE d.current_pos,
            !.states = IF d.current_pos > d.decision_depth THEN @ ELSE Uninit(@, d.current_pos + 1),
            !.error = TRUE]

\* Above the last choice everything is as in the program before.
Revisits(d, pos) == pos < d.decision_depth /\ d.states[pos].init

\* random_choice at the next position: the generator, and the value.
RandomChoice(d0, request) ==
  LET d == [d0 EXCEPT !.current_pos = @ + 1]
      pos == d.current_pos
      s == d.states[pos]
      from == IF s.init THEN s.value + 1 ELSE 0
      ok == {v \in Accepted(request) : v >= from}
      value == IF ok = {} THEN request.bound ELSE Least(ok)
      set == [d EXCEPT !.states[pos] = [init |-> TRUE, value |-> value],
                       !.decision_depth = IF s.init THEN @ ELSE pos]
  IN IF pos >= MaxExhaustiveDepth \/ d.decision_depth >= MaxExhaustiveDepth
       THEN [d |-> [d EXCEPT !.error = TRUE], value |-> -1]
     ELSE IF Revisits(d, pos) THEN [d |-> d, value |-> s.value]
     ELSE IF value >= request.bound THEN [d |-> Backtrack(set), value |-> -1]
     ELSE [d |-> set, value |-> value]

\* DFSProgramGenerator::goGenerator: another program, until all are done.
StartDFS ==
  /\ mode = "none" /\ ~dfs.all_done /\ debug = <<>>
  /\ delta.file = <<>>
  /\ mode' = "dfs" /\ answers' = <<>>
  /\ UNCHANGED <<tree, programs, dfs, delta, debug>>

\* A program that fails is not printed.
Fail(d) == dfs' = Restart(d) /\ mode' = "none" /\ answers' = <<>>

ChooseDFS ==
  /\ Asking /\ mode = "dfs"
  /\ LET r == RandomChoice(dfs, Asked) IN
       IF EagerBacktracking(dfs, Asked.need) THEN Fail(Eager(dfs))
       ELSE IF r.d.error THEN Fail(r.d)
       ELSE dfs' = r.d /\ answers' = Append(answers, r.value) /\ UNCHANGED mode
  /\ UNCHANGED <<tree, programs, delta, debug>>

PrintDFS ==
  /\ Finished /\ mode \in {"dfs", "debug"}
  /\ programs' = Append(programs, answers)
  /\ dfs' = Restart(dfs) /\ mode' = "none" /\ answers' = <<>>
  /\ UNCHANGED <<tree, delta, debug>>

AtEnd(pos) == pos >= Len(debug) - 1

\* A program that was found is made again from its sequence (of its name).
StartDebug ==
  /\ mode = "none" /\ debug = <<>> /\ delta.file = <<>>
  /\ \E i \in DOMAIN programs : debug' = programs[i]
  /\ dfs' = [dfs EXCEPT !.current_pos = -1, !.all_done = FALSE]
  /\ mode' = "debug" /\ answers' = <<>>
  /\ UNCHANGED <<tree, programs, delta>>

ChooseDebug ==
  /\ Asking /\ mode = "debug"
  /\ LET pos == dfs.current_pos + 1
         value == IF pos < Len(debug) THEN debug[pos + 1] ELSE 0
     IN /\ dfs' = [dfs EXCEPT !.current_pos = pos, !.all_done = @ \/ AtEnd(pos)]
        /\ answers' = Append(answers, value)
  /\ UNCHANGED <<tree, mode, programs, delta, debug>>

-----------------------------------------------------------------------------
(* DefaultRndNumGenerator and SimpleDeltaRndNumGenerator.  Positions of      *)
(* seq_map are numbered from 0; a file is its values in that order.          *)

NoMap == [k \in {} |-> <<0, 0>>]
AddNumber(map, k, value, bound) ==
  [j \in DOMAIN map \cup {k} |-> IF j = k THEN <<value, bound>> ELSE map[j]]

\* SimpleDeltaSequence::get_sequence, in the order of the positions.
GetSequence(map) == [i \in 1 .. Cardinality(DOMAIN map) |->
                       map[CHOOSE k \in DOMAIN map : Cardinality({j \in DOMAIN map : j < k}) = i - 1]]

\* --delta-monitor, without and with --go-delta (and --no-delta-reduction).
StartRecord ==
  /\ mode = "none" /\ DOMAIN tree = {}
  /\ mode' = "default" /\ answers' = <<>>
  /\ delta' = [delta EXCEPT !.seq_map = NoMap, !.rand_depth = 0]
  /\ UNCHANGED <<tree, programs, dfs, debug>>

StartDelta ==
  /\ mode = "none" /\ delta.file # <<>>
  /\ \E point \in 0 .. Len(delta.file) - 1 :
       delta' = [delta EXCEPT !.seq_map = NoMap, !.rand_depth = 0, !.random_point = point]
  /\ mode' \in {"replay"} \cup (IF Len(programs) <= MaxRuns THEN {"delta"} ELSE {})
  /\ answers' = <<>>
  /\ UNCHANGED <<tree, programs, dfs, debug>>

\* Filtered values are drawn again.
ChooseDefault ==
  /\ Asking /\ mode = "default"
  /\ \E v \in Accepted(Asked) :
       /\ answers' = Append(answers, v)
       /\ delta' = [delta EXCEPT !.seq_map = AddNumber(@, delta.rand_depth, v, Asked.bound), !.rand_depth = @ + 1]
  /\ UNCHANGED <<tree, mode, programs, dfs, debug>>

\* switch_to_default_generator: it goes on to count where the record stops.
SetRandDepth(depth) == depth

ChooseDelta ==
  /\ Asking /\ mode \in {"delta", "replay"}
  /\ LET pos == delta.rand_depth
         p == delta.file[pos + 1]
         switch == mode = "delta" /\ pos + 1 >= delta.random_point
     IN IF pos >= Len(delta.file)
          THEN delta' = [delta EXCEPT !.asserts = FALSE] /\ mode' = "none" /\ UNCHANGED answers
        ELSE IF p[2] # Asked.bound \/ p[1] \in Asked.rejected
          THEN delta' = [delta EXCEPT !.asserts = FALSE] /\ mode' = "none" /\ UNCHANGED answers
        ELSE /\ answers' = Append(answers, p[1])
             /\ delta' = [delta EXCEPT !.seq_map = AddNumber(@, pos, p[1], p[2]),
                                       !.rand_depth = IF switch THEN SetRandDepth(pos + 1) ELSE pos + 1]
             /\ mode' = IF switch THEN "default" ELSE mode
  /\ UNCHANGED <<tree, programs, dfs, debug>>

\* DeltaMonitor::Output: the record is written, over the one that was read.
PrintDelta ==
  /\ Finished /\ mode \in {"default", "delta", "replay"}
  /\ programs' = IF mode = "replay" THEN programs ELSE Append(programs, answers)
  /\ delta' = [delta EXCEPT !.file = GetSequence(delta.seq_map),
                            !.asserts = @ /\ (mode = "replay" => answers = Last)]
  /\ mode' = "none"
  /\ answers' = <<>> /\ UNCHANGED <<tree, dfs, debug>>

Done ==
  /\ mode = "none" /\ (dfs.all_done \/ delta.file # <<>> \/ ~delta.asserts \/ debug # <<>>)
  /\ UNCHANGED rcVars

Init ==
  /\ tree = [a \in {} |-> End] /\ mode = "none" /\ answers = <<>> /\ programs = <<>> /\ debug = <<>>
  /\ dfs = [states |-> [i \in 0 .. MaxExhaustiveDepth - 1 |-> [init |-> FALSE, value |-> 0]],
            decision_depth |-> -1, current_pos |-> -1, all_done |-> FALSE, error |-> FALSE]
  /\ delta = [file |-> <<>>, seq_map |-> NoMap, rand_depth |-> 0, random_point |-> 0, asserts |-> TRUE]

Next == \/ Ask \/ StartDFS \/ ChooseDFS \/ PrintDFS \/ StartDebug \/ ChooseDebug
        \/ StartRecord \/ StartDelta \/ ChooseDefault \/ ChooseDelta \/ PrintDelta \/ Done

Spec == Init /\ [][Next]_rcVars

-----------------------------------------------------------------------------
(* Properties *)

\* The enumeration prints no program twice, although it starts every program
\* anew and goes back over whole levels of choices (DFSRndNumGenerator.cpp:301).
ProgramsOnce == debug = <<>> => \A i, j \in DOMAIN programs : i # j => programs[i] # programs[j] \/ delta.file # <<>>

\* When it says that all is done, every value that no filter rejects was tried
\* behind every choice there is room for, and every program was printed.
AllPrograms ==
  dfs.all_done /\ debug = <<>> =>
    \A p \in DOMAIN tree :
      /\ tree[p] = End => \E i \in DOMAIN programs : programs[i] = p
      /\ Len(p) < MaxExhaustiveDepth /\ ~(Len(p) > 1 /\ MaxExhaustiveDepth - Len(p) + 1 < tree[p].need) =>
           \A v \in Accepted(tree[p]) : Append(p, v) \in DOMAIN tree

\* The sequence in the name of a program makes that program and stops there.
DebugReplays == Finished /\ mode = "debug" => answers = debug /\ dfs.all_done

\* What is recorded replays: also what a reduction recorded, that is partly an
\* older record and partly new (SimpleDeltaRndNumGenerator.cpp:191).
RecordReplays == delta.asserts

\* An exhaustive search makes every program once, and what it or a monitor has recorded
\* makes the same program again (DFSRndNumGenerator.cpp:301).
ChoicesReplay == ProgramsOnce /\ AllPrograms /\ DebugReplays /\ RecordReplays
=============================================================================
