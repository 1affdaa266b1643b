------------------------ MODULE RandomChoicesProofs -------------------------
(***************************************************************************)
(* Proofs about RandomChoices, for any depth, any requests and any number  *)
(* of programs: the exhaustive search makes every program once, and what   *)
(* it or a monitor has recorded makes the same program again.              *)
(*                                                                         *)
(* The argument: the values of the states up to decision_depth are a path  *)
(* in the tree of all choices.  Whatever branches off to the left of it    *)
(* has been tried, and so has what lies behind it while a new program has  *)
(* not yet gone as far; every step of the generator moves the path over    *)
(* what can be asked and nothing else.                                     *)
(***************************************************************************)
EXTENDS RandomChoices, FiniteSetTheorems, WellFoundedInduction, TLAPS

-----------------------------------------------------------------------------
(* Paths in the tree of choices                                            *)

\* The first n answers of p.
First(p, n) == [i \in 1 .. n |-> p[i]]

\* q begins with p.
Extends(q, p) == Len(p) <= Len(q) /\ \A i \in 1 .. Len(p) : q[i] = p[i]

\* q branches off from p to a smaller value.
Before(q, p) ==
    \E n \in 1 .. Len(p) :
        n <= Len(q) /\ (\A i \in 1 .. n - 1 : q[i] = p[i]) /\ q[n] < p[n]

\* Each answer of p is one that was asked for.
Path(p) ==
    /\ p \in Seq(Nat) /\ Len(p) <= MaxExhaustiveDepth
    /\ \A n \in 0 .. Len(p) - 1 :
          First(p, n) \in DOMAIN tree /\ p[n + 1] \in Accepted(tree[First(p, n)])

\* The search goes on behind p: there is room for what p needs.
Room(p) ==
    /\ Len(p) < MaxExhaustiveDepth
    /\ ~(Len(p) > 1 /\ MaxExhaustiveDepth - Len(p) + 1 < tree[p].need)

\* A path the search may take.
Searched(p) == Path(p) /\ \A n \in 0 .. Len(p) - 1 : Room(First(p, n))

TreeInv ==
    /\ tree \in [DOMAIN tree -> Requests \cup {End}]
    /\ \A p \in DOMAIN tree : Path(p)
    /\ <<>> \in DOMAIN tree => tree[<<>>] # End
    /\ mode # "none" => Path(answers)
    /\ mode \in {"none", "dfs", "debug", "default", "delta", "replay"}
    /\ programs \in Seq(Seq(Nat))
    /\ \A i \in DOMAIN programs : programs[i] \in DOMAIN tree /\ tree[programs[i]] = End

-----------------------------------------------------------------------------
(* The exhaustive search                                                   *)

\* The decisions of the generator, from the first to that of decision_depth.
Decided == [i \in 1 .. dfs.decision_depth + 1 |-> dfs.states[i - 1].value]

\* The search has been at q.
Passed(q) ==
    \/ dfs.all_done
    \/ Before(q, Decided)
    \/ dfs.current_pos < dfs.decision_depth /\ Extends(q, Decided)

StatesInv ==
    /\ dfs.states \in [0 .. MaxExhaustiveDepth - 1 -> [init : BOOLEAN, value : Nat]]
    /\ dfs = [states |-> dfs.states, decision_depth |-> dfs.decision_depth,
              current_pos |-> dfs.current_pos, all_done |-> dfs.all_done, error |-> FALSE]
    /\ dfs.all_done \in BOOLEAN
    /\ dfs.decision_depth \in -1 .. MaxExhaustiveDepth - 1
    /\ dfs.current_pos \in -1 .. dfs.decision_depth
    /\ \A i \in 0 .. MaxExhaustiveDepth - 1 : dfs.states[i].init <=> i <= dfs.decision_depth

\* The generator is where the answers are.
PlaceInv ==
    /\ mode = "none" => dfs.current_pos = -1
    /\ mode = "dfs" => /\ ~dfs.all_done
                       /\ dfs.current_pos = Len(answers) - 1 /\ Extends(Decided, answers)
    /\ dfs.current_pos < dfs.decision_depth => Decided \in DOMAIN tree

\* Where the search has been, all is in the tree.
Complete == \A q : Searched(q) /\ Passed(q) => q \in DOMAIN tree

\* What has been found to be a program is printed, once.
PrintedInv ==
    /\ \A p \in DOMAIN tree :
          tree[p] = End => (mode = "dfs" /\ p = answers) \/ \E i \in DOMAIN programs : programs[i] = p
    /\ \A i \in DOMAIN programs : Passed(programs[i])
    /\ \A i, j \in DOMAIN programs : i # j => programs[i] # programs[j]

SearchInv ==
    /\ StatesInv /\ PlaceInv /\ Complete /\ PrintedInv
    /\ Searched(Decided) /\ \A p \in DOMAIN tree : Searched(p)
    /\ delta = [file |-> <<>>, seq_map |-> NoMap, rand_depth |-> 0, random_point |-> 0,
                asserts |-> TRUE]

Searching == mode \in {"none", "dfs"} /\ debug = <<>> /\ delta.file = <<>>

-----------------------------------------------------------------------------
(* A program made again from its sequence                                  *)

Debugging == debug # <<>>

DebugInv ==
    /\ mode \in {"none", "debug"} /\ delta.file = <<>> /\ delta.asserts
    /\ debug \in DOMAIN tree /\ tree[debug] = End
    /\ mode = "debug" =>
          /\ dfs = [states |-> dfs.states, decision_depth |-> dfs.decision_depth,
                    current_pos |-> Len(answers) - 1, all_done |-> dfs.all_done,
                    error |-> dfs.error]
          /\ Extends(debug, answers)
          /\ Len(answers) = Len(debug) => dfs.all_done

-----------------------------------------------------------------------------
(* Records                                                                 *)

Recording == mode \in {"default", "delta", "replay"} \/ delta.file # <<>>

\* What DeltaMonitor keeps of a: each value with the bound it was drawn below.
Number(a, k) == <<a[k + 1], tree[First(a, k)].bound>>

RecordInv ==
    /\ debug = <<>> /\ ~dfs.all_done /\ mode \in {"none", "default", "delta", "replay"}
    /\ \A p \in DOMAIN tree : tree[p] = End \/ Len(p) < MaxExhaustiveDepth
    /\ delta = [file |-> delta.file, seq_map |-> delta.seq_map, rand_depth |-> delta.rand_depth,
                random_point |-> delta.random_point, asserts |-> TRUE]
    /\ delta.file = <<>> => programs = <<>>
    /\ delta.file # <<>> =>
          /\ programs # <<>>
          /\ delta.file = [i \in 1 .. Len(Last) |-> Number(Last, i - 1)]
    /\ mode # "none" =>
          /\ delta.rand_depth = Len(answers)
          /\ delta.seq_map = [k \in 0 .. Len(answers) - 1 |-> Number(answers, k)]
    /\ mode \in {"delta", "replay"} => delta.file # <<>> /\ Extends(Last, answers)

ChoicesInv ==
    /\ TreeInv
    /\ mode = "debug" => Debugging
    /\ Searching => SearchInv
    /\ Debugging => DebugInv
    /\ Recording => RecordInv

-----------------------------------------------------------------------------
(* Sequences                                                               *)

\* Sequences with the same items are the same.
LEMMA SameSeq ==
    ASSUME NEW p \in Seq(Nat), NEW q \in Seq(Nat), Len(p) = Len(q),
           \A i \in 1 .. Len(p) : p[i] = q[i]
    PROVE  p = q
OBVIOUS

\* The beginning of a sequence.
LEMMA FirstSeq ==
    ASSUME NEW p \in Seq(Nat), NEW n \in 0 .. Len(p)
    PROVE  /\ First(p, n) \in Seq(Nat) /\ Len(First(p, n)) = n
           /\ \A i \in 1 .. n : First(p, n)[i] = p[i]
           /\ First(p, Len(p)) = p
           /\ \A m \in 0 .. n : First(First(p, n), m) = First(p, m)
<1>1. \A i \in 1 .. n : p[i] \in Nat
  OBVIOUS
<1>2. First(p, n) \in [1 .. n -> Nat]
  BY <1>1 DEF First
<1>3. First(p, n) \in Seq(Nat) /\ Len(First(p, n)) = n /\ \A i \in 1 .. n : First(p, n)[i] = p[i]
  BY <1>2 DEF First
<1>4. First(p, Len(p)) = p
  BY DEF First
<1>5. ASSUME NEW m \in 0 .. n PROVE First(First(p, n), m) = First(p, m)
  <2>1. \A i \in 1 .. m : First(p, n)[i] = p[i]
    BY <1>3
  <2> QED BY <2>1 DEF First
<1> QED BY <1>3, <1>4, <1>5

\* One more answer.
LEMMA AppendSeq ==
    ASSUME NEW p \in Seq(Nat), NEW v \in Nat
    PROVE  /\ Append(p, v) \in Seq(Nat) /\ Len(Append(p, v)) = Len(p) + 1
           /\ \A i \in 1 .. Len(p) : Append(p, v)[i] = p[i]
           /\ Append(p, v)[Len(p) + 1] = v
           /\ \A n \in 0 .. Len(p) : First(Append(p, v), n) = First(p, n)
<1>1. /\ Append(p, v) \in Seq(Nat) /\ Len(Append(p, v)) = Len(p) + 1
      /\ \A i \in 1 .. Len(p) : Append(p, v)[i] = p[i]
      /\ Append(p, v)[Len(p) + 1] = v
  OBVIOUS
<1>2. ASSUME NEW n \in 0 .. Len(p) PROVE First(Append(p, v), n) = First(p, n)
  BY <1>1 DEF First
<1> QED BY <1>1, <1>2

\* A sequence that another begins with is its beginning.
LEMMA ExtendsFirst ==
    ASSUME NEW p \in Seq(Nat), NEW q \in Seq(Nat), Extends(q, p)
    PROVE  /\ p = First(q, Len(p)) /\ Len(p) \in 0 .. Len(q)
           /\ \A n \in 0 .. Len(p) : First(q, n) = First(p, n)
           /\ Len(p) = Len(q) => p = q
<1>1. Len(p) \in 0 .. Len(q) /\ \A i \in 1 .. Len(p) : q[i] = p[i]
  BY DEF Extends
<1>2. p = First(q, Len(p))
  BY <1>1, FirstSeq, SameSeq
<1>3. \A n \in 0 .. Len(p) : First(q, n) = First(p, n)
  BY <1>1 DEF First
<1>4. Len(p) = Len(q) => p = q
  BY <1>1, SameSeq
<1> QED BY <1>1, <1>2, <1>3, <1>4

\* It is extended by one more answer if that is the next one.
LEMMA ExtendsNext ==
    ASSUME NEW p \in Seq(Nat), NEW q \in Seq(Nat), Extends(q, p), Len(p) < Len(q)
    PROVE  /\ q[Len(p) + 1] \in Nat /\ Append(p, q[Len(p) + 1]) \in Seq(Nat)
           /\ Extends(q, Append(p, q[Len(p) + 1]))
           /\ Append(p, q[Len(p) + 1]) = First(q, Len(p) + 1)
<1>1. Len(p) \in Nat /\ q[Len(p) + 1] \in Nat
  OBVIOUS
<1>2. Extends(q, Append(p, q[Len(p) + 1]))
  BY <1>1, AppendSeq DEF Extends
<1>3. Append(p, q[Len(p) + 1]) \in Seq(Nat) /\ Len(Append(p, q[Len(p) + 1])) = Len(p) + 1
  BY <1>1, AppendSeq
<1>4. \A a \in Seq(Nat) : Extends(q, a) => a = First(q, Len(a))
  BY ExtendsFirst
<1> QED BY <1>1, <1>2, <1>3, <1>4

\* The empty sequence.
LEMMA EmptySeq == <<>> \in Seq(Nat) /\ Len(<<>>) = 0 /\ \A p \in Seq(Nat) : Len(p) = 0 => p = <<>>
OBVIOUS

-----------------------------------------------------------------------------
(* Paths                                                                   *)

\* The answers to a request.
LEMMA AcceptedFacts ==
    ASSUME ChoicesAssumption, TreeInv, NEW p \in DOMAIN tree
    PROVE  /\ Accepted(tree[p]) \subseteq Nat
           /\ tree[p].bound \in Nat
           /\ \A v \in Accepted(tree[p]) : v < tree[p].bound
           /\ tree[p] = End => Accepted(tree[p]) = {}
           /\ tree[p] # End => tree[p] \in Requests /\ tree[p].bound > 0
<1>1. tree[p] \in Requests \cup {End}
  BY DEF TreeInv
<1>2. CASE tree[p] = End
  <2>1. tree[p].bound = 0 /\ 0 .. 0 - 1 = {}
    BY <1>2 DEF End
  <2> QED BY <1>2, <2>1 DEF Accepted
<1>3. CASE tree[p] # End
  <2>1. tree[p] \in Requests /\ tree[p].bound \in Nat \ {0}
    BY <1>1, <1>3 DEF ChoicesAssumption
  <2>2. \A v \in 0 .. tree[p].bound - 1 : v \in Nat /\ v < tree[p].bound
    BY <2>1
  <2> QED BY <1>3, <2>1, <2>2 DEF Accepted
<1> QED BY <1>2, <1>3

\* The beginning of a path is one.
LEMMA PathFirst ==
    ASSUME ChoicesAssumption, NEW p, Path(p), NEW n \in 0 .. Len(p)
    PROVE  Path(First(p, n)) /\ (Searched(p) => Searched(First(p, n)))
<1>0. p \in Seq(Nat) /\ Len(p) <= MaxExhaustiveDepth /\ MaxExhaustiveDepth \in Nat
  BY DEF Path, ChoicesAssumption
<1>1. /\ First(p, n) \in Seq(Nat) /\ Len(First(p, n)) = n
      /\ \A i \in 1 .. n : First(p, n)[i] = p[i]
      /\ \A m \in 0 .. n : First(First(p, n), m) = First(p, m)
  BY <1>0, FirstSeq
<1>2. Path(First(p, n))
  <2>1. ASSUME NEW m \in 0 .. Len(First(p, n)) - 1
        PROVE  /\ First(First(p, n), m) \in DOMAIN tree
               /\ First(p, n)[m + 1] \in Accepted(tree[First(First(p, n), m)])
    <3>1. m \in 0 .. Len(p) - 1 /\ m + 1 \in 1 .. n /\ m \in 0 .. n
      BY <1>0, <1>1
    <3>2. First(p, m) \in DOMAIN tree /\ p[m + 1] \in Accepted(tree[First(p, m)])
      BY <3>1 DEF Path
    <3> QED BY <1>1, <3>1, <3>2
  <2>2. Len(First(p, n)) <= MaxExhaustiveDepth
    BY <1>0, <1>1
  <2> QED BY <1>1, <2>1, <2>2 DEF Path
<1>3. Searched(p) => Searched(First(p, n))
  BY <1>0, <1>1, <1>2 DEF Searched
<1> QED BY <1>2, <1>3

\* A path that goes on by an answer.
LEMMA PathAppend ==
    ASSUME ChoicesAssumption, TreeInv, NEW p \in DOMAIN tree, Path(p),
           Len(p) < MaxExhaustiveDepth, NEW v \in Accepted(tree[p])
    PROVE  /\ Path(Append(p, v)) /\ v \in Nat
           /\ Searched(p) /\ Room(p) => Searched(Append(p, v))
<1>0. p \in Seq(Nat) /\ v \in Nat /\ MaxExhaustiveDepth \in Nat
  BY AcceptedFacts DEF Path, ChoicesAssumption
<1>1. /\ Append(p, v) \in Seq(Nat) /\ Len(Append(p, v)) = Len(p) + 1
      /\ \A i \in 1 .. Len(p) : Append(p, v)[i] = p[i]
      /\ Append(p, v)[Len(p) + 1] = v
      /\ \A n \in 0 .. Len(p) : First(Append(p, v), n) = First(p, n)
      /\ First(p, Len(p)) = p
  BY <1>0, AppendSeq, FirstSeq
<1>2. \A n \in 0 .. Len(Append(p, v)) - 1 : n = Len(p) \/ n \in 0 .. Len(p) - 1
  BY <1>0, <1>1
<1>3. Path(Append(p, v))
  <2>1. \A n \in 0 .. Len(p) - 1 :
          First(p, n) \in DOMAIN tree /\ p[n + 1] \in Accepted(tree[First(p, n)])
    BY DEF Path
  <2>2. ASSUME NEW n \in 0 .. Len(Append(p, v)) - 1
        PROVE  /\ First(Append(p, v), n) \in DOMAIN tree
               /\ Append(p, v)[n + 1] \in Accepted(tree[First(Append(p, v), n)])
    <3>1. CASE n = Len(p)
      BY <1>0, <1>1, <3>1
    <3>2. CASE n \in 0 .. Len(p) - 1
      BY <1>0, <1>1, <2>1, <3>2
    <3> QED BY <1>2, <3>1, <3>2
  <2> QED BY <1>0, <1>1, <2>2 DEF Path
<1>4. Searched(p) /\ Room(p) => Searched(Append(p, v))
  BY <1>0, <1>1, <1>2, <1>3 DEF Searched
<1> QED BY <1>0, <1>3, <1>4

\* Nothing is asked behind the end of a program, so a path ends there.
LEMMA EndsThere ==
    ASSUME ChoicesAssumption, TreeInv, NEW p, Path(p), NEW a \in DOMAIN tree, tree[a] = End,
           a \in Seq(Nat), Extends(p, a)
    PROVE  p = a
<1>1. p \in Seq(Nat) /\ a = First(p, Len(a)) /\ Len(a) \in 0 .. Len(p)
  BY ExtendsFirst DEF Path
<1>2. ASSUME Len(a) < Len(p) PROVE FALSE
  <2>1. Len(a) \in 0 .. Len(p) - 1
    BY <1>1, <1>2
  <2>2. p[Len(a) + 1] \in Accepted(tree[a])
    BY <1>1, <2>1 DEF Path
  <2> QED BY <2>2, AcceptedFacts
<1>3. Len(a) = Len(p)
  BY <1>1, <1>2
<1> QED BY <1>1, <1>3, FirstSeq

-----------------------------------------------------------------------------
(* What is asked is added to the tree                                      *)

\* What was in the tree stays there.
Grown == DOMAIN tree \subseteq DOMAIN tree' /\ \A p \in DOMAIN tree : tree'[p] = tree[p]

\* The paths stay, and so do the rooms.
LEMMA PathKept ==
    ASSUME Grown, NEW p, Path(p)
    PROVE  Path(p)' /\ (Searched(p) => Searched(p)')
<1>1. \A n \in 0 .. Len(p) - 1 : /\ First(p, n) \in DOMAIN tree'
                                 /\ tree'[First(p, n)] = tree[First(p, n)]
                                 /\ p[n + 1] \in Accepted(tree'[First(p, n)])
  BY DEF Path, Grown
<1>2. Path(p)'
  BY <1>1 DEF Path, First
<1>3. ASSUME Searched(p) PROVE Searched(p)'
  <2>1. \A n \in 0 .. Len(p) - 1 : Room(First(p, n))'
    BY <1>1, <1>3 DEF Searched, Room, First
  <2> QED BY <1>2, <2>1 DEF Searched, First
<1> QED BY <1>2, <1>3

\* What a step of Ask does.
LEMMA AskFacts ==
    ASSUME ChoicesAssumption, TreeInv, Ask
    PROVE  /\ mode # "none" /\ answers \notin DOMAIN tree /\ Path(answers)
           /\ tree' \in [DOMAIN tree' -> Requests \cup {End}]
           /\ DOMAIN tree' = DOMAIN tree \cup {answers}
           /\ Grown
           /\ answers = <<>> => tree'[answers] # End
           /\ mode # "dfs" /\ Len(answers) >= MaxExhaustiveDepth => tree'[answers] = End
           /\ UNCHANGED <<mode, answers, programs, dfs, delta, debug>>
<1>1. mode # "none" /\ answers \notin DOMAIN tree /\ Path(answers)
      /\ UNCHANGED <<mode, answers, programs, dfs, delta, debug>>
  BY DEF Ask, TreeInv
<1>2. PICK r : /\ r \in CASE answers = <<>> -> Requests
                          [] answers # <<>> /\ Len(answers) < MaxExhaustiveDepth -> Requests \cup {End}
                          [] OTHER -> {End} \cup (IF mode = "dfs" THEN {TooDeep} ELSE {})
               /\ tree' = [a \in DOMAIN tree \cup {answers} |-> IF a = answers THEN r ELSE tree[a]]
  BY DEF Ask
<1>3. TooDeep \in Requests
  BY DEF TooDeep, ChoicesAssumption
<1>4. answers \in Seq(Nat) /\ MaxExhaustiveDepth \in Nat \ {0}
  BY <1>1 DEF Path, ChoicesAssumption
<1>5. Len(answers) >= MaxExhaustiveDepth => answers # <<>> /\ ~(Len(answers) < MaxExhaustiveDepth)
  BY <1>4
<1>6. /\ r \in Requests \cup {End}
      /\ answers = <<>> => r \in Requests
      /\ mode # "dfs" /\ Len(answers) >= MaxExhaustiveDepth => r = End
  BY <1>2, <1>3, <1>5
<1>7. End \notin Requests
  BY DEF End, ChoicesAssumption
<1>8. tree' = [a \in DOMAIN tree \cup {answers} |-> IF a = answers THEN r ELSE tree[a]]
  BY <1>2
<1>9. Grown
  BY <1>1, <1>8 DEF Grown
<1>10. tree \in [DOMAIN tree -> Requests \cup {End}]
  BY DEF TreeInv
<1>11. tree' \in [DOMAIN tree' -> Requests \cup {End}]
  BY <1>6, <1>8, <1>10
<1>12. DOMAIN tree' = DOMAIN tree \cup {answers} /\ tree'[answers] = r
  BY <1>8
<1> QED BY <1>1, <1>6, <1>7, <1>9, <1>11, <1>12

\* Paths, programs and ends stay what they are.
LEMMA AskTree ==
    ASSUME ChoicesAssumption, TreeInv, Ask
    PROVE  TreeInv'
<1>1. /\ mode # "none" /\ answers \notin DOMAIN tree /\ Path(answers)
      /\ tree' \in [DOMAIN tree' -> Requests \cup {End}]
      /\ DOMAIN tree' = DOMAIN tree \cup {answers}
      /\ Grown
      /\ answers = <<>> => tree'[answers] # End
      /\ UNCHANGED <<mode, answers, programs, dfs, delta, debug>>
  BY AskFacts
<1>2. \A p \in DOMAIN tree' : Path(p)'
  <2>1. ASSUME NEW p \in DOMAIN tree' PROVE Path(p)'
    <3>1. Path(p)
      BY <1>1 DEF TreeInv
    <3> QED BY <1>1, <3>1, PathKept
  <2> QED BY <2>1
<1>3. Path(answers)'
  <2>1. PICK a : a = answers /\ a = answers'
    BY <1>1
  <2>2. Path(a)'
    BY <1>1, <2>1, PathKept
  <2> QED BY <2>1, <2>2
<1>4. <<>> \in DOMAIN tree' => tree'[<<>>] # End
  BY <1>1 DEF TreeInv, Grown
<1>5. \A i \in DOMAIN programs' : programs'[i] \in DOMAIN tree' /\ tree'[programs'[i]] = End
  BY <1>1 DEF TreeInv, Grown
<1>6. programs' \in Seq(Seq(Nat)) /\ mode' \in {"none", "dfs", "debug", "default", "delta", "replay"}
  BY <1>1 DEF TreeInv
<1> QED BY <1>1, <1>2, <1>3, <1>4, <1>5, <1>6 DEF TreeInv

\* Programs that begin, go on or end with the tree as it is.
LEMMA SameTree ==
    ASSUME TreeInv, tree' = tree, programs' = programs,
           mode' \in {"none", "dfs", "debug", "default", "delta", "replay"},
           mode' # "none" => Path(answers')
    PROVE  TreeInv'
<1>1. \A p : Path(p)' = Path(p)
  BY DEF Path, First
<1>2. Path(answers)' <=> Path(answers')
  BY DEF Path, First
<1> QED BY <1>1, <1>2 DEF TreeInv

\* Nothing is a path.
LEMMA EmptyPath == ASSUME ChoicesAssumption PROVE Path(<<>>) /\ Searched(<<>>)
<1>1. \A n \in 0 .. Len(<<>>) - 1 : FALSE
  BY EmptySeq
<1>2. <<>> \in Seq(Nat) /\ Len(<<>>) <= MaxExhaustiveDepth
  BY EmptySeq DEF ChoicesAssumption
<1> QED BY <1>1, <1>2 DEF Path, Searched

-----------------------------------------------------------------------------
(* What the generator answers                                              *)

\* Three kinds of behaviour, told apart by the generator that is used.
LEMMA WhoAsks ==
    ASSUME ChoicesInv
    PROVE  /\ mode = "dfs" => Searching /\ SearchInv /\ ~Debugging /\ ~Recording
           /\ mode = "debug" => Debugging /\ DebugInv /\ ~Searching /\ ~Recording
           /\ mode \in {"default", "delta", "replay"} =>
                 Recording /\ RecordInv /\ ~Searching /\ ~Debugging
BY DEF ChoicesInv, Searching, Debugging, Recording, DebugInv, RecordInv

\* The least of some numbers.
LEMMA LeastFacts ==
    ASSUME NEW S \in SUBSET Nat, S # {}
    PROVE  Least(S) \in S /\ \A y \in S : Least(S) <= y
<1>1. PICK n \in S : \A m \in S : n <= m
  <2> DEFINE R == {ss \in Nat \X Nat : ss[1] < ss[2]}
  <2>1. IsWellFoundedOn(R, Nat)
    BY NatLessThanWellFounded, Zenon DEF OpToRel
  <2>2. PICK n \in S : \A m \in S : ~(<<m, n>> \in R)
    BY <2>1, WFMin
  <2>3. ASSUME NEW m \in S PROVE n <= m
    <3>1. n \in Nat /\ m \in Nat
      OBVIOUS
    <3>2. <<m, n>> \in Nat \X Nat /\ <<m, n>>[1] = m /\ <<m, n>>[2] = n
      BY <3>1
    <3>3. ~(m < n)
      BY <2>2, <3>2
    <3> QED BY <3>1, <3>3, SMT
  <2> QED BY <2>3
<1> QED BY <1>1 DEF Least

\* The decisions as a sequence.
LEMMA DecidedFacts ==
    ASSUME ChoicesAssumption, StatesInv
    PROVE  /\ Decided \in Seq(Nat) /\ Len(Decided) = dfs.decision_depth + 1
           /\ dfs.decision_depth \in Int /\ dfs.current_pos \in Int
           /\ \A i \in 1 .. dfs.decision_depth + 1 : Decided[i] = dfs.states[i - 1].value
<1>1. dfs.decision_depth + 1 \in Nat /\ dfs.decision_depth < MaxExhaustiveDepth
      /\ dfs.decision_depth \in Int /\ dfs.current_pos \in Int /\ MaxExhaustiveDepth \in Nat
  BY DEF StatesInv, ChoicesAssumption
<1>2. \A i \in 1 .. dfs.decision_depth + 1 : dfs.states[i - 1].value \in Nat
  BY <1>1 DEF StatesInv
<1>3. Decided \in [1 .. dfs.decision_depth + 1 -> Nat]
  BY <1>2 DEF Decided
<1>4. ASSUME NEW n \in Nat, NEW D \in [1 .. n -> Nat] PROVE D \in Seq(Nat) /\ Len(D) = n
  OBVIOUS
<1>5. \A i \in 1 .. dfs.decision_depth + 1 : Decided[i] = dfs.states[i - 1].value
  BY DEF Decided
<1> HIDE DEF Decided
<1> QED BY <1>1, <1>3, <1>4, <1>5

\* The state of the generator.
Generator(states, depth, pos, done, failed) ==
    [states |-> states, decision_depth |-> depth, current_pos |-> pos, all_done |-> done,
     error |-> failed]

\* States with the value v at pos.
Set(states, pos, v) == [states EXCEPT ![pos] = [init |-> TRUE, value |-> v]]

\* What is known of its states.
States(states, depth) ==
    /\ MaxExhaustiveDepth \in Nat \ {0} /\ depth \in -1 .. MaxExhaustiveDepth - 1
    /\ states \in [0 .. MaxExhaustiveDepth - 1 -> [init : BOOLEAN, value : Nat]]
    /\ \A i \in 0 .. MaxExhaustiveDepth - 1 : states[i].init <=> i <= depth

\* The next value that is accepted at pos is v.
NextValue(request, states, depth, pos, v) ==
    /\ v \in Accepted(request)
    /\ pos = depth => v > states[pos].value
    /\ \A w \in Accepted(request) : (pos = depth => w > states[pos].value) => v <= w

\* No value is left.
NoValue(request, states, depth, pos) ==
    \A w \in Accepted(request) : pos = depth /\ w <= states[pos].value

\* What random_choice does: it fails for want of room, repeats what was decided,
\* decides for the next value, or goes back.
Choice(result, request, states, depth, pos) ==
    /\ pos >= MaxExhaustiveDepth => result.d = Generator(states, depth, pos, FALSE, TRUE)
    /\ pos < depth => result = [d |-> Generator(states, depth, pos, FALSE, FALSE),
                                value |-> states[pos].value]
    /\ pos < MaxExhaustiveDepth /\ pos >= depth =>
         \/ \E v : /\ NextValue(request, states, depth, pos, v)
                   /\ result = [d |-> Generator(Set(states, pos, v), pos, pos, FALSE, FALSE),
                                value |-> v]
         \/ /\ NoValue(request, states, depth, pos)
            /\ \E v \in Nat :
                  /\ pos = 0 => result.d =
                       Generator(Uninit(Set(states, pos, v), pos), pos - 1, pos, TRUE, TRUE)
                  /\ pos # 0 => result.d =
                       Generator(Uninit(Set(states, pos, v), pos), pos - 1, pos, FALSE, TRUE)

\* The generator makes a choice of one of these kinds, whatever is asked.
LEMMA ChoiceResult ==
    ASSUME NEW states, NEW depth, NEW place, NEW pos, NEW g, NEW r,
           States(states, depth), place \in -1 .. depth, pos = place + 1,
           g = Generator(states, depth, place, FALSE, FALSE),
           Accepted(r) \subseteq Nat, r.bound \in Nat, \A v \in Accepted(r) : v < r.bound
    PROVE  Choice(RandomChoice(g, r), r, states, depth, pos)
<1>0. SUFFICES ASSUME NEW result, result = RandomChoice(g, r)
               PROVE  Choice(result, r, states, depth, pos)
  OBVIOUS
<1> USE DEF Choice
<1>1. /\ depth \in -1 .. MaxExhaustiveDepth - 1 /\ MaxExhaustiveDepth \in Nat /\ pos \in Nat
      /\ states \in [0 .. MaxExhaustiveDepth - 1 -> [init : BOOLEAN, value : Nat]]
  BY DEF States
<1>2. PICK d : d = [g EXCEPT !.current_pos = @ + 1]
  OBVIOUS
<1>3. d = Generator(states, depth, pos, FALSE, FALSE)
  BY <1>2 DEF Generator
<1>4. /\ d.current_pos = pos /\ d.states = states /\ d.decision_depth = depth /\ d.all_done = FALSE
  BY <1>3 DEF Generator
<1>5. PICK s : s = states[pos]
  OBVIOUS
<1>6. PICK ok : ok = {v \in Accepted(r) : v >= IF s.init THEN s.value + 1 ELSE 0}
  OBVIOUS
<1>7. PICK value : value = IF ok = {} THEN r.bound ELSE Least(ok)
  OBVIOUS
<1>8. PICK set : set = [d EXCEPT !.states[pos] = [init |-> TRUE, value |-> value],
                                 !.decision_depth = IF s.init THEN @ ELSE pos]
  OBVIOUS
<1>9. PICK failed : failed = [d EXCEPT !.error = TRUE]
  OBVIOUS
<1>10. PICK back : back = Backtrack(set)
  OBVIOUS
<1>11. result =
         IF pos >= MaxExhaustiveDepth \/ depth >= MaxExhaustiveDepth
           THEN [d |-> failed, value |-> -1]
         ELSE IF Revisits(d, pos) THEN [d |-> d, value |-> s.value]
         ELSE IF value >= r.bound THEN [d |-> back, value |-> -1]
         ELSE [d |-> set, value |-> value]
  BY <1>2, <1>4, <1>5, <1>6, <1>7, <1>8, <1>9, <1>10, <1>0 DEF RandomChoice
<1>12. CASE pos >= MaxExhaustiveDepth
  <2>1. result = [d |-> failed, value |-> -1]
    BY <1>1, <1>11, <1>12
  <2>2. failed = Generator(states, depth, pos, FALSE, TRUE)
    BY <1>3, <1>9 DEF Generator
  <2>3. ~(pos < depth)
    BY <1>1, <1>12
  <2>4. ~(pos < MaxExhaustiveDepth)
    BY <1>1, <1>12
  <2>5. result.d = failed
    BY <2>1
  <2> QED BY <2>2, <2>3, <2>4, <2>5
<1>13. CASE pos < depth
  <2>1. s.init
    BY <1>1, <1>5, <1>13 DEF States
  <2>2. Revisits(d, pos)
    BY <1>4, <1>5, <1>13, <2>1 DEF Revisits
  <2>3. ~(pos >= MaxExhaustiveDepth \/ depth >= MaxExhaustiveDepth) /\ ~(pos >= depth)
    BY <1>1, <1>13
  <2>4. result = [d |-> d, value |-> s.value]
    BY <1>11, <2>2, <2>3
  <2> QED BY <1>3, <1>5, <2>3, <2>4
<1>14. CASE pos < MaxExhaustiveDepth /\ pos >= depth
  <2>1. ~(pos >= MaxExhaustiveDepth) /\ ~(pos < depth) /\ ~(depth >= MaxExhaustiveDepth)
        /\ ~Revisits(d, pos)
    BY <1>1, <1>4, <1>14 DEF Revisits
  <2>2. /\ pos \in 0 .. MaxExhaustiveDepth - 1 /\ s \in [init : BOOLEAN, value : Nat]
        /\ s.init <=> pos = depth
    BY <1>1, <1>5, <1>14 DEF States
  <2>3. result = IF value >= r.bound THEN [d |-> back, value |-> -1]
                               ELSE [d |-> set, value |-> value]
    BY <1>11, <2>1
  <2>4. set = Generator(Set(states, pos, value), pos, pos, FALSE, FALSE)
    <3>1. (IF s.init THEN d.decision_depth ELSE pos) = pos
      BY <1>4, <2>2
    <3>2. set = [d EXCEPT !.states[pos] = [init |-> TRUE, value |-> value], !.decision_depth = pos]
      BY <1>8, <3>1
    <3>3. PICK x : x = [init |-> TRUE, value |-> value]
      OBVIOUS
    <3>4. set = [d EXCEPT !.states[pos] = x, !.decision_depth = pos]
      BY <3>2, <3>3
    <3>5. set = Generator([states EXCEPT ![pos] = x], pos, pos, FALSE, FALSE)
      BY <1>3, <3>4 DEF Generator
    <3> QED BY <3>3, <3>5 DEF Set
  <2>5. \A w \in Accepted(r) : w \in ok <=> (pos = depth => w > states[pos].value)
    <3>1. CASE s.init
      BY <1>5, <1>6, <2>2, <3>1
    <3>2. CASE ~s.init
      BY <1>5, <1>6, <2>2, <3>2
    <3> QED BY <2>2, <3>1, <3>2
  <2>6. CASE ok = {}
    <3>1. value = r.bound
      BY <1>7, <2>6
    <3>2. result = [d |-> back, value |-> -1]
      <4>1. value >= r.bound
        BY <3>1
      <4> QED BY <2>3, <4>1
    <3>3. NoValue(r, states, depth, pos)
      <4>1. \A w \in Accepted(r) : ~(pos = depth => w > states[pos].value)
        BY <2>5, <2>6
      <4>2. \A w \in Accepted(r) : w \in Nat
        OBVIOUS
      <4> QED BY <1>5, <2>2, <4>1, <4>2 DEF NoValue
    <3>4. /\ pos = 0 =>
                back = Generator(Uninit(Set(states, pos, value), pos), pos - 1, pos, TRUE, TRUE)
          /\ pos # 0 =>
                back = Generator(Uninit(Set(states, pos, value), pos), pos - 1, pos, FALSE, TRUE)
      <4>1. PICK n : n = Uninit(Set(states, pos, value), pos)
        OBVIOUS
      <4>2. set.current_pos = pos /\ set.decision_depth = pos /\ set.states = Set(states, pos, value)
        BY <2>4 DEF Generator
      <4>3. back = [set EXCEPT !.states = n, !.decision_depth = @ - 1,
                               !.all_done = set.decision_depth = 0, !.error = TRUE]
        BY <1>10, <4>1, <4>2 DEF Backtrack
      <4>4. back = Generator(n, pos - 1, pos, back.all_done, TRUE) /\ back.all_done = (pos = 0)
        BY <2>4, <4>2, <4>3 DEF Generator
      <4>5. (pos = 0 => back.all_done = TRUE) /\ (pos # 0 => back.all_done = FALSE)
        BY <4>4
      <4> QED BY <4>1, <4>4, <4>5
    <3>5. result.d = back
      BY <3>2
    <3>6. value \in Nat
      BY <3>1
    <3> QED BY <2>1, <3>3, <3>4, <3>5, <3>6
  <2>7. CASE ok # {}
    <3>1. ok \in SUBSET Nat
      BY <1>6
    <3>2. value \in ok /\ \A y \in ok : value <= y
      BY <1>7, <2>7, <3>1, LeastFacts
    <3>3. value \in Accepted(r) /\ ~(value >= r.bound)
      BY <1>6, <3>2
    <3>4. result = [d |-> set, value |-> value]
      BY <2>3, <3>3
    <3>5. NextValue(r, states, depth, pos, value)
      BY <2>5, <3>2, <3>3 DEF NextValue
    <3> QED BY <2>1, <2>4, <3>4, <3>5
  <2> QED BY <2>6, <2>7
<1> QED BY <1>1, <1>12, <1>13, <1>14

-----------------------------------------------------------------------------
(* How the decisions move                                                  *)

\* Where a sequence branches off.
LEMMA BranchesOff ==
    ASSUME NEW p, NEW q, NEW n \in 1 .. Len(p), n <= Len(q),
           \A i \in 1 .. n - 1 : q[i] = p[i], q[n] < p[n]
    PROVE  Before(q, p)
BY DEF Before

\* The next value at the end of a: what lay before or behind the decisions now
\* lies before them, and nothing else that can be asked.
LEMMA NextMove ==
    ASSUME ChoicesAssumption, TreeInv, NEW a \in Seq(Nat), NEW V \in Seq(Nat), Extends(V, a),
           Len(V) <= Len(a) + 1, a \in DOMAIN tree, NEW v \in Accepted(tree[a]),
           Len(V) = Len(a) + 1 => v > V[Len(a) + 1],
           \A w \in Accepted(tree[a]) : (Len(V) = Len(a) + 1 => w > V[Len(a) + 1]) => v <= w,
           NEW q \in Seq(Nat)
    PROVE  /\ Before(q, V) => Before(q, Append(a, v))
           /\ Len(a) < Len(V) /\ Extends(q, V) => Before(q, Append(a, v))
           /\ Path(q) /\ Before(q, Append(a, v)) =>
                Before(q, V) \/ (Len(a) < Len(V) /\ Extends(q, V))
<1>1. Accepted(tree[a]) \subseteq Nat
  BY AcceptedFacts
<1>2. v \in Nat /\ Len(a) \in Nat /\ Len(V) \in Nat /\ Len(q) \in Nat
  BY <1>1
<1>3. PICK k \in Nat : k = Len(a)
  BY <1>2
<1>4. PICK n1 : n1 = Append(a, v)
  OBVIOUS
<1>5. Len(n1) = k + 1 /\ (\A i \in 1 .. k : n1[i] = a[i]) /\ n1[k + 1] = v
  BY <1>2, <1>3, <1>4, AppendSeq
<1>6. k <= Len(V) /\ Len(V) <= k + 1 /\ \A i \in 1 .. k : V[i] = a[i]
  BY <1>3 DEF Extends
<1>7. \A i \in 1 .. k : n1[i] = V[i]
  BY <1>5, <1>6
<1>8. ASSUME Before(q, V) PROVE Before(q, n1)
  <2>1. PICK n \in 1 .. Len(V) :
           n <= Len(q) /\ (\A i \in 1 .. n - 1 : q[i] = V[i]) /\ q[n] < V[n]
    BY <1>8 DEF Before
  <2>2. \A i \in 1 .. n - 1 : q[i] = n1[i]
    BY <1>6, <1>7, <2>1
  <2>3. CASE n <= k
    <3>1. n \in 1 .. k /\ n \in 1 .. Len(n1) /\ q[n] < n1[n]
      BY <1>2, <1>3, <1>5, <1>7, <2>1, <2>3
    <3> QED BY <2>1, <2>2, <3>1, BranchesOff
  <2>4. CASE n > k
    <3>1. n = k + 1 /\ Len(V) = k + 1
      BY <1>2, <1>3, <1>6, <2>1, <2>4
    <3>2. q[n] \in Nat /\ V[n] \in Nat /\ V[n] < v
      BY <1>3, <2>1, <3>1
    <3>3. q[n] < n1[n]
      BY <1>2, <1>5, <2>1, <3>1, <3>2
    <3>4. n \in 1 .. Len(n1)
      BY <1>5, <2>1, <3>1
    <3> QED BY <2>1, <2>2, <3>3, <3>4, BranchesOff
  <2> QED BY <2>3, <2>4
<1>9. ASSUME k < Len(V), Extends(q, V) PROVE Before(q, n1)
  <2>1. Len(V) = k + 1 /\ k + 1 <= Len(q) /\ \A i \in 1 .. k + 1 : q[i] = V[i]
    BY <1>2, <1>6, <1>9 DEF Extends
  <2>2. q[k + 1] = V[k + 1] /\ V[k + 1] < v /\ k + 1 \in 1 .. Len(n1)
    <3>1. k + 1 \in 1 .. k + 1 /\ k + 1 \in 1 .. Len(n1)
      BY <1>3, <1>5
    <3>2. v > V[k + 1] /\ V[k + 1] \in Nat
      BY <1>3, <2>1, <3>1
    <3> QED BY <1>2, <2>1, <3>1, <3>2
  <2>3. \A i \in 1 .. (k + 1) - 1 : q[i] = n1[i]
    <3>1. \A i \in 1 .. (k + 1) - 1 : i \in 1 .. k /\ i \in 1 .. k + 1
      OBVIOUS
    <3> QED BY <1>7, <2>1, <3>1
  <2>4. q[k + 1] < n1[k + 1]
    BY <1>5, <2>2
  <2> QED BY <2>1, <2>2, <2>3, <2>4, BranchesOff
<1>10. ASSUME Path(q), Before(q, n1) PROVE Before(q, V) \/ (k < Len(V) /\ Extends(q, V))
  <2>1. PICK n \in 1 .. k + 1 :
           n <= Len(q) /\ (\A i \in 1 .. n - 1 : q[i] = n1[i]) /\ q[n] < n1[n]
    BY <1>5, <1>10 DEF Before
  <2>2. \A i \in 1 .. n - 1 : q[i] = V[i]
    BY <1>7, <2>1
  <2>3. CASE n <= k
    <3>1. n \in 1 .. k /\ n \in 1 .. Len(V) /\ q[n] < V[n]
      BY <1>6, <1>7, <2>1, <2>3
    <3> QED BY <2>1, <2>2, <3>1, BranchesOff
  <2>4. CASE n = k + 1
    <3>1. k <= Len(q) /\ \A i \in 1 .. k : q[i] = a[i]
      BY <1>5, <2>1, <2>4
    <3>2. Extends(q, a)
      BY <1>3, <3>1 DEF Extends
    <3>3. a = First(q, k)
      BY <1>3, <3>2, ExtendsFirst
    <3>4. q[k + 1] \in Accepted(tree[a])
      BY <1>10, <2>1, <2>4, <3>3 DEF Path
    <3>5. q[k + 1] \in Nat /\ q[k + 1] < v
      BY <1>1, <1>5, <2>1, <2>4, <3>4
    <3>6. Len(V) = k + 1 /\ ~(q[k + 1] > V[k + 1])
      BY <1>2, <1>3, <3>4, <3>5
    <3>7. V[k + 1] \in Nat
      BY <3>6
    <3>8. CASE q[k + 1] < V[k + 1]
      BY <2>1, <2>2, <2>4, <3>6, <3>8 DEF Before
    <3>9. CASE q[k + 1] = V[k + 1]
      <4>1. \A i \in 1 .. k + 1 : q[i] = V[i]
        BY <2>2, <2>4, <3>9
      <4> QED BY <2>1, <2>4, <3>6, <4>1 DEF Extends
    <3> QED BY <3>5, <3>6, <3>7, <3>8, <3>9
  <2> QED BY <2>1, <2>3, <2>4
<1> QED BY <1>3, <1>4, <1>8, <1>9, <1>10

\* No value is left behind a: what lies before or behind the decisions now lies
\* before or behind a, and nothing else that can be asked.
LEMMA BackMove ==
    ASSUME ChoicesAssumption, TreeInv, NEW a \in Seq(Nat), NEW V \in Seq(Nat), Extends(V, a),
           Len(V) <= Len(a) + 1, a \in DOMAIN tree,
           \A w \in Accepted(tree[a]) : Len(V) = Len(a) + 1 /\ w <= V[Len(a) + 1],
           NEW q \in Seq(Nat)
    PROVE  /\ Before(q, V) \/ Extends(q, V) => Before(q, a) \/ Extends(q, a)
           /\ Before(q, a) => Before(q, V)
           /\ Path(q) /\ Extends(q, a) =>
                q = a \/ Before(q, V) \/ (Len(a) < Len(V) /\ Extends(q, V))
<1>1. Accepted(tree[a]) \subseteq Nat
  BY AcceptedFacts
<1>2. Len(a) \in Nat /\ Len(V) \in Nat /\ Len(q) \in Nat
  OBVIOUS
<1>3. PICK k \in Nat : k = Len(a)
  BY <1>2
<1>4. k <= Len(V) /\ Len(V) <= k + 1 /\ \A i \in 1 .. k : V[i] = a[i]
  BY <1>3 DEF Extends
<1>5. ASSUME Before(q, V) PROVE Before(q, a) \/ Extends(q, a)
  <2>1. PICK n \in 1 .. Len(V) :
           n <= Len(q) /\ (\A i \in 1 .. n - 1 : q[i] = V[i]) /\ q[n] < V[n]
    BY <1>5 DEF Before
  <2>2. CASE n <= k
    <3>1. n \in 1 .. k /\ n \in 1 .. Len(a) /\ q[n] < a[n]
      BY <1>2, <1>3, <1>4, <2>1, <2>2
    <3>2. \A i \in 1 .. n - 1 : q[i] = a[i]
      BY <1>4, <2>1, <3>1
    <3> QED BY <2>1, <3>1, <3>2, BranchesOff
  <2>3. CASE n > k
    <3>1. n = k + 1
      BY <1>2, <1>3, <1>4, <2>1, <2>3
    <3>2. \A i \in 1 .. k : q[i] = a[i]
      <4>1. \A i \in 1 .. k : i \in 1 .. n - 1
        BY <3>1
      <4> QED BY <1>4, <2>1, <4>1
    <3>3. k <= Len(q)
      BY <1>2, <1>3, <2>1, <3>1
    <3> QED BY <1>3, <3>2, <3>3 DEF Extends
  <2> QED BY <1>2, <1>3, <2>1, <2>2, <2>3
<1>6. ASSUME Extends(q, V) PROVE Extends(q, a)
  <2>1. k <= Len(q) /\ \A i \in 1 .. k : i \in 1 .. Len(V)
    BY <1>2, <1>3, <1>4, <1>6 DEF Extends
  <2>2. \A i \in 1 .. k : q[i] = a[i]
    BY <1>4, <1>6, <2>1 DEF Extends
  <2> QED BY <1>3, <2>1, <2>2 DEF Extends
<1>7. ASSUME Before(q, a) PROVE Before(q, V)
  <2>1. PICK n \in 1 .. k :
           n <= Len(q) /\ (\A i \in 1 .. n - 1 : q[i] = a[i]) /\ q[n] < a[n]
    BY <1>3, <1>7 DEF Before
  <2>2. n \in 1 .. Len(V) /\ q[n] < V[n]
    BY <1>2, <1>4, <2>1
  <2>3. \A i \in 1 .. n - 1 : q[i] = V[i]
    <3>1. \A i \in 1 .. n - 1 : i \in 1 .. k
      BY <2>1
    <3> QED BY <1>4, <2>1, <3>1
  <2> QED BY <2>1, <2>2, <2>3, BranchesOff
<1>8. ASSUME Path(q), Extends(q, a), q # a
      PROVE  Before(q, V) \/ (k < Len(V) /\ Extends(q, V))
  <2>1. k < Len(q) /\ a = First(q, k) /\ \A i \in 1 .. k : q[i] = a[i]
    <3>1. k \in 0 .. Len(q) /\ a = First(q, k) /\ k # Len(q)
      BY <1>3, <1>8, ExtendsFirst
    <3>2. \A i \in 1 .. k : q[i] = a[i]
      BY <1>3, <1>8 DEF Extends
    <3> QED BY <1>2, <3>1, <3>2
  <2>2. q[k + 1] \in Accepted(tree[a])
    <3>1. k \in 0 .. Len(q) - 1
      BY <1>2, <1>3, <2>1
    <3> QED BY <1>8, <2>1, <3>1 DEF Path
  <2>3. Len(V) = k + 1 /\ q[k + 1] <= V[k + 1] /\ q[k + 1] \in Nat /\ V[k + 1] \in Nat
    <3>1. Len(V) = k + 1 /\ q[k + 1] <= V[k + 1]
      BY <1>3, <2>2
    <3>2. k + 1 \in 1 .. Len(V)
      BY <1>3, <3>1
    <3> QED BY <1>1, <2>2, <3>1, <3>2
  <2>4. \A i \in 1 .. k : q[i] = V[i]
    BY <1>4, <2>1
  <2>5. CASE q[k + 1] < V[k + 1]
    <3>1. k + 1 \in 1 .. Len(V)
      BY <1>3, <2>3
    <3>2. k + 1 <= Len(q)
      BY <1>2, <1>3, <2>1
    <3>3. \A i \in 1 .. (k + 1) - 1 : q[i] = V[i]
      <4>1. \A i \in 1 .. (k + 1) - 1 : i \in 1 .. k
        BY <1>3
      <4> QED BY <2>4, <4>1
    <3> QED BY <2>5, <3>1, <3>2, <3>3, BranchesOff
  <2>6. CASE q[k + 1] = V[k + 1]
    <3>1. \A i \in 1 .. k + 1 : q[i] = V[i]
      <4>1. \A i \in 1 .. k + 1 : i \in 1 .. k \/ i = k + 1
        BY <1>3
      <4> QED BY <2>4, <2>6, <4>1
    <3>2. Len(V) <= Len(q)
      BY <1>2, <1>3, <2>1, <2>3
    <3>3. k < Len(V)
      BY <1>3, <2>3
    <3> QED BY <2>3, <3>1, <3>2, <3>3 DEF Extends
  <2> QED BY <2>3, <2>5, <2>6
<1> QED BY <1>3, <1>5, <1>6, <1>7, <1>8

\* Where no program goes on, the decisions end, and so does all that can be asked.
LEMMA DeadEnd ==
    ASSUME ChoicesAssumption, TreeInv, NEW a \in DOMAIN tree, a \in Seq(Nat),
           ~Room(a) \/ tree[a] = End, NEW q, Searched(q), Extends(q, a)
    PROVE  q = a
<1>1. q \in Seq(Nat) /\ Path(q)
  BY DEF Searched, Path
<1>2. CASE tree[a] = End
  BY <1>1, <1>2, EndsThere
<1>3. CASE ~Room(a)
  <2>1. Len(a) \in 0 .. Len(q) /\ a = First(q, Len(a))
    BY <1>1, ExtendsFirst
  <2>2. CASE Len(a) < Len(q)
    <3>1. Len(a) \in 0 .. Len(q) - 1
      BY <1>1, <2>1, <2>2
    <3>2. Room(First(q, Len(a)))
      BY <3>1 DEF Searched
    <3> QED BY <1>3, <2>1, <3>2
  <2>3. CASE Len(a) = Len(q)
    BY <1>1, <2>3, ExtendsFirst
  <2> QED BY <1>1, <2>1, <2>2, <2>3
<1> QED BY <1>2, <1>3

-----------------------------------------------------------------------------
(* The decisions of some states                                            *)

\* The values of the first n states.
Values(states, n) == [i \in 1 .. n |-> states[i - 1].value]

\* They are a sequence of numbers.
LEMMA ValuesFacts ==
    ASSUME NEW states, NEW depth, States(states, depth), NEW n \in 0 .. MaxExhaustiveDepth
    PROVE  /\ Values(states, n) \in Seq(Nat) /\ Len(Values(states, n)) = n
           /\ \A i \in 1 .. n : Values(states, n)[i] = states[i - 1].value
<1>1. MaxExhaustiveDepth \in Nat /\ n \in Nat
      /\ states \in [0 .. MaxExhaustiveDepth - 1 -> [init : BOOLEAN, value : Nat]]
  BY DEF States
<1>2. \A i \in 1 .. n : states[i - 1].value \in Nat
  <2>1. \A i \in 1 .. n : i - 1 \in 0 .. MaxExhaustiveDepth - 1
    BY <1>1
  <2> QED BY <1>1, <2>1
<1>3. Values(states, n) \in [1 .. n -> Nat]
  BY <1>2 DEF Values
<1>4. \A D \in [1 .. n -> Nat] : D \in Seq(Nat) /\ Len(D) = n
  BY <1>1
<1>5. \A i \in 1 .. n : Values(states, n)[i] = states[i - 1].value
  BY DEF Values
<1> QED BY <1>3, <1>4, <1>5

\* A value is set at the end or one behind it.
LEMMA SetStates ==
    ASSUME NEW states, NEW depth, States(states, depth), NEW pos \in 0 .. MaxExhaustiveDepth - 1,
           depth <= pos, pos <= depth + 1, NEW v \in Nat
    PROVE  /\ States(Set(states, pos, v), pos)
           /\ \A i \in 0 .. pos - 1 : Set(states, pos, v)[i] = states[i]
           /\ Set(states, pos, v)[pos].value = v
<1>1. MaxExhaustiveDepth \in Nat \ {0} /\ depth \in -1 .. MaxExhaustiveDepth - 1
      /\ states \in [0 .. MaxExhaustiveDepth - 1 -> [init : BOOLEAN, value : Nat]]
      /\ \A i \in 0 .. MaxExhaustiveDepth - 1 : states[i].init <=> i <= depth
  BY DEF States
<1>2. PICK x : x = [init |-> TRUE, value |-> v]
  OBVIOUS
<1>3. x \in [init : BOOLEAN, value : Nat] /\ x.init /\ x.value = v
  BY <1>2
<1>4. PICK t : t = [states EXCEPT ![pos] = x]
  OBVIOUS
<1>5. t \in [0 .. MaxExhaustiveDepth - 1 -> [init : BOOLEAN, value : Nat]]
  BY <1>1, <1>3, <1>4
<1>6. t[pos] = x /\ \A i \in 0 .. MaxExhaustiveDepth - 1 : i # pos => t[i] = states[i]
  BY <1>1, <1>4
<1>7. \A i \in 0 .. MaxExhaustiveDepth - 1 : t[i].init <=> i <= pos
  <2>1. ASSUME NEW i \in 0 .. MaxExhaustiveDepth - 1 PROVE t[i].init <=> i <= pos
    <3>1. CASE i = pos
      BY <1>1, <1>3, <1>6, <3>1
    <3>2. CASE i # pos
      <4>1. i <= depth <=> i <= pos
        BY <1>1, <3>2
      <4> QED BY <1>1, <1>6, <3>2, <4>1
    <3> QED BY <3>1, <3>2
  <2> QED BY <2>1
<1>8. \A i \in 0 .. pos - 1 : i \in 0 .. MaxExhaustiveDepth - 1 /\ i # pos
  BY <1>1
<1>9. pos \in -1 .. MaxExhaustiveDepth - 1
  BY <1>1
<1>10. Set(states, pos, v) = t
  BY <1>2, <1>4 DEF Set
<1>11. States(t, pos)
  BY <1>1, <1>5, <1>7, <1>9 DEF States
<1> QED BY <1>3, <1>6, <1>8, <1>10, <1>11

\* The states from n on are given up.
LEMMA UninitStates ==
    ASSUME NEW states, NEW depth, States(states, depth), NEW n \in 0 .. depth + 1
    PROVE  /\ States(Uninit(states, n), n - 1)
           /\ \A i \in 0 .. n - 1 : Uninit(states, n)[i] = states[i]
<1>1. MaxExhaustiveDepth \in Nat \ {0} /\ depth \in -1 .. MaxExhaustiveDepth - 1
      /\ states \in [0 .. MaxExhaustiveDepth - 1 -> [init : BOOLEAN, value : Nat]]
      /\ \A i \in 0 .. MaxExhaustiveDepth - 1 : states[i].init <=> i <= depth
  BY DEF States
<1>2. PICK t : t = Uninit(states, n)
  OBVIOUS
<1>3. DOMAIN states = 0 .. MaxExhaustiveDepth - 1
  BY <1>1
<1>4. t = [i \in 0 .. MaxExhaustiveDepth - 1 |->
             IF i >= n THEN [states[i] EXCEPT !.init = FALSE] ELSE states[i]]
  BY <1>2, <1>3 DEF Uninit
<1>5. ASSUME NEW i \in 0 .. MaxExhaustiveDepth - 1
      PROVE  t[i] \in [init : BOOLEAN, value : Nat] /\ (t[i].init <=> i <= n - 1)
             /\ (i < n => t[i] = states[i])
  <2>1. CASE i >= n
    <3>1. t[i] = [states[i] EXCEPT !.init = FALSE]
      BY <1>4, <2>1
    <3>2. ~(i <= n - 1) /\ ~(i < n)
      BY <1>1, <2>1
    <3>3. PICK x \in [init : BOOLEAN, value : Nat] : x = states[i]
      BY <1>1
    <3>4. t[i] = [x EXCEPT !.init = FALSE]
      BY <3>1, <3>3
    <3>5. t[i] \in [init : BOOLEAN, value : Nat] /\ ~t[i].init
      BY <3>4
    <3> QED BY <3>2, <3>5
  <2>2. CASE i < n
    <3>1. t[i] = states[i]
      BY <1>1, <1>4, <2>2
    <3>2. i <= n - 1 /\ i <= depth
      BY <1>1, <2>2
    <3> QED BY <1>1, <3>1, <3>2
  <2> QED BY <1>1, <2>1, <2>2
<1>6. t \in [0 .. MaxExhaustiveDepth - 1 -> [init : BOOLEAN, value : Nat]]
  BY <1>4, <1>5
<1>7. n - 1 \in -1 .. MaxExhaustiveDepth - 1
  BY <1>1
<1>8. States(t, n - 1)
  BY <1>1, <1>5, <1>6, <1>7 DEF States
<1>9. \A i \in 0 .. n - 1 : i \in 0 .. MaxExhaustiveDepth - 1 /\ i < n
  BY <1>1
<1> QED BY <1>2, <1>5, <1>8, <1>9

\* Decisions with the answers of a sequence are that sequence.
LEMMA SameValues ==
    ASSUME NEW states, NEW depth, States(states, depth), NEW a \in Seq(Nat),
           NEW n \in 0 .. MaxExhaustiveDepth, n = Len(a),
           \A i \in 1 .. n : states[i - 1].value = a[i]
    PROVE  Values(states, n) = a
<1>1. PICK p : p = Values(states, n)
  OBVIOUS
<1>2. p \in Seq(Nat) /\ Len(p) = n /\ \A i \in 1 .. n : p[i] = states[i - 1].value
  BY <1>1, ValuesFacts
<1> QED BY <1>1, <1>2, SameSeq

-----------------------------------------------------------------------------
(* A step of the search                                                    *)

\* The generator and its decisions, where a program is made.
LEMMA SearchState ==
    ASSUME ChoicesAssumption, TreeInv, SearchInv, mode = "dfs"
    PROVE  /\ States(dfs.states, dfs.decision_depth)
           /\ dfs.current_pos = Len(answers) - 1 /\ Len(answers) \in 0 .. dfs.decision_depth + 1
           /\ dfs = [states |-> dfs.states, decision_depth |-> dfs.decision_depth,
                     current_pos |-> dfs.current_pos, all_done |-> FALSE, error |-> FALSE]
           /\ Decided = Values(dfs.states, dfs.decision_depth + 1)
           /\ Decided \in Seq(Nat) /\ Len(Decided) = dfs.decision_depth + 1
           /\ answers \in Seq(Nat) /\ Path(answers) /\ Extends(Decided, answers)
           /\ Searched(Decided)
<1>1. StatesInv /\ PlaceInv /\ Searched(Decided)
  BY DEF SearchInv
<1>2. Decided \in Seq(Nat) /\ Len(Decided) = dfs.decision_depth + 1
  BY <1>1, DecidedFacts
<1>3. answers \in Seq(Nat) /\ Path(answers)
  BY DEF TreeInv, Path
<1>4. dfs.current_pos = Len(answers) - 1 /\ Extends(Decided, answers) /\ dfs.all_done = FALSE
  BY <1>1 DEF PlaceInv, StatesInv
<1>5. States(dfs.states, dfs.decision_depth)
  BY <1>1 DEF StatesInv, States, ChoicesAssumption
<1>6. Len(answers) \in 0 .. dfs.decision_depth + 1
  BY <1>2, <1>3, <1>4 DEF Extends
<1>7. dfs = [states |-> dfs.states, decision_depth |-> dfs.decision_depth,
             current_pos |-> dfs.current_pos, all_done |-> FALSE, error |-> FALSE]
  BY <1>1, <1>4 DEF StatesInv
<1>8. Decided = Values(dfs.states, dfs.decision_depth + 1)
  BY DEF Decided, Values
<1> QED BY <1>1, <1>2, <1>3, <1>4, <1>5, <1>6, <1>7, <1>8

\* What a step leaves of the generator.
LEMMA StatesMade ==
    ASSUME ChoicesAssumption, NEW states, NEW depth, NEW pos \in -1 .. depth, NEW done \in BOOLEAN,
           States(states, depth), dfs' = Generator(states, depth, pos, done, FALSE)
    PROVE  /\ StatesInv' /\ Decided' = Values(states, depth + 1)
           /\ dfs'.current_pos = pos /\ dfs'.all_done = done /\ dfs'.decision_depth = depth
<1>1. /\ dfs'.states = states /\ dfs'.decision_depth = depth /\ dfs'.current_pos = pos
      /\ dfs'.all_done = done /\ dfs'.error = FALSE
      /\ dfs' = [states |-> dfs'.states, decision_depth |-> dfs'.decision_depth,
                 current_pos |-> dfs'.current_pos, all_done |-> dfs'.all_done, error |-> FALSE]
  BY DEF Generator
<1>2. Decided' = Values(states, depth + 1)
  BY <1>1 DEF Decided, Values
<1>3. StatesInv'
  BY <1>1 DEF StatesInv, States
<1> QED BY <1>1, <1>2, <1>3

\* A choice repeats a decision, decides for the next value, goes back, or ends
\* where no program goes on.
LEMMA ChoiceStep ==
    ASSUME ChoicesAssumption, TreeInv, SearchInv, mode = "dfs", ChooseDFS,
           NEW a, NEW V, a = answers, V = Decided
    PROVE  /\ StatesInv' /\ a \in DOMAIN tree /\ tree[a] # End
           /\ \/ /\ Len(a) + 1 < Len(V) /\ Decided' = V /\ dfs'.current_pos = Len(a)
                 /\ ~dfs'.all_done /\ mode' = "dfs" /\ answers' = Append(a, V[Len(a) + 1])
              \/ \E v \in Accepted(tree[a]) :
                 /\ Len(V) <= Len(a) + 1 /\ Room(a)
                 /\ Len(V) = Len(a) + 1 => v > V[Len(a) + 1]
                 /\ \A w \in Accepted(tree[a]) :
                       (Len(V) = Len(a) + 1 => w > V[Len(a) + 1]) => v <= w
                 /\ Decided' = Append(a, v) /\ dfs'.current_pos = Len(a)
                 /\ ~dfs'.all_done /\ mode' = "dfs" /\ answers' = Append(a, v)
              \/ /\ Len(V) <= Len(a) + 1 /\ Room(a)
                 /\ \A w \in Accepted(tree[a]) : Len(V) = Len(a) + 1 /\ w <= V[Len(a) + 1]
                 /\ Decided' = a /\ dfs'.current_pos = -1 /\ (dfs'.all_done <=> Len(a) = 0)
                 /\ mode' = "none" /\ answers' = <<>>
              \/ /\ ~Room(a)
                 /\ Decided' = a /\ dfs'.current_pos = -1 /\ ~dfs'.all_done
                 /\ mode' = "none" /\ answers' = <<>>
<1>1. PICK g : g = dfs
  OBVIOUS
<1>2. PICK states, depth, place :
         states = dfs.states /\ depth = dfs.decision_depth /\ place = dfs.current_pos
  OBVIOUS
<1>3. PICK r : r = tree[a]
  OBVIOUS
<1>4. PICK k : k = Len(a)
  OBVIOUS
<1>5. /\ States(states, depth) /\ place = k - 1 /\ k \in 0 .. depth + 1
      /\ g = Generator(states, depth, place, FALSE, FALSE)
      /\ V = Values(states, depth + 1) /\ V \in Seq(Nat) /\ Len(V) = depth + 1
      /\ a \in Seq(Nat) /\ Extends(V, a) /\ Searched(V)
  BY <1>1, <1>2, <1>4, SearchState DEF Generator
<1>6. MaxExhaustiveDepth \in Nat \ {0} /\ depth \in -1 .. MaxExhaustiveDepth - 1 /\ k \in Nat
      /\ k <= Len(V)
  BY <1>5 DEF States
<1>7. a \in DOMAIN tree /\ r # End /\ Asked = r
  BY <1>3 DEF ChooseDFS, Asking, Asked
<1>8. Accepted(r) \subseteq Nat /\ r.bound \in Nat /\ \A v \in Accepted(r) : v < r.bound
  BY <1>3, <1>7, AcceptedFacts
<1>9. \A i \in 1 .. k : V[i] = a[i]
  BY <1>4, <1>5 DEF Extends
<1>10. \A i \in 1 .. depth + 1 : V[i] = states[i - 1].value
  BY <1>5, <1>6, ValuesFacts
<1>11. Room(a) <=> k < MaxExhaustiveDepth /\ ~(k > 1 /\ MaxExhaustiveDepth - k + 1 < r.need)
  BY <1>3, <1>4 DEF Room
<1>12. EagerBacktracking(g, r.need) <=> k > 1 /\ MaxExhaustiveDepth - k + 1 < r.need
  <2>1. g.current_pos = k - 1
    BY <1>1, <1>2, <1>5
  <2>2. MaxExhaustiveDepth - (k - 1) = MaxExhaustiveDepth - k + 1 /\ (k - 1 > 0 <=> k > 1)
    BY <1>6
  <2> QED BY <2>1, <2>2 DEF EagerBacktracking
<1>13. PICK result : result = RandomChoice(g, r)
  OBVIOUS
<1>13a. Choice(result, r, states, depth, k)
  <2>1. place \in -1 .. depth /\ k = place + 1
    BY <1>5, <1>6
  <2> QED BY <1>5, <1>8, <1>13, <2>1, ChoiceResult
<1>14. IF EagerBacktracking(g, r.need) THEN Fail(Eager(g))
       ELSE IF result.d.error THEN Fail(result.d)
       ELSE dfs' = result.d /\ answers' = Append(a, result.value) /\ UNCHANGED mode
  BY <1>1, <1>7, <1>13 DEF ChooseDFS
<1>15. CASE EagerBacktracking(g, r.need)
  <2>1. PICK h : h = Eager(g)
    OBVIOUS
  <2>2. PICK t : t = Uninit(states, place + 1)
    OBVIOUS
  <2>3. g.current_pos = place /\ g.decision_depth = depth /\ g.states = states
        /\ ~(place > depth)
    BY <1>5, <1>6 DEF Generator
  <2>4. h = [g EXCEPT !.decision_depth = place, !.states = t, !.error = TRUE]
    BY <2>1, <2>2, <2>3 DEF Eager
  <2>5. h = [states |-> t, decision_depth |-> place, current_pos |-> place, all_done |-> FALSE,
             error |-> TRUE]
    BY <1>5, <2>4 DEF Generator
  <2>6. PICK f : f = Restart(h)
    OBVIOUS
  <2>7. f = Generator(t, place, -1, FALSE, FALSE)
    BY <2>5, <2>6 DEF Restart, Generator
  <2>8. FALSE \in BOOLEAN
    OBVIOUS
  <2>9. dfs' = f /\ mode' = "none" /\ answers' = <<>>
    BY <1>14, <1>15, <2>1, <2>6 DEF Fail
  <2>10. place + 1 = k /\ k - 1 = place /\ -1 \in -1 .. place
    BY <1>5, <1>6
  <2>11. States(t, place) /\ \A i \in 0 .. k - 1 : t[i] = states[i]
    BY <1>5, <2>2, <2>10, UninitStates
  <2>12. StatesInv' /\ Decided' = Values(t, k) /\ dfs'.current_pos = -1 /\ dfs'.all_done = FALSE
    BY <2>7, <2>8, <2>9, <2>10, <2>11, StatesMade
  <2>13. Values(t, k) = a
    <3>1. k \in 0 .. MaxExhaustiveDepth
      BY <1>5, <1>6
    <3>2. \A i \in 1 .. k : t[i - 1].value = a[i]
      <4>1. \A i \in 1 .. k : i - 1 \in 0 .. k - 1 /\ i \in 1 .. depth + 1
        BY <1>5, <1>6
      <4> QED BY <1>9, <1>10, <2>11, <4>1
    <3> QED BY <1>4, <1>5, <2>11, <3>1, <3>2, SameValues
  <2>14. ~Room(a)
    BY <1>11, <1>12, <1>15
  <2> QED BY <1>3, <1>7, <2>9, <2>12, <2>13, <2>14
<1>16. CASE ~EagerBacktracking(g, r.need) /\ k >= MaxExhaustiveDepth
  <2>1. result.d = Generator(states, depth, k, FALSE, TRUE)
    BY <1>16, <1>13a DEF Choice
  <2>2. result.d = [states |-> states, decision_depth |-> depth, current_pos |-> k,
                    all_done |-> FALSE, error |-> TRUE]
    BY <2>1 DEF Generator
  <2>3. PICK h : h = result.d
    OBVIOUS
  <2>4. PICK f : f = Restart(h)
    OBVIOUS
  <2>5. f = Generator(states, depth, -1, FALSE, FALSE)
    <3>1. f = [h EXCEPT !.current_pos = -1, !.error = FALSE]
      BY <2>4 DEF Restart
    <3>2. h = [states |-> states, decision_depth |-> depth, current_pos |-> k,
               all_done |-> FALSE, error |-> TRUE]
      BY <2>2, <2>3
    <3> QED BY <3>1, <3>2 DEF Generator
  <2>20. h.error
    BY <2>2, <2>3
  <2>6. dfs' = f /\ mode' = "none" /\ answers' = <<>>
    BY <1>14, <1>16, <2>3, <2>4, <2>20 DEF Fail
  <2>7. -1 \in -1 .. depth /\ FALSE \in BOOLEAN /\ depth + 1 = k
    BY <1>5, <1>6, <1>16
  <2>8. StatesInv' /\ Decided' = V /\ dfs'.current_pos = -1 /\ dfs'.all_done = FALSE
    BY <1>5, <2>5, <2>6, <2>7, StatesMade
  <2>9. V = a
    BY <1>4, <1>5, <2>7, ExtendsFirst
  <2>10. ~Room(a)
    BY <1>6, <1>11, <1>16
  <2> QED BY <1>3, <1>7, <2>6, <2>8, <2>9, <2>10
<1>17. CASE ~EagerBacktracking(g, r.need) /\ k < depth
  <2>1. result = [d |-> Generator(states, depth, k, FALSE, FALSE), value |-> states[k].value]
    BY <1>17, <1>13a DEF Choice
  <2>2. PICK h, x : h = Generator(states, depth, k, FALSE, FALSE) /\ x = states[k].value
    OBVIOUS
  <2>3. result = [d |-> h, value |-> x]
    BY <2>1, <2>2
  <2>4. result.d = h /\ result.value = x /\ ~h.error
    BY <2>2, <2>3 DEF Generator
  <2>5. dfs' = h /\ answers' = Append(a, x) /\ mode' = "dfs"
    BY <1>14, <1>17, <2>4
  <2>6. k \in -1 .. depth /\ FALSE \in BOOLEAN /\ k + 1 < Len(V) /\ k + 1 \in 1 .. depth + 1
    BY <1>5, <1>6, <1>17
  <2>7. StatesInv' /\ Decided' = V /\ dfs'.current_pos = k /\ dfs'.all_done = FALSE
    BY <1>5, <2>2, <2>5, <2>6, StatesMade
  <2>8. x = V[k + 1]
    <3>1. V[k + 1] = states[(k + 1) - 1].value /\ (k + 1) - 1 = k
      BY <1>6, <1>10, <2>6
    <3> QED BY <2>2, <3>1
  <2> QED BY <1>3, <1>4, <1>7, <2>5, <2>6, <2>7, <2>8
<1>18. CASE ~EagerBacktracking(g, r.need) /\ k < MaxExhaustiveDepth /\ k >= depth
  <2>1. depth <= k /\ k \in 0 .. MaxExhaustiveDepth - 1 /\ k <= depth + 1
        /\ Len(V) <= k + 1 /\ (k = depth <=> Len(V) = k + 1)
    BY <1>5, <1>6, <1>18
  <2>2. Room(a)
    BY <1>11, <1>12, <1>18
  <2>3. k = depth => V[k + 1] = states[k].value
    <3>1. k = depth => V[k + 1] = states[(k + 1) - 1].value /\ (k + 1) - 1 = k
      BY <1>6, <1>10, <2>1
    <3> QED BY <3>1
  <2>4. \A i \in 1 .. k : states[i - 1].value = a[i]
    <3>1. \A i \in 1 .. k : i \in 1 .. depth + 1
      BY <1>5, <1>6
    <3> QED BY <1>9, <1>10, <3>1
  <2>5. ASSUME NEW v, NextValue(r, states, depth, k, v),
               result = [d |-> Generator(Set(states, k, v), k, k, FALSE, FALSE), value |-> v]
        PROVE  /\ StatesInv' /\ v \in Accepted(r)
               /\ Len(V) = k + 1 => v > V[k + 1]
               /\ \A w \in Accepted(r) : (Len(V) = k + 1 => w > V[k + 1]) => v <= w
               /\ Decided' = Append(a, v) /\ dfs'.current_pos = k
               /\ ~dfs'.all_done /\ mode' = "dfs" /\ answers' = Append(a, v)
    <3>1. v \in Nat /\ v \in Accepted(r)
      BY <1>8, <2>5 DEF NextValue
    <3>2. PICK t : t = Set(states, k, v)
      OBVIOUS
    <3>3. /\ States(t, k) /\ t[k].value = v
          /\ \A i \in 0 .. k - 1 : t[i] = states[i]
      <4>1. /\ States(Set(states, k, v), k) /\ Set(states, k, v)[k].value = v
            /\ \A i \in 0 .. k - 1 : Set(states, k, v)[i] = states[i]
        BY <1>5, <2>1, <3>1, SetStates
      <4> QED BY <3>2, <4>1
    <3>4. PICK h : h = Generator(t, k, k, FALSE, FALSE)
      OBVIOUS
    <3>5. result = [d |-> h, value |-> v]
      BY <2>5, <3>2, <3>4
    <3>6. result.d = h /\ result.value = v /\ ~h.error
      BY <3>4, <3>5 DEF Generator
    <3>7. dfs' = h /\ answers' = Append(a, v) /\ mode' = "dfs"
      BY <1>14, <1>18, <3>6
    <3>8. k \in -1 .. k /\ FALSE \in BOOLEAN
      BY <1>6
    <3>9. StatesInv' /\ Decided' = Values(t, k + 1) /\ dfs'.current_pos = k /\ dfs'.all_done = FALSE
      BY <3>3, <3>4, <3>7, <3>8, StatesMade
    <3>10. PICK n1 : n1 = Append(a, v)
      OBVIOUS
    <3>11. n1 \in Seq(Nat) /\ Len(n1) = k + 1 /\ n1[k + 1] = v /\ \A i \in 1 .. k : n1[i] = a[i]
      BY <1>4, <1>5, <3>1, <3>10, AppendSeq
    <3>12. \A i \in 1 .. k + 1 : t[i - 1].value = n1[i]
      <4>1. ASSUME NEW i \in 1 .. k PROVE t[i - 1].value = n1[i]
        <5>1. i - 1 \in 0 .. k - 1
          BY <1>6
        <5> QED BY <2>4, <3>3, <3>11, <5>1
      <4>2. t[(k + 1) - 1].value = n1[k + 1]
        <5>1. (k + 1) - 1 = k
          BY <1>6
        <5> QED BY <3>3, <3>11, <5>1
      <4>3. \A i \in 1 .. k + 1 : i \in 1 .. k \/ i = k + 1
        BY <1>6
      <4> QED BY <4>1, <4>2, <4>3
    <3>13. k + 1 \in 0 .. MaxExhaustiveDepth
      BY <1>6, <2>1
    <3>14. Values(t, k + 1) = n1
      BY <3>3, <3>11, <3>12, <3>13, SameValues
    <3>15. Len(V) = k + 1 => v > V[k + 1]
      BY <2>1, <2>3, <2>5 DEF NextValue
    <3>16. \A w \in Accepted(r) : (Len(V) = k + 1 => w > V[k + 1]) => v <= w
      BY <2>1, <2>3, <2>5 DEF NextValue
    <3> QED BY <3>1, <3>7, <3>9, <3>10, <3>14, <3>15, <3>16
  <2>6. ASSUME NoValue(r, states, depth, k), NEW v \in Nat, NEW done \in BOOLEAN, done <=> k = 0,
               result.d = [states |-> Uninit(Set(states, k, v), k), decision_depth |-> k - 1,
                           current_pos |-> k, all_done |-> done, error |-> TRUE]
        PROVE  /\ StatesInv'
               /\ \A w \in Accepted(r) : Len(V) = k + 1 /\ w <= V[k + 1]
               /\ Decided' = a /\ dfs'.current_pos = -1 /\ (dfs'.all_done <=> k = 0)
               /\ mode' = "none" /\ answers' = <<>>
    <3>1. PICK t, u : t = Set(states, k, v) /\ u = Uninit(t, k)
      OBVIOUS
    <3>2. /\ States(t, k) /\ \A i \in 0 .. k - 1 : t[i] = states[i]
      BY <1>5, <2>1, <3>1, SetStates
    <3>3. k \in 0 .. k + 1 /\ k \in 0 .. MaxExhaustiveDepth /\ -1 \in -1 .. k - 1 /\ (k - 1) + 1 = k
      BY <1>6, <2>1
    <3>4. States(u, k - 1) /\ \A i \in 0 .. k - 1 : u[i] = t[i]
      BY <3>1, <3>2, <3>3, UninitStates
    <3>5. PICK h : h = result.d
      OBVIOUS
    <3>6. h = [states |-> u, decision_depth |-> k - 1, current_pos |-> k, all_done |-> done,
               error |-> TRUE]
      BY <2>6, <3>1, <3>5
    <3>7. PICK f : f = Restart(h)
      OBVIOUS
    <3>8. f = Generator(u, k - 1, -1, done, FALSE)
      <4>1. f = [h EXCEPT !.current_pos = -1, !.error = FALSE]
        BY <3>7 DEF Restart
      <4> QED BY <3>6, <4>1 DEF Generator
    <3>9. h.error
      BY <3>6
    <3>10. dfs' = f /\ mode' = "none" /\ answers' = <<>>
      BY <1>14, <1>18, <3>5, <3>7, <3>9 DEF Fail
    <3>11. StatesInv' /\ Decided' = Values(u, (k - 1) + 1) /\ dfs'.current_pos = -1
           /\ dfs'.all_done = done
      BY <2>6, <3>3, <3>4, <3>8, <3>10, StatesMade
    <3>12. \A i \in 1 .. k : u[i - 1].value = a[i]
      <4>1. \A i \in 1 .. k : i - 1 \in 0 .. k - 1
        BY <1>6
      <4> QED BY <2>4, <3>2, <3>4, <4>1
    <3>13. Values(u, k) = a
      BY <1>4, <1>5, <3>3, <3>4, <3>12, SameValues
    <3>14. \A w \in Accepted(r) : Len(V) = k + 1 /\ w <= V[k + 1]
      BY <2>1, <2>3, <2>6 DEF NoValue
    <3> QED BY <2>6, <3>3, <3>10, <3>11, <3>13, <3>14
  <2>7. CASE \E v : /\ NextValue(r, states, depth, k, v)
                   /\ result = [d |-> Generator(Set(states, k, v), k, k, FALSE, FALSE), value |-> v]
    <3>1. PICK v : /\ NextValue(r, states, depth, k, v)
                   /\ result = [d |-> Generator(Set(states, k, v), k, k, FALSE, FALSE), value |-> v]
      BY <2>7
    <3>2. /\ StatesInv' /\ v \in Accepted(r)
          /\ Len(V) = k + 1 => v > V[k + 1]
          /\ \A w \in Accepted(r) : (Len(V) = k + 1 => w > V[k + 1]) => v <= w
          /\ Decided' = Append(a, v) /\ dfs'.current_pos = k
          /\ ~dfs'.all_done /\ mode' = "dfs" /\ answers' = Append(a, v)
      BY <2>5, <3>1
    <3> QED BY <1>3, <1>4, <1>7, <2>1, <2>2, <3>2
  <2>8. CASE /\ NoValue(r, states, depth, k)
             /\ \E v \in Nat :
                   /\ k = 0 => result.d =
                        Generator(Uninit(Set(states, k, v), k), k - 1, k, TRUE, TRUE)
                   /\ k # 0 => result.d =
                        Generator(Uninit(Set(states, k, v), k), k - 1, k, FALSE, TRUE)
    <3>1. PICK v \in Nat :
                   /\ k = 0 => result.d =
                        Generator(Uninit(Set(states, k, v), k), k - 1, k, TRUE, TRUE)
                   /\ k # 0 => result.d =
                        Generator(Uninit(Set(states, k, v), k), k - 1, k, FALSE, TRUE)
      BY <2>8
    <3>2. PICK done \in BOOLEAN : done = (k = 0)
      OBVIOUS
    <3>3. result.d = [states |-> Uninit(Set(states, k, v), k), decision_depth |-> k - 1,
                      current_pos |-> k, all_done |-> done, error |-> TRUE]
      <4>1. CASE k = 0
        BY <3>1, <3>2, <4>1 DEF Generator
      <4>2. CASE k # 0
        BY <3>1, <3>2, <4>2 DEF Generator
      <4> QED BY <4>1, <4>2
    <3>4. /\ StatesInv'
          /\ \A w \in Accepted(r) : Len(V) = k + 1 /\ w <= V[k + 1]
          /\ Decided' = a /\ dfs'.current_pos = -1 /\ (dfs'.all_done <=> k = 0)
          /\ mode' = "none" /\ answers' = <<>>
      BY <2>6, <2>8, <3>2, <3>3
    <3> QED BY <1>3, <1>4, <1>7, <2>1, <2>2, <3>4
  <2> QED BY <1>18, <1>13a, <2>7, <2>8 DEF Choice
<1> QED BY <1>6, <1>15, <1>16, <1>17, <1>18

\* Where the search has been, in terms of the decisions.
LEMMA PassedFacts ==
    ASSUME ChoicesAssumption, StatesInv, NEW V, V = Decided, NEW n, n = dfs.current_pos, NEW q
    PROVE  Passed(q) <=> dfs.all_done \/ Before(q, V) \/ (n < Len(V) - 1 /\ Extends(q, V))
<1>1. Len(V) - 1 = dfs.decision_depth
  BY DecidedFacts
<1> QED BY <1>1 DEF Passed

\* The same of the state after a step.
LEMMA PassedNext ==
    ASSUME ChoicesAssumption, StatesInv', NEW V, V = Decided', NEW n, n = dfs'.current_pos, NEW q
    PROVE  /\ Passed(q)' <=> dfs'.all_done \/ Before(q, V) \/ (n < Len(V) - 1 /\ Extends(q, V))
           /\ V \in Seq(Nat) /\ Len(V) - 1 = dfs'.decision_depth
<1>1. PICK k : k = dfs'.decision_depth + 1
  OBVIOUS
<1>2. k \in Nat /\ k = dfs'.decision_depth + 1 /\ dfs'.decision_depth = k - 1
      /\ k <= MaxExhaustiveDepth /\ MaxExhaustiveDepth \in Nat
  BY <1>1 DEF StatesInv, ChoicesAssumption
<1>3. V = [i \in 1 .. k |-> dfs'.states[i - 1].value]
  BY <1>1 DEF Decided
<1>4. \A i \in 1 .. k : dfs'.states[i - 1].value \in Nat
  <2>1. \A i \in 1 .. k : i - 1 \in 0 .. MaxExhaustiveDepth - 1
    BY <1>2
  <2> QED BY <2>1 DEF StatesInv
<1>5. V \in [1 .. k -> Nat]
  BY <1>3, <1>4
<1>6. V \in Seq(Nat) /\ Len(V) = k
  BY <1>2, <1>5
<1>7. Len(V) - 1 = dfs'.decision_depth
  BY <1>2, <1>6
<1> QED BY <1>6, <1>7 DEF Passed

\* With the same tree the same can be asked.
LEMMA SameSearched ==
    ASSUME tree' = tree, NEW q
    PROVE  Path(q)' = Path(q) /\ Searched(q)' = Searched(q) /\ Room(q)' = Room(q)
BY DEF Path, Searched, Room, First

\* What a step of the search has to keep.
LEMMA SearchStep ==
    ASSUME ChoicesAssumption, SearchInv, tree' = tree, delta' = delta,
           StatesInv', PlaceInv', PrintedInv', NEW V, V = Decided', Searched(V),
           \A q \in Seq(Nat) : Searched(q) /\ Passed(q)' => Passed(q) \/ q \in DOMAIN tree
    PROVE  SearchInv'
<1>1. \A q : Searched(q)' = Searched(q)
  BY SameSearched
<1>2. Complete'
  <2>1. ASSUME NEW q, Searched(q)', Passed(q)' PROVE q \in DOMAIN tree
    <3>1. Searched(q) /\ q \in Seq(Nat)
      BY <1>1, <2>1 DEF Searched, Path
    <3>2. Passed(q) \/ q \in DOMAIN tree
      BY <2>1, <3>1
    <3> QED BY <3>1, <3>2 DEF SearchInv, Complete
  <2> QED BY <2>1 DEF Complete
<1>3. Searched(Decided)'
  <2>1. Searched(V)'
    BY <1>1
  <2> QED BY <2>1
<1>4. \A p \in DOMAIN tree' : Searched(p)'
  BY <1>1 DEF SearchInv
<1> QED BY <1>2, <1>3, <1>4 DEF SearchInv

\* The programs that were printed are still behind.
LEMMA PrintedKept ==
    ASSUME TreeInv, SearchInv, tree' = tree, programs' = programs,
           mode = "dfs" => answers \notin DOMAIN tree \/ tree[answers] # End,
           \A q \in Seq(Nat) : Passed(q) => Passed(q)'
    PROVE  PrintedInv'
<1>1. PrintedInv
  BY DEF SearchInv
<1>2. ASSUME NEW p \in DOMAIN tree', tree'[p] = End
      PROVE  (mode' = "dfs" /\ p = answers') \/ \E i \in DOMAIN programs' : programs'[i] = p
  BY <1>1, <1>2 DEF PrintedInv
<1>3. ASSUME NEW i \in DOMAIN programs' PROVE Passed(programs[i])'
  <2>1. PICK q : q = programs[i]
    OBVIOUS
  <2>2. q \in Seq(Nat) /\ Passed(q)
    BY <1>1, <2>1 DEF PrintedInv, TreeInv
  <2>3. Passed(q)'
    BY <2>2
  <2>4. q = programs'[i]
    BY <2>1
  <2> QED BY <2>3, <2>4
<1>4. \A i, j \in DOMAIN programs' : i # j => programs'[i] # programs'[j]
  BY <1>1 DEF PrintedInv
<1> QED BY <1>2, <1>3, <1>4 DEF PrintedInv

\* An answer of the search.
LEMMA SearchChoice ==
    ASSUME ChoicesAssumption, TreeInv, SearchInv, mode = "dfs", ChooseDFS
    PROVE  TreeInv' /\ SearchInv'
<1>1. PICK a, V, V2, n2 : a = answers /\ V = Decided /\ V2 = Decided' /\ n2 = dfs'.current_pos
  OBVIOUS
<1>2. PICK k : k = Len(a)
  OBVIOUS
<1>3. /\ a \in Seq(Nat) /\ Path(a) /\ V \in Seq(Nat) /\ Extends(V, a) /\ Searched(V)
      /\ dfs.current_pos = k - 1 /\ k \in Nat /\ k <= Len(V) /\ Len(V) <= MaxExhaustiveDepth
      /\ dfs.decision_depth = Len(V) - 1
  <2>1. /\ a \in Seq(Nat) /\ Path(a) /\ V \in Seq(Nat) /\ Extends(V, a) /\ Searched(V)
        /\ dfs.current_pos = k - 1
    BY <1>1, <1>2, SearchState
  <2>2. k \in Nat /\ k <= Len(V)
    BY <1>2, <2>1 DEF Extends
  <2>3. Len(V) <= MaxExhaustiveDepth
    BY <2>1 DEF Searched, Path
  <2>4. Len(V) = dfs.decision_depth + 1 /\ dfs.decision_depth \in Int
    BY <1>1, DecidedFacts DEF SearchInv
  <2> QED BY <2>1, <2>2, <2>3, <2>4
<1>4. /\ tree' = tree /\ programs' = programs /\ delta' = delta
      /\ dfs.all_done = FALSE /\ StatesInv
      /\ \A q \in Seq(Nat) : q \in DOMAIN tree => q \in DOMAIN tree'
  BY DEF ChooseDFS, SearchInv, PlaceInv, StatesInv
<1>5. StatesInv' /\ a \in DOMAIN tree /\ tree[a] # End
  BY <1>1, ChoiceStep
<1>6. Searched(a)
  BY <1>5, <1>4 DEF SearchInv
<1>7. \A q : Passed(q) <=> Before(q, V) \/ (k < Len(V) /\ Extends(q, V))
  <2>1. ASSUME NEW q PROVE Passed(q) <=> Before(q, V) \/ (k < Len(V) /\ Extends(q, V))
    <3>1. PICK n : n = dfs.current_pos
      OBVIOUS
    <3>2. Passed(q) <=> dfs.all_done \/ Before(q, V) \/ (n < Len(V) - 1 /\ Extends(q, V))
      BY <1>1, <1>4, <3>1, PassedFacts
    <3>3. n < Len(V) - 1 <=> k < Len(V)
      BY <1>3, <3>1
    <3> QED BY <1>4, <3>2, <3>3
  <2> QED BY <2>1
<1>8. \A q : Passed(q)' <=> dfs'.all_done \/ Before(q, V2) \/ (n2 < Len(V2) - 1 /\ Extends(q, V2))
  BY <1>1, <1>5, PassedNext
<1>9. V2 \in Seq(Nat) /\ dfs'.decision_depth = Len(V2) - 1
  BY <1>1, <1>5, PassedNext
<1>10. MaxExhaustiveDepth \in Nat
  BY DEF ChoicesAssumption
<1>11. ASSUME PlaceInv', Searched(V2), mode' \in {"none", "dfs"}, mode' # "none" => Path(answers'),
              \A q \in Seq(Nat) : Passed(q) => Passed(q)',
              \A q \in Seq(Nat) : Searched(q) /\ Passed(q)' => Passed(q) \/ q \in DOMAIN tree
       PROVE  TreeInv' /\ SearchInv'
  <2>1. TreeInv'
    BY <1>4, <1>11, SameTree
  <2>2. PrintedInv'
    BY <1>1, <1>4, <1>5, <1>11, PrintedKept
  <2>3. SearchInv'
    BY <1>1, <1>4, <1>5, <1>11, <2>2, SearchStep
  <2> QED BY <2>1, <2>3
<1>12. CASE /\ k + 1 < Len(V) /\ V2 = V /\ n2 = k
            /\ ~dfs'.all_done /\ mode' = "dfs" /\ answers' = Append(a, V[k + 1])
  <2>1. PICK b : b = Append(a, V[k + 1])
    OBVIOUS
  <2>2. /\ b \in Seq(Nat) /\ Extends(V, b) /\ b = First(V, k + 1) /\ Len(b) = k + 1
    <3>1. k < Len(V)
      BY <1>3, <1>12
    <3>2. V[k + 1] \in Nat /\ b \in Seq(Nat) /\ Extends(V, b) /\ b = First(V, k + 1)
      BY <1>2, <1>3, <2>1, <3>1, ExtendsNext
    <3>3. Len(b) = k + 1
      BY <1>2, <1>3, <2>1, <3>2, AppendSeq
    <3> QED BY <3>2, <3>3
  <2>3. Path(b)
    <3>1. k + 1 \in 0 .. Len(V) /\ Path(V)
      BY <1>3, <1>12 DEF Searched
    <3> QED BY <2>2, <3>1, PathFirst
  <2>4. V \in DOMAIN tree
    <3>1. dfs.current_pos < dfs.decision_depth
      BY <1>3, <1>12
    <3> QED BY <1>1, <3>1 DEF SearchInv, PlaceInv
  <2>5. PlaceInv'
    <3>1. k = Len(b) - 1
      BY <1>3, <2>2
    <3>2. Extends(V2, b)
      BY <1>12, <2>2
    <3>3. Extends(Decided, answers)'
      <4>1. V2 = Decided' /\ b = answers'
        BY <1>1, <1>12, <2>1
      <4> QED BY <3>2, <4>1 DEF Extends
    <3> QED BY <1>1, <1>4, <1>12, <2>1, <2>4, <3>1, <3>3 DEF PlaceInv
  <2>6. \A q : Passed(q)' <=> Passed(q)
    <3>1. k < Len(V2) - 1 /\ k < Len(V)
      BY <1>3, <1>12
    <3> QED BY <1>7, <1>8, <1>12, <3>1
  <2>7. mode' \in {"none", "dfs"} /\ Path(answers')
    BY <1>12, <2>1, <2>3
  <2>8. Searched(V2)
    BY <1>3, <1>12
  <2> QED BY <1>11, <2>5, <2>6, <2>7, <2>8
<1>13. ASSUME NEW v \in Accepted(tree[a]), Len(V) <= k + 1, Room(a),
              Len(V) = k + 1 => v > V[k + 1],
              \A w \in Accepted(tree[a]) : (Len(V) = k + 1 => w > V[k + 1]) => v <= w,
              V2 = Append(a, v), n2 = k,
              ~dfs'.all_done, mode' = "dfs", answers' = Append(a, v)
       PROVE  TreeInv' /\ SearchInv'
  <2>1. PICK b : b = Append(a, v)
    OBVIOUS
  <2>2. Path(b) /\ v \in Nat /\ Searched(b)
    <3>1. Len(a) < MaxExhaustiveDepth
      BY <1>2, <1>13 DEF Room
    <3> QED BY <1>3, <1>5, <1>6, <1>13, <2>1, <3>1, PathAppend
  <2>3. b \in Seq(Nat) /\ Len(b) = k + 1
    BY <1>2, <1>3, <2>1, <2>2, AppendSeq
  <2>4. ~(n2 < Len(V2) - 1)
    BY <1>3, <1>13, <2>1, <2>3
  <2>5. PlaceInv'
    <3>1. k = Len(b) - 1 /\ Extends(b, b)
      BY <1>3, <2>3 DEF Extends
    <3>2. Extends(Decided, answers)'
      <4>1. b = Decided' /\ b = answers'
        BY <1>1, <1>13, <2>1
      <4> QED BY <3>1, <4>1 DEF Extends
    <3>3. ~(dfs'.current_pos < dfs'.decision_depth)
      BY <1>1, <1>9, <2>4
    <3> QED BY <1>1, <1>13, <2>1, <3>1, <3>2, <3>3 DEF PlaceInv
  <2>6. ASSUME NEW q \in Seq(Nat)
        PROVE  /\ Before(q, V) => Before(q, b)
               /\ k < Len(V) /\ Extends(q, V) => Before(q, b)
               /\ Path(q) /\ Before(q, b) => Before(q, V) \/ (k < Len(V) /\ Extends(q, V))
    BY <1>2, <1>3, <1>5, <1>13, <2>1, NextMove
  <2>7. \A q : Passed(q)' <=> Before(q, b)
    BY <1>8, <1>13, <2>1, <2>4
  <2>8. \A q \in Seq(Nat) : Passed(q) => Passed(q)'
    BY <1>7, <2>6, <2>7
  <2>9. \A q \in Seq(Nat) : Searched(q) /\ Passed(q)' => Passed(q)
    BY <1>7, <2>6, <2>7 DEF Searched
  <2>10. mode' \in {"none", "dfs"} /\ Path(answers') /\ Searched(V2)
    BY <1>13, <2>1, <2>2
  <2> QED BY <1>11, <2>5, <2>8, <2>9, <2>10
<1>14. CASE /\ Len(V) <= k + 1
            /\ \A w \in Accepted(tree[a]) : Len(V) = k + 1 /\ w <= V[k + 1]
            /\ V2 = a /\ n2 = -1 /\ (dfs'.all_done <=> k = 0)
            /\ mode' = "none" /\ answers' = <<>>
  <2>1. PlaceInv'
    BY <1>1, <1>4, <1>5, <1>14 DEF PlaceInv
  <2>2. Len(V2) - 1 = k - 1
    BY <1>2, <1>14
  <2>3. n2 < Len(V2) - 1 <=> k # 0
    BY <1>3, <1>14, <2>2
  <2>4. k = 0 => \A q \in Seq(Nat) : Extends(q, a)
    BY <1>2 DEF Extends
  <2>5. \A q : Passed(q)' <=> k = 0 \/ Before(q, a) \/ Extends(q, a)
    BY <1>8, <1>14, <2>3
  <2>6. ASSUME NEW q \in Seq(Nat)
        PROVE  /\ Before(q, V) \/ Extends(q, V) => Before(q, a) \/ Extends(q, a)
               /\ Before(q, a) => Before(q, V)
               /\ Path(q) /\ Extends(q, a) =>
                    q = a \/ Before(q, V) \/ (k < Len(V) /\ Extends(q, V))
    BY <1>2, <1>3, <1>5, <1>14, BackMove
  <2>7. \A q \in Seq(Nat) : Passed(q) => Passed(q)'
    BY <1>7, <2>5, <2>6
  <2>8. \A q \in Seq(Nat) : Searched(q) /\ Passed(q)' => Passed(q) \/ q \in DOMAIN tree
    BY <1>5, <1>7, <2>4, <2>5, <2>6 DEF Searched
  <2>9. mode' \in {"none", "dfs"} /\ ~(mode' # "none") /\ Searched(V2)
    BY <1>6, <1>14
  <2> QED BY <1>11, <2>1, <2>7, <2>8, <2>9
<1>15. CASE ~Room(a) /\ V2 = a /\ n2 = -1 /\ ~dfs'.all_done /\ mode' = "none" /\ answers' = <<>>
  <2>1. PlaceInv'
    BY <1>1, <1>4, <1>5, <1>15 DEF PlaceInv
  <2>2. V = a /\ \A q : Searched(q) /\ Extends(q, a) => q = a
    BY <1>3, <1>5, <1>15, DeadEnd
  <2>3. \A q : Passed(q) => Passed(q)'
    BY <1>2, <1>3, <1>7, <1>8, <1>15, <2>2
  <2>4. \A q : Searched(q) /\ Passed(q)' => Passed(q) \/ q \in DOMAIN tree
    BY <1>5, <1>7, <1>8, <1>15, <2>2
  <2>5. mode' \in {"none", "dfs"} /\ ~(mode' # "none") /\ Searched(V2)
    BY <1>6, <1>15
  <2> QED BY <1>11, <2>1, <2>3, <2>4, <2>5
<1>16. \/ /\ k + 1 < Len(V) /\ V2 = V /\ n2 = k
          /\ ~dfs'.all_done /\ mode' = "dfs" /\ answers' = Append(a, V[k + 1])
       \/ \E v \in Accepted(tree[a]) :
          /\ Len(V) <= k + 1 /\ Room(a)
          /\ Len(V) = k + 1 => v > V[k + 1]
          /\ \A w \in Accepted(tree[a]) : (Len(V) = k + 1 => w > V[k + 1]) => v <= w
          /\ V2 = Append(a, v) /\ n2 = k
          /\ ~dfs'.all_done /\ mode' = "dfs" /\ answers' = Append(a, v)
       \/ /\ Len(V) <= k + 1
          /\ \A w \in Accepted(tree[a]) : Len(V) = k + 1 /\ w <= V[k + 1]
          /\ V2 = a /\ n2 = -1 /\ (dfs'.all_done <=> k = 0)
          /\ mode' = "none" /\ answers' = <<>>
       \/ ~Room(a) /\ V2 = a /\ n2 = -1 /\ ~dfs'.all_done /\ mode' = "none" /\ answers' = <<>>
  BY <1>1, <1>2, ChoiceStep
<1> QED BY <1>12, <1>13, <1>14, <1>15, <1>16

\* Another program of the search starts with no answer.
LEMMA SearchStart ==
    ASSUME ChoicesAssumption, TreeInv, SearchInv, StartDFS
    PROVE  TreeInv' /\ SearchInv'
<1>1. /\ mode = "none" /\ dfs.all_done = FALSE /\ mode' = "dfs" /\ answers' = <<>>
      /\ tree' = tree /\ programs' = programs /\ delta' = delta /\ dfs' = dfs
  BY DEF StartDFS, SearchInv, StatesInv
<1>2. PICK V : V = Decided
  OBVIOUS
<1>3. Decided' = V
  BY <1>1, <1>2 DEF Decided
<1>4. \A q : Passed(q)' = Passed(q)
  BY <1>1 DEF Passed, Decided
<1>5. V \in Seq(Nat) /\ Searched(V) /\ StatesInv
  BY <1>2 DEF SearchInv, Searched, Path
<1>6. TreeInv'
  <2>1. Path(answers')
    BY <1>1, EmptyPath
  <2> QED BY <1>1, <2>1, SameTree
<1>7. StatesInv'
  BY <1>1, <1>5 DEF StatesInv
<1>8. PlaceInv'
  <2>1. Len(<<>>) = 0 /\ \A q \in Seq(Nat) : Extends(q, <<>>)
    BY EmptySeq DEF Extends
  <2>2. Extends(V, <<>>) /\ Len(<<>>) - 1 = -1
    BY <1>5, <2>1
  <2>3. Extends(Decided, answers)'
    <3>1. answers' = <<>>
      BY <1>1
    <3> QED BY <1>3, <2>2, <3>1 DEF Extends
  <2> QED BY <1>1, <1>2, <1>3, <2>2, <2>3 DEF SearchInv, PlaceInv
<1>9. PrintedInv'
  BY <1>1, <1>4, PrintedKept
<1> QED BY <1>1, <1>3, <1>4, <1>5, <1>6, <1>7, <1>8, <1>9, SearchStep

\* What the search asks for the first time lies behind all that it has passed.
LEMMA SearchAsks ==
    ASSUME ChoicesAssumption, TreeInv, SearchInv, mode = "dfs", Ask
    PROVE  SearchInv'
<1>1. /\ answers \notin DOMAIN tree /\ DOMAIN tree' = DOMAIN tree \cup {answers} /\ Grown
      /\ UNCHANGED <<mode, answers, programs, dfs, delta, debug>>
  BY AskFacts
<1>2. PICK a, V : a = answers /\ V = Decided
  OBVIOUS
<1>3. /\ a \in Seq(Nat) /\ V \in Seq(Nat) /\ Extends(V, a) /\ Searched(V)
      /\ dfs.current_pos = Len(a) - 1 /\ dfs.all_done = FALSE /\ StatesInv
  BY <1>2, SearchState DEF SearchInv, PlaceInv, StatesInv
<1>4. V = a
  <2>1. CASE Len(a) < Len(V)
    <3>1. Len(a) \in 0 .. Len(V) - 1 /\ a = First(V, Len(a))
      BY <1>3, <2>1, ExtendsFirst
    <3>2. a \in DOMAIN tree
      BY <1>3, <3>1 DEF Searched, Path
    <3> QED BY <1>1, <1>2, <3>2
  <2>2. CASE ~(Len(a) < Len(V))
    <3>1. Len(a) \in 0 .. Len(V)
      BY <1>3, ExtendsFirst
    <3>2. Len(a) = Len(V)
      BY <1>3, <2>2, <3>1
    <3> QED BY <1>3, <3>2, ExtendsFirst
  <2> QED BY <2>1, <2>2
<1>5. Searched(a) /\ Path(a)
  BY <1>3, <1>4 DEF Searched
<1>6. \A q : Passed(q) <=> Before(q, a)
  <2>1. ASSUME NEW q PROVE Passed(q) <=> Before(q, a)
    <3>1. PICK n : n = dfs.current_pos
      OBVIOUS
    <3>2. Passed(q) <=> dfs.all_done \/ Before(q, V) \/ (n < Len(V) - 1 /\ Extends(q, V))
      BY <1>2, <1>3, <3>1, PassedFacts
    <3>3. ~(n < Len(V) - 1)
      BY <1>3, <1>4, <3>1
    <3> QED BY <1>3, <1>4, <3>2, <3>3
  <2> QED BY <2>1
<1>7. \A q : Passed(q)' = Passed(q)
  BY <1>1 DEF Passed, Decided
<1>8. \A p \in DOMAIN tree' : Searched(p)'
  <2>1. ASSUME NEW p \in DOMAIN tree' PROVE Searched(p)'
    <3>1. Searched(p) /\ Path(p)
      BY <1>1, <1>2, <1>5, <2>1 DEF SearchInv, TreeInv
    <3> QED BY <1>1, <3>1, PathKept
  <2> QED BY <2>1
<1>9. Searched(Decided)'
  <2>1. Searched(V)'
    BY <1>1, <1>4, <1>5, PathKept
  <2>2. Decided' = V
    BY <1>1, <1>2 DEF Decided
  <2> QED BY <2>1, <2>2
<1>10. Complete'
  <2>1. ASSUME NEW q, Searched(q)', Passed(q)', q \notin DOMAIN tree' PROVE FALSE
    <3>1. Before(q, a) /\ q \in Seq(Nat)
      BY <1>6, <1>7, <2>1 DEF Searched, Path
    <3>2. ~Searched(q)
      BY <1>1, <1>7, <2>1 DEF SearchInv, Complete
    <3>3. \A n \in 0 .. Len(q) - 1 : First(q, n) # a
      <4>1. ASSUME NEW n \in 0 .. Len(q) - 1, First(q, n) = a PROVE FALSE
        <5>1. n \in 0 .. Len(q)
          BY <3>1
        <5>2. Len(a) = n /\ \A i \in 1 .. n : a[i] = q[i]
          BY <3>1, <4>1, <5>1, FirstSeq
        <5>3. PICK m \in 1 .. Len(a) : q[m] < a[m]
          BY <3>1 DEF Before
        <5>4. a[m] = q[m] /\ q[m] \in Nat
          <6>1. m \in 1 .. n /\ m \in 1 .. Len(q)
            BY <3>1, <4>1, <5>2, <5>3
          <6> QED BY <3>1, <5>2, <6>1
        <5> QED BY <5>3, <5>4
      <4> QED BY <4>1
    <3>4. \A n \in 0 .. Len(q) - 1 :
             First(q, n) \in DOMAIN tree /\ tree'[First(q, n)] = tree[First(q, n)]
      <4>1. \A n \in 0 .. Len(q) - 1 : First(q, n) \in DOMAIN tree'
        BY <2>1 DEF Searched, Path, First
      <4> QED BY <1>1, <1>2, <3>3, <4>1 DEF Grown
    <3>5. \A n \in 0 .. Len(q) - 1 : Room(First(q, n))
      <4>1. \A n \in 0 .. Len(q) - 1 : Room(First(q, n))'
        BY <2>1 DEF Searched, Room, First
      <4> QED BY <3>4, <4>1 DEF Room, First
    <3>6. Path(q)
      <4>1. /\ Len(q) <= MaxExhaustiveDepth
            /\ \A n \in 0 .. Len(q) - 1 : q[n + 1] \in Accepted(tree'[First(q, n)])
        BY <2>1 DEF Searched, Path, First
      <4> QED BY <3>1, <3>4, <4>1 DEF Path
    <3> QED BY <3>2, <3>5, <3>6 DEF Searched
  <2> QED BY <2>1 DEF Complete
<1>11. PrintedInv'
  <2>1. PrintedInv
    BY DEF SearchInv
  <2>2. ASSUME NEW p \in DOMAIN tree', tree'[p] = End
        PROVE  (mode' = "dfs" /\ p = answers') \/ \E i \in DOMAIN programs' : programs'[i] = p
    BY <1>1, <2>1, <2>2 DEF PrintedInv, Grown
  <2>3. \A i \in DOMAIN programs' : Passed(programs[i])'
    BY <1>1, <2>1 DEF PrintedInv, Passed, Decided
  <2> QED BY <1>1, <2>1, <2>2, <2>3 DEF PrintedInv
<1>12. StatesInv'
  BY <1>1, <1>3 DEF StatesInv
<1>13. PlaceInv'
  BY <1>1 DEF SearchInv, PlaceInv, Grown, Decided, Extends
<1>14. delta' = [file |-> <<>>, seq_map |-> NoMap, rand_depth |-> 0, random_point |-> 0,
                 asserts |-> TRUE]
  BY <1>1 DEF SearchInv
<1> QED BY <1>8, <1>9, <1>10, <1>11, <1>12, <1>13, <1>14 DEF SearchInv

\* A program of the search is printed: it was not before.
LEMMA SearchPrint ==
    ASSUME ChoicesAssumption, TreeInv, SearchInv, mode = "dfs", PrintDFS
    PROVE  TreeInv' /\ SearchInv'
<1>1. PICK a, V, g, states, depth, pos :
         /\ a = answers /\ V = Decided /\ g = dfs /\ states = dfs.states
         /\ depth = dfs.decision_depth /\ pos = dfs.current_pos
  OBVIOUS
<1>2. /\ a \in DOMAIN tree /\ tree[a] = End /\ programs' = Append(programs, a)
      /\ dfs' = Restart(g) /\ mode' = "none" /\ answers' = <<>>
      /\ tree' = tree /\ delta' = delta
  BY <1>1 DEF PrintDFS, Finished, Asked
<1>3. /\ a \in Seq(Nat) /\ Extends(V, a) /\ Searched(V) /\ V \in Seq(Nat)
      /\ pos = Len(a) - 1 /\ States(states, depth) /\ V = Values(states, depth + 1)
      /\ g = [states |-> states, decision_depth |-> depth, current_pos |-> pos,
              all_done |-> FALSE, error |-> FALSE]
      /\ Len(V) = depth + 1
  BY <1>1, SearchState
<1>4. V = a /\ \A q : Searched(q) /\ Extends(q, a) => q = a
  BY <1>2, <1>3, DeadEnd
<1>5. PICK h : h = Restart(g)
  OBVIOUS
<1>6. h = Generator(states, depth, -1, FALSE, FALSE)
  <2>1. h = [g EXCEPT !.current_pos = -1, !.error = FALSE]
    BY <1>5 DEF Restart
  <2> QED BY <1>3, <2>1 DEF Generator
<1>7. depth \in -1 .. MaxExhaustiveDepth - 1 /\ -1 \in -1 .. depth /\ FALSE \in BOOLEAN
      /\ MaxExhaustiveDepth \in Nat
  BY <1>3 DEF States
<1>8. /\ StatesInv' /\ Decided' = V /\ dfs'.current_pos = -1 /\ dfs'.all_done = FALSE
      /\ dfs'.decision_depth = depth
  BY <1>2, <1>3, <1>5, <1>6, <1>7, StatesMade
<1>9. Len(a) # 0 /\ depth >= 0
  <2>1. a # <<>>
    BY <1>2 DEF TreeInv
  <2>2. Len(a) # 0
    BY <1>3, <2>1, EmptySeq
  <2> QED BY <1>3, <1>4, <1>7, <2>2
<1>10. StatesInv /\ dfs.all_done = FALSE
  BY DEF SearchInv, StatesInv, PlaceInv
<1>11. \A q : Passed(q) <=> Before(q, a)
  <2>1. ASSUME NEW q PROVE Passed(q) <=> Before(q, a)
    <3>1. Passed(q) <=> dfs.all_done \/ Before(q, V) \/ (pos < Len(V) - 1 /\ Extends(q, V))
      BY <1>1, <1>10, PassedFacts
    <3>2. ~(pos < Len(V) - 1)
      BY <1>3, <1>4
    <3> QED BY <1>4, <1>10, <3>1, <3>2
  <2> QED BY <2>1
<1>12. \A q : Passed(q)' <=> Before(q, a) \/ Extends(q, a)
  <2>1. ASSUME NEW q PROVE Passed(q)' <=> Before(q, a) \/ Extends(q, a)
    <3>1. PICK n : n = dfs'.current_pos
      OBVIOUS
    <3>2. Passed(q)' <=> dfs'.all_done \/ Before(q, V) \/ (n < Len(V) - 1 /\ Extends(q, V))
      BY <1>8, <3>1, PassedNext
    <3>3. n < Len(V) - 1
      BY <1>3, <1>7, <1>8, <1>9, <3>1
    <3> QED BY <1>4, <1>8, <3>2, <3>3
  <2> QED BY <2>1
<1>13. PlaceInv'
  BY <1>2, <1>4, <1>8 DEF PlaceInv
<1>14. programs \in Seq(Seq(Nat)) /\ DOMAIN programs = 1 .. Len(programs)
  BY DEF TreeInv
<1>15. PICK k \in Nat : k = Len(programs)
  <2>1. Len(programs) \in Nat
    BY <1>14
  <2> QED BY <2>1
<1>16. /\ programs' \in Seq(Seq(Nat)) /\ DOMAIN programs' = 1 .. k + 1 /\ programs'[k + 1] = a
       /\ \A i \in 1 .. k : programs'[i] = programs[i] /\ i \in DOMAIN programs'
       /\ DOMAIN programs = 1 .. k
  BY <1>2, <1>3, <1>14, <1>15
<1>17. PrintedInv
  BY DEF SearchInv
<1>18. \A i \in 1 .. k + 1 : i \in 1 .. k \/ i = k + 1
  BY <1>15
<1>19. TreeInv'
  <2>1. \A i \in DOMAIN programs' : programs'[i] \in DOMAIN tree' /\ tree'[programs'[i]] = End
    BY <1>2, <1>16, <1>18 DEF TreeInv
  <2>2. \A p \in DOMAIN tree' : Path(p)'
    BY <1>2, SameSearched DEF TreeInv
  <2>3. tree' \in [DOMAIN tree' -> Requests \cup {End}] /\ (<<>> \in DOMAIN tree' => tree'[<<>>] # End)
    BY <1>2 DEF TreeInv
  <2> QED BY <1>2, <1>16, <2>1, <2>2, <2>3 DEF TreeInv
<1>20. PrintedInv'
  <2>1. ASSUME NEW p \in DOMAIN tree', tree'[p] = End PROVE \E i \in DOMAIN programs' : programs'[i] = p
    <3>1. CASE p = a
      <4>1. k + 1 \in DOMAIN programs'
        BY <1>15, <1>16
      <4> QED BY <1>16, <3>1, <4>1
    <3>2. CASE p # a
      BY <1>1, <1>2, <1>16, <1>17, <2>1, <3>2 DEF PrintedInv
    <3> QED BY <3>1, <3>2
  <2>2. ASSUME NEW i \in DOMAIN programs' PROVE Passed(programs[i])'
    <3>1. PICK q : q = programs'[i]
      OBVIOUS
    <3>2. CASE i \in 1 .. k
      <4>1. Passed(programs[i]) /\ programs[i] = q
        BY <1>16, <1>17, <3>1, <3>2 DEF PrintedInv
      <4>2. Passed(q)
        BY <4>1
      <4>3. Passed(q)'
        BY <1>11, <1>12, <4>2
      <4> QED BY <3>1, <4>3
    <3>3. CASE i = k + 1
      <4>1. q = a /\ Extends(a, a)
        BY <1>3, <1>16, <3>1, <3>3 DEF Extends
      <4>2. Passed(q)'
        BY <1>12, <4>1
      <4> QED BY <3>1, <4>2
    <3> QED BY <1>16, <1>18, <2>2, <3>2, <3>3
  <2>3. ASSUME NEW i \in 1 .. k PROVE programs[i] # a
    <3>1. Passed(programs[i])
      BY <1>16, <1>17 DEF PrintedInv
    <3>2. PICK q : q = programs[i]
      OBVIOUS
    <3>3. Before(q, a)
      BY <1>11, <3>1, <3>2
    <3>4. ~Before(a, a)
      <4>1. \A n \in 1 .. Len(a) : a[n] \in Nat
        BY <1>3
      <4>2. \A n \in 1 .. Len(a) : ~(a[n] < a[n])
        BY <4>1
      <4> QED BY <4>2 DEF Before
    <3> QED BY <3>2, <3>3, <3>4
  <2>4. ASSUME NEW i \in DOMAIN programs', NEW j \in DOMAIN programs', i # j
        PROVE  programs'[i] # programs'[j]
    <3>1. CASE i \in 1 .. k /\ j \in 1 .. k
      BY <1>16, <1>17, <2>4, <3>1 DEF PrintedInv
    <3>2. CASE i = k + 1 /\ j \in 1 .. k
      BY <1>16, <2>3, <3>2
    <3>3. CASE j = k + 1 /\ i \in 1 .. k
      BY <1>16, <2>3, <3>3
    <3> QED BY <1>16, <1>18, <2>4, <3>1, <3>2, <3>3
  <2> QED BY <1>2, <2>1, <2>2, <2>4 DEF PrintedInv
<1>21. \A q \in Seq(Nat) : Searched(q) /\ Passed(q)' => Passed(q) \/ q \in DOMAIN tree
  BY <1>2, <1>4, <1>11, <1>12
<1> QED BY <1>2, <1>3, <1>8, <1>13, <1>19, <1>20, <1>21, SearchStep

-----------------------------------------------------------------------------
(* A program made again from its sequence                                  *)

\* One more program.
LEMMA OneMore ==
    ASSUME TreeInv, tree' = tree, mode' = "none", NEW a \in DOMAIN tree, a \in Seq(Nat),
           tree[a] = End, programs' = Append(programs, a)
    PROVE  TreeInv' /\ programs' # <<>> /\ programs'[Len(programs')] = a
<1>1. programs \in Seq(Seq(Nat)) /\ DOMAIN programs = 1 .. Len(programs)
  BY DEF TreeInv
<1>2. PICK k \in Nat : k = Len(programs)
  <2>1. Len(programs) \in Nat
    BY <1>1
  <2> QED BY <2>1
<1>3. /\ programs' \in Seq(Seq(Nat)) /\ DOMAIN programs' = 1 .. k + 1 /\ programs'[k + 1] = a
      /\ \A i \in 1 .. k : programs'[i] = programs[i]
      /\ DOMAIN programs = 1 .. k /\ Len(programs') = k + 1
  BY <1>1, <1>2
<1>4. \A i \in 1 .. k + 1 : i \in 1 .. k \/ i = k + 1
  BY <1>2
<1>5. \A i \in DOMAIN programs' : programs'[i] \in DOMAIN tree' /\ tree'[programs'[i]] = End
  BY <1>3, <1>4 DEF TreeInv
<1>6. \A p \in DOMAIN tree' : Path(p)'
  BY SameSearched DEF TreeInv
<1>7. tree' \in [DOMAIN tree' -> Requests \cup {End}] /\ (<<>> \in DOMAIN tree' => tree'[<<>>] # End)
  BY DEF TreeInv
<1>8. programs' # <<>>
  <2>1. Len(programs') # 0
    BY <1>2, <1>3
  <2> QED BY <2>1, EmptySeq
<1> QED BY <1>3, <1>5, <1>6, <1>7, <1>8 DEF TreeInv

\* The answers of the sequence are what is asked for, up to its end.
LEMMA DebugChoice ==
    ASSUME ChoicesAssumption, TreeInv, Debugging, DebugInv, mode = "debug", ChooseDebug
    PROVE  TreeInv' /\ DebugInv' /\ Debugging'
<1>1. PICK a, s, pos : a = answers /\ s = debug /\ pos = dfs.current_pos + 1
  OBVIOUS
<1>2. /\ a \in Seq(Nat) /\ s \in Seq(Nat) /\ Path(s) /\ Extends(s, a)
      /\ a \in DOMAIN tree /\ tree[a] # End /\ s \in DOMAIN tree /\ tree[s] = End
  BY <1>1 DEF TreeInv, DebugInv, Path, ChooseDebug, Asking, Asked
<1>3. pos = Len(a) /\ Len(a) \in Nat /\ Len(s) \in Nat
  <2>1. dfs.current_pos = Len(answers) - 1
    BY DEF DebugInv
  <2> QED BY <1>1, <1>2, <2>1
<1>4. Len(a) < Len(s)
  <2>1. Len(a) <= Len(s) /\ Len(a) # Len(s)
    BY <1>2, ExtendsFirst DEF Extends
  <2> QED BY <1>3, <2>1
<1>5. PICK b : b = Append(a, s[Len(a) + 1])
  OBVIOUS
<1>6. b \in Seq(Nat) /\ Extends(s, b) /\ b = First(s, Len(a) + 1) /\ Len(b) = Len(a) + 1
  <2>1. s[Len(a) + 1] \in Nat /\ b \in Seq(Nat) /\ Extends(s, b) /\ b = First(s, Len(a) + 1)
    BY <1>2, <1>4, <1>5, ExtendsNext
  <2>2. PICK v \in Nat : v = s[Len(a) + 1]
    BY <2>1
  <2>3. b = Append(a, v)
    BY <1>5, <2>2
  <2>4. Len(b) = Len(a) + 1
    BY <1>2, <2>3, AppendSeq
  <2> QED BY <2>1, <2>4
<1>7. Path(b)
  <2>1. Len(a) + 1 \in 0 .. Len(s)
    BY <1>3, <1>4
  <2> QED BY <1>2, <1>6, <2>1, PathFirst
<1>8. /\ answers' = b /\ mode' = mode /\ tree' = tree /\ programs' = programs /\ delta' = delta
      /\ debug' = debug /\ dfs' = [dfs EXCEPT !.current_pos = pos, !.all_done = @ \/ AtEnd(pos)]
  BY <1>1, <1>3, <1>4, <1>5 DEF ChooseDebug
<1>9. TreeInv'
  <2>1. Path(answers') /\ mode' = "debug"
    BY <1>7, <1>8
  <2> QED BY <1>8, <2>1, SameTree
<1>10. /\ dfs' = [states |-> dfs.states, decision_depth |-> dfs.decision_depth,
                  current_pos |-> pos, all_done |-> dfs'.all_done, error |-> dfs.error]
       /\ dfs'.all_done = (dfs.all_done \/ AtEnd(pos))
  <2>1. dfs = [states |-> dfs.states, decision_depth |-> dfs.decision_depth,
               current_pos |-> Len(answers) - 1, all_done |-> dfs.all_done, error |-> dfs.error]
    BY DEF DebugInv
  <2> QED BY <1>8, <2>1
<1>11. Len(b) = Len(s) => dfs'.all_done
  <2>1. Len(b) = Len(s) => pos >= Len(debug) - 1
    BY <1>1, <1>3, <1>6
  <2> QED BY <1>10, <2>1 DEF AtEnd
<1>12. pos = Len(answers') - 1
  BY <1>3, <1>6, <1>8
<1>13. dfs' = [states |-> dfs'.states, decision_depth |-> dfs'.decision_depth,
               current_pos |-> Len(answers') - 1, all_done |-> dfs'.all_done, error |-> dfs'.error]
  BY <1>10, <1>12
<1>14. Extends(debug, answers)'
  <2>1. debug' = s /\ answers' = b
    BY <1>1, <1>8
  <2> QED BY <1>6, <2>1 DEF Extends
<1> QED BY <1>1, <1>2, <1>8, <1>9, <1>11, <1>13, <1>14 DEF DebugInv, Debugging

\* It asks for nothing new.
LEMMA DebugAsks ==
    ASSUME ChoicesAssumption, TreeInv, Debugging, DebugInv, mode = "debug", Ask
    PROVE  DebugInv' /\ Debugging'
<1>1. /\ Grown /\ UNCHANGED <<mode, answers, programs, dfs, delta, debug>>
  BY AskFacts
<1> QED BY <1>1 DEF DebugInv, Debugging, Grown, Extends

\* The program is printed again.
LEMMA DebugPrint ==
    ASSUME ChoicesAssumption, TreeInv, Debugging, DebugInv, mode = "debug", PrintDFS
    PROVE  TreeInv' /\ DebugInv' /\ Debugging'
<1>1. PICK a : a = answers
  OBVIOUS
<1>2. /\ a \in DOMAIN tree /\ tree[a] = End /\ programs' = Append(programs, a)
      /\ mode' = "none" /\ answers' = <<>> /\ tree' = tree /\ delta' = delta /\ debug' = debug
  BY <1>1 DEF PrintDFS, Finished, Asked
<1>3. a \in Seq(Nat)
  BY <1>2 DEF TreeInv, Path
<1>4. TreeInv'
  BY <1>2, <1>3, OneMore
<1> QED BY <1>2, <1>4 DEF DebugInv, Debugging

\* A program that was found has a sequence.
LEMMA DebugStart ==
    ASSUME ChoicesAssumption, TreeInv, SearchInv, mode = "none", StartDebug
    PROVE  TreeInv' /\ DebugInv' /\ Debugging'
<1>1. PICK i \in DOMAIN programs : debug' = programs[i]
  BY DEF StartDebug
<1>2. /\ mode' = "debug" /\ answers' = <<>> /\ tree' = tree /\ programs' = programs
      /\ delta' = delta /\ delta.file = <<>>
      /\ dfs' = [dfs EXCEPT !.current_pos = -1, !.all_done = FALSE]
  BY DEF StartDebug
<1>3. PICK s : s = programs[i]
  OBVIOUS
<1>4. s \in DOMAIN tree /\ tree[s] = End /\ s \in Seq(Nat) /\ s # <<>>
  BY <1>3 DEF TreeInv, Path
<1>5. Len(s) # 0 /\ Len(<<>>) = 0
  BY <1>4, EmptySeq
<1>6. TreeInv'
  <2>1. Path(answers')
    BY <1>2, EmptyPath
  <2> QED BY <1>2, <2>1, SameTree
<1>7. Extends(debug, answers)' /\ ~(Len(answers) = Len(debug))'
  <2>1. debug' = s /\ answers' = <<>>
    BY <1>1, <1>2, <1>3
  <2> QED BY <1>4, <1>5, <2>1 DEF Extends
<1>8. dfs' = [states |-> dfs'.states, decision_depth |-> dfs'.decision_depth,
              current_pos |-> Len(answers') - 1, all_done |-> dfs'.all_done, error |-> dfs'.error]
  <2>1. dfs = [states |-> dfs.states, decision_depth |-> dfs.decision_depth,
               current_pos |-> dfs.current_pos, all_done |-> dfs.all_done, error |-> FALSE]
    BY DEF SearchInv, StatesInv
  <2>2. PICK g, states, depth, pos, done :
           /\ g = dfs /\ states = dfs.states /\ depth = dfs.decision_depth
           /\ pos = dfs.current_pos /\ done = dfs.all_done
    OBVIOUS
  <2>3. g = [states |-> states, decision_depth |-> depth, current_pos |-> pos,
             all_done |-> done, error |-> FALSE]
    BY <2>1, <2>2
  <2>4. dfs' = [g EXCEPT !.current_pos = -1, !.all_done = FALSE]
    BY <1>2, <2>2
  <2>5. dfs' = [states |-> states, decision_depth |-> depth, current_pos |-> -1,
                all_done |-> FALSE, error |-> FALSE]
    BY <2>3, <2>4
  <2>6. Len(answers') - 1 = -1
    BY <1>2, <1>5
  <2> QED BY <2>5, <2>6
<1>9. delta'.file = <<>> /\ delta'.asserts
  BY <1>2 DEF SearchInv
<1>10. debug' \in DOMAIN tree' /\ tree'[debug'] = End /\ debug' # <<>>
  BY <1>1, <1>2, <1>3, <1>4
<1> QED BY <1>2, <1>6, <1>7, <1>8, <1>9, <1>10 DEF DebugInv, Debugging

-----------------------------------------------------------------------------
(* Records                                                                 *)

\* A record read in the order of its positions.
LEMMA RecordRead ==
    ASSUME NEW k \in Nat, NEW map, DOMAIN map = 0 .. k - 1
    PROVE  GetSequence(map) = [i \in 1 .. k |-> map[i - 1]]
<1>1. ASSUME NEW n \in Nat PROVE IsFiniteSet(0 .. n - 1) /\ Cardinality(0 .. n - 1) = n
  <2>1. 0 \in Int /\ n - 1 \in Int
    OBVIOUS
  <2>2. IsFiniteSet(0 .. n - 1) /\ Cardinality(0 .. n - 1) = IF 0 > n - 1 THEN 0 ELSE n - 1 - 0 + 1
    BY <2>1, FS_Interval
  <2> QED BY <2>2
<1>2. Cardinality(DOMAIN map) = k
  BY <1>1
<1>3. ASSUME NEW j \in DOMAIN map PROVE Cardinality({l \in DOMAIN map : l < j}) = j
  <2>1. {l \in DOMAIN map : l < j} = 0 .. j - 1
    OBVIOUS
  <2>2. j \in Nat
    OBVIOUS
  <2> QED BY <1>1, <2>1, <2>2
<1>4. ASSUME NEW i \in 1 .. k
      PROVE  (CHOOSE j \in DOMAIN map : Cardinality({l \in DOMAIN map : l < j}) = i - 1) = i - 1
  <2>1. i - 1 \in DOMAIN map
    OBVIOUS
  <2>2. \A j \in DOMAIN map : Cardinality({l \in DOMAIN map : l < j}) = i - 1 <=> j = i - 1
    BY <1>3
  <2> QED BY <2>1, <2>2
<1>5. GetSequence(map) = [i \in 1 .. k |->
         map[CHOOSE j \in DOMAIN map : Cardinality({l \in DOMAIN map : l < j}) = i - 1]]
  BY <1>2 DEF GetSequence
<1> QED BY <1>4, <1>5

\* The record of the first k answers of a.
Numbers(a, k) == [j \in 0 .. k - 1 |-> Number(a, j)]

\* One more number of a record.
LEMMA NumberAdded ==
    ASSUME NEW a \in Seq(Nat), NEW v \in Nat
    PROVE  AddNumber(Numbers(a, Len(a)), Len(a), v, tree[a].bound) =
              Numbers(Append(a, v), Len(a) + 1)
<1>0. PICK k, map, n, bound :
         k = Len(a) /\ map = Numbers(a, k) /\ n = Append(a, v) /\ bound = tree[a].bound
  OBVIOUS
<1>1. /\ Len(n) = k + 1 /\ n[k + 1] = v /\ First(n, k) = a
      /\ \A i \in 1 .. k : n[i] = a[i]
      /\ \A j \in 0 .. k : First(n, j) = First(a, j)
  BY <1>0, AppendSeq, FirstSeq
<1>2. DOMAIN map \cup {k} = 0 .. (k + 1) - 1 /\ k \in Nat
  BY <1>0 DEF Numbers
<1>3. ASSUME NEW j \in 0 .. (k + 1) - 1
      PROVE  (IF j = k THEN <<v, bound>> ELSE map[j]) = Number(n, j)
  <2>1. CASE j = k
    BY <1>0, <1>1, <2>1 DEF Number
  <2>2. CASE j # k
    <3>1. j \in 0 .. k - 1 /\ j + 1 \in 1 .. k /\ j \in 0 .. k
      BY <1>2, <2>2
    <3>2. map[j] = Number(a, j)
      BY <1>0, <3>1 DEF Numbers
    <3>3. First(n, j) = First(a, j) /\ n[j + 1] = a[j + 1]
      BY <1>1, <3>1
    <3> QED BY <2>2, <3>2, <3>3 DEF Number
  <2> QED BY <2>1, <2>2
<1>4. AddNumber(map, k, v, bound) =
         [j \in 0 .. (k + 1) - 1 |-> IF j = k THEN <<v, bound>> ELSE map[j]]
  BY <1>2 DEF AddNumber
<1> QED BY <1>0, <1>3, <1>4 DEF Numbers

\* An answer goes into the record.
LEMMA RecordAnswer ==
    ASSUME ChoicesAssumption, TreeInv, RecordInv, mode # "none",
           tree' = tree, programs' = programs, dfs' = dfs, debug' = debug,
           NEW a, a = answers, NEW k, k = Len(a), a \in DOMAIN tree, tree[a] # End,
           NEW v \in Accepted(tree[a]), answers' = Append(a, v),
           delta' = [delta EXCEPT !.seq_map = AddNumber(delta.seq_map, k, v, tree[a].bound),
                                  !.rand_depth = k + 1],
           mode' \in {"default", "delta", "replay"},
           mode' # "default" => delta.file # <<>> /\ Extends(Last, Append(a, v))
    PROVE  TreeInv' /\ RecordInv'
<1>1. PICK f, m, p, b :
         /\ f = delta.file /\ m = delta.seq_map /\ p = delta.random_point /\ b = Append(a, v)
  OBVIOUS
<1>2. PICK g : g = delta
  OBVIOUS
<1>3. g = [file |-> f, seq_map |-> m, rand_depth |-> k, random_point |-> p, asserts |-> TRUE]
      /\ m = Numbers(a, k)
  BY <1>1, <1>2 DEF RecordInv, Numbers
<1>4. a \in Seq(Nat) /\ Path(a) /\ k \in Nat /\ v \in Nat
  <2>1. a \in Seq(Nat) /\ Path(a)
    BY DEF TreeInv, Path
  <2>2. v \in Nat
    BY AcceptedFacts
  <2> QED BY <2>1, <2>2
<1>5. PICK bound, m2 : bound = tree[a].bound /\ m2 = AddNumber(m, k, v, bound)
  OBVIOUS
<1>6. m2 = Numbers(b, k + 1)
  <2>1. AddNumber(Numbers(a, Len(a)), Len(a), v, tree[a].bound) = Numbers(Append(a, v), Len(a) + 1)
    BY <1>4, NumberAdded
  <2> QED BY <1>1, <1>3, <1>5, <2>1
<1>7. delta' = [g EXCEPT !.seq_map = m2, !.rand_depth = k + 1]
  BY <1>1, <1>2, <1>5
<1>8. delta' = [file |-> f, seq_map |-> m2, rand_depth |-> k + 1, random_point |-> p,
                asserts |-> TRUE]
  BY <1>3, <1>7
<1>9. Len(a) < MaxExhaustiveDepth
  BY DEF RecordInv
<1>10. Path(b)
  BY <1>1, <1>4, <1>9, PathAppend
<1>11. Len(b) = k + 1
  BY <1>1, <1>4, AppendSeq
<1>12. TreeInv'
  <2>1. Path(answers')
    BY <1>1, <1>10
  <2> QED BY <2>1, SameTree
<1>13. \A q, j : Number(q, j)' = Number(q, j)
  BY DEF Number, First
<1>14. delta'.file = delta.file /\ Last' = Last
  BY <1>1, <1>8 DEF Last
<1>15. delta'.seq_map = [j \in 0 .. Len(answers') - 1 |-> Number(answers, j)']
  <2>1. answers' = b
    BY <1>1
  <2>2. delta'.seq_map = m2
    <3>1. PICK d : d = delta'
      OBVIOUS
    <3>2. d = [file |-> f, seq_map |-> m2, rand_depth |-> k + 1, random_point |-> p,
               asserts |-> TRUE]
      BY <1>8, <3>1
    <3>3. d.seq_map = m2
      BY <3>2
    <3> QED BY <3>1, <3>3
  <2>3. Len(answers') - 1 = (k + 1) - 1
    BY <1>11, <2>1
  <2>4. \A j : Number(answers, j)' = Number(b, j)
    BY <2>1 DEF Number, First
  <2> QED BY <1>6, <2>2, <2>3, <2>4 DEF Numbers
<1>16. delta'.file # <<>> =>
          /\ programs' # <<>>
          /\ delta'.file = [i \in 1 .. Len(Last') |-> Number(Last, i - 1)']
  <2>1. \A i : Number(Last, i - 1)' = Number(Last, i - 1)
    BY <1>14 DEF Number, First
  <2> QED BY <1>14, <2>1 DEF RecordInv
<1>17. mode' \in {"delta", "replay"} => delta'.file # <<>> /\ Extends(Last, answers)'
  <2>1. Extends(Last, answers)' <=> Extends(Last, Append(a, v))
    BY <1>14 DEF Extends
  <2> QED BY <1>14, <2>1
<1>18. delta' = [file |-> delta'.file, seq_map |-> delta'.seq_map, rand_depth |-> delta'.rand_depth,
                 random_point |-> delta'.random_point, asserts |-> TRUE]
       /\ delta'.rand_depth = Len(answers')
  <2>1. answers' = b
    BY <1>1
  <2>2. Len(answers') = k + 1
    BY <1>11, <2>1
  <2>3. PICK d : d = delta'
    OBVIOUS
  <2>4. d = [file |-> f, seq_map |-> m2, rand_depth |-> k + 1, random_point |-> p,
             asserts |-> TRUE]
    BY <1>8, <2>3
  <2>5. /\ d = [file |-> d.file, seq_map |-> d.seq_map, rand_depth |-> d.rand_depth,
                random_point |-> d.random_point, asserts |-> TRUE]
        /\ d.rand_depth = k + 1
    BY <2>4
  <2> QED BY <2>2, <2>3, <2>5
<1>19. delta'.file = <<>> => programs' = <<>>
  BY <1>14 DEF RecordInv
<1>20. /\ debug' = <<>> /\ ~dfs'.all_done
       /\ \A q \in DOMAIN tree' : tree'[q] = End \/ Len(q) < MaxExhaustiveDepth
  BY DEF RecordInv
<1> QED BY <1>12, <1>15, <1>16, <1>17, <1>18, <1>19, <1>20 DEF RecordInv

\* The last program.
LEMMA LastProgram ==
    ASSUME TreeInv, programs # <<>>
    PROVE  Last \in DOMAIN tree /\ tree[Last] = End /\ Last \in Seq(Nat) /\ Path(Last)
<1>1. programs \in Seq(Seq(Nat))
  BY DEF TreeInv
<1>2. Len(programs) \in DOMAIN programs
  BY <1>1
<1>3. Last \in DOMAIN tree /\ tree[Last] = End
  BY <1>2 DEF Last, TreeInv
<1> QED BY <1>3 DEF TreeInv, Path

\* The default generator answers anything.
LEMMA RecordDefault ==
    ASSUME ChoicesAssumption, TreeInv, RecordInv, mode = "default", ChooseDefault
    PROVE  TreeInv' /\ RecordInv' /\ Recording'
<1>1. PICK a, k : a = answers /\ k = Len(a)
  OBVIOUS
<1>2. a \in DOMAIN tree /\ tree[a] # End /\ Asked = tree[a]
  BY <1>1 DEF ChooseDefault, Asking, Asked
<1>3. delta.rand_depth = k
  BY <1>1 DEF RecordInv
<1>4. PICK v \in Accepted(tree[a]) :
         /\ answers' = Append(a, v)
         /\ delta' = [delta EXCEPT !.seq_map = AddNumber(delta.seq_map, k, v, tree[a].bound),
                                   !.rand_depth = k + 1]
  BY <1>1, <1>2, <1>3 DEF ChooseDefault
<1>5. /\ tree' = tree /\ mode' = "default" /\ programs' = programs /\ dfs' = dfs /\ debug' = debug
  BY DEF ChooseDefault
<1>6. TreeInv' /\ RecordInv'
  BY <1>1, <1>2, <1>4, <1>5, RecordAnswer
<1> QED BY <1>5, <1>6 DEF Recording

\* The answers of a record are what is asked for.
LEMMA RecordReplay ==
    ASSUME ChoicesAssumption, TreeInv, RecordInv, mode \in {"delta", "replay"}, ChooseDelta
    PROVE  TreeInv' /\ RecordInv' /\ Recording'
<1>1. PICK a, k, l : a = answers /\ k = Len(a) /\ l = Last
  OBVIOUS
<1>2. a \in DOMAIN tree /\ tree[a] # End /\ Asked = tree[a]
  BY <1>1 DEF ChooseDelta, Asking, Asked
<1>3. /\ delta.rand_depth = k /\ delta.file # <<>> /\ programs # <<>> /\ Extends(l, a)
      /\ delta.file = [i \in 1 .. Len(l) |-> Number(l, i - 1)]
  BY <1>1 DEF RecordInv
<1>4. l \in DOMAIN tree /\ tree[l] = End /\ l \in Seq(Nat) /\ Path(l)
  BY <1>1, <1>3, LastProgram
<1>5. a \in Seq(Nat) /\ k \in Nat /\ Len(l) \in Nat
  BY <1>1, <1>2, <1>4 DEF TreeInv, Path
<1>6. k < Len(l)
  <2>1. k <= Len(l)
    BY <1>1, <1>3 DEF Extends
  <2>2. Len(a) = Len(l) => a = l
    BY <1>3, <1>4, <1>5, ExtendsFirst
  <2>3. k # Len(l)
    BY <1>1, <1>2, <1>4, <2>2
  <2> QED BY <1>5, <2>1, <2>3
<1>7. a = First(l, k)
  BY <1>1, <1>3, <1>4, <1>5, ExtendsFirst
<1>8. PICK v : v = l[k + 1]
  OBVIOUS
<1>9. v \in Accepted(tree[a])
  <2>1. k \in 0 .. Len(l) - 1
    BY <1>5, <1>6
  <2> QED BY <1>4, <1>7, <1>8, <2>1 DEF Path
<1>10. Len(delta.file) = Len(l)
  <2>1. \A n \in Nat : \A f : f = [i \in 1 .. n |-> Number(l, i - 1)] => Len(f) = n
    OBVIOUS
  <2> QED BY <1>3, <1>5, <2>1
<1>11. delta.file[k + 1] = <<v, tree[a].bound>>
  <2>1. k + 1 \in 1 .. Len(l) /\ (k + 1) - 1 = k
    BY <1>5, <1>6
  <2>2. delta.file[k + 1] = Number(l, k)
    BY <1>3, <2>1
  <2> QED BY <1>7, <1>8, <2>2 DEF Number
<1>12. PICK p : p = delta.file[k + 1]
  OBVIOUS
<1>13. p[1] = v /\ p[2] = tree[a].bound
  BY <1>11, <1>12
<1>14. v \notin tree[a].rejected
  BY <1>9 DEF Accepted
<1>15. ~(k >= Len(delta.file))
  BY <1>5, <1>6, <1>10
<1>16. /\ answers' = Append(a, v)
       /\ mode' \in {"default", mode}
       /\ \E n : /\ n = k + 1
                 /\ delta' = [delta EXCEPT !.seq_map = AddNumber(delta.seq_map, k, v, tree[a].bound),
                                           !.rand_depth = n]
  <2>1. PICK switch \in BOOLEAN : switch = (mode = "delta" /\ k + 1 >= delta.random_point)
    OBVIOUS
  <2>2. /\ answers' = Append(a, p[1])
        /\ delta' = [delta EXCEPT !.seq_map = AddNumber(@, k, p[1], p[2]),
                                  !.rand_depth = IF switch THEN SetRandDepth(k + 1) ELSE k + 1]
        /\ mode' = IF switch THEN "default" ELSE mode
    BY <1>1, <1>2, <1>3, <1>12, <1>13, <1>14, <1>15, <2>1 DEF ChooseDelta
  <2>3. (IF switch THEN SetRandDepth(k + 1) ELSE k + 1) = k + 1
    BY DEF SetRandDepth
  <2>4. mode' \in {"default", mode}
    BY <2>2
  <2> QED BY <1>13, <2>2, <2>3, <2>4
<1>17. /\ tree' = tree /\ programs' = programs /\ dfs' = dfs /\ debug' = debug
  BY DEF ChooseDelta
<1>18. Extends(l, Append(a, v))
  BY <1>1, <1>3, <1>4, <1>5, <1>6, <1>8, ExtendsNext
<1>19. delta' = [delta EXCEPT !.seq_map = AddNumber(delta.seq_map, k, v, tree[a].bound),
                              !.rand_depth = k + 1]
  BY <1>16
<1>20. mode' \in {"default", "delta", "replay"} /\ mode # "none"
  BY <1>16
<1>21. TreeInv' /\ RecordInv'
  BY <1>1, <1>2, <1>3, <1>9, <1>16, <1>17, <1>18, <1>19, <1>20, RecordAnswer
<1> QED BY <1>20, <1>21 DEF Recording

\* The answers of a record stay in the tree with what was asked.
LEMMA NumbersKept ==
    ASSUME Grown, NEW p, Path(p)
    PROVE  \A j \in 0 .. Len(p) - 1 : Number(p, j)' = Number(p, j)
<1>1. \A j \in 0 .. Len(p) - 1 : First(p, j) \in DOMAIN tree
  BY DEF Path
<1> QED BY <1>1 DEF Grown, Number, First

\* What is asked while a record is written or read.
LEMMA RecordAsks ==
    ASSUME ChoicesAssumption, TreeInv, RecordInv, mode # "none", Ask
    PROVE  RecordInv' /\ Recording'
<1>1. /\ DOMAIN tree' = DOMAIN tree \cup {answers} /\ Grown /\ Path(answers)
      /\ mode # "dfs" /\ Len(answers) >= MaxExhaustiveDepth => tree'[answers] = End
      /\ UNCHANGED <<mode, answers, programs, dfs, delta, debug>>
  BY AskFacts
<1>2. mode \in {"default", "delta", "replay"}
  BY DEF RecordInv
<1>3. Len(answers) \in Nat /\ MaxExhaustiveDepth \in Nat
  BY <1>1 DEF Path, ChoicesAssumption
<1>4. \A q \in DOMAIN tree' : tree'[q] = End \/ Len(q) < MaxExhaustiveDepth
  BY <1>1, <1>2, <1>3 DEF RecordInv, Grown
<1>5. delta'.seq_map = [j \in 0 .. Len(answers') - 1 |-> Number(answers, j)']
  <2>1. PICK a : a = answers
    OBVIOUS
  <2>2. a' = a /\ answers' = a /\ Path(a)
    BY <1>1, <2>1
  <2>3. \A j \in 0 .. Len(a) - 1 : Number(a, j)' = Number(a, j)
    BY <1>1, <2>2, NumbersKept
  <2>4. \A j : Number(answers, j)' = Number(a, j)'
    BY <2>2 DEF Number, First
  <2>5. delta'.seq_map = [j \in 0 .. Len(a) - 1 |-> Number(a, j)]
    BY <1>1, <2>1 DEF RecordInv
  <2> QED BY <2>2, <2>3, <2>4, <2>5
<1>6. ASSUME delta.file # <<>>
      PROVE  delta'.file = [i \in 1 .. Len(Last') |-> Number(Last, i - 1)']
  <2>1. PICK l : l = Last
    OBVIOUS
  <2>2. Path(l) /\ Len(l) \in Nat
    <3>1. Path(l)
      BY <1>6, <2>1, LastProgram DEF RecordInv
    <3> QED BY <3>1 DEF Path
  <2>3. Last' = l
    BY <1>1, <2>1 DEF Last
  <2>4. \A i \in 1 .. Len(l) : Number(l, i - 1)' = Number(l, i - 1)
    <3>1. \A i \in 1 .. Len(l) : i - 1 \in 0 .. Len(l) - 1
      BY <2>2
    <3> QED BY <1>1, <2>2, <3>1, NumbersKept
  <2>5. \A i : Number(Last, i - 1)' = Number(l, i - 1)'
    BY <2>3 DEF Number, First
  <2>6. delta'.file = [i \in 1 .. Len(l) |-> Number(l, i - 1)]
    BY <1>1, <1>6, <2>1 DEF RecordInv
  <2> QED BY <2>3, <2>4, <2>5, <2>6
<1>7. mode' \in {"delta", "replay"} => delta'.file # <<>> /\ Extends(Last, answers)'
  BY <1>1 DEF RecordInv, Extends, Last
<1> QED BY <1>1, <1>2, <1>4, <1>5, <1>6, <1>7 DEF RecordInv, Recording

\* What was recorded is the whole program, and a replay is the program it replays.
LEMMA RecordPrint ==
    ASSUME ChoicesAssumption, TreeInv, RecordInv, PrintDelta
    PROVE  TreeInv' /\ RecordInv' /\ Recording'
<1>1. PICK a, k, f, m, n, p :
         /\ a = answers /\ k = Len(a) /\ f = delta.file /\ m = delta.seq_map
         /\ n = delta.rand_depth /\ p = delta.random_point
  OBVIOUS
<1>2. PICK g : g = delta
  OBVIOUS
<1>3. /\ g = [file |-> f, seq_map |-> m, rand_depth |-> n, random_point |-> p, asserts |-> TRUE]
      /\ m = Numbers(a, k) /\ mode # "none" /\ mode \in {"default", "delta", "replay"}
  BY <1>1, <1>2 DEF RecordInv, Numbers, PrintDelta
<1>4. /\ a \in DOMAIN tree /\ tree[a] = End /\ mode' = "none" /\ answers' = <<>>
      /\ tree' = tree /\ dfs' = dfs /\ debug' = debug
      /\ programs' = IF mode = "replay" THEN programs ELSE Append(programs, a)
      /\ delta' = [delta EXCEPT !.file = GetSequence(delta.seq_map),
                                !.asserts = @ /\ (mode = "replay" => answers = Last)]
  BY <1>1 DEF PrintDelta, Finished, Asked
<1>5. a \in Seq(Nat) /\ k \in Nat /\ a # <<>>
  BY <1>1, <1>4 DEF TreeInv, Path
<1>6. k # 0
  BY <1>1, <1>5, EmptySeq
<1>7. mode = "replay" => a = Last /\ programs # <<>>
  <2>1. ASSUME mode = "replay" PROVE a = Last /\ programs # <<>>
    <3>1. programs # <<>> /\ Extends(Last, a)
      BY <1>1, <2>1 DEF RecordInv
    <3>2. PICK l : l = Last
      OBVIOUS
    <3>3. Path(l) /\ Extends(l, a)
      BY <3>1, <3>2, LastProgram
    <3>4. l = a
      BY <1>4, <1>5, <3>3, EndsThere
    <3> QED BY <3>1, <3>2, <3>4
  <2> QED BY <2>1
<1>8. TreeInv' /\ programs' # <<>> /\ Last' = a
  <2>1. CASE mode = "replay"
    <3>1. programs' = programs
      BY <1>4, <2>1
    <3>2. TreeInv'
      BY <1>4, <3>1, SameTree
    <3> QED BY <1>7, <2>1, <3>1, <3>2 DEF Last
  <2>2. CASE mode # "replay"
    <3>1. programs' = Append(programs, a)
      BY <1>4, <2>2
    <3> QED BY <1>4, <1>5, <3>1, OneMore DEF Last
  <2> QED BY <2>1, <2>2
<1>9. PICK s : s = GetSequence(m)
  OBVIOUS
<1>10. s = [i \in 1 .. k |-> Number(a, i - 1)] /\ Len(s) = k
  <2>1. DOMAIN m = 0 .. k - 1
    BY <1>3 DEF Numbers
  <2>2. s = [i \in 1 .. k |-> m[i - 1]]
    BY <1>5, <1>9, <2>1, RecordRead
  <2>3. \A i \in 1 .. k : i - 1 \in 0 .. k - 1
    BY <1>5
  <2>4. \A i \in 1 .. k : m[i - 1] = Number(a, i - 1)
    BY <1>3, <2>3 DEF Numbers
  <2>5. Len(s) = k
    <3>1. DOMAIN s = 1 .. k
      BY <2>2
    <3> QED BY <1>5, <2>2
  <2> QED BY <2>2, <2>4, <2>5
<1>11. s # <<>>
  BY <1>6, <1>10, EmptySeq
<1>12. delta' = [file |-> s, seq_map |-> m, rand_depth |-> n, random_point |-> p, asserts |-> TRUE]
  <2>1. (g.asserts /\ (mode = "replay" => answers = Last)) = TRUE
    BY <1>1, <1>3, <1>7
  <2>2. delta' = [g EXCEPT !.file = s, !.asserts = TRUE]
    BY <1>1, <1>2, <1>4, <1>9, <2>1
  <2> QED BY <1>3, <2>2
<1>13. PICK d : d = delta'
  OBVIOUS
<1>14. /\ d.file = s
       /\ d = [file |-> d.file, seq_map |-> d.seq_map, rand_depth |-> d.rand_depth,
               random_point |-> d.random_point, asserts |-> TRUE]
  BY <1>12, <1>13
<1>15. delta'.file = [i \in 1 .. Len(Last') |-> Number(Last, i - 1)']
  <2>1. \A i : Number(Last, i - 1)' = Number(a, i - 1)
    BY <1>4, <1>8 DEF Number, First
  <2>2. Len(Last') = k
    BY <1>1, <1>8
  <2> QED BY <1>10, <1>13, <1>14, <2>1, <2>2
<1>16. /\ debug' = <<>> /\ ~dfs'.all_done
       /\ \A q \in DOMAIN tree' : tree'[q] = End \/ Len(q) < MaxExhaustiveDepth
  BY <1>4 DEF RecordInv
<1>17. RecordInv'
  BY <1>4, <1>8, <1>11, <1>13, <1>14, <1>15, <1>16 DEF RecordInv
<1> QED BY <1>8, <1>11, <1>13, <1>14, <1>17 DEF Recording

\* A record starts before anything was asked.
LEMMA RecordStart ==
    ASSUME ChoicesAssumption, TreeInv, SearchInv, Searching, StartRecord
    PROVE  TreeInv' /\ RecordInv' /\ Recording'
<1>1. /\ DOMAIN tree = {} /\ mode' = "default" /\ answers' = <<>>
      /\ tree' = tree /\ programs' = programs /\ dfs' = dfs /\ debug' = debug
      /\ delta' = [delta EXCEPT !.seq_map = NoMap, !.rand_depth = 0]
  BY DEF StartRecord
<1>2. TreeInv'
  <2>1. Path(answers')
    BY <1>1, EmptyPath
  <2> QED BY <1>1, <2>1, SameTree
<1>3. programs = <<>>
  <2>0. programs \in Seq(Seq(Nat))
    BY DEF TreeInv
  <2>1. \A i \in DOMAIN programs : FALSE
    BY <1>1 DEF TreeInv
  <2>2. Len(programs) \in Nat /\ DOMAIN programs = 1 .. Len(programs)
    BY <2>0
  <2>3. Len(programs) = 0
    BY <2>1, <2>2
  <2>4. \A s \in Seq(Seq(Nat)) : Len(s) = 0 => s = <<>>
    OBVIOUS
  <2> QED BY <2>0, <2>3, <2>4
<1>4. ~dfs.all_done
  <2>1. ASSUME dfs.all_done PROVE FALSE
    <3>1. Searched(<<>>) /\ Passed(<<>>)
      BY <2>1, EmptyPath DEF Passed
    <3> QED BY <1>1, <3>1 DEF SearchInv, Complete
  <2> QED BY <2>1
<1>5. delta' = [file |-> <<>>, seq_map |-> NoMap, rand_depth |-> 0, random_point |-> 0, asserts |-> TRUE]
  BY <1>1 DEF SearchInv
<1>6. PICK d : d = delta'
  OBVIOUS
<1>7. /\ d.file = <<>> /\ d.seq_map = NoMap /\ d.rand_depth = 0
      /\ d = [file |-> d.file, seq_map |-> d.seq_map, rand_depth |-> d.rand_depth,
              random_point |-> d.random_point, asserts |-> TRUE]
  BY <1>5, <1>6
<1>8. NoMap = [k \in 0 .. Len(<<>>) - 1 |-> Number(<<>>, k)']
  <2>1. 0 .. Len(<<>>) - 1 = {}
    BY EmptySeq
  <2> QED BY <2>1 DEF NoMap
<1>9. delta'.seq_map = [k \in 0 .. Len(answers') - 1 |-> Number(answers, k)']
  <2>1. \A k : Number(answers, k)' = Number(<<>>, k)'
    BY <1>1 DEF Number, First
  <2>2. Len(answers') = Len(<<>>)
    BY <1>1
  <2> QED BY <1>6, <1>7, <1>8, <2>1, <2>2
<1>10. delta'.rand_depth = Len(answers')
  BY <1>1, <1>6, <1>7, EmptySeq
<1>11. RecordInv'
  BY <1>1, <1>3, <1>4, <1>6, <1>7, <1>9, <1>10 DEF RecordInv, Searching
<1> QED BY <1>1, <1>2, <1>11 DEF Recording

\* A record is read from its beginning.
LEMMA RecordReplayStart ==
    ASSUME ChoicesAssumption, TreeInv, RecordInv, StartDelta
    PROVE  TreeInv' /\ RecordInv' /\ Recording'
<1>1. PICK point : delta' = [delta EXCEPT !.seq_map = NoMap, !.rand_depth = 0, !.random_point = point]
  BY DEF StartDelta
<1>2. /\ delta.file # <<>> /\ mode' \in {"replay", "delta"} /\ answers' = <<>>
      /\ tree' = tree /\ programs' = programs /\ dfs' = dfs /\ debug' = debug
  BY DEF StartDelta
<1>3. TreeInv'
  <2>1. Path(answers')
    BY <1>2, EmptyPath
  <2> QED BY <1>2, <2>1, SameTree
<1>4. PICK f, m, n, p, g : /\ f = delta.file /\ m = delta.seq_map /\ n = delta.rand_depth
                           /\ p = delta.random_point /\ g = delta
  OBVIOUS
<1>5. g = [file |-> f, seq_map |-> m, rand_depth |-> n, random_point |-> p, asserts |-> TRUE]
  BY <1>4 DEF RecordInv
<1>6. delta' = [file |-> f, seq_map |-> NoMap, rand_depth |-> 0, random_point |-> point,
                asserts |-> TRUE]
  <2>1. PICK e : e = delta'
    OBVIOUS
  <2>2. e = [g EXCEPT !.seq_map = NoMap, !.rand_depth = 0, !.random_point = point]
    BY <1>1, <1>4, <2>1
  <2>3. e = [file |-> f, seq_map |-> NoMap, rand_depth |-> 0, random_point |-> point,
             asserts |-> TRUE]
    BY <1>5, <2>2
  <2> QED BY <2>1, <2>3
<1>7. PICK d : d = delta'
  OBVIOUS
<1>8. /\ d.file = f /\ d.seq_map = NoMap /\ d.rand_depth = 0
      /\ d = [file |-> d.file, seq_map |-> d.seq_map, rand_depth |-> d.rand_depth,
              random_point |-> d.random_point, asserts |-> TRUE]
  BY <1>6, <1>7
<1>9. NoMap = [k \in 0 .. Len(<<>>) - 1 |-> Number(<<>>, k)']
  <2>1. 0 .. Len(<<>>) - 1 = {}
    BY EmptySeq
  <2> QED BY <2>1 DEF NoMap
<1>10. delta'.seq_map = [k \in 0 .. Len(answers') - 1 |-> Number(answers, k)']
  <2>1. \A k : Number(answers, k)' = Number(<<>>, k)'
    BY <1>2 DEF Number, First
  <2>2. Len(answers') = Len(<<>>)
    BY <1>2
  <2> QED BY <1>7, <1>8, <1>9, <2>1, <2>2
<1>11. delta'.rand_depth = Len(answers')
  BY <1>2, <1>7, <1>8, EmptySeq
<1>12. programs # <<>> /\ f = [i \in 1 .. Len(Last) |-> Number(Last, i - 1)]
  BY <1>2, <1>4 DEF RecordInv
<1>13. delta'.file = [i \in 1 .. Len(Last') |-> Number(Last, i - 1)']
  <2>1. \A i : Number(Last, i - 1)' = Number(Last, i - 1)
    BY <1>2 DEF Number, First, Last
  <2>2. Last' = Last
    BY <1>2 DEF Last
  <2> QED BY <1>7, <1>8, <1>12, <2>1, <2>2
<1>14. Extends(Last, answers)'
  <2>1. PICK l : l = Last
    OBVIOUS
  <2>2. l \in Seq(Nat)
    BY <1>12, <2>1, LastProgram
  <2>3. Extends(l, <<>>)
    BY <2>2, EmptySeq DEF Extends
  <2>4. Last' = l /\ answers' = <<>>
    BY <1>2, <2>1 DEF Last
  <2> QED BY <2>3, <2>4 DEF Extends
<1>15. RecordInv'
  BY <1>2, <1>4, <1>7, <1>8, <1>10, <1>11, <1>12, <1>13, <1>14 DEF RecordInv
<1> QED BY <1>2, <1>3, <1>4, <1>7, <1>8, <1>15 DEF Recording

-----------------------------------------------------------------------------
(* The invariant                                                           *)

\* The search goes on.
LEMMA NextSearching ==
    ASSUME TreeInv', SearchInv', mode' \in {"none", "dfs"}, debug' = <<>>
    PROVE  ChoicesInv'
<1>1. PICK d : d = delta'
  OBVIOUS
<1>2. d.file = <<>>
  <2>1. d = [file |-> <<>>, seq_map |-> NoMap, rand_depth |-> 0, random_point |-> 0, asserts |-> TRUE]
    BY <1>1 DEF SearchInv
  <2> QED BY <2>1
<1> QED BY <1>1, <1>2 DEF ChoicesInv, Searching, Debugging, Recording

\* A program is made again, or was made again.
LEMMA NextDebugging ==
    ASSUME TreeInv', DebugInv', Debugging'
    PROVE  ChoicesInv'
BY DEF ChoicesInv, Searching, Debugging, Recording, DebugInv

\* A record is written or read, or was.
LEMMA NextRecording ==
    ASSUME TreeInv', RecordInv', Recording'
    PROVE  ChoicesInv'
BY DEF ChoicesInv, Searching, Debugging, Recording, RecordInv

\* Between two programs exactly one of the three parts of the invariant applies.
LEMMA NoProgramNow ==
    ASSUME ChoicesInv, mode = "none"
    PROVE  \/ Searching /\ SearchInv /\ ~Debugging /\ ~Recording
           \/ Debugging /\ DebugInv /\ ~Searching /\ ~Recording
           \/ Recording /\ RecordInv /\ ~Searching /\ ~Debugging
BY DEF ChoicesInv, Searching, Debugging, Recording, DebugInv, RecordInv

\* Nothing was asked yet.
LEMMA ChoicesInit == ASSUME ChoicesAssumption, Init PROVE ChoicesInv
<1>1. /\ tree = [a \in {} |-> End] /\ DOMAIN tree = {} /\ mode = "none" /\ answers = <<>>
      /\ programs = <<>> /\ debug = <<>>
  BY DEF Init
<1>2. PICK states : states = [i \in 0 .. MaxExhaustiveDepth - 1 |-> [init |-> FALSE, value |-> 0]]
  OBVIOUS
<1>3. dfs = [states |-> states, decision_depth |-> -1, current_pos |-> -1, all_done |-> FALSE,
             error |-> FALSE]
  BY <1>2 DEF Init
<1>4. PICK g : g = dfs
  OBVIOUS
<1>5. /\ g.states = states /\ g.decision_depth = -1 /\ g.current_pos = -1
      /\ g.all_done = FALSE /\ g.error = FALSE
      /\ g = [states |-> g.states, decision_depth |-> g.decision_depth,
              current_pos |-> g.current_pos, all_done |-> g.all_done, error |-> FALSE]
  BY <1>3, <1>4
<1>6. MaxExhaustiveDepth \in Nat
  BY DEF ChoicesAssumption
<1>7. TreeInv
  <2>1. programs \in Seq(Seq(Nat)) /\ DOMAIN programs = {}
    BY <1>1
  <2> QED BY <1>1, <2>1 DEF TreeInv
<1>8. StatesInv
  <2>1. states \in [0 .. MaxExhaustiveDepth - 1 -> [init : BOOLEAN, value : Nat]]
    BY <1>2
  <2>2. \A i \in 0 .. MaxExhaustiveDepth - 1 : states[i].init = FALSE /\ ~(i <= -1)
    BY <1>2, <1>6
  <2>3. -1 \in -1 .. MaxExhaustiveDepth - 1 /\ -1 \in -1 .. -1
    BY <1>6
  <2> QED BY <1>4, <1>5, <2>1, <2>2, <2>3 DEF StatesInv
<1>9. Decided = <<>>
  <2>1. 1 .. -1 + 1 = {}
    OBVIOUS
  <2>2. Decided = [i \in 1 .. -1 + 1 |-> g.states[i - 1].value]
    BY <1>4, <1>5 DEF Decided
  <2>3. \A f : f = [i \in {} |-> g.states[i - 1].value] => f = <<>>
    OBVIOUS
  <2> QED BY <2>1, <2>2, <2>3
<1>10. \A q : ~Passed(q)
  <2>1. \A q : ~Before(q, <<>>)
    BY EmptySeq DEF Before
  <2>2. ~(g.current_pos < g.decision_depth)
    BY <1>5
  <2> QED BY <1>4, <1>5, <1>9, <2>1, <2>2 DEF Passed
<1>11. PlaceInv
  BY <1>1, <1>4, <1>5 DEF PlaceInv
<1>12. PrintedInv
  <2>1. DOMAIN programs = {}
    BY <1>1
  <2> QED BY <1>1, <2>1 DEF PrintedInv
<1>13. SearchInv
  <2>1. Searched(Decided)
    BY <1>9, EmptyPath
  <2>2. Complete
    BY <1>10 DEF Complete
  <2>3. delta = [file |-> <<>>, seq_map |-> NoMap, rand_depth |-> 0, random_point |-> 0,
                 asserts |-> TRUE]
    BY DEF Init
  <2> QED BY <1>1, <1>8, <1>11, <1>12, <2>1, <2>2, <2>3 DEF SearchInv
<1>14. delta.file = <<>>
  BY DEF Init
<1> QED BY <1>1, <1>7, <1>13, <1>14 DEF ChoicesInv, Searching, Debugging, Recording

\* Nothing changes: the invariant holds as before.
LEMMA ChoicesStutter == ASSUME ChoicesInv, UNCHANGED rcVars PROVE ChoicesInv'
<1>1. UNCHANGED <<tree, mode, answers, programs, dfs, delta, debug>>
  BY DEF rcVars
<1>2. TreeInv' /\ (mode = "debug" => Debugging)'
  BY <1>1 DEF ChoicesInv, TreeInv, Path, First, Debugging, Accepted
<1>3. (Searching => SearchInv)'
  <2>1. \A q : (Passed(q)' <=> Passed(q)) /\ (Searched(q)' <=> Searched(q))
    BY <1>1, SameSearched DEF Passed, Decided
  <2>2. StatesInv => StatesInv'
    BY <1>1 DEF StatesInv
  <2>3. PlaceInv => PlaceInv'
    BY <1>1 DEF PlaceInv, Decided, Extends
  <2>4. Complete => Complete'
    BY <1>1, <2>1 DEF Complete
  <2>5. PrintedInv => PrintedInv'
    <3>1. \A i : Passed(programs[i]) => Passed(programs[i])'
      BY <1>1 DEF Passed, Decided
    <3> QED BY <1>1, <3>1 DEF PrintedInv
  <2>6. Searched(Decided) => Searched(Decided)'
    <3>1. Decided' = Decided
      BY <1>1 DEF Decided
    <3>2. PICK V : V = Decided
      OBVIOUS
    <3> QED BY <2>1, <3>1, <3>2
  <2>7. Searching' => Searching
    BY <1>1 DEF Searching
  <2> QED BY <1>1, <2>1, <2>2, <2>3, <2>4, <2>5, <2>6, <2>7 DEF SearchInv, ChoicesInv
<1>4. (Debugging => DebugInv)'
  BY <1>1 DEF ChoicesInv, Debugging, DebugInv, Extends
<1>5. (Recording => RecordInv)'
  <2>1. \A p, j : Number(p, j)' = Number(p, j)
    BY <1>1 DEF Number, First
  <2>2. \A j : Number(answers, j)' = Number(answers, j) /\ Number(Last, j)' = Number(Last, j)
    BY <1>1 DEF Number, First, Last
  <2>3. Last' = Last
    BY <1>1 DEF Last
  <2>4. RecordInv => RecordInv'
    BY <1>1, <2>1, <2>2, <2>3 DEF RecordInv, Extends
  <2> QED BY <1>1, <2>4 DEF ChoicesInv, Recording
<1> QED BY <1>2, <1>3, <1>4, <1>5 DEF ChoicesInv

\* Every step keeps the invariant.
LEMMA ChoicesStep ==
    ASSUME ChoicesAssumption, ChoicesInv, [Next]_rcVars
    PROVE  ChoicesInv'
<1> USE ChoicesAssumption
<1>1. TreeInv
  BY DEF ChoicesInv
<1>2. CASE Ask
  <2>1. TreeInv' /\ mode' = mode /\ debug' = debug /\ mode # "none"
    BY <1>1, <1>2, AskTree DEF Ask
  <2>2. CASE mode = "dfs"
    <3>1. SearchInv /\ debug = <<>>
      BY <2>2, WhoAsks DEF Searching
    <3>2. SearchInv'
      BY <1>1, <1>2, <2>2, <3>1, SearchAsks
    <3> QED BY <2>1, <2>2, <3>1, <3>2, NextSearching
  <2>3. CASE mode = "debug"
    <3>1. Debugging /\ DebugInv
      BY <2>3, WhoAsks
    <3>2. DebugInv' /\ Debugging'
      BY <1>1, <1>2, <2>3, <3>1, DebugAsks
    <3> QED BY <2>1, <3>2, NextDebugging
  <2>4. CASE mode \in {"default", "delta", "replay"}
    <3>1. RecordInv
      BY <2>4, WhoAsks
    <3>2. RecordInv' /\ Recording'
      BY <1>1, <1>2, <2>1, <3>1, RecordAsks
    <3> QED BY <2>1, <3>2, NextRecording
  <2> QED BY <1>1, <2>1, <2>2, <2>3, <2>4 DEF TreeInv
<1>3. CASE StartDFS
  <2>1. mode = "none" /\ debug = <<>> /\ delta.file = <<>> /\ mode' = "dfs" /\ debug' = debug
    BY <1>3 DEF StartDFS
  <2>2. SearchInv
    BY <2>1 DEF ChoicesInv, Searching
  <2>3. TreeInv' /\ SearchInv'
    BY <1>1, <1>3, <2>2, SearchStart
  <2> QED BY <2>1, <2>3, NextSearching
<1>4. CASE ChooseDFS
  <2>1. mode = "dfs" /\ debug' = debug /\ mode' \in {"none", "dfs"}
    BY <1>4 DEF ChooseDFS, Fail
  <2>2. SearchInv /\ debug = <<>>
    BY <2>1, WhoAsks DEF Searching
  <2>3. TreeInv' /\ SearchInv'
    BY <1>1, <1>4, <2>1, <2>2, SearchChoice
  <2> QED BY <2>1, <2>2, <2>3, NextSearching
<1>5. CASE PrintDFS
  <2>1. mode \in {"dfs", "debug"} /\ debug' = debug /\ mode' = "none"
    BY <1>5 DEF PrintDFS
  <2>2. CASE mode = "dfs"
    <3>1. SearchInv /\ debug = <<>>
      BY <2>2, WhoAsks DEF Searching
    <3>2. TreeInv' /\ SearchInv'
      BY <1>1, <1>5, <2>2, <3>1, SearchPrint
    <3> QED BY <2>1, <3>1, <3>2, NextSearching
  <2>3. CASE mode = "debug"
    <3>1. Debugging /\ DebugInv
      BY <2>3, WhoAsks
    <3>2. TreeInv' /\ DebugInv' /\ Debugging'
      BY <1>1, <1>5, <2>3, <3>1, DebugPrint
    <3> QED BY <3>2, NextDebugging
  <2> QED BY <2>1, <2>2, <2>3
<1>6. CASE StartDebug
  <2>1. mode = "none" /\ debug = <<>> /\ delta.file = <<>>
    BY <1>6 DEF StartDebug
  <2>2. SearchInv
    BY <2>1 DEF ChoicesInv, Searching
  <2>3. TreeInv' /\ DebugInv' /\ Debugging'
    BY <1>1, <1>6, <2>1, <2>2, DebugStart
  <2> QED BY <2>3, NextDebugging
<1>7. CASE ChooseDebug
  <2>1. mode = "debug"
    BY <1>7 DEF ChooseDebug
  <2>2. Debugging /\ DebugInv
    BY <2>1, WhoAsks
  <2>3. TreeInv' /\ DebugInv' /\ Debugging'
    BY <1>1, <1>7, <2>1, <2>2, DebugChoice
  <2> QED BY <2>3, NextDebugging
<1>8. CASE StartRecord
  <2>1. mode = "none" /\ DOMAIN tree = {}
    BY <1>8 DEF StartRecord
  <2>2. ~(Debugging /\ DebugInv)
    BY <2>1 DEF DebugInv
  <2>3. ~(Recording /\ RecordInv)
    <3>1. ASSUME Recording, RecordInv PROVE FALSE
      <4>1. programs # <<>>
        BY <2>1, <3>1 DEF RecordInv, Recording
      <4> QED BY <1>1, <2>1, <4>1, LastProgram
    <3> QED BY <3>1
  <2>4. Searching /\ SearchInv
    BY <2>1, <2>2, <2>3, NoProgramNow
  <2>5. TreeInv' /\ RecordInv' /\ Recording'
    BY <1>1, <1>8, <2>4, RecordStart
  <2> QED BY <2>5, NextRecording
<1>9. CASE StartDelta
  <2>1. Recording
    BY <1>9 DEF StartDelta, Recording
  <2>2. RecordInv
    BY <2>1 DEF ChoicesInv
  <2>3. TreeInv' /\ RecordInv' /\ Recording'
    BY <1>1, <1>9, <2>2, RecordReplayStart
  <2> QED BY <2>3, NextRecording
<1>10. CASE ChooseDefault
  <2>1. mode = "default"
    BY <1>10 DEF ChooseDefault
  <2>2. RecordInv
    BY <2>1, WhoAsks
  <2>3. TreeInv' /\ RecordInv' /\ Recording'
    BY <1>1, <1>10, <2>1, <2>2, RecordDefault
  <2> QED BY <2>3, NextRecording
<1>11. CASE ChooseDelta
  <2>1. mode \in {"delta", "replay"}
    BY <1>11 DEF ChooseDelta
  <2>2. RecordInv
    BY <2>1, WhoAsks
  <2>3. TreeInv' /\ RecordInv' /\ Recording'
    BY <1>1, <1>11, <2>1, <2>2, RecordReplay
  <2> QED BY <2>3, NextRecording
<1>12. CASE PrintDelta
  <2>1. mode \in {"default", "delta", "replay"}
    BY <1>12 DEF PrintDelta
  <2>2. RecordInv
    BY <2>1, WhoAsks
  <2>3. TreeInv' /\ RecordInv' /\ Recording'
    BY <1>1, <1>12, <2>2, RecordPrint
  <2> QED BY <2>3, NextRecording
<1>13. CASE UNCHANGED rcVars \/ Done
  BY <1>13, ChoicesStutter DEF Done
<1> QED BY <1>2, <1>3, <1>4, <1>5, <1>6, <1>7, <1>8, <1>9, <1>10, <1>11, <1>12, <1>13 DEF Next

\* No program is printed twice.
LEMMA PrintedOnce == ASSUME ChoicesInv PROVE ProgramsOnce
<1>1. ASSUME debug = <<>>, NEW i \in DOMAIN programs, NEW j \in DOMAIN programs, i # j,
             delta.file = <<>>
      PROVE  programs[i] # programs[j]
  <2>1. CASE Searching
    <3>1. PrintedInv
      BY <2>1 DEF ChoicesInv, SearchInv
    <3> QED BY <1>1, <3>1 DEF PrintedInv
  <2>2. CASE ~Searching
    <3>1. Recording
      BY <1>1, <2>2 DEF ChoicesInv, Searching, Recording, TreeInv, Debugging
    <3>2. programs = <<>>
      BY <1>1, <3>1 DEF ChoicesInv, RecordInv
    <3>3. DOMAIN programs = {}
      BY <3>2
    <3> QED BY <1>1, <3>3
  <2> QED BY <2>1, <2>2
<1> QED BY <1>1 DEF ProgramsOnce

\* Nothing is left when all is done.
LEMMA AllTried == ASSUME ChoicesAssumption, ChoicesInv PROVE AllPrograms
<1>1. ASSUME dfs.all_done, debug = <<>>, NEW p \in DOMAIN tree
      PROVE  /\ tree[p] = End => \E i \in DOMAIN programs : programs[i] = p
             /\ Room(p) => \A v \in Accepted(tree[p]) : Append(p, v) \in DOMAIN tree
  <2>1. TreeInv /\ Path(p)
    BY DEF ChoicesInv, TreeInv
  <2>2. SearchInv
    <3>1. ~Recording
      BY <1>1 DEF ChoicesInv, RecordInv
    <3>2. Searching
      BY <1>1, <2>1, <3>1 DEF ChoicesInv, Searching, Recording, TreeInv, Debugging
    <3> QED BY <3>2 DEF ChoicesInv
  <2>3. mode # "dfs"
    BY <1>1, <2>2 DEF SearchInv, PlaceInv
  <2>4. tree[p] = End => \E i \in DOMAIN programs : programs[i] = p
    BY <2>2, <2>3 DEF SearchInv, PrintedInv
  <2>5. ASSUME Room(p), NEW v \in Accepted(tree[p]) PROVE Append(p, v) \in DOMAIN tree
    <3>1. Searched(p) /\ Len(p) < MaxExhaustiveDepth
      BY <2>2, <2>5 DEF SearchInv, Room
    <3>2. Searched(Append(p, v))
      BY <2>1, <2>5, <3>1, PathAppend
    <3>3. Passed(Append(p, v))
      BY <1>1 DEF Passed
    <3> QED BY <2>2, <3>2, <3>3 DEF SearchInv, Complete
  <2> QED BY <2>4, <2>5
<1> QED BY <1>1 DEF AllPrograms, Room

\* The sequence is used up when the program ends.
LEMMA SequenceUsed == ASSUME ChoicesAssumption, ChoicesInv PROVE DebugReplays
<1>1. ASSUME Finished, mode = "debug" PROVE answers = debug /\ dfs.all_done
  <2>1. TreeInv /\ DebugInv
    BY <1>1 DEF ChoicesInv
  <2>2. PICK a, s : a = answers /\ s = debug
    OBVIOUS
  <2>3. a \in DOMAIN tree /\ tree[a] = End /\ s \in DOMAIN tree
    BY <1>1, <2>1, <2>2 DEF Finished, Asked, DebugInv
  <2>4. a \in Seq(Nat) /\ Path(s) /\ Extends(s, a)
    BY <1>1, <2>1, <2>2, <2>3 DEF TreeInv, Path, DebugInv
  <2>5. s = a
    BY <2>1, <2>3, <2>4, EndsThere
  <2> QED BY <1>1, <2>1, <2>2, <2>5 DEF DebugInv
<1> QED BY <1>1 DEF DebugReplays

\* No record is found not to be what is asked for.
LEMMA RecordsRead == ASSUME ChoicesInv PROVE RecordReplays
<1>1. TreeInv
  BY DEF ChoicesInv
<1>2. Searching \/ Debugging \/ Recording
  BY <1>1 DEF ChoicesInv, TreeInv, Searching, Debugging, Recording
<1>3. PICK d : d = delta
  OBVIOUS
<1>4. CASE Searching
  <2>1. d = [file |-> <<>>, seq_map |-> NoMap, rand_depth |-> 0, random_point |-> 0, asserts |-> TRUE]
    BY <1>3, <1>4 DEF ChoicesInv, SearchInv
  <2>2. d.asserts
    BY <2>1
  <2> QED BY <1>3, <2>2 DEF RecordReplays
<1>5. CASE Debugging
  BY <1>5 DEF ChoicesInv, DebugInv, RecordReplays
<1>6. CASE Recording
  <2>1. d = [file |-> d.file, seq_map |-> d.seq_map, rand_depth |-> d.rand_depth,
             random_point |-> d.random_point, asserts |-> TRUE]
    BY <1>3, <1>6 DEF ChoicesInv, RecordInv
  <2>2. d.asserts
    BY <2>1
  <2> QED BY <1>3, <2>2 DEF RecordReplays
<1> QED BY <1>2, <1>4, <1>5, <1>6

\* For every depth, all requests and any number of records: the exhaustive search
\* (DFSRndNumGenerator.cpp:301) prints no program twice and, when it says that all is
\* done, has tried every value no filter rejects behind every choice there is room for;
\* the sequence of a program makes that program again, and so does a record, also one
\* that is partly a record and partly new (SimpleDeltaRndNumGenerator.cpp:191).
THEOREM ChoicesReplayed == Spec => []ChoicesReplay
<1> USE RequestsGiven
<1>1. Init => ChoicesInv
  BY ChoicesInit
<1>2. ChoicesInv /\ [Next]_rcVars => ChoicesInv'
  BY ChoicesStep
<1>3. ChoicesInv => ChoicesReplay
  BY PrintedOnce, AllTried, SequenceUsed, RecordsRead DEF ChoicesReplay
<1> QED BY <1>1, <1>2, <1>3, PTL DEF Spec
=============================================================================
