----------------------------- MODULE EMIPruning -----------------------------
(***************************************************************************)
(* The pruning of EMI sections: StatementEMI::PruneBlock with MergeBlock,   *)
(* RemoveBreakContinue and Block::remove_stmt.  A section is a tree of      *)
(* blocks that never runs; pruning deletes leaves and compound statements   *)
(* and lifts the contents of compound statements into the enclosing block.  *)
(*                                                                         *)
(* Vectors are modelled with their memory: mem[b] are the slots of the      *)
(* statement vector of block b, size[b] is how many of them are in it.  A   *)
(* range-for fixes its end when it starts, so an erase from under it is     *)
(* visible: later elements move down and the last slot keeps its value.     *)
(***************************************************************************)
EXTENDS Integers, FiniteSets, SequencesExt

CONSTANTS Trees,        \* the sections to prune, as they were generated
          Percentages   \* settings of --emi_p_leaf, --emi_p_compound, --emi_p_lift

(***************************************************************************)
(* A tree: roots are the true branches of the EMI statements of a function, *)
(* stms the contents of its blocks, kind and subs the kind of a statement   *)
(* and its nested blocks, dest the labels of gotos, outer whether the       *)
(* sections are inside of a loop.                                          *)
(***************************************************************************)
Kinds == {"leaf", "goto", "break", "continue", "if", "for"}
Compound == {"if", "for"}
Jumps == {"break", "continue"}

VARIABLES tree,     \* the sections as generated, never changed
          p,        \* the percentages of this program
          prog,     \* [mem, size, locals, edges, blocks]: the program being pruned
          rest,     \* the sections still to be pruned
          frames,   \* the activations of PruneBlock, innermost first
          flips     \* how many numbers were drawn

vars == <<tree, p, prog, rest, frames, flips>>

Blocks == DOMAIN tree.stms
Stms == DOMAIN tree.kind
Gotos == {s \in Stms : tree.kind[s] = "goto"}
Stmts(pr, b) == SubSeq(pr.mem[b], 1, pr.size[b])

\* Block::parent, set when the block is made and not updated by MergeBlock.
ParentBlock(b) == {c \in Blocks : \E i \in DOMAIN tree.stms[c] : b \in Range(tree.subs[tree.stms[c][i]])}
Ancestors(b) ==
  LET up[n \in 0..Cardinality(Blocks)] ==
        IF n = 0 THEN {b} ELSE LET seen == up[n-1] IN seen \cup UNION {ParentBlock(c) : c \in seen}
  IN  up[Cardinality(Blocks)]

Looping(b) == \E s \in Stms : tree.kind[s] = "for" /\ b \in Range(tree.subs[s])
InLoop(b) == tree.outer \/ \E c \in Ancestors(b) : Looping(c)

Holder(pr, s) == {b \in Blocks : s \in Range(Stmts(pr, b))}

\* Statement::contains_stmt follows the parents of x up; those of blocks are
\* the ones they had when they were generated.
contains_stmt(pr, s, x) ==
  x = s \/ \E b \in Holder(pr, x) : Ancestors(b) \cap Range(tree.subs[s]) # {}
contains_block(s, b) == Ancestors(b) \cap Range(tree.subs[s]) # {}

\* find_typed_stmts goes down through the statements of the blocks of s.
BlocksIn(pr, s) ==
  LET down[n \in 0..Cardinality(Blocks)] ==
        IF n = 0 THEN Range(tree.subs[s])
        ELSE LET seen == down[n-1] IN seen \cup UNION {Range(tree.subs[t]) : t \in UNION {Range(Stmts(pr, b)) : b \in seen}}
  IN  down[Cardinality(Blocks)]
StmsIn(pr, s) == {s} \cup UNION {Range(Stmts(pr, b)) : b \in BlocksIn(pr, s)}

-----------------------------------------------------------------------------
(* Vectors *)

\* vector::erase: the slots behind move down, the last one keeps what it held.
Erase(pr, s) ==
  LET b    == CHOOSE b \in Holder(pr, s) : TRUE
      kept == SelectSeq(Stmts(pr, b), LAMBDA t : t # s)
  IN  IF Holder(pr, s) = {} THEN pr
      ELSE [pr EXCEPT !.mem[b] = kept \o SubSeq(@, Len(kept) + 1, Len(@)),
                      !.size[b] = Len(kept)]

(***************************************************************************)
(* Block::remove_stmt: the edges of gotos in s go; the gotos whose label is  *)
(* in s are removed with their statements, and with them the gotos that      *)
(* lead to those; the blocks in s are no longer the function's.             *)
(***************************************************************************)
Doomed(pr, s) ==
  LET open == pr.edges \ StmsIn(pr, s)
      lost[n \in 0..Cardinality(Gotos)] ==
        IF n = 0 THEN {g \in open : contains_stmt(pr, s, tree.dest[g])}
        ELSE LET seen == lost[n-1] IN seen \cup {g \in open : tree.dest[g] \in seen}
  IN  lost[Cardinality(Gotos)]

RemoveWith(pr, s, gotos) ==
  LET cut == [pr EXCEPT !.edges = @ \ (StmsIn(pr, s) \cup gotos),
                        !.blocks = {b \in @ : ~contains_block(s, b)}]
  IN  Erase(FoldLeft(Erase, cut, SetToSeq(gotos)), s)

RemoveKeepingGotos(pr, s) == RemoveWith(pr, s, {})

remove_stmt(pr, s) == RemoveWith(pr, s, Doomed(pr, s))

remove_all(pr, seq) == FoldLeft(remove_stmt, pr, seq)

\* RemoveBreakContinue: jumps in the block and, below it, in branches of ifs.
JumpsBelow(pr, b) ==
  LET reach[n \in 0..Cardinality(Blocks)] ==
        IF n = 0 THEN {b}
        ELSE LET seen == reach[n-1] IN seen \cup UNION {Range(tree.subs[t]) :
               t \in {u \in UNION {Range(Stmts(pr, c)) : c \in seen} : tree.kind[u] = "if"}}
  IN  {t \in UNION {Range(Stmts(pr, c)) : c \in reach[Cardinality(Blocks)]} : tree.kind[t] \in Jumps}

RemoveBreakContinue(pr, b) == remove_all(pr, SetToSeq(JumpsBelow(pr, b)))

(***************************************************************************)
(* MergeBlock: the locals and the statements of merger go to former, the    *)
(* statements in front of position pos; merger is left empty.  pos becomes   *)
(* the position behind them.                                               *)
(***************************************************************************)
Insert(st, former, from) ==
  LET into == Stmts(st.pr, former)
      new  == SubSeq(into, 1, st.pos - 1) \o from \o SubSeq(into, st.pos, Len(into))
  IN  [pos |-> st.pos + Len(from),
       pr  |-> [st.pr EXCEPT !.mem[former] = new \o SubSeq(@, Len(new) + 1, Len(@)), !.size[former] = Len(new)]]

Emptied(pr, merger) == [pr EXCEPT !.mem[merger] = <<>>, !.size[merger] = 0, !.locals[merger] = {}]

MergeBlock(st, former, merger) ==
  LET new == Insert(st, former, Stmts(st.pr, merger))
  IN  [new EXCEPT !.pr = [Emptied(@, merger) EXCEPT !.locals[former] = @ \cup st.pr.locals[merger]]]

-----------------------------------------------------------------------------
(* PruneBlock *)

\* A compound statement is lifted only when it is not deleted.
Lifts(compound, lift) == ~compound /\ lift

\* p_lift_adj: lifting is only looked at when the compound flip failed.
LiftAdjusted(q) == IF q.compound = 100 THEN q.lift ELSE (100 * q.lift) \div (100 - q.compound)

\* rnd_flipcoin(percent) may come out as r.
Flip(percent, r) == (percent <= 0 => ~r) /\ (percent >= 100 => r)

NewFrame(b) == [blk |-> b, it |-> 1, end |-> prog.size[b], st |-> "none", sub |-> 1,
                del |-> <<>>, lift |-> <<>>, at |-> 1, phase |-> "iterate"]

Top == Head(frames)
SetTop(f) == frames' = <<f>> \o Tail(frames)

\* The statement of this turn is read once: nested blocks may change the vector.
Current == IF Top.sub = 1 THEN prog.mem[Top.blk][Top.it] ELSE Top.st

Init ==
  /\ tree \in Trees
  /\ p \in Percentages
  /\ prog = [mem |-> tree.stms, size |-> [b \in Blocks |-> Len(tree.stms[b])],
             locals |-> [b \in Blocks |-> {b}], edges |-> Gotos, blocks |-> Blocks]
  /\ rest = tree.roots
  /\ frames = <<>>
  /\ flips = 0

\* PruneEMISections, Prune: the next section.
PruneSection ==
  /\ frames = <<>> /\ rest # <<>>
  /\ frames' = <<NewFrame(Head(rest))>>
  /\ rest' = Tail(rest)
  /\ UNCHANGED <<tree, p, prog, flips>>

Iterating == frames # <<>> /\ Top.phase = "iterate"

PruneLeaf ==
  /\ Iterating /\ Top.it <= Top.end
  /\ tree.kind[Current] \notin Compound
  /\ flips' = flips + 1
  /\ \E delete \in BOOLEAN :
       /\ Flip(p.leaf, delete)
       /\ SetTop([Top EXCEPT !.it = @ + 1,
                             !.del = IF delete THEN Append(@, Current) ELSE @])
  /\ UNCHANGED <<tree, p, prog, rest>>

\* The nested blocks of a compound statement are pruned whatever becomes of it.
EnterNested ==
  /\ Iterating /\ Top.it <= Top.end
  /\ tree.kind[Current] \in Compound
  /\ Top.sub <= Len(tree.subs[Current])
  /\ frames' = <<NewFrame(tree.subs[Current][Top.sub]), [Top EXCEPT !.sub = @ + 1, !.st = Current]>> \o Tail(frames)
  /\ UNCHANGED <<tree, p, prog, rest, flips>>

\* Both coins are flipped, also when the first one decides.
DrawsForCompound(compound) == 2

PruneCompound ==
  /\ Iterating /\ Top.it <= Top.end
  /\ tree.kind[Current] \in Compound
  /\ Top.sub > Len(tree.subs[Current])
  /\ \E compound, lift \in BOOLEAN :
       /\ Flip(p.compound, compound)
       /\ Flip(LiftAdjusted(p), lift)
       /\ flips' = flips + DrawsForCompound(compound)
       /\ SetTop([Top EXCEPT !.it = @ + 1, !.sub = 1,
                             !.del = IF compound THEN Append(@, Current) ELSE @,
                             !.lift = IF Lifts(compound, lift) THEN Append(@, Current) ELSE @])
  /\ UNCHANGED <<tree, p, prog, rest>>

\* The loop ends: the selected statements are removed.
RemoveSelected ==
  /\ Iterating /\ Top.it > Top.end
  /\ prog' = remove_all(prog, Top.del)
  /\ SetTop([Top EXCEPT !.phase = "lift"])
  /\ UNCHANGED <<tree, p, rest, flips>>

Slots(f, st) == {i \in f.at..Len(prog.mem[f.blk]) : i <= prog.size[f.blk] + 1 /\ prog.mem[f.blk][i] = st}

(***************************************************************************)
(* Lift one marked statement: find it from the position of the last one on, *)
(* merge its blocks in front of it; jumps of a loop go, unless a loop is     *)
(* left around them.  One that is marked twice may have been deleted: it is  *)
(* found in the slot behind the last, or the assertion of the search fails.  *)
(***************************************************************************)
LiftStatement ==
  /\ frames # <<>> /\ Top.phase = "lift" /\ Top.sub <= Len(Top.lift)
  /\ LET n   == Top.sub
         st  == Top.lift[n]
         pos == Slots(Top, st)
         sub == tree.subs[st]
         pr  == IF tree.kind[st] = "for" /\ ~InLoop(Top.blk)
                  THEN RemoveBreakContinue(prog, sub[1]) ELSE prog
         Merge(acc, b) == MergeBlock(acc, Top.blk, b)
         end == FoldLeft(Merge, [pos |-> Min(pos), pr |-> pr], sub)
     IN  /\ pos # {}
         /\ prog' = end.pr
         /\ SetTop([Top EXCEPT !.at = end.pos, !.sub = n + 1])
  /\ UNCHANGED <<tree, p, rest, flips>>

LiftMissing ==
  /\ frames # <<>> /\ Top.phase = "lift" /\ Top.sub <= Len(Top.lift)
  /\ Slots(Top, Top.lift[Top.sub]) = {}
  /\ SetTop([Top EXCEPT !.phase = "aborted"])
  /\ UNCHANGED <<tree, p, prog, rest, flips>>

\* Remove the emptied statements and return.
Return ==
  /\ frames # <<>> /\ Top.phase = "lift" /\ Top.sub > Len(Top.lift)
  /\ prog' = remove_all(prog, Top.lift)
  /\ frames' = Tail(frames)
  /\ UNCHANGED <<tree, p, rest, flips>>

Pruned == frames = <<>> /\ rest = <<>>
Aborted == frames # <<>> /\ Top.phase = "aborted"
Done == (Pruned \/ Aborted) /\ UNCHANGED vars

Next ==
  \/ PruneSection \/ PruneLeaf \/ EnterNested \/ PruneCompound
  \/ RemoveSelected \/ LiftStatement \/ LiftMissing \/ Return
  \/ Done

Spec == Init /\ [][Next]_vars

-----------------------------------------------------------------------------
(* What pruning must not get wrong *)

\* The statements from block b on in the order of the text, leaves only.
Leaves(pr, b) ==
  LET text[n \in 0..Cardinality(Blocks), c \in Blocks] ==
        IF n = 0 THEN <<>>
        ELSE FlattenSeq([i \in 1..pr.size[c] |->
               LET s == pr.mem[c][i]
               IN  IF tree.kind[s] \in Compound
                     THEN FlattenSeq([j \in DOMAIN tree.subs[s] |-> text[n-1, tree.subs[s][j]]])
                     ELSE <<s>>])
  IN  text[Cardinality(Blocks), b]

AllLeaves(pr) == FlattenSeq([i \in DOMAIN tree.roots |-> Leaves(pr, tree.roots[i])])

Generated == [mem |-> tree.stms, size |-> [b \in Blocks |-> Len(tree.stms[b])]]

\* The blocks around a statement in the program as it is now.
Around(pr, s) ==
  LET up[n \in 0..Cardinality(Blocks)] ==
        IF n = 0 THEN Holder(pr, s)
        ELSE LET seen == up[n-1] IN seen \cup {b \in Blocks : \E c \in seen :
                             \E t \in Range(Stmts(pr, b)) : c \in Range(tree.subs[t])}
  IN  up[Cardinality(Blocks)]

InTree(pr) == {b \in Blocks : \E i \in DOMAIN tree.roots :
                  b = tree.roots[i] \/ \E s \in Range(Stmts(pr, tree.roots[i])) : b \in BlocksIn(pr, s)}

\* Types: slots hold statements, sizes are within the slots, frames are well formed.
TypeOK ==
  /\ \A b \in Blocks : /\ prog.mem[b] \in Seq(Stms) /\ prog.size[b] \in 0..Len(prog.mem[b])
                       /\ prog.locals[b] \subseteq Blocks
  /\ prog.edges \subseteq Gotos /\ prog.blocks \subseteq Blocks
  /\ flips \in Nat
  /\ \A i \in DOMAIN frames : /\ frames[i].phase \in {"iterate", "lift", "aborted"}
                              /\ Range(frames[i].del) \cup Range(frames[i].lift) \subseteq Stms

\* Gotos of a block that lead into a block nested in it, and gotos that lead into a
\* block that is not around them: when their labels are pruned they go as well, while
\* the block they are in is iterated over, or before it is.
LeadsInto(g, b) == \E s \in Range(tree.stms[b]) : tree.kind[s] \in Compound /\ tree.dest[g] \in StmsIn(Generated, s) \ {s}
JumpsDown(b) == {g \in Gotos \cap Range(tree.stms[b]) : LeadsInto(g, b)}
JumpsIn == {g \in Gotos : Holder(Generated, tree.dest[g]) \cap Around(Generated, g) = {}}
Gone(g) == Holder(prog, g) = {}

(* "To retain iterator validity, statements are lifted after iteration"     *)
(* (StatementEMI.cpp:64): while a block is iterated over, its vector does    *)
(* not change although nested blocks are pruned meanwhile, so no statement   *)
(* is marked twice.  Not so for a goto into a nested block: remove_stmt      *)
(* takes it out of the vector when its label goes (Block.cpp:717).           *)
IterationValid ==
  \A i \in DOMAIN frames :
    \/ /\ frames[i].phase = "iterate" => frames[i].end = prog.size[frames[i].blk]
       /\ Range(frames[i].del) \cap Range(frames[i].lift) = {}
       /\ frames[i].phase # "aborted"
    \/ \E g \in JumpsDown(frames[i].blk) : Gone(g)

(* "the random number generator is called the same number of times" (:85):   *)
(* how many numbers pruning draws depends on the section, not on the         *)
(* percentages or on what is deleted or lifted, as long as no goto goes      *)
(* whose label was pruned in a block that is not around it.                 *)
FlipsFixed ==
  Pruned => \/ flips = Cardinality(Range(AllLeaves(Generated)))
                       + 2 * Cardinality({s \in Stms : tree.kind[s] \in Compound})
            \/ \E g \in JumpsIn : Gone(g)

(* After lifting a for statement its jumps have gone or belong to a loop     *)
(* around it (RemoveBreakContinue, in_loop): no break or continue is left    *)
(* outside of loops.                                                       *)
JumpsInLoops ==
  Pruned => \A s \in Range(AllLeaves(prog)) :
    tree.kind[s] \in Jumps => tree.outer \/ \E b \in Around(prog, s) : Looping(b)

(* MergeBlock takes the local variables along: a statement that survives     *)
(* finds every variable that was visible to it when it was generated.        *)
VariablesInScope ==
  Pruned => \A s \in Range(AllLeaves(prog)) :
    Around(Generated, s) \subseteq UNION {prog.locals[b] : b \in Around(prog, s)}

(* Pruning deletes and lifts but does not copy or reorder: the statements    *)
(* that are left stand in the order in which they were generated.            *)
OrderKept ==
  LET old == AllLeaves(Generated)
      new == AllLeaves(prog)
      Place(s) == CHOOSE i \in DOMAIN old : old[i] = s
  IN  Pruned => \A i, j \in DOMAIN new : i < j => Place(new[i]) < Place(new[j])

(* "delete all the blocks inside s" (Block.cpp:730): the blocks the function *)
(* keeps for later phases (ParseUnusedVars) are the ones that are printed,    *)
(* but for those nested in a block that was merged: their parent is still    *)
(* that block, and they leave the list when the emptied statement does.      *)
BlocksRegistered ==
  Pruned => prog.blocks = {b \in InTree(prog) : Ancestors(b) \subseteq InTree(prog)}

(* A goto that is left has its label: the statement it jumps to is left too.  *)
GotosHaveLabels ==
  Pruned => \A s \in Range(AllLeaves(prog)) :
    tree.kind[s] = "goto" => Holder(prog, tree.dest[s]) # {}

\* A pruned program is one that compiles and that is, but for what was pruned, the one
\* that was generated; the cases in which iteration, draws and the list of blocks go
\* wrong are those named (StatementEMI.cpp:64).
PruningSound ==
  /\ TypeOK
  /\ IterationValid
  /\ FlipsFixed
  /\ JumpsInLoops
  /\ VariablesInScope
  /\ OrderKept
  /\ BlocksRegistered
  /\ GotosHaveLabels
=============================================================================
