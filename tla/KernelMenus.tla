----------------------------- MODULE KernelMenus -----------------------------
(***************************************************************************)
(* Statements for the instances of WorkGroup: what the random choices of    *)
(* the generator are taken to produce.                                     *)
(***************************************************************************)
EXTENDS Naturals

\* Expressions.
Const(n) == [source |-> "nothing", add |-> n]
Read(source, n) == [source |-> source, add |-> n]

\* Statements.
Assign(space, e) == [stm |-> "assign", space |-> space, expr |-> e]
Comm(e) == [stm |-> "comm", expr |-> e]
Reduction(fn, space, e, addGlobal) ==
    [stm |-> "reduction", fn |-> fn, space |-> space, expr |-> e, addGlobal |-> addGlobal]
Atomic(space, c, at, s) ==
    [stm |-> "section", space |-> space, counter |-> c, at |-> at, result |-> c + 1, body |-> s]
Nothing == [stm |-> "nothing"]
If(e, s) == [stm |-> "if", expr |-> e, body |-> s]
For(s) == [stm |-> "for", body |-> s]
GatedBarrier == [stm |-> "barrier"]

\* Accesses around statements that hand the items on; a branch and a loop.
CommMenu ==
    {Assign("local", Read("local", 1)), Assign("global", Read("local", 0)),
     Comm(Const(0)), Comm(Const(1)),
     If(Read("global", 3), Comm(Const(1))), For(Assign("local", Read("global", 1)))}

\* An access, and statements that hand the items on, one of them in a branch.
IdsMenu == {Assign("local", Read("local", 1)), Comm(Const(0)), Comm(Const(1)), If(Read("global", 3), Comm(Const(1)))}

\* Reductions of both memories, sections that one work-item of a group enters, in
\* a loop, in a branch and out of them, one in the other, and values for them to
\* depend on, some of them different in each group.  The last two are refused.
AtomicsMenu ==
    {Reduction("add", "local", Read("local", 0), TRUE),
     Reduction("xor", "global", Const(1), TRUE),
     Reduction("min", "local", Read("group", 1), FALSE),
     GatedBarrier, If(Read("id", 3), GatedBarrier),
     If(Read("id", 3), Atomic("local", 0, 1, Nothing)),
     For(Reduction("sub", "global", Const(1), FALSE)),
     For(Atomic("global", 1, 2, Nothing)),
     If(Read("group", 0), Atomic("local", 0, 1, Nothing)),
     Assign("local", Read("local", 1)), Assign("global", Read("group", 1)), Comm(Const(1)),
     Atomic("global", 2, 0, Reduction("add", "global", Const(1), FALSE)),
     Atomic("local", 2, 0, Comm(Const(1)))}

\* Divergent code may enter sections; a gated barrier in it is refused.
BarrierMenu ==
    {GatedBarrier, For(GatedBarrier), If(Const(1), GatedBarrier), If(Read("id", 3), GatedBarrier),
     If(Read("id", 3), Atomic("local", 0, 1, Nothing)), Atomic("global", 1, 2, Nothing)}

\* A gated barrier in a loop, and a section with a counter in local memory.
CrowdedMenu == {GatedBarrier, For(GatedBarrier), Atomic("local", 0, 1, Nothing)}

\* The condition of a section is not divergent to the generator.
SectionBarrierMenu == {Atomic("local", 0, 1, GatedBarrier)}

\* rand_expr is an expression like any other.
RandExprMenu == {Assign("local", Read("local", 1)), Comm(Read("local", 0))}

\* A reduction is a statement like any other.
DivergentMenu == {If(Read("id", 0), Reduction("and", "local", Const(1), FALSE))}
=============================================================================
