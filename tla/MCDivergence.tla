----------------------------- MODULE MCDivergence -----------------------------
(***************************************************************************)
(* Programs for the analysis of divergence.  Global variable g, pointer q,  *)
(* scalars x, y; function f has a parameter a and a pointer p.              *)
(***************************************************************************)
EXTENDS Divergence

C(n) == [type |-> "const", value |-> n]
Id == [type |-> "id"]
V(v) == [type |-> "var", var |-> v, deref |-> FALSE]
At1(v) == [type |-> "var", var |-> v, deref |-> TRUE]
Addr(v) == [type |-> "addr", var |-> v]
Or(l, r) == [type |-> "or", left |-> l, right |-> r]
Set(v, e) == [type |-> "assign", lhs |-> [var |-> v, deref |-> FALSE], rhs |-> e]
SetAt(v, e) == [type |-> "assign", lhs |-> [var |-> v, deref |-> TRUE], rhs |-> e]
If(e, yes, no) == [type |-> "if", test |-> e, yes |-> yes, no |-> no]
For(test, incr, body) == [type |-> "for", init |-> Set("i", C(1)), test |-> test, incr |-> incr, body |-> body]
Jump(kind, e, loop) == [type |-> "jump", kind |-> kind, test |-> e, loop |-> loop]
Return(e) == [type |-> "return", value |-> e]
B(stms) == [locals |-> <<>>, stms |-> stms]
MainOf(blocks) == [blocks |-> blocks, bodies |-> [main |-> 1], params |-> [main |-> <<>>]]

Locals == <<Set("x", C(0)), Set("y", C(0)), Set("i", C(0)), Set("q", Addr("g"))>>
Tests == {C(1), Id, V("x"), V("g")}

\* Branches in a row; one in another is the last statement there.
BranchPrograms ==
  {MainOf(<<[locals |-> Locals, stms |-> <<s1, If(e1, 2, 0), If(e2, 4, 0), Return(V("g"))>>],
            B(<<s2, If(e3, 3, 0)>>), B(<<s3>>), B(<<Set("g", C(1))>>)>>) :
     s1 \in {Set("x", Id), Set("q", Addr("x")), Set("x", C(1))},
     s2 \in {Set("y", C(1)), SetAt("q", C(1)), SetAt("q", Id)},
     s3 \in {Set("g", C(1)), Set("x", V("y"))},
     e1 \in Tests, e2 \in {V("x"), V("y"), V("g"), Or(V("y"), At1("q"))}, e3 \in Tests}

\* What a loop leaves reaches its start again.
Loops ==
  {MainOf(<<[locals |-> Locals, stms |-> <<For(V("i"), Set("i", C(1)), 2), If(V("g"), 4, 0), Return(C(0))>>],
            B(<<s1, If(e1, 3, 0)>>), B(<<s3>>), B(<<Set("g", C(1))>>)>>) :
     s1 \in {Set("g", V("x")), Set("x", V("y")), SetAt("q", V("x"))},
     s3 \in {Set("y", C(1)), Set("y", V("x")), Set("x", Id)},
     e1 \in Tests \cup {V("y")}}
  \cup
  {MainOf(<<[locals |-> Locals, stms |-> <<For(V("i"), Set("i", C(1)), 2), If(V("g"), 4, 0), Return(C(0))>>],
            B(<<Set("g", V("x")), s1, For(V("i"), Set("x", V("y")), 3)>>), B(<<s3>>), B(<<Set("g", C(1))>>)>>) :
     s1 \in {Set("g", V("x")), Set("x", V("y"))}, s3 \in {Set("y", Id), Set("y", V("x"))}}

\* A function that is called twice, with a pointer to a global variable.
Call(e) == [type |-> "call", func |-> "f", args |-> <<Addr("g"), e>>]
Calls ==
  {[blocks |-> <<[locals |-> Locals, stms |-> <<s1, Set("y", Call(e)), If(V("y"), 2, 0), If(V("g"), 3, 0),
                                                Set("y", Call(C(0))), If(V("y"), 3, 0)>>],
                 B(<<Set("x", C(1))>>), B(<<s2>>),
                 [locals |-> <<Set("l", C(0))>>, stms |-> <<Set("l", V("a")), s3, If(V("l"), 5, 0), Return(r)>>],
                 B(<<SetAt("p", C(1))>>)>>,
    bodies |-> [main |-> 1, f |-> 4], params |-> [main |-> <<>>, f |-> <<"p", "a">>]] :
     s1 \in {Set("x", Id), Set("x", C(1))}, e \in {V("x"), C(1)}, r \in {V("l"), V("g")},
     s2 \in {Set("g", C(0)), Set("y", Call(V("x")))}, s3 \in {Set("g", V("l")), SetAt("p", V("a"))}}

\* The test of an if with two branches is the same for all threads.
Elses ==
  {MainOf(<<[locals |-> Locals, stms |-> <<For(V("i"), Set("i", C(0)), 2), If(V("x"), 5, 0), If(V("y"), 5, 0), Return(V("g"))>>],
            B(<<If(e, 3, 4)>>), B(<<s3, If(V("y"), 5, 6)>>), B(<<s4, If(V("x"), 5, 0)>>), B(<<Set("i", C(0))>>), B(<<Set("y", Id)>>)>>) :
     e \in {C(1), V("g")}, s3 \in {Set("x", Id), Set("y", C(1))}, s4 \in {Set("y", Id), Set("x", V("y"))}}

\* A branch inside of a loop that is left early.
Jumps ==
  {MainOf(<<[locals |-> Locals, stms |-> <<s1, For(V("i"), Set("i", C(0)), 2), Return(C(0))>>],
            B(<<Jump(kind, e, 2), Set("y", C(1)), If(V("x"), 3, 0)>>), B(<<Set("x", C(1))>>)>>) :
     s1 \in {Set("x", Id), Set("y", C(1))}, kind \in {"break", "continue"}, e \in {Id, V("x"), V("y")}}

FlatPrograms == BranchPrograms \cup Loops \cup Calls \cup Elses \cup Jumps

\* The second branch of two, and what follows a branch in a branch.
NestedPrograms ==
  {MainOf(<<[locals |-> Locals, stms |-> <<If(e1, 2, no), If(V("y"), 4, 0), Return(V("g"))>>],
            B(<<If(e2, 5, 0), Set(v, C(1))>>), B(<<s3, If(V("x"), 5, 0)>>), B(<<Set("g", C(1))>>), B(<<Set("g", C(1))>>)>>) :
     e1 \in Tests, e2 \in Tests, no \in {0, 3}, v \in {"x", "y"}, s3 \in {Set("y", C(1)), Set("x", Id)}}
===============================================================================
