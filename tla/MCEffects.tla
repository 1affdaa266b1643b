------------------------------ MODULE MCEffects ------------------------------
(***************************************************************************)
(* An instance of Effects: variables, a union of two members, a pointer to a *)
(* variable or a member, an array of pointers and its item, a volatile; a    *)
(* function known by its effect, one whose body is visited again at a call,  *)
(* and one that is made for the call.                                        *)
(***************************************************************************)
EXTENDS TLC

VARIABLES cgs, frames, value, expr_depth, ops, finished

Obj(parent, shape, whole, index, points, volatile) ==
  [parent |-> parent, shape |-> shape, whole |-> whole, index |-> index, points |-> points, volatile |-> volatile]
EffObjects ==
  "x" :> Obj("none", "scalar", "x", {}, {}, FALSE) @@ "y" :> Obj("none", "scalar", "y", {}, {}, FALSE)
  @@ "u" :> Obj("none", "union", "u", {}, {}, FALSE)
  @@ "u.f" :> Obj("u", "scalar", "u.f", {}, {}, FALSE) @@ "u.g" :> Obj("u", "scalar", "u.g", {}, {}, FALSE)
  @@ "p" :> Obj("none", "scalar", "p", {}, {"x", "u.f"}, FALSE)
  @@ "a" :> Obj("none", "scalar", "a", {}, {"x"}, FALSE) @@ "a[y]" :> Obj("none", "scalar", "a", {"y"}, {"x"}, FALSE)
  @@ "v" :> Obj("none", "scalar", "v", {}, {}, TRUE)

Eff(r, w) == [r |-> r, w |-> w, lhs |-> {}, free |-> "v" \notin r \cup w]
NoEff == Eff({}, {})
Fun(params, known, actual, revisit, made, before) ==
  [params |-> params, known |-> known, actual |-> actual, revisit |-> revisit, made |-> made, before |-> before]
EffCallees ==
  "f" :> Fun(1, Eff({"y"}, {"x"}), Eff({"y"}, {"x"}), FALSE, FALSE, NoEff)
  @@ "g" :> Fun(0, Eff({}, {"p"}), Eff({"v"}, {"p", "u.f"}), TRUE, FALSE, Eff({"y"}, {}))
  @@ "h" :> Fun(2, NoEff, Eff({"u.g"}, {"a"}), TRUE, TRUE, NoEff)

Generated == INSTANCE Effects WITH
  Object <- EffObjects, Callees <- EffCallees, Counters <- {"y"},
  Contexts <- {NoEff, [Eff({"u.g"}, {"a"}) EXCEPT !.free = FALSE]},
  Kinds <- {"add", "and", "comma", "vector", "assign", "compound", "incr", "call"},
  Leaves <- {<<"x", FALSE>>, <<"u.g", FALSE>>, <<"p", TRUE>>, <<"v", FALSE>>},
  Targets <- {<<"x", FALSE>>, <<"p", FALSE>>, <<"p", TRUE>>, <<"u", FALSE>>, <<"a[y]", TRUE>>, <<"a[y]", FALSE>>},
  MaxExprDepth <- 4, MaxOps <- 2

Init == Generated!Init
Next == Generated!Next
Spec == Generated!Spec

\* The properties of Effects, for this instance.
EvaluationSound == Generated!EvaluationSound

\* No part of a vector changes what another part accesses.
PartsDetermined == Generated!PartsDetermined
=============================================================================
