----------------------------- MODULE Qualifiers -----------------------------
(***************************************************************************)
(* The const and volatile qualifiers csmith hangs on every level of a     *)
(* type, and how they decide which variable may stand where               *)
(* (CVQualifiers.cpp and its callers).  A list of qualifiers has one set  *)
(* per level: the first is the storage at the end of the pointers, the    *)
(* last is the variable itself.  An assignment is generated right side    *)
(* first; the qualifiers of that value are then what the left side is     *)
(* looked for with.  A pointer that is created needs an initial value, and *)
(* so, perhaps, the variable it points to.                                *)
(*                                                                        *)
(* Abstracted: which variables are visible and what is known of them      *)
(* (so an existing variable may always be passed over and a new one       *)
(* made), struct types, arrays, and atomic contexts.  const volatile on   *)
(* one level is always allowed: no option clears allow_const_volatile.    *)
(***************************************************************************)
EXTENDS Sequences, Integers, FiniteSets

CONSTANTS
    QualifierOptions,  \* the sets of options to look at
    MaxLevels,         \* with each of them, the most levels of a type
    MaxVariables,      \* and the variables kept to be chosen again
    MaxRequests        \* how deep assignments nest in assignments

VARIABLES
    switched,      \* the options of this run
    made,          \* the variables that may be chosen again
    initialising,  \* <<v>> while the variable v waits for its initial value
    requests,      \* the expressions being generated, the innermost last
    produced,      \* <<q>> once the innermost has a value with qualifiers q
    conversion,    \* <<to, from>> when the last step stored a value
    selected       \* <<s>> when the last step selected a variable

vars == <<switched, made, initialising, requests, produced, conversion, selected>>

Deepest == MaxLevels[switched]

Words == {"const", "volatile"}
Lists == UNION {[1..d -> SUBSET Words] : d \in 1..Deepest}
Any == <<>>                       \* the wildcard, and a qualifier list not given
Own(q) == q[Len(q)]
Pop(q, n) == SubSeq(q, 1, Len(q) - n)
Enclosed(q, i) == Len(q) - i >= 2   \* a level followed by at least two more

Variable == [quals : Lists, global : BOOLEAN]
Request == [kind : {"statement", "nested", "argument", "return"}, want : Lists \cup {Any},
            levels : 1..Deepest, op : {"simple", "compound", "step"}, pure : BOOLEAN]

TypeOK ==
    /\ switched \in QualifierOptions
    /\ made \subseteq Variable /\ Cardinality(made) <= MaxVariables[switched]
    /\ Len(initialising) <= 1
    /\ \A i \in DOMAIN initialising :
          initialising[i] \in [quals : Lists, access : {"READ", "WRITE"}, pure : BOOLEAN]
    /\ Len(requests) <= MaxRequests /\ \A i \in DOMAIN requests : requests[i] \in Request
    /\ Len(produced) <= 1 /\ \A i \in DOMAIN produced : produced[i] \in Lists \cup {Any}
    /\ conversion = <<>> \/ conversion \in Lists \X Lists
    /\ Len(selected) <= 1
    /\ \A i \in DOMAIN selected :
          selected[i] \in [quals : Lists, deref : 0..Deepest,
                           access : {"READ", "WRITE"}, pure : BOOLEAN]

-----------------------------------------------------------------------------
(* What the options leave: probabilities of zero, and no qualifier on pointers. *)

make_scalar(i) ==
    {k \in Words :
        /\ k = "const" => "consts" \in switched /\ (i > 1 => "const_pointers" \in switched)
        /\ k = "volatile" => "volatiles" \in switched
                             /\ (i > 1 => "volatile_pointers" \in switched)}

(* Fresh qualifiers for a type of d levels. *)
random_qualifiers(d, access, pure, no_volatile) ==
    {q \in [1..d -> SUBSET Words] :
        /\ \A i \in 1..d : q[i] \subseteq make_scalar(i)
        /\ "volatile" \in Own(q) => pure
        /\ "const" \in Own(q) => access = "READ"
        /\ no_volatile => \A i \in 1..d : "volatile" \notin q[i]}

-----------------------------------------------------------------------------
(* Which list may stand for which. *)

AnyLevelStricter(q, than) ==
    /\ Len(q) = Len(than)
    /\ \A i \in DOMAIN q : than[i] \subseteq q[i]
    /\ Len(q) > 1 => ("volatile" \in q[1] <=> "volatile" \in than[1])

stricter_than(q, than) ==
    /\ Len(q) = Len(than)
    /\ \A i \in DOMAIN q : than[i] \subseteq q[i] /\ (Enclosed(q, i) => q[i] = than[i])
    /\ Len(q) > 1 => ("volatile" \in q[1] <=> "volatile" \in than[1])

match(want, accept_stricter, exact, has) ==
    IF want = Any THEN TRUE
    ELSE IF exact THEN want = has
    ELSE IF Len(want) = 1 /\ Len(has) = 1 THEN TRUE
    ELSE IF accept_stricter THEN stricter_than(has, want) ELSE stricter_than(want, has)

(* level -1 is the address of, level n > 0 is n dereferences *)
indirect_qualifiers(q, level) ==
    IF level < 0 THEN Append(q, {}) ELSE Pop(q, level)

match_indirect(want, accept_stricter, exact, has) ==
    LET deref == Len(has) - Len(want)
    IN  \/ want = Any
        \/ deref >= -1
           /\ match(want, accept_stricter, exact, indirect_qualifiers(has, deref))

random_looser_consts(q, r) ==
    \A i \in DOMAIN q :
        IF "const" \notin q[i] \/ Enclosed(q, i) THEN "const" \in r[i] <=> "const" \in q[i]
        ELSE TRUE

random_looser_volatiles(q, r) ==
    \A i \in DOMAIN q :
        IF "volatile" \notin q[i] \/ (i = 1 /\ Len(q) > 1) \/ Enclosed(q, i)
        THEN "volatile" \in r[i] <=> "volatile" \in q[i] ELSE TRUE

random_stricter_consts(q, r) ==
    \A i \in DOMAIN q :
        IF "const" \in q[i] \/ Enclosed(q, i) THEN "const" \in r[i] <=> "const" \in q[i]
        ELSE "const" \in r[i] => "consts" \in switched

random_stricter_volatiles(q, r) ==
    \A i \in DOMAIN q :
        IF "volatile" \in q[i] \/ (i = 1 /\ Len(q) > 1) \/ Enclosed(q, i)
        THEN "volatile" \in r[i] <=> "volatile" \in q[i]
        ELSE "volatile" \in r[i] => "volatiles" \in switched

(* What all generated lists have done to them at the end. *)
Trimmed(q, access, pure, no_volatile) ==
    [i \in DOMAIN q |->
        (q[i] \cap make_scalar(i))
          \ ((IF no_volatile \/ (i = Len(q) /\ ~pure) THEN {"volatile"} ELSE {})
             \cup (IF i = Len(q) /\ access = "WRITE" THEN {"const"} ELSE {}))]

random_loose_qualifiers(q, access, pure, exact, no_volatile) ==
    {Trimmed(r, access, pure, no_volatile) :
        r \in IF exact THEN {q}
              ELSE {s \in [DOMAIN q -> SUBSET Words] :
                       random_looser_consts(q, s) /\ random_looser_volatiles(q, s)}}

RandomFrom(q, accept_stricter, access, pure, exact, no_volatile) ==
    IF q = Any THEN {Any}
    ELSE IF ~accept_stricter THEN random_loose_qualifiers(q, access, pure, exact, no_volatile)
    ELSE {Trimmed(r, access, pure, no_volatile) :
             r \in IF exact THEN {q}
                   ELSE {s \in [DOMAIN q -> SUBSET Words] :
                            random_stricter_consts(q, s) /\ random_stricter_volatiles(q, s)}}

(* A level of pointer on top. *)
random_add_qualifiers(q, exact, no_volatile) ==
    IF exact THEN {Append(q, {})}
    ELSE {Append(q, k) : k \in SUBSET (make_scalar(2)
                                        \ IF no_volatile THEN {"volatile"} ELSE {})}

restrict(q, access, pure) ==
    IF q = Any THEN Any
    ELSE [q EXCEPT ![Len(q)] = @ \ ((IF access = "WRITE" THEN {"const"} ELSE {})
                                    \cup (IF pure THEN {} ELSE {"volatile"}))]

(* Is the level reached by deref dereferences of a variable const, volatile? *)
is_after_deref(word, q, deref) == deref >= 0 /\ word \in q[Len(q) - deref]

-----------------------------------------------------------------------------
(* Choosing a variable, and making one. *)

is_eligible_var(q, deref, access, pure) ==
    /\ is_after_deref("volatile", q, deref) \/ is_after_deref("volatile", q, 0) => pure
    /\ access = "WRITE" => ~is_after_deref("const", q, deref)

(* The variables made before that fit; reach names the types to look at. *)
choose_var(access, pure, levels, want, accept_stricter, exact, reach) ==
    {v \in made :
        /\ Len(v.quals) - levels \in reach
        /\ match_indirect(want, accept_stricter, exact, v.quals)
        /\ is_eligible_var(v.quals, Len(v.quals) - levels, access, pure)}

eFlexible == -1..Deepest
eDerefExact == 0..Deepest
eDereference == 1..Deepest

GenerateNewGlobal(access, pure, levels, want) ==
    {[quals |-> q, global |-> TRUE] :
        q \in IF want = Any THEN random_qualifiers(levels, access, pure, FALSE) ELSE {want}}

GenerateNewParentLocal(access, pure, levels, want) ==
    {[quals |-> restrict(q, access, pure), global |-> FALSE] :
        q \in IF want = Any THEN random_qualifiers(levels, access, pure, TRUE) ELSE {want}}

(* One that is full forgets a variable: choosing it again was only possible. *)
Keep(v) ==
    \/ Cardinality(made \cup {v}) <= MaxVariables[switched] /\ made' = made \cup {v}
    \/ \E old \in made : made' = (made \ {old}) \cup {v}

Create(v, access, pure) ==
    /\ Keep(v)
    /\ initialising' = IF Len(v.quals) = 1 THEN <<>>
                       ELSE <<[quals |-> v.quals, access |-> access, pure |-> pure]>>

Use(v, levels, access, pure) ==
    selected' = IF Len(v.quals) < levels THEN <<>>
                ELSE <<[quals |-> v.quals, deref |-> Len(v.quals) - levels,
                        access |-> access, pure |-> pure]>>

Exact(asked) == "match_exact_qualifiers" \in switched \/ asked

-----------------------------------------------------------------------------
(* make_init_value: null or another constant, the address of a variable made
   before, or the address of one made for the purpose. *)

InitConstant ==
    /\ initialising # <<>>
    /\ initialising' = <<>> /\ conversion' = <<>> /\ selected' = <<>>
    /\ UNCHANGED <<switched, made, requests, produced>>

InitAddress ==
    /\ initialising # <<>>
    /\ LET new == initialising[1]
       IN  \E v \in choose_var(new.access, new.pure, Len(new.quals), new.quals, FALSE,
                               Exact(FALSE), {-1}) :
              conversion' = <<new.quals, indirect_qualifiers(v.quals, -1)>>
    /\ initialising' = <<>> /\ selected' = <<>>
    /\ UNCHANGED <<switched, made, requests, produced>>

InitNew ==
    /\ initialising # <<>>
    /\ LET new == initialising[1]
       IN  \E q \in random_loose_qualifiers(new.quals, new.access, new.pure, Exact(FALSE),
                        "strict_volatile_rule" \in switched /\ ~new.pure) :
           LET want == Pop(q, 1)
           IN  \E v \in GenerateNewGlobal("READ", new.pure, Len(want), want) \cup
                        (IF Len(want) > 1 /\ "volatile" \notin Own(want)
                         THEN GenerateNewParentLocal("READ", new.pure, Len(want), want)
                         ELSE {}) :
                  /\ Create(v, "READ", new.pure)
                  /\ conversion' = <<new.quals, indirect_qualifiers(v.quals, -1)>>
    /\ selected' = <<>>
    /\ UNCHANGED <<switched, requests, produced>>

-----------------------------------------------------------------------------
(* Expressions.  A request waits for a value while nothing is produced. *)

Waiting == initialising = <<>> /\ requests # <<>> /\ produced = <<>>
Answered == initialising = <<>> /\ requests # <<>> /\ produced # <<>>
Top == requests[Len(requests)]

Begin(kind, want, levels, op, pure) ==
    /\ requests = <<>> /\ initialising = <<>>
    /\ requests' = <<[kind |-> kind, want |-> want, levels |-> levels, op |-> op,
                      pure |-> pure]>>
    /\ conversion' = <<>> /\ selected' = <<>>
    /\ UNCHANGED <<switched, made, initialising, produced>>

(* A statement; only integers have operators other than =. *)
BeginAssign ==
    \E d \in 1..Deepest - 1, op \in {"simple", "compound", "step"}, pure \in BOOLEAN :
        (op # "simple" => d = 1) /\ Begin("statement", Any, d, op, pure)

(* An argument for a parameter, whose qualifiers know no context. *)
BeginArgument ==
    \E d \in 1..Deepest - 1, pure \in BOOLEAN :
        \E q \in random_qualifiers(d, "READ", TRUE, TRUE) : Begin("argument", q, d, "simple", pure)

(* A return statement of a function: a variable for the return variable. *)
BeginReturn ==
    \E d \in 1..Deepest - 1, pure \in BOOLEAN :
        \E q \in random_qualifiers(d, "READ", TRUE, TRUE) : Begin("return", q, d, "simple", pure)

Produce(q) == produced' = <<q>>

MakeConstant ==
    /\ Waiting /\ Top.kind # "return"
    /\ Produce(Any)
    /\ conversion' = <<>> /\ selected' = <<>>
    /\ UNCHANGED <<switched, made, initialising, requests>>

ReadVariable ==
    /\ Waiting
    /\ \E v \in choose_var("READ", Top.pure, Top.levels, Top.want, FALSE, Exact(FALSE),
                           eFlexible) :
          /\ Produce(indirect_qualifiers(v.quals, Len(v.quals) - Top.levels))
          /\ Use(v, Top.levels, "READ", Top.pure)
    /\ conversion' = <<>>
    /\ UNCHANGED <<switched, made, initialising, requests>>

ReadNew ==
    /\ Waiting
    /\ \E v \in GenerateNewGlobal("READ", Top.pure, Top.levels, Top.want)
                \cup GenerateNewParentLocal("READ", Top.pure, Top.levels, Top.want) :
          /\ Create(v, "READ", Top.pure)
          /\ Produce(v.quals)
          /\ Use(v, Top.levels, "READ", Top.pure)
    /\ conversion' = <<>>
    /\ UNCHANGED <<switched, requests>>

(* The qualifiers of the variable that stands for what a function returns. *)
make_random_signature(r) ==
    IF r.want = Any THEN random_qualifiers(r.levels, "READ", r.pure, TRUE)
    ELSE RandomFrom(r.want, FALSE, "READ", r.pure, Exact(FALSE), TRUE)

(* An existing function is one made for some other request. *)
choose_func(r) ==
    {q \in random_qualifiers(r.levels, "READ", TRUE, TRUE) :
        match(r.want, FALSE, Exact(FALSE), q)}

CallFunction ==
    /\ Waiting /\ Top.kind # "return"
    /\ \E q \in choose_func(Top) \cup make_random_signature(Top) : Produce(q)
    /\ conversion' = <<>> /\ selected' = <<>>
    /\ UNCHANGED <<switched, made, initialising, requests>>

(* An assignment used as an expression. *)
NestAssign ==
    /\ Waiting /\ Top.kind # "return" /\ Len(requests) < MaxRequests
    /\ \E q \in IF Top.want = Any THEN random_qualifiers(Top.levels, "WRITE", Top.pure, TRUE)
                ELSE {Top.want},
          op \in IF Top.levels = 1 THEN {"simple", "compound", "step"} ELSE {"simple"} :
          requests' = Append(requests, [Top EXCEPT !.kind = "nested", !.want = q, !.op = op])
    /\ conversion' = <<>> /\ selected' = <<>>
    /\ UNCHANGED <<switched, made, initialising, produced>>

(* A value that is passed or returned. *)
Deliver ==
    /\ Answered /\ Top.kind \in {"argument", "return"}
    /\ conversion' = IF produced[1] = Any THEN <<>> ELSE <<Top.want, produced[1]>>
    /\ requests' = Pop(requests, 1) /\ produced' = <<>> /\ selected' = <<>>
    /\ UNCHANGED <<switched, made, initialising>>

-----------------------------------------------------------------------------
(* The left side. *)

(* The qualifiers it is looked for with: those asked for, or those of the
   right side; `step' (x++) of a statement takes any. *)
Sought(r, value) ==
    LET q == IF r.want = Any THEN (IF r.op = "step" THEN Any ELSE value) ELSE r.want
        quiet == \/ r.op = "compound"
                 \/ "strict_volatile_rule" \in switched /\ r.op # "step"
    IN  IF q = Any \/ ~quiet THEN q ELSE [q EXCEPT ![Len(q)] = @ \ {"volatile"}]

(* A pointer to write through: one made before (no volatile global), or new. *)
OldPointers(r, pure, q, exact) ==
    {v \in choose_var("WRITE", pure, r.levels, q, r.want = Any, exact, eDereference) :
        ~(v.global /\ "volatile" \in Own(v.quals))}

NewPointers(r, pure, q, exact) ==
    LET wanted == IF q = Any THEN random_qualifiers(r.levels + 1, "WRITE", pure, TRUE)
                  ELSE random_add_qualifiers(q, exact, ~pure)
        writable == {[p EXCEPT ![r.levels] = @ \ {"const"}] : p \in wanted}
    IN  UNION {IF "volatile" \in Own(p) THEN GenerateNewGlobal("WRITE", pure, r.levels + 1, p)
               ELSE GenerateNewParentLocal("WRITE", pure, r.levels + 1, p) : p \in writable}

OldTargets(r, pure, q, exact) ==
    choose_var("WRITE", pure, r.levels, restrict(q, "WRITE", pure), r.want = Any, exact,
               eDerefExact)

NewTargets(r, pure, q) ==
    GenerateNewGlobal("WRITE", pure, r.levels, restrict(q, "WRITE", pure))
      \cup GenerateNewParentLocal("WRITE", pure, r.levels, restrict(q, "WRITE", pure))

(* The assignment is complete: a nested one is the value of the expression
   around it. *)
Assign(v, pure) ==
    LET lhs == indirect_qualifiers(v.quals, Len(v.quals) - Top.levels)
    IN  /\ conversion' = IF Top.op = "step" \/ produced[1] = Any THEN <<>>
                         ELSE <<lhs, produced[1]>>
        /\ Use(v, Top.levels, "WRITE", pure)
        /\ requests' = Pop(requests, 1)
        /\ produced' = IF Top.kind = "nested" THEN <<lhs>> ELSE <<>>
        /\ UNCHANGED switched

(* What the right side did counts for the left one of a compound assignment,
   and under the strict rule always. *)
LhsContexts(r) ==
    IF r.op = "compound" \/ ("strict_volatile_rule" \in switched /\ r.op = "simple")
    THEN {FALSE, r.pure} ELSE {r.pure}

AssignOld ==
    /\ Answered /\ Top.kind \in {"statement", "nested"}
    /\ \E pure \in LhsContexts(Top) :
          LET q == Sought(Top, produced[1])
              exact == Exact(Top.want # Any)
          IN  \E v \in OldPointers(Top, pure, q, exact) \cup OldTargets(Top, pure, q, exact) :
                 Assign(v, pure)
    /\ UNCHANGED <<made, initialising>>

AssignNew ==
    /\ Answered /\ Top.kind \in {"statement", "nested"}
    /\ \E pure \in LhsContexts(Top) :
          LET q == Sought(Top, produced[1])
              exact == Exact(Top.want # Any)
          IN  \E v \in NewPointers(Top, pure, q, exact) \cup NewTargets(Top, pure, q) :
                 Assign(v, pure) /\ Create(v, "WRITE", pure)

-----------------------------------------------------------------------------
Init ==
    /\ switched \in QualifierOptions
    /\ made = {} /\ initialising = <<>> /\ requests = <<>> /\ produced = <<>>
    /\ conversion = <<>> /\ selected = <<>>

Next ==
    \/ InitConstant \/ InitAddress \/ InitNew
    \/ BeginAssign \/ BeginArgument \/ BeginReturn
    \/ MakeConstant \/ ReadVariable \/ ReadNew \/ CallFunction \/ NestAssign
    \/ Deliver \/ AssignOld \/ AssignNew

Spec == Init /\ [][Next]_vars

-----------------------------------------------------------------------------
(* Every value that is stored, passed, returned or used as an initial value
   converts to where it goes by the rules of C: the levels behind the first
   pointer agree, and what the pointer points to loses no qualifier.
   Not under the strict rule for volatiles: VariableSelector.cpp:882 then
   drops every volatile of the variable an initial value is the address of. *)
ConversionsLegal ==
    conversion # <<>> /\ "strict_volatile_rule" \notin switched =>
        LET to == conversion[1]
            from == conversion[2]
        IN  /\ Len(to) = Len(from)
            /\ \A i \in 1..Len(to) - 1 :
                  from[i] \subseteq to[i] /\ (i < Len(to) - 1 => from[i] = to[i])

(* No pointer to plain storage ever holds the address of a volatile, and none
   to volatile storage that of a plain object, over any chain of assignments,
   calls and initial values (the comment at CVQualifiers.cpp:126), with the
   same exception. *)
StorageAgrees ==
    conversion # <<>> /\ Len(conversion[1]) > 1 /\ "strict_volatile_rule" \notin switched =>
        ("volatile" \in conversion[1][1] <=> "volatile" \in conversion[2][1])

(* What is written is not const at the level written, and while the context
   has a side effect nothing volatile is read or written (the assertions of
   Lhs::make_random, Lhs::get_qualifiers and VariableSelector::select). *)
SelectionsAllowed ==
    selected # <<>> =>
        LET s == selected[1]
        IN  /\ s.access = "WRITE" => ~is_after_deref("const", s.quals, s.deref)
            /\ is_after_deref("volatile", s.quals, s.deref)
               \/ is_after_deref("volatile", s.quals, 0) => s.pure

(* With an option off no variable has the qualifier, on the levels the option
   speaks of (output_qualified_type asserts it for the first two). *)
OptionsKept == \A v \in made : \A i \in DOMAIN v.quals : v.quals[i] \subseteq make_scalar(i)

\* However qualifiers are loosened, tightened and restricted on the way, every value goes
\* where C lets it, and nothing is written that is const (CVQualifiers.cpp:126).
QualifiersSound == ConversionsLegal /\ StorageAgrees /\ SelectionsAllowed /\ OptionsKept
=============================================================================
