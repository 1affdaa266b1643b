---------------------------- MODULE Probabilities ----------------------------
(***************************************************************************)
(* Probabilities.cpp, ProbabilityTable.h, VectorFilter.cpp and              *)
(* PartialExpander.cpp: how likely the kinds of statement, operator and     *)
(* expression are, from the options, at random (--random-random) or from a  *)
(* file (--probability-configuration), and what the draws do with that.     *)
(* Values are scaled: Full stands for 100.                                  *)
(***************************************************************************)
EXTENDS Integers, Sequences, FiniteSets

CONSTANTS Full,          \* the largest value
          Statements,    \* kinds of statement in the order of ProbName
          Threshold,     \* their default values
          Operators,     \* binary operators
          LineValues,    \* bound: the values that lines of a configuration give
          MaxLines       \* bound: how many of these lines there are

VARIABLES group,      \* the element of probabilities_ that is followed
          options,    \* CGOptions that are set
          prob,       \* its values, by name
          status,     \* "start", "initialised", "ready", "drawn", "aborted"
          partial,    \* a line left names out
          given,      \* lines that were read
          expands,    \* kinds of --partial-expand; {} without it
          expanding,  \* the first of them is waited for
          refused,   \* the kinds that the filter of statements refused
          drawn       \* what was drawn

pbVars == <<group, options, prob, status, partial, given, expands, expanding, refused, drawn>>

Names == {Statements[i] : i \in DOMAIN Statements}
Singles == {"more_struct_union_type", "regular_volatile", "field_volatile", "regular_const", "new_array", "pointer_as_ltype"}
Terms == {"Function", "Variable", "Constant", "Assignment", "CLExpression", "CommaExpr"}
AllOptions == {"loops", "jumps", "arrays", "muls", "divs", "msp", "volatiles", "vol_struct_union_fields", "consts",
               "pointers", "random_random", "embedded_assigns", "comma_exprs", "unary_plus", "int8", "uint8", "int64", "ccomp"}

EqualGroups == {"operator", "unary", "type", "size"}

\* The options a group looks at.
Relevant == [statement |-> {"loops", "jumps", "arrays", "random_random"},
             operator |-> {"muls", "divs", "msp", "random_random"}, unary |-> {"unary_plus", "random_random"},
             type |-> {"int8", "int64", "ccomp", "random_random"}, size |-> {"int8", "uint8", "int64", "random_random"},
             single |-> {"loops", "arrays", "volatiles", "vol_struct_union_fields", "consts", "pointers", "random_random"},
             expression |-> {"embedded_assigns", "comma_exprs"}]

-----------------------------------------------------------------------------
(* Defaults *)

\* set_default_statement_prob: the arrays are switched off where loops are.
Arrays(opt) == {"arrays", "loops"} \subseteq opt
StatementDefault(opt) ==
  LET off == {"Block"} \cup (IF "loops" \in opt THEN {} ELSE {"For"})
                       \cup (IF "jumps" \in opt THEN {} ELSE {"Goto"})
                       \cup (IF Arrays(opt) THEN {} ELSE {"ArrayOp"})
  IN [k \in Names |-> IF k \in off THEN 0 ELSE Threshold[k]]

OperatorDefault(opt) ==
  [o \in Operators |-> IF (o = "Mul" => "muls" \in opt) /\ (o = "Div" => "divs" \in opt) THEN 1 ELSE 0]

UnaryDefault(opt) == [o \in {"Plus", "Minus", "Not"} |-> IF o = "Plus" /\ "unary_plus" \notin opt THEN 0 ELSE 1]

\* void is for functions alone.
TypeDefault(opt) ==
  [t \in {"Void", "Char", "Int", "Long", "LongLong"} |->
     IF /\ t # "Void" /\ (t = "Char" => "int8" \in opt)
        /\ (t = "Long" => "ccomp" \notin opt) /\ (t = "LongLong" => "int64" \in opt) THEN 1 ELSE 0]

SizeDefault(opt) ==
  [z \in {"Int8", "Int16", "Int32", "Int64"} |->
     IF (z = "Int8" => {"int8", "uint8"} \subseteq opt) /\ (z = "Int64" => "int64" \in opt) THEN 1 ELSE 0]

\* The single values are computed first, before loops switch the arrays off.
SingleOn(name, opt) ==
  CASE name = "regular_volatile" -> "volatiles" \in opt
    [] name = "field_volatile" -> {"volatiles", "vol_struct_union_fields"} \subseteq opt
    [] name = "regular_const" -> "consts" \in opt
    [] name = "new_array" -> "arrays" \in opt
    [] name = "pointer_as_ltype" -> "pointers" \in opt
    [] OTHER -> TRUE
SingleDefault(opt) == [s \in Singles |-> IF SingleOn(s, opt) THEN Full \div 2 ELSE 0]

\* InitExprProbabilityTable (scaled): a distribution, kept as a sequence of entries.
TermEntries(opt) ==
  <<<<"Function", 4>>, <<"Variable", 2>>, <<"Constant", 1>>>>
  \o (IF "embedded_assigns" \in opt THEN <<<<"Assignment", 1>>>> ELSE <<>>)
  \o <<<<"CLExpression", 2>>>>
  \o (IF "comma_exprs" \in opt THEN <<<<"CommaExpr", 1>>>> ELSE <<>>)
TermDefault(opt) ==
  LET e == TermEntries(opt)
      With(t) == {i \in DOMAIN e : e[i][1] = t}
  IN [t \in Terms |-> IF With(t) = {} THEN 0 ELSE e[CHOOSE i \in With(t) : TRUE][2]]

Default(g, opt) ==
  CASE g = "statement" -> StatementDefault(opt) [] g = "operator" -> OperatorDefault(opt)
    [] g = "unary" -> UnaryDefault(opt) [] g = "type" -> TypeDefault(opt) [] g = "size" -> SizeDefault(opt)
    [] g = "single" -> SingleDefault(opt) [] g = "expression" -> TermDefault(opt)

-----------------------------------------------------------------------------
(* Random values *)

\* GroupProbElem::initialize: values differ, and one of them becomes Full.
RandomThresholds(d) ==
  {f \in [DOMAIN d -> 0 .. Full] :
     /\ \A k \in DOMAIN d : (d[k] = 0) = (f[k] = 0)
     /\ \A j, k \in DOMAIN d : j # k /\ f[j] # 0 => f[j] # f[k]
     /\ \E k \in DOMAIN d : f[k] = Full}

\* Equal values: a coin each; the defaults when all are off.
RandomCoins(d) ==
  {IF \A k \in DOMAIN d : f[k] = 0 THEN d ELSE f :
     f \in {h \in [DOMAIN d -> {0, 1}] : \A k \in DOMAIN d : d[k] = 0 => h[k] = 0}}

RandomSingles(d) == {f \in [DOMAIN d -> {0, 1, Full}] : \A k \in DOMAIN d : d[k] = 0 => f[k] = 0}

Initial(g, opt) ==
  CASE "random_random" \notin opt -> {Default(g, opt)}
    [] g = "statement" -> RandomThresholds(StatementDefault(opt))
    [] g \in EqualGroups -> RandomCoins(Default(g, opt))
    [] g = "single" -> RandomSingles(SingleDefault(opt))

Initialise ==
  /\ status = "start"
  /\ \E opt \in SUBSET Relevant[group] :
       /\ options' = (IF group \in {"statement", "single"} /\ "loops" \notin opt THEN opt \ {"arrays"} ELSE opt)
       /\ prob' \in Initial(group, opt)
  /\ status' = "initialised"
  /\ UNCHANGED <<group, partial, given, expands, expanding, refused, drawn>>

-----------------------------------------------------------------------------
(* --probability-configuration *)

\* setup_group_probabilities: asserts about the values of this line.  The brackets of
\* the line are taken to be those of the group.
Accepted(g, line) ==
  IF g \in EqualGroups
  THEN /\ \A k \in DOMAIN line : line[k] \in {0, 1} /\ (k = "Void" => line[k] = 0)
       /\ \E k \in DOMAIN line : line[k] = 1
  ELSE /\ \A j, k \in DOMAIN line : j # k /\ line[j] > 0 => line[j] # line[k]
       /\ \E k \in DOMAIN line : line[k] = Full

Lines(g) ==
  LET values == IF g \in EqualGroups THEN {0, 1} ELSE LineValues
  IN UNION {[D -> values] : D \in (SUBSET DOMAIN prob) \ {{}}}

\* parse_line, parse_single_elem: a single value is a line of its own.
ParseLine ==
  /\ status = "initialised" /\ group # "expression"
  /\ "random_random" \notin options /\ given < MaxLines
  /\ \E line \in IF group = "single" THEN UNION {[{s} -> {0, 1, Full}] : s \in Singles} ELSE Lines(group) :
       /\ group = "single" \/ Accepted(group, line)
       /\ prob' = [k \in DOMAIN prob |-> IF k \in DOMAIN line THEN line[k] ELSE prob[k]]
       /\ partial' = (partial \/ (group # "single" /\ DOMAIN line # DOMAIN prob))
  /\ given' = given + 1
  /\ UNCHANGED <<group, options, status, expands, expanding, refused, drawn>>

\* dump_actual_probabilities: a line per element, in the syntax that is read.
Dump(p) == p

-----------------------------------------------------------------------------
(* Tables *)

\* A key goes before an equal one: for a mutant.
InsertBefore(table, entry) ==
  LET greater == {i \in DOMAIN table : table[i][1] < entry[1]}
      n == Cardinality(greater)
  IN SubSeq(table, 1, n) \o <<entry>> \o SubSeq(table, n + 1, Len(table))

\* sorted_insert: before the first greater key.
SortedInsert(table, entry) ==
  LET n == Cardinality({i \in DOMAIN table : table[i][1] <= entry[1]})
  IN SubSeq(table, 1, n) \o <<entry>> \o SubSeq(table, n + 1, Len(table))

\* set_prob_table: what has a positive value, in the order of the names.
Table(p) ==
  LET upTo[i \in 0 .. Len(Statements)] ==
        IF i = 0 THEN <<>>
        ELSE IF p[Statements[i]] > 0 THEN SortedInsert(upTo[i - 1], <<p[Statements[i]], Statements[i]>>)
        ELSE upTo[i - 1]
  IN upTo[Len(Statements)]

\* get_value; a number without an entry fails the asserts.
Above(n) == LET t == Table(prob) IN {i \in DOMAIN t : t[i][1] > n}
number_to_type(n) ==
  LET t == Table(prob)
      above == Above(n)
  IN t[CHOOSE i \in above : \A j \in above : i <= j][2]

\* DistributionTable: probabilities add up to max_prob.
UpTo(entries, i) ==
  LET sum[j \in 0 .. Len(entries)] == IF j = 0 THEN 0 ELSE sum[j - 1] + entries[j][2] IN sum[i]
get_max(entries) == UpTo(entries, Len(entries))
rnd_num_to_key(entries, n) ==
  entries[CHOOSE i \in DOMAIN entries : UpTo(entries, i - 1) <= n /\ n < UpTo(entries, i)][1]

-----------------------------------------------------------------------------
(* Draws *)

Compound == {"IfElse", "For"}

\* Where a statement is drawn; CGOptions::gotos and array_ops besides.
Places == [no_return : BOOLEAN, atomic : BOOLEAN, in_loop : BOOLEAN, deep : BOOLEAN]

\* Deep blocks get compound statements only: for a mutant.
RejectSimple(k, place) ==
  \/ k = "Block"
  \/ (k = "Return" /\ (place.no_return \/ place.atomic))
  \/ (place.deep /\ k \notin Compound)

\* StatementFilter::filter behind the expander.
StatementRejected(k, place) ==
  \/ k = "Block"
  \/ (k = "Return" /\ (place.no_return \/ place.atomic))
  \/ (k \in {"Break", "Continue"} /\ (~place.in_loop \/ place.atomic))
  \/ (place.deep /\ k \in Compound)

\* PartialExpander::expand_check; calls are made by assignments.
Expanded(k) == k \in expands \/ (k = "Assign" /\ "Invoke" \in expands)

Expandable == {"Assign", "Block", "For", "IfElse", "Invoke", "Return"}

\* A number is drawn.  It is the filter that ends the expansion, also where it goes on to
\* reject the kind; and the expander only knows some of the kinds.
DrawStatement(place) ==
  \E n \in {i \in 0 .. Full - 1 : Above(i) # {}} :
    LET k == number_to_type(n) IN
    IF expanding /\ ~Expanded(k)
    THEN /\ status' = (IF k \in Expandable THEN "ready" ELSE "aborted")
         /\ UNCHANGED <<expanding, refused, drawn>>
    ELSE /\ expanding' = FALSE
         /\ IF StatementRejected(k, place)
            THEN refused' = refused \cup {k} /\ UNCHANGED <<status, drawn>>
            ELSE drawn' = k /\ status' = "drawn" /\ UNCHANGED refused

SmallOnly == {"Mul", "RShift", "LShift"}

\* MspBinaryFilter, and MspSafeOpSizeFilter, which is registered for the operator that
\* sizes are drawn for, with --msp and without.
ExtraFilter(k, op) ==
  \/ group = "operator" /\ "msp" \in options /\ k \in {"Div", "Mod"}   \* MspBinaryFilter
  \/ group = "size" /\ op \in SmallOnly /\ k \in {"Int32", "Int64"}

\* ProbabilityFilter::filter.
EqualRejected(k, op) == ExtraFilter(k, op) \/ prob[k] = 0

DrawEqual ==
  \E o \in DOMAIN prob, op \in SmallOnly \cup {"Add"} :
    /\ ~EqualRejected(o, op)
    /\ drawn' = o /\ status' = "drawn"
    /\ UNCHANGED <<expanding, refused>>

\* What Expression::make_random filters: calls, constants, assignments, all that nests,
\* and an OpenCL expression that could not be made.
TermFilters ==
  {F \cup T : F \in SUBSET {"Function", "Constant", "Assignment", "CLExpression"},
              T \in {{}, {"Function", "Assignment", "CommaExpr"}}}

\* VectorFilter looks the key of a number up.
DrawTerm(filter) ==
  LET entries == TermEntries(options) IN
  \E n \in 0 .. get_max(entries) - 1 :
    LET t == rnd_num_to_key(entries, n) IN
    /\ t \notin filter
    /\ drawn' = t /\ status' = "drawn"
    /\ UNCHANGED <<expanding, refused>>

\* What is expanded is not combined with a configuration (a bound).
Start ==
  /\ status = "initialised" /\ group # "single"
  /\ status' = "ready"
  /\ \/ expands' = {}
     \/ group = "statement" /\ given = 0 /\ expands' \in {{"For"}, {"Return"}, {"For", "Invoke"}}
  /\ expanding' = (expands' # {})
  /\ UNCHANGED <<group, options, prob, partial, given, refused, drawn>>

Draw ==
  /\ status = "ready"
  /\ \/ group = "statement" /\ \E place \in Places : DrawStatement(place)
     \/ group \in EqualGroups /\ DrawEqual
     \/ group = "expression" /\ \E filter \in TermFilters : DrawTerm(filter)
  /\ UNCHANGED <<group, options, prob, partial, given, expands>>

\* It stops, or draws again: rnd_upto repeats until the filter is content.
Done == (status \in {"ready", "drawn", "aborted"} \/ (group = "single" /\ status # "start")) /\ UNCHANGED pbVars

Init ==
  /\ group \in EqualGroups \cup {"statement", "single", "expression"}
  /\ options = {} /\ prob = Default(group, {}) /\ status = "start"
  /\ partial = FALSE /\ given = 0 /\ expands = {} /\ expanding = FALSE /\ refused = {} /\ drawn = "none"

Next == Initialise \/ ParseLine \/ Start \/ Draw \/ Done

Spec == Init /\ [][Next]_pbVars

-----------------------------------------------------------------------------
(* Properties *)

Steady == status \in {"initialised", "ready"}

\* Whatever was drawn or configured, every number below 100 stands for a kind of
\* statement: the asserts of get_value hold.
NumbersStandForKinds ==
  group = "statement" /\ Steady => \A n \in 0 .. Full - 1 : Above(n) # {}

\* A kind with a positive value has numbers, as many as the value is above the one
\* below; a configuration that names only some of the kinds may hide others.
PositiveIsReachable ==
  group = "statement" /\ Steady /\ ~partial =>
    LET kind == [n \in 0 .. Full - 1 |-> number_to_type(n)] IN
    \A k \in Names : prob[k] > 0 =>
      Cardinality({n \in 0 .. Full - 1 : kind[n] = k})
        = prob[k] - (LET lower == {prob[j] : j \in {i \in Names : prob[i] < prob[k]}} \cup {0}
                     IN CHOOSE x \in lower : \A y \in lower : x >= y)

\* Nothing that an option switches off is likely or drawn, unless a configuration says
\* so.  New arrays are not switched off by --no-loops: their value is computed before.
OffStaysOff ==
  Steady \/ status = "drawn" =>
    given > 0 \/ /\ \A k \in DOMAIN prob : Default(group, options)[k] = 0 => prob[k] = 0 \/ (k = "new_array" /\ "loops" \notin options)
                 /\ drawn \in DOMAIN prob => prob[drawn] > 0

\* A draw repeats until a filter is content.  With the default values it ends in every
\* place and with every option.  Random or configured values make it endless where a
\* configuration leaves assignments no number, where --msp rejects divisions and no other
\* operator is on, and for the sizes of products and shifts where those of 8 and 16 bits
\* are off; in no other case.
Ends(op) == \E k \in DOMAIN prob : ~EqualRejected(k, op)
On == {k \in DOMAIN prob : prob[k] > 0}
EndlessCase(op) ==
  \/ group = "operator" /\ "msp" \in options /\ On \subseteq {"Div", "Mod"}
  \/ group = "size" /\ op \in SmallOnly /\ On \subseteq {"Int32", "Int64"}
ByDefault == given = 0 /\ "random_random" \notin options

OnlyTheseEndless ==
  status = "ready" =>
    CASE group = "statement" ->
           LET kinds == {number_to_type(n) : n \in 0 .. Full - 1} IN
           given = 0 \/ "Assign" \in kinds => \A place \in Places : \E k \in kinds : ~StatementRejected(k, place)
      [] group \in EqualGroups -> \A op \in SmallOnly \cup {"Add"} : ByDefault \/ ~EndlessCase(op) => Ends(op)
      [] OTHER -> \A filter \in TermFilters : \E t \in Terms \ filter : prob[t] > 0

\* What a run writes, the next one reads back: its values are accepted, unless the
\* configuration of this one hid a kind.
DumpReadsBack ==
  group \in EqualGroups \cup {"statement"} /\ status = "initialised" /\ ~partial =>
    /\ Accepted(group, Dump(prob))
    /\ Dump(prob) = prob

\* Keys of a distribution get exactly their shares of the numbers.
SharesAreExact ==
  group = "expression" /\ status = "ready" =>
    \A t \in Terms : Cardinality({n \in 0 .. get_max(TermEntries(options)) - 1 : rnd_num_to_key(TermEntries(options), n) = t}) = prob[t]

\* The first statement is of a kind that was to be expanded; it may be another only after
\* the filter refused one that was.
FirstIsExpanded ==
  group = "statement" /\ status = "drawn" /\ expands # {} =>
    \E k \in refused \cup {drawn} : k \in expands \/ (k = "Assign" /\ "Invoke" \in expands)

PbTypeOK ==
  /\ status \in {"start", "initialised", "ready", "drawn", "aborted"}
  /\ options \subseteq AllOptions /\ partial \in BOOLEAN /\ given \in 0 .. MaxLines
  /\ expanding \in BOOLEAN /\ refused \subseteq Names
  /\ \A k \in DOMAIN prob : prob[k] \in 0 .. Full

\* What is drawn is what the probabilities say, defaults, random or configured: kinds that
\* are on are reached, others not, and a draw ends, with random or configured values but
\* for the cases of OnlyTheseEndless (Probabilities.cpp).
DrawsFollowProbabilities ==
  /\ PbTypeOK
  /\ NumbersStandForKinds
  /\ PositiveIsReachable
  /\ OffStaysOff
  /\ OnlyTheseEndless
  /\ DumpReadsBack
  /\ SharesAreExact
  /\ FirstIsExpanded
=============================================================================
