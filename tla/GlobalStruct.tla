---------------------------- MODULE GlobalStruct ----------------------------
(***************************************************************************)
(* What goGenerator does after a program is generated                      *)
(* (CLProgramGenerator.cpp) with the variables that the functions of a     *)
(* kernel share (Globals.cpp): they are collected from csmith's list and    *)
(* from every feature of CLSmith, printed as the fields of a struct, their  *)
(* names are changed in place, and the entry function initialises them from *)
(* its parameters and from buffers of its own.                             *)
(***************************************************************************)
EXTENDS Naturals, Sequences, FiniteSets

CONSTANTS Generated,      \* what csmith may have created: [list: GlobalList, items: items of arrays, on AllVars only]
          FeatureSets,    \* sets of options
          Sections,       \* memory spaces of the atomic sections generated: sets of "local", "global"
          Barriers        \* numbers of gated barriers

(* A variable is [name, item]: an item of an array or a buffer has the name of
   its collective.  Variables with equal names are different objects. *)
Var(n) == [name |-> n, item |-> 0]
Item(n, i) == [name |-> n, item |-> i]

IsItem(v) == v.item # 0

VARIABLES
  phase,         \* the next phase of goGenerator
  features, inSections, gates,
  allVars,       \* VariableSelector::AllVars
  globalList,    \* VariableSelector::GlobalList
  global_vars_, buffers_,
  buffInit,      \* struct_buff_init_: names as they were when a buffer was added
  prefix,        \* how often the name of the struct stands before a name
  definition, initialisation   \* the fields as printed, with their names

gVars == <<phase, features, inSections, gates, allVars, globalList, global_vars_, buffers_, buffInit,
           prefix, definition, initialisation>>

-----------------------------------------------------------------------------
(* The variables of the features *)

Items(n, k) == [i \in 1 .. k |-> Item(n, i)]

AtomicMems(space, n) ==
  IF space \in inSections
    THEN <<Var(n \o "_atomic_input")>> \o Items(n \o "_atomic_input", 2) \o <<Var(n \o "_special_values")>>
    ELSE <<>>

CommItems == <<Item("l_comm_values", 1), Item("g_comm_values", 1)>>

\* Itemising puts the item on AllVars, whatever the options: the buffers of
\* inter-thread communication and the fake identifiers always exist.
ItemsMade ==
  {CommItems[i] : i \in 1 .. 2} \cup {Item("permutations", 1)} \cup {Item("sequence_input", i) : i \in 1 .. 2}
  \cup {Item(n \o "_atomic_input", i) : n \in {s \in {"g", "l"} : (IF s = "g" THEN "global" ELSE "local") \in inSections}, i \in 1 .. 2}
  \cup IF "emi" \in features THEN {Item("emi_input", i) : i \in 1 .. 2} ELSE {}
  \cup IF "message_passing" \in features THEN {Item("message", 1)} ELSE {}

BufferSpace(v) == IF v.name \in {"g_atomic_input", "g_special_values", "g_atomic_reduction", "emi_input", "g_comm_values"}
                    THEN "global" ELSE "local"

\* The parameters of the entry function, by option.
Parameters ==
  UNION {IF "atomics" \in features THEN {"g_atomic_input", "g_special_values"} ELSE {},
         IF "atomic_reductions" \in features THEN {"g_atomic_reduction"} ELSE {},
         IF "emi" \in features THEN {"emi_input"} ELSE {},
         IF "fake_divergence" \in features THEN {"sequence_input"} ELSE {},
         IF "inter_thread_comm" \in features THEN {"g_comm_values"} ELSE {}}

-----------------------------------------------------------------------------
(* Globals *)

\* The initialiser of a buffer is its name at this moment.
Named(v) == [name |-> v.name, prefix |-> prefix[v]]

\* Items initialised like their collectives: for a mutant.
AddBuffersAndItems(bs) ==
  /\ buffers_' = buffers_ \o bs
  /\ buffInit' = buffInit \o [i \in DOMAIN bs |-> Named(bs[i])]

AddBuffers(bs) ==
  /\ buffers_' = buffers_ \o bs
  /\ buffInit' = buffInit \o [i \in DOMAIN SelectSeq(bs, LAMBDA b : ~IsItem(b)) |->
                                Named(SelectSeq(bs, LAMBDA b : ~IsItem(b))[i])]

Step(from, to) == phase = from /\ phase' = to

Kept == UNCHANGED <<features, inSections, gates, allVars>>
NothingPrinted == UNCHANGED <<prefix, definition, initialisation>>

\* Variables of a feature that is on, or nothing.
AddVars(feature, from, to, bs, vs) ==
  /\ Step(from, to)
  /\ IF feature \in features
       THEN AddBuffers(bs) /\ global_vars_' = global_vars_ \o vs
       ELSE UNCHANGED <<buffers_, buffInit, global_vars_>>
  /\ UNCHANGED globalList /\ Kept /\ NothingPrinted

\* The list of csmith is copied: what comes later is added by hand.
GetGlobals ==
  /\ Step("record", "atomics")
  /\ globalList' = IF "atomic_reductions" \in features THEN Append(globalList, Var("v_collective")) ELSE globalList
  /\ global_vars_' = globalList'
  /\ UNCHANGED <<buffers_, buffInit>> /\ Kept /\ NothingPrinted

AddAtomicVars == AddVars("atomics", "atomics", "reductions", AtomicMems("local", "l") \o AtomicMems("global", "g"), <<>>)

AddReductionVars == AddVars("atomic_reductions", "reductions", "emi", <<Var("l_atomic_reduction"), Var("g_atomic_reduction")>>, <<>>)

\* The list of the controller starts with the collective.
AddEMIInput == AddVars("emi", "emi", "fake", <<Var("emi_input")>> \o Items("emi_input", 2), <<>>)

AddIDVars == AddVars("fake_divergence", "fake", "comm", <<>>, <<Var("id_0_offset"), Var("id_1_offset")>>)

AddCommVars == AddVars("inter_thread_comm", "comm", "messages", <<Var("l_comm_values"), Var("g_comm_values")>>, <<Var("tid")>>)

AddMessageVars == AddVars("message_passing", "messages", "barriers", <<Var("message"), Item("message", 1)>>, <<>>)

GenerateBarriers ==
  /\ Step("barriers", "define")
  /\ AddBuffers([i \in 1 .. gates |-> Var(IF i = 1 THEN "lb_1" ELSE "lb_2")])
  /\ global_vars_' = global_vars_ \o [i \in 1 .. gates |-> Var(IF i = 1 THEN "gate_1" ELSE "gate_2")]
  /\ UNCHANGED globalList /\ Kept /\ NothingPrinted

-----------------------------------------------------------------------------
(* Output *)

Fields(l) == SelectSeq(l, LAMBDA v : ~IsItem(v))
Printed(l, p) == [i \in DOMAIN l |-> [name |-> l[i].name, prefix |-> p[l[i]]]]

OutputStructDefinition ==
  /\ Step("define", "modify")
  /\ definition' = Printed(Fields(global_vars_), prefix) \o Printed(Fields(buffers_), prefix)
  /\ UNCHANGED <<globalList, global_vars_, buffers_, buffInit, prefix, initialisation>> /\ Kept

StartsWithG(v) == v.name \in {"g_1", "g_2", "g_3", "g_comm_values", "g_atomic_input", "g_special_values", "g_atomic_reduction"}
Occurs(v, l) == Cardinality({i \in DOMAIN l : l[i] = v})

\* Once for each entry of global_vars_; then the variables of AllVars that still
\* start with g_ and are no buffers; then once for each entry of buffers_.
Prefixed(v) ==
  LET first == Occurs(v, global_vars_)
      second == IF v \in allVars /\ first = 0 /\ StartsWithG(v) /\ Occurs(v, buffers_) = 0 THEN 1 ELSE 0
  IN  first + second + Occurs(v, buffers_)

ModifyGlobalVariableReferences ==
  /\ Step("modify", "functions")
  /\ prefix' = [v \in DOMAIN prefix |-> Prefixed(v)]
  /\ UNCHANGED <<globalList, global_vars_, buffers_, buffInit, definition, initialisation>> /\ Kept

OutputFunctions == Step("functions", "entry") /\ UNCHANGED <<globalList, global_vars_, buffers_, buffInit>> /\ Kept /\ NothingPrinted

\* For variables the comment behind the initialiser names the field; a buffer is
\* initialised by the text that was written when it was added.
OutputStructInit ==
  /\ Step("entry", "done")
  /\ initialisation' = Printed(Fields(global_vars_), prefix) \o buffInit
  /\ UNCHANGED <<globalList, global_vars_, buffers_, buffInit, prefix, definition>> /\ Kept

-----------------------------------------------------------------------------
AllNames == {"g_1", "g_2", "g_3", "v_collective", "g_atomic_input", "l_atomic_input", "g_special_values", "l_special_values",
             "l_atomic_reduction", "g_atomic_reduction", "emi_input", "id_0_offset", "id_1_offset", "sequence_input",
             "l_comm_values", "g_comm_values", "tid", "permutations", "message", "lb_1", "lb_2", "gate_1", "gate_2"}

Init ==
  /\ phase = "record"
  /\ features \in FeatureSets
  /\ inSections \in (IF "atomics" \in features THEN Sections ELSE {{}})
  /\ gates \in (IF "barriers" \in features THEN Barriers ELSE {0})
  /\ \E g \in Generated :
       /\ globalList = (IF "inter_thread_comm" \in features THEN CommItems ELSE <<>>) \o g.list
       /\ allVars = ItemsMade \cup g.items \cup {g.list[i] : i \in DOMAIN g.list}
  /\ global_vars_ = <<>> /\ buffers_ = <<>> /\ buffInit = <<>>
  /\ prefix = [v \in [name : AllNames, item : 0 .. 2] |-> 0]
  /\ definition = <<>> /\ initialisation = <<>>

Done == phase = "done" /\ UNCHANGED gVars

Next == \/ GetGlobals \/ AddAtomicVars \/ AddReductionVars \/ AddEMIInput \/ AddIDVars \/ AddCommVars
        \/ AddMessageVars \/ GenerateBarriers \/ OutputStructDefinition \/ ModifyGlobalVariableReferences
        \/ OutputFunctions \/ OutputStructInit \/ Done

Spec == Init /\ [][Next]_gVars

-----------------------------------------------------------------------------
\* C initialises the struct by position: the n-th initialiser of the entry
\* function is that of the n-th field of the definition, which is printed from
\* the lists before the names change (Globals.cpp:59, :105).
FieldsMatchInitialisers ==
  phase = "done" => /\ Len(initialisation) = Len(definition)
                    /\ \A i \in DOMAIN definition : initialisation[i].name = definition[i].name

\* A buffer is initialised by a name that exists in the entry function: a
\* parameter of the kernel, or a local buffer declared there.  The rest of the
\* program has only the struct (CLOutputMgr.cpp:140).
InitialisersExist ==
  phase = "done" =>
    \A i \in Len(Fields(global_vars_)) + 1 .. Len(initialisation) :
      LET init == initialisation[i] IN
      init.prefix = 0 /\ (BufferSpace(Var(init.name)) = "global" => init.name \in Parameters)

\* The variables that the functions use: what csmith generated, and the items
\* and buffers of the features that are on.
UsedInFunctions ==
  {v \in allVars : v.name \in {"g_1", "g_2", "g_3", "g_atomic_input", "l_atomic_input", "emi_input", "message"}}
  \cup {global_vars_[i] : i \in DOMAIN global_vars_} \cup {buffers_[i] : i \in DOMAIN buffers_}

\* The functions name a shared variable as a field of the struct, once: also an
\* item of an array that is on no list of globals, and an item of a buffer that
\* is on two lists (Globals.cpp:145).
ReferencesNameFields ==
  phase \in {"functions", "entry"} =>
    \A v \in UsedInFunctions : prefix[v] = 1 /\ \E i \in DOMAIN definition : definition[i].name = v.name

\* The struct that stands for the global variables of the program has a field for each
\* reference, and each field the initialiser that was meant for it (Globals.cpp:59).
GlobalsInStruct == FieldsMatchInitialisers /\ InitialisersExist /\ ReferencesNameFields
=============================================================================
