----------------------------- MODULE ProgramText -----------------------------
(***************************************************************************)
(* How csmith writes a program (OutputMgr.cpp, DefaultOutputMgr.cpp, the    *)
(* Output functions of variables, types and functions, and the extensions): *)
(* to one file, or split into several with what they share in a header.  A  *)
(* text is a sequence of declarations, definitions and uses of names; what  *)
(* a type or an expression looks like is left out.                          *)
(***************************************************************************)
EXTENDS Integers, Sequences, FiniteSets, SequencesExt

CONSTANTS OutputOptions,  \* the options: see Init
          Inputs,         \* func1_max_params: parameters of the first function with an extension
          TestSize        \* coverage_test_size: test values for every parameter

VARIABLES options,  \* the options of this program
          texts,    \* the files, and the header they share
          written,  \* what was written: the next step follows
          pending,  \* the variables and functions that are not written yet
          passed    \* what the first function is called with: see OutputMain

ptVars == <<options, texts, written, pending, passed>>

\* The program: func_1 is called by main, g_3 points to g_1, g_2 may be an array of S.
Globals == <<"g_1", "g_2", "g_3">>
Functions == <<"func_1", "func_2">>
Body == [func_1 |-> <<"g_1", "g_2", "func_2">>, func_2 |-> <<"g_3">>]
Initialiser == [g_1 |-> <<>>, g_2 |-> <<>>, g_3 |-> <<"g_1">>]
HeaderFile == -1
MainFile == 0
Files == 0 .. (IF options.split > 0 THEN options.split - 1 ELSE 0)
is_split == options.split > 0

Def(name) == [kind |-> "def", name |-> name]
Static(name) == [kind |-> "static", name |-> name]
Decl(name) == [kind |-> "decl", name |-> name]
Illegal(name) == [kind |-> "illegal", name |-> name]
Use(name) == [kind |-> "use", name |-> name]
Each(names, item(_)) == [i \in DOMAIN names |-> item(names[i])]
If(condition, text) == IF condition THEN text ELSE <<>>

\* The runtime headers; a macro counts as a declaration and a definition.
csmith_h == Each(<<"transparent_crc", "crc32_gentab", "platform_main", "printf", "safe_math">>, Static)
safe_math_h == <<Static("safe_math")>>

TypeOf(g) == If(g = "g_2" /\ options.struct_arrays, <<Use("S")>>)
StructUnionDeclarations == If(options.struct_arrays, <<Static("S")>>)
Linked(name) == IF options.static THEN Static(name) ELSE Def(name)
\* A declaration that is both extern and static is none.
ExternDecl(g) == TypeOf(g) \o <<IF options.static THEN Illegal(g) ELSE Decl(g)>>
VariableDef(g) == TypeOf(g) \o <<Linked(g)>> \o Each(Initialiser[g], Use)
FunctionHeader(f) == IF options.static THEN [kind |-> "forward", name |-> f] ELSE Decl(f)

\* Function::Output: guarded against recursion, hashed in front of every statement.
FunctionText(f) ==
  <<Linked(f)>> \o If(options.depth_protect, <<Use("DEPTH")>>)
  \o If(options.step_hash, <<Use("csmith_step_hash")>>)
  \o If(options.wrap_volatiles, <<Use("VOL_LVAL")>>) \o If(options.access_once, <<Use("ACCESS_ONCE")>>)
  \o <<Use("safe_math")>> \o Each(Body[f], Use)

ForwardDeclarations == Each(Functions, FunctionHeader)
FlattenTexts(names, text(_)) == FoldLeft(LAMBDA all, name : all \o text(name), <<>>, names)

-----------------------------------------------------------------------------
Emit(file, text) == texts' = [texts EXCEPT ![file] = @ \o text]
Keep == UNCHANGED <<options, pending, passed>>

(* OutputMgr::OutputHeader: to the main file, before anything is generated *)
HeaderText ==
  If(options.extension \in {"splat", "klee", "crest"}, <<Decl("extension")>>)
  \o csmith_h
  \o If(~options.compute_hash, <<Def("csmith_sink_")>>)
  \o If(options.depth_protect, <<Static("MAX_DEPTH"), Def("DEPTH")>>)
  \o If(options.wrap_volatiles, <<Static("VOL_LVAL")>>)
  \o If(options.access_once, <<Static("ACCESS_ONCE")>>)
  \o If(options.step_hash, <<Decl("csmith_compute_hash"), Decl("csmith_step_hash")>>)
OutputHeader == written = "nothing" /\ written' = "header" /\ Emit(MainFile, HeaderText) /\ Keep

OutputGlobals ==
  /\ written = "header" /\ is_split
  /\ written' = "globals"
  /\ Emit(HeaderFile, safe_math_h \o FlattenTexts(Globals, ExternDecl) \o StructUnionDeclarations)
  /\ Keep

OutputAllHeaders ==
  /\ written = "globals"
  /\ texts' = [f \in DOMAIN texts |-> IF f = HeaderFile THEN texts[f]
                                     ELSE texts[f] \o texts[HeaderFile] \o ForwardDeclarations]
  /\ written' = "headers"
  /\ pending' = Globals \o Functions
  /\ UNCHANGED <<options, passed>>

\* The second half of the program is written everywhere: for a mutant.
OutputEverywhere ==
  /\ written = "headers" /\ pending # <<>>
  /\ texts' = [f \in DOMAIN texts |->
                 texts[f] \o (IF Head(pending) \in ToSet(Globals) THEN VariableDef(Head(pending)) ELSE FunctionText(Head(pending)))]
  /\ pending' = Tail(pending)
  /\ UNCHANGED <<options, written, passed>>

\* Every variable, then every function, goes to a random file.
RandomOutputDef ==
  /\ written = "headers" /\ pending # <<>>
  /\ \E f \in Files :
       Emit(f, IF Head(pending) \in ToSet(Globals) THEN VariableDef(Head(pending)) ELSE FunctionText(Head(pending)))
  /\ pending' = Tail(pending)
  /\ UNCHANGED <<options, written, passed>>

OutputWhole ==
  /\ written = "header" /\ ~is_split
  /\ Emit(MainFile, StructUnionDeclarations \o FlattenTexts(Globals, VariableDef)
                    \o ForwardDeclarations \o FlattenTexts(Functions, FunctionText))
  /\ written' = "program"
  /\ Keep

\* The globals are hashed by hand or by csmith_compute_hash; index variables are local.
IndexVariables(scope) == <<Static(scope \o ".i")>>
HashValue(g, scope) ==
  <<Use(g)>> \o (IF options.compute_hash THEN <<Use("transparent_crc"), Use(scope \o ".print_hash_value")>>
                 ELSE <<Use("csmith_sink_")>>)
HashArray(g, scope) == <<Use(scope \o ".i")>> \o HashValue(g, scope)
HashGlobals(scope) ==
  FlattenTexts(Globals, LAMBDA g : CASE g = "g_1" -> HashValue(g, scope)
                                     [] g = "g_2" -> HashArray(g, scope)
                                     [] g = "g_3" -> <<>>)   \* a pointer

OutputHashFunctions ==
  /\ written \in {"program", "headers"} /\ pending = <<>>
  /\ Emit(MainFile, If(options.step_hash,
            <<Def("csmith_compute_hash")>> \o IndexVariables("hash") \o HashGlobals("hash")
            \o <<Def("csmith_step_hash"), Use("csmith_compute_hash"), Use("printf"), Use("crc32_gentab")>>))
  /\ written' = "functions"
  /\ Keep

-----------------------------------------------------------------------------
(* main *)

InputNames == SubSeq(<<"main.x0", "main.x1", "main.x2">>, 1, Inputs)
HasInputs == options.extension # "none"

\* CoverageTestExtension makes TestSize values for one parameter after the other.
TestValues == 1 .. Inputs * TestSize

\* The array of a parameter: it starts one value behind the array before it.
ArrayInit(i) == [n \in 1 .. TestSize |-> i - 1 + n]

\* The declarations at the head of main, by extension.
default_output_definitions == <<Def("main")>> \o Each(InputNames, Static)
SplatInit == default_output_definitions \o Each(InputNames, Use) \o <<Use("extension")>>
KleeInit == default_output_definitions \o <<Use("extension")>> \o Each(InputNames, Use)
CrestInit == default_output_definitions \o <<Use("extension")>> \o Each(InputNames, Use)
CoverageInit == default_output_definitions \o <<Static("main.index")>>
InitText == CASE options.extension = "none" -> <<Def("main")>>
              [] options.extension = "splat" -> SplatInit
              [] options.extension = "klee" -> KleeInit
              [] options.extension = "crest" -> CrestInit
              [] options.extension = "coverage" -> CoverageInit
CoverageInvocation == <<Use("main.index")>> \o Each(InputNames, Use) \o <<Use("func_1")>>
CallText ==
  IF options.extension = "coverage" THEN CoverageInvocation
  ELSE If(HasInputs, Each(InputNames, Use)) \o <<Use("func_1")>>

MainText ==
  InitText \o IndexVariables("main")
  \o (IF options.blind_check_global
        THEN CallText \o Each(Globals, Use) \o <<Use("printf")>>
        ELSE <<Static("main.print_hash_value"), Use("platform_main")>>
             \o If(options.compute_hash, <<Use("crc32_gentab")>>)
             \o CallText
             \o <<Use("g_3")>>   \* a dangling pointer is reset
             \o (IF options.step_hash THEN <<Use("csmith_compute_hash")>> ELSE HashGlobals("main")))

OutputMain ==
  /\ written = "functions"
  /\ written' = "all"
  /\ Emit(MainFile, If(~options.nomain, MainText))
  /\ passed' = IF options.extension = "coverage" /\ ~options.nomain
                 THEN [i \in 1 .. Inputs |-> ArrayInit(i)] ELSE <<>>
  /\ UNCHANGED <<options, pending>>

Done == written = "all" /\ UNCHANGED ptVars

Init ==
  /\ options \in OutputOptions
  /\ texts = [f \in Files \cup {HeaderFile} |-> <<>>]
  /\ written = "nothing"
  /\ pending = <<>>
  /\ passed = <<>>

Next == \/ OutputHeader \/ OutputGlobals \/ OutputAllHeaders \/ RandomOutputDef
        \/ OutputWhole \/ OutputHashFunctions \/ OutputMain
        \/ Done

Spec == Init /\ [][Next]_ptVars

-----------------------------------------------------------------------------
(* Names that a file may use without a declaration, and then does not       *)
(* compile.  In one file there is one: the hash functions pass a variable of *)
(* main.  Of a split program, what OutputHeader declares is only in the main *)
(* file, the header names its structures after the variables, and its       *)
(* declarations of static variables are no declarations.                   *)
Undeclared(name, f) ==
  \/ name = "hash.print_hash_value" /\ options.step_hash /\ options.compute_hash
  \/ is_split /\ f # MainFile /\ name \in {"DEPTH", "csmith_step_hash", "VOL_LVAL", "ACCESS_ONCE"}
  \/ is_split /\ name = "S"
  \/ is_split /\ options.static /\ name \in ToSet(Globals)

(* In every file that is compiled, each name is declared in front of its    *)
(* first use, whatever options are combined and wherever the definitions go. *)
NamesDeclared ==
  \A f \in Files : \A i \in DOMAIN texts[f] :
    texts[f][i].kind = "use" =>
      \/ \E j \in 1 .. i - 1 : texts[f][j].kind \notin {"use", "illegal"} /\ texts[f][j].name = texts[f][i].name
      \/ Undeclared(texts[f][i].name, f)

Places(name, kinds) == {f \in Files : \E i \in DOMAIN texts[f] : texts[f][i].name = name /\ texts[f][i].kind \in kinds}
Occurrences(name, kinds) ==
  {<<f, i>> \in UNION {{f} \X DOMAIN texts[f] : f \in Files} :
     texts[f][i].name = name /\ texts[f][i].kind \in kinds}

(* Every variable and function of the program is defined once, and, but in   *)
(* split programs with static names, in reach of every file that uses it.   *)
ProgramLinks ==
  written = "all" =>
    \A name \in ToSet(Globals) \cup ToSet(Functions) :
      /\ Cardinality(Occurrences(name, {"def", "static"})) = 1
      /\ options.static /\ ~is_split => Places(name, {"use"}) \subseteq Places(name, {"static"})

(* Every value that --coverage-test writes into the array of a parameter     *)
(* was made before.                                                        *)
TestValuesExist ==
  \A i \in DOMAIN passed : ToSet(passed[i]) \subseteq TestValues

\* Whatever options are combined, variables and functions are written once, names are
\* declared before they are used, but for those of Undeclared, and test values exist
\* before they are passed (DefaultOutputMgr.cpp:156, OutputMgr.cpp:234).
ProgramComplete == NamesDeclared /\ ProgramLinks /\ TestValuesExist
=============================================================================
