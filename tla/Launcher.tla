------------------------------ MODULE Launcher ------------------------------
(***************************************************************************)
(* cl_launcher: it takes the arguments that the generator wrote in the first *)
(* line of a program, then those of the command line, checks the sizes and   *)
(* the device, sets up the arguments of the kernel, runs it and prints what  *)
(* the work-items returned.  The OpenCL implementation is external: each     *)
(* call may fail, and devices are given by what the host asks of them.       *)
(***************************************************************************)
EXTENDS Integers, SequencesExt, FiniteSetsExt

CONSTANTS Programs,      \* first lines of programs: [features, counters, globals, locals]
          CommandLines,  \* sequences of arguments, an option with its value or alone
          ArgsFiles,     \* first lines of files with arguments, numbered from 1
          Platforms,     \* a sequence of sequences of devices
          DefGlobal, DefLocal   \* DEF_GLOBAL_SIZE, DEF_LOCAL_SIZE

Features == {"atomics", "atomic_reductions", "emi", "fake_divergence", "inter_thread_comm"}

VARIABLES program, line,  \* the program and the command line
          pos,            \* the argument that is parsed next
          set,            \* the options as they are now
          call,           \* what main does next
          args,           \* arguments of the kernel: [name, size]
          result          \* "none", "help", "refused", "crashed", "failed", "binary" or "printed"

launchVars == <<program, line, pos, set, call, args, result>>

-----------------------------------------------------------------------------
(* Arguments *)

Option(opt, val) == [opt |-> opt, val |-> val]
Flag(opt) == [opt |-> opt]
HasValue(a) == "val" \in DOMAIN a

\* The options with three dashes, which take no value, that only change how the program
\* is built and what is reported.
BuildFlags == {"---debug", "---disable_opts", "---disable_fake", "---disable_group", "---disable_atomics"}
Flags == (Features \ {"atomics"}) \cup BuildFlags \cup {"---bin", "---set_device_from_name"}
Valued == {"atomics", "-f", "-a", "-d", "-p", "-b", "-l", "-g", "-n", "-i"}

\* OutputRuntimeInfo: the line at the top of a program.
FeatureOptions(pr) ==
  (IF "atomics" \in pr.features THEN <<Option("atomics", pr.counters)>> ELSE <<>>)
    \o SetToSeq({Flag(f) : f \in pr.features \ {"atomics"}})

OutputRuntimeInfo(pr) == FeatureOptions(pr) \o <<Option("-g", pr.globals), Option("-l", pr.locals)>>

NoOptions ==
  [features |-> {}, counters |-> 0, globals |-> <<>>, locals |-> <<>>, bytes |-> 0, include |-> ".",
   build |-> {}, platform |-> 0, device |-> 0, name |-> "", byName |-> FALSE, bin |-> FALSE, req |-> 0]

\* What parse_arg returns beyond the 1 of an optional argument.
Required(opt) == CASE opt = "-n" -> 2 [] opt \in {"-d", "-p"} -> 1 [] OTHER -> 0

\* parse_arg: a later argument replaces an earlier one; main has looked for -f and -a.
Parsed(s, a) ==
  CASE a.opt = "-d" -> [s EXCEPT !.device = a.val]
    [] a.opt = "-p" -> [s EXCEPT !.platform = a.val]
    [] a.opt = "-b" -> [s EXCEPT !.bytes = a.val]
    [] a.opt = "-n" -> [s EXCEPT !.name = a.val]
    [] a.opt = "-i" -> [s EXCEPT !.include = a.val]
    [] a.opt = "-l" -> [s EXCEPT !.locals = a.val]
    [] a.opt = "-g" -> [s EXCEPT !.globals = a.val]
    [] a.opt = "atomics" -> [s EXCEPT !.features = @ \cup {"atomics"}, !.counters = a.val]
    [] a.opt \in Features \ {"atomics"} -> [s EXCEPT !.features = @ \cup {a.opt}]
    [] a.opt = "---bin" -> [s EXCEPT !.bin = TRUE]
    [] a.opt = "---set_device_from_name" -> [s EXCEPT !.byName = TRUE]
    [] a.opt \in BuildFlags -> [s EXCEPT !.build = @ \cup {a.opt}]
    [] OTHER -> s

\* An option that takes a value and is the last word of the command line is refused.
Known(a) == a.opt \in Flags \/ (a.opt \in Valued /\ HasValue(a))

\* parse_file_args does not look at what parse_arg returns, main counts it.  The values of
\* -n and -i still point into its buffer when it has returned, so they may be anything.
Kept(a, header) == IF \E i \in DOMAIN header : header[i].opt = a THEN {"junk"} ELSE {}
parse_file_args(s, header) ==
  LET t == FoldLeft(Parsed, s, header)
  IN  {[t EXCEPT !.name = n, !.include = path] :
         n \in {t.name} \cup Kept("-n", header), path \in {t.include} \cup Kept("-i", header)}

parse_arg(s, a) == [Parsed(s, a) EXCEPT !.req = @ + Required(a.opt)]

\* What the first pass finds: the value of the last argument with that option, if any.
With(opt) == {i \in DOMAIN line : line[i].opt = opt}
Gives(opt) == With(opt) # {} /\ HasValue(line[Max(With(opt))])
Value(opt) == line[Max(With(opt))].val

Words == FoldLeft(LAMBDA n, a : n + (IF HasValue(a) THEN 2 ELSE 1), 1, line)

\* Only a text begins with the line that the generator wrote, a binary does not.
Header ==
  IF Gives("-a") THEN ArgsFiles[Value("-a")]
  ELSE IF Value("-f") = "text" THEN OutputRuntimeInfo(program) ELSE <<>>

Readable == IF Gives("-a") THEN Value("-a") \in DOMAIN ArgsFiles ELSE Value("-f") # "missing"

\* The sizes as they are used: without -g or -l one dimension.
GlobalSize(s) == IF s.globals = <<>> THEN <<DefGlobal>> ELSE s.globals
LocalSize(s) == IF s.locals = <<>> THEN <<DefLocal>> ELSE s.locals
Times(seq) == FoldLeft(LAMBDA a, b : a * b, 1, seq)

total_threads == Times(GlobalSize(set))
no_groups == Times([d \in DOMAIN LocalSize(set) |-> GlobalSize(set)[d] \div LocalSize(set)[d]])
work_group == Times(LocalSize(set))
Largest(seq) == Max(Range(seq))

-----------------------------------------------------------------------------
Refuse(r) == result' = r /\ UNCHANGED <<program, line, pos, set, call, args>>
GoTo(c) == call' = c /\ UNCHANGED <<program, line, pos, set, args, result>>
Running(c) == result = "none" /\ call = c

Init ==
  /\ program \in Programs /\ line \in CommandLines
  /\ pos = 1 /\ set = NoOptions
  /\ call = "file" /\ args = <<>> /\ result = "none"

\* The first pass only looks for -h, -f and -a; the arguments in the file come first.
ParseFile ==
  /\ Running("file")
  /\ CASE Words < 4 -> Refuse("refused")
       [] Words >= 4 /\ With("-h") # {} -> Refuse("help")
       [] Words >= 4 /\ With("-h") = {} /\ ~(Gives("-f") /\ Readable) -> Refuse("refused")
       [] OTHER -> /\ set' \in parse_file_args(set, Header)
                   /\ call' = "line" /\ UNCHANGED <<program, line, pos, args, result>>

ParseArgument ==
  /\ Running("line") /\ pos <= Len(line)
  /\ IF Known(line[pos])
       THEN /\ set' = parse_arg(set, line[pos]) /\ pos' = pos + 1
            /\ UNCHANGED <<program, line, call, args, result>>
       ELSE Refuse("refused")

EndOfArguments ==
  /\ Running("line") /\ pos > Len(line)
  /\ IF set.req < 2 THEN Refuse("refused") ELSE GoTo("sizes")

\* The first dimension is not compared; a local size of zero divides by zero.
SizesRefused(g, l) ==
  Len(g) # Len(l) \/ Len(l) > 3 \/ \E d \in 2..Len(l) : l[d] > g[d]

CheckSizes ==
  /\ Running("sizes")
  /\ LET g == GlobalSize(set) l == LocalSize(set)
     IN  IF SizesRefused(g, l) THEN Refuse("refused")
         ELSE IF \E d \in DOMAIN l : l[d] = 0 THEN Refuse("crashed")
         ELSE GoTo("device")

(* setPlatformDeviceFromDeviceName: both loops stop at the first match.       *)
Places == {<<p, d>> \in (1..Len(Platforms)) \X (1..Max({Len(Platforms[q]) : q \in DOMAIN Platforms} \cup {0})) :
             d <= Len(Platforms[p])}
Device(place) == Platforms[place[1]][place[2]]
Before(a, b) == a[1] < b[1] \/ (a[1] = b[1] /\ a[2] <= b[2])
Matching(name) == {place \in Places : name \in Device(place).names}

FirstMatch(name) == CHOOSE place \in Matching(name) : \A other \in Matching(name) : Before(place, other)

ChooseDevice ==
  /\ Running("device")
  /\ \/ (set.byName /\ (set.name = "" \/ Matching(set.name) = {}) /\ Refuse("refused"))
     \/ /\ set.byName /\ set.name # "" /\ Matching(set.name) # {}
        /\ set' = [set EXCEPT !.platform = FirstMatch(set.name)[1] - 1,
                              !.device = FirstMatch(set.name)[2] - 1]
        /\ call' = "limits" /\ UNCHANGED <<program, line, pos, args, result>>
     \/ (~set.byName /\ GoTo("limits"))

\* The global sizes, not the local ones, are compared with the item sizes.
DeviceRefused(dev) ==
  \/ set.name \notin dev.names
  \/ dev.dims < Len(GlobalSize(set))
  \/ \E d \in DOMAIN LocalSize(set) : dev.items < GlobalSize(set)[d]
  \/ dev.group < work_group

CheckDevice ==
  /\ Running("limits")
  /\ LET place == <<set.platform + 1, set.device + 1>>
     IN  IF place \notin Places \/ DeviceRefused(Device(place)) THEN Refuse("refused") ELSE GoTo("build")

-----------------------------------------------------------------------------
(* run_on_platform_device *)

Has(f) == f \in set.features
Buffer(name, size) == [name |-> name, size |-> size]

\* The buffers of each feature; every group has its own counters.
CountersOfAll(s, groups) == s.counters * groups

BuffersByFeature(s, threads, groups) ==
  LET counters == CountersOfAll(s, groups) IN
  [atomics           |-> <<Buffer("g_atomic_input", counters), Buffer("g_special_values", counters)>>,
   atomic_reductions |-> <<Buffer("g_atomic_reduction", groups)>>,
   emi               |-> <<Buffer("emi_input", 1024)>>,
   fake_divergence   |-> <<Buffer("sequence_input", Largest(GlobalSize(s)))>>,
   inter_thread_comm |-> <<Buffer("g_comm_values", threads)>>]

OrderOfHeader == <<"atomics", "atomic_reductions", "fake_divergence", "inter_thread_comm", "emi">>

ArgumentOrder == <<"atomics", "atomic_reductions", "emi", "fake_divergence", "inter_thread_comm">>

Wanted(f) == BuffersByFeature(set, total_threads, no_groups)[f]
KernelArgs ==
  <<Buffer("result", total_threads)>>
    \o FlattenSeq([i \in 1..Len(ArgumentOrder) |->
         IF Has(ArgumentOrder[i]) THEN Wanted(ArgumentOrder[i]) ELSE <<>>])

\* cl_error_check after a call that came back with an error.
Fails == Refuse("failed")

\* With -b the file is read as a binary, otherwise as a text, which may include headers.
Build ==
  /\ Running("build")
  /\ \/ /\ Value("-f") = (IF set.bytes = 0 THEN "text" ELSE "binary")
        /\ set.bytes = 0 => set.include # "junk"
        /\ IF set.bin THEN Refuse("binary") ELSE GoTo("arguments")
     \/ Fails

\* clCreateBuffer and clSetKernelArg; a buffer may not be empty.
SetArgument ==
  /\ Running("arguments") /\ Len(args) < Len(KernelArgs)
  /\ LET next == KernelArgs[Len(args) + 1]
     IN  \/ /\ next.size > 0
            /\ args' = Append(args, next) /\ UNCHANGED <<program, line, pos, set, call, result>>
         \/ Fails

\* clEnqueueNDRangeKernel refuses local sizes that do not divide the global ones.
Divides == \A d \in DOMAIN LocalSize(set) : GlobalSize(set)[d] % LocalSize(set)[d] = 0

Enqueue ==
  /\ Running("arguments") /\ Len(args) = Len(KernelArgs)
  /\ (Divides /\ GoTo("finish")) \/ Fails

Finish == Running("finish") /\ (GoTo("read") \/ Fails)

ReadBack == Running("read") /\ (Refuse("printed") \/ Fails)

Over == result # "none" /\ UNCHANGED launchVars

Next ==
  \/ ParseFile \/ ParseArgument \/ EndOfArguments \/ CheckSizes \/ ChooseDevice \/ CheckDevice
  \/ Build \/ SetArgument \/ Enqueue \/ Finish \/ ReadBack
  \/ Over

Spec == Init /\ [][Next]_launchVars

-----------------------------------------------------------------------------
(* What the launcher and the generator have to agree on *)

\* CLOutputMgr::OutputEntryFunction: the parameters of the kernel.
EntryParameters(pr) ==
  <<"result">>
    \o (IF "atomics" \in pr.features THEN <<"g_atomic_input", "g_special_values">> ELSE <<>>)
    \o (IF "atomic_reductions" \in pr.features THEN <<"g_atomic_reduction">> ELSE <<>>)
    \o (IF "emi" \in pr.features THEN <<"emi_input">> ELSE <<>>)
    \o (IF "fake_divergence" \in pr.features THEN <<"sequence_input">> ELSE <<>>)
    \o (IF "inter_thread_comm" \in pr.features THEN <<"g_comm_values">> ELSE <<>>)

\* How many items of a buffer the work-items of a run address.
Addressed(pr, name) ==
  LET group == Times(pr.locals) IN
  CASE name \in {"g_atomic_input", "g_special_values"} -> no_groups * pr.counters
    [] name = "g_atomic_reduction" -> no_groups
    [] name = "emi_input" -> 1024
    [] name = "sequence_input" -> Largest(GlobalSize(set))
    [] name = "g_comm_values" -> (no_groups - 1) * group + work_group
    [] OTHER -> total_threads

\* The arguments in front of the command line: those of the program, or others with -a.
Given(opts) == {i \in DOMAIN Header : Header[i].opt \in opts}
Resized ==
  \/ With("-g") # {} \/ With("-l") # {}
  \/ {Header[i] : i \in Given({"-g", "-l"})} # {Option("-g", program.globals), Option("-l", program.locals)}

\* The launcher is told of the features that the program has, and of no others.
Told ==
  /\ {Header[i] : i \in Given(Features)} = Range(FeatureOptions(program))
  /\ \A i \in DOMAIN line : line[i].opt \notin Features

\* Types: what main knows at each point.
LauncherTypeOK ==
  /\ pos \in 1..(Len(line) + 1)
  /\ set.features \subseteq Features /\ set.counters \in Nat
  /\ set.build \subseteq BuildFlags
  /\ set.req \in 0..(2 * Cardinality({i \in 1..(pos - 1) : line[i].opt \in {"-d", "-p", "-n"}}))
  /\ call \in {"file", "line", "sizes", "device", "limits", "build", "arguments", "finish", "read"}
  /\ result \in {"none", "help", "refused", "crashed", "failed", "binary", "printed"}
  /\ Len(args) > 0 => call \in {"arguments", "finish", "read"}

(* Kernel arguments are set by position only: each buffer that the launcher   *)
(* sets up is the parameter that the kernel of the generator has there,      *)
(* whichever features a program uses, if the launcher is told of them: a     *)
(* program as a binary has no first line, and only -a can do it.            *)
ArgumentsMatch ==
  call = "finish" /\ Told => [i \in DOMAIN args |-> args[i].name] = EntryParameters(program)

(* The buffers hold every item that the work-items address, also when the     *)
(* command line gives other sizes; the items of inter-thread communication   *)
(* are placed with the group size of the generator, so with other sizes they *)
(* are only safe as long as the groups do not get smaller.                  *)
ItemsAllocated ==
  call = "finish" /\ Told =>
    \A i \in DOMAIN args :
      \/ (args[i].name = "g_comm_values" /\ Resized /\ work_group < Times(program.locals))
      \/ args[i].size >= Addressed(program, args[i].name)

(* The sizes that InitRuntimeParameters draws, written in the first line and  *)
(* read back, are never refused and divide into groups.                     *)
GeneratedSizesRun ==
  call = "sizes" /\ result \in {"none", "crashed"} /\ ~Resized =>
    /\ Len(GlobalSize(set)) = Len(LocalSize(set))
    /\ result = "none" /\ ~SizesRefused(GlobalSize(set), LocalSize(set)) /\ Divides

(* ---set_device_from_name replaces -p and -d: the device that is used then   *)
(* is one with the name that was asked for, so the check of the name, which  *)
(* is made again later, passes.                                            *)
ChosenDeviceNamed ==
  call = "limits" /\ set.byName =>
    /\ <<set.platform + 1, set.device + 1>> \in Places
    /\ set.name \in Device(<<set.platform + 1, set.device + 1>>).names

\* The launcher reads from the first line what the generator wrote there, and gives the
\* kernel what that asks for (cl_launcher.c, CLOutputMgr.cpp).
ProgramLaunched == LauncherTypeOK /\ ArgumentsMatch /\ ItemsAllocated /\ GeneratedSizesRun /\ ChosenDeviceNamed
=============================================================================
