# BME: a TLA+ verification project

BME ("Bare-metal engine") executes a short string of x86-64 bytes natively, one
instruction at a time, records the machine state after every instruction, and
shows the record in a terminal UI, as text, or as JSON.  This directory models
the parts of it that carry state, checks them with TLC on small instances and
proves the central results with TLAPS for every instance.

Source paths are relative to the repository checkout in `src/`.

## 1. The system

| Component | Code | State it keeps | Operations |
|---|---|---|---|
| Platform admission | `src/src/os.cpp`, `os.hpp` | none | `prepare_platform_run`: refuse empty input, a target outside it, an instrumented process |
| Linux tracer | `src/src/os.linux.cpp` | pipe, worker pid, ptrace stop, recorded steps | `run_platform_steps`, `child_main`, `fault_report_handler`, `read_fault_report`, `terminate_child` |
| Windows tracer | `src/src/os.windows.cpp` | `g_engine`, code/data regions, sandbox thread, vectored handler, reserved `raw_steps` | `run_platform_steps`, `bme_veh`, `restore_host_context`, thread clean-up |
| Execution engine | `bme_core.cpp` `run_engine` | `g_engine_mutex`, the `Trace` being filled | translate request and result |
| Decoders | `bme_core.cpp` `disasm_one` and four back ends | none | length and text at an offset |
| History | `bme_core.cpp` `build_history` | rows, linear position | lay out event rows and static rows |
| Terminal UI | `bme_core.cpp` `run_tui` | byte text, trace, five histories, cursor, tab, settings, modal | Run, Run to row, Step, Back, wheel, menu, tab, Reset, settings |
| Register panels | `bme_core.cpp` `run_tui`, `ScrollViewport`, `ScrollerBase` | tab, folding, scroll offsets, seed focus, hit boxes of the last drawing | draw, click a name or a value, wheel, Escape, tab change |
| Seeds | `bme_core.cpp` `compose_gpr_seed`, `compose_seed` | text fields | overlay of overlapping registers, XMM and x87 parsing |
| Command line, byte parser | `bme_core.cpp` `CLI::parse`, `parse_code_text`, `read_binary_input`; `main.cpp` | parsed options, position in the text | checks in order; one loop per notation |
| Quick text, JSON | `bme_core.cpp` `run_quick`, `trace_json.cpp` | what went to the stream, exit status | print deltas line by line; stream one document; flush |
| CPU fingerprint | `cpu.cpp` | the static of `host_cpu_fingerprint` | walk the CPUID leaves once, decode |
| OS helpers, x87 conversion, utilities | `os.*.cpp`, `st80.*`, `util.hpp` | none | wrappers and formatting |

How they interact.  A front end (UI, quick text or JSON) calls `run_engine`,
which gets the host's CPU fingerprint (made by whoever comes first), takes
`g_engine_mutex`, calls `run_platform_steps`
of the platform the program was built for, and turns the platform's result into
a `Trace`.  `build_history` combines the trace with one decoder into rows; the
UI keeps five such histories (Main and one per decoder) and one cursor over all
of them.

On Linux two *processes* cooperate: the tracer forks a worker, the worker calls
`PTRACE_TRACEME`, reports readiness over a pipe and raises SIGSTOP; the tracer
sets `PTRACE_O_EXITKILL`, installs registers and single-steps.  On a memory
fault the tracer lets the worker's signal handler run, which reports the access
over the same pipe.  On Windows two *threads* of one process cooperate: the host
seeds a suspended thread with TF set, and a vectored exception handler, running
on the sandbox thread, records each single-step trap and rearms TF.

What is hard here, and hardly reached by the repository's tests: the worker
dying or being stopped between any two ptrace requests; the tracer dying; one
pipe carrying two kinds of untagged record; a fault report racing a one-second
timeout; the exact step at which cap, target and end of input coincide; the
order of arming and disarming the Windows handler; concurrent callers of
`run_engine`; instruction boundaries that execution, and four decoders, see
differently; five cached histories rebuilt from different handlers; a thread
that is moved to an unlike core between two CPUID calls; a device that fills up in
the middle of a document; clicks handled on boxes of a picture that is no longer
true, and references into vectors that must not grow while it is drawn.
`PROJECT.json` lists these hazards one by one at their lines.

What makes each component correct:

* **tracers** - the recorded steps are exactly the instructions that ran, they
  chain, the outcome follows from them, the run returns, nothing is left behind;
* **engine** - a caller's trace is about its own request; every call returns, or
  is behind an input that blocks;
* **history** - rows lie in the input, every byte is shown, static rows never
  overlap each other or an executed instruction start, and every decoder yields
  the same event rows in the same order;
* **seeds** - a run starts with what was written, whatever the order, and the
  strict checks of the command line and the lenient ones of a run agree;
* **UI** - no cached history is stale, the selection survives every re-layout,
  Step and Back follow execution, Run to row never names an offset outside the
  bytes it runs;
* **register panels** - no hit box outgrows its vector, a click copies what is on
  the screen, the wheel moves the view at once;
* **byte parser** - exactly the texts of the three notations are accepted, with
  their bytes;
* **quick mode** - the exit status is the truth about what arrived, the printed
  deltas replay the trace, the document agrees with itself, the program ends unless
  the bytes it runs block;
* **fingerprint** - decoded from its own records, read
  without asking for a leaf or register the processor does not have.

## 2. Modules

| Module | Models | Uses |
|---|---|---|
| `Platform` | requests, steps, outcomes, `prepare_platform_run`, and the vocabulary the properties share (`Chained`, `NeverOverran`, `Justified`) | |
| `PlatformRun` | **abstract specification**: what `run_platform_steps` promises on either platform | `Platform` |
| `LinuxTracer` | `run_platform_steps` of `os.linux.cpp`, tracer and worker | `Platform`; refines `PlatformRun` |
| `WindowsTracer` | `run_platform_steps` of `os.windows.cpp`, host, sandbox thread, handler | `Platform`; refines `PlatformRun` |
| `Cpu` | `query_cpu_fingerprint`, one action per CPUID call, on a machine with unlike cores | |
| `Engine` | `run_engine` called by several threads; the platform run in it is an instance of `PlatformRun`, the fingerprint an instance of `Cpu` | `PlatformRun`, `Cpu` |
| `History` | `build_history`, one action per loop step | `Layout`, to compare with |
| `Layout` | the same algorithm as a recursive function on sequences | |
| `Tui` | the handlers of `run_tui` that touch trace, histories, cursor and settings | `Layout` |
| `Panels` | the register panels of `run_tui`: rows, drawing, hit boxes, focus, scrolling | |
| `ByteText` | `parse_code_text`, one action per iteration | |
| `Quick` | `CLI::parse`, `main`, `run_quick`, `write_trace_json` and the stream under them | `ByteText`, `Layout` |
| `Seeds` | the `--seed` argument, the seed fields, `compose_seed`, and what the platforms install | |
| `PlatformProofs`, `LinuxTracerProofs`, `WindowsTracerProofs`, `EngineProofs`, `TuiProofs` | theorems; `EngineProofs` has those about `Cpu` too | the modules they are named for |
| `LayoutProofs` | lemmas on numbers, sequences and `Layout` that several proofs share | `Layout` |
| `HistoryProofs` | theorems about `History`, `ByteText` and `Quick` | `LayoutProofs` |
| `PanelsProofs` | theorems about `Panels` and `Seeds` | `LayoutProofs` |
| `MC*` | instances for TLC | |

The composition is by contract: `LinuxTracer` and `WindowsTracer` are shown to
implement `PlatformRun`, `Engine` runs on `PlatformRun`, `History` is shown equal
to `Layout`, and `Tui` and `Quick` run on `Layout`.  `Engine` composes with `Cpu`
action by action, because the initializer of the static runs inside a call.  No module repeats the detail below it.

### State and actions against the code

*Addresses.*  RIP is an offset from the code base.  `0 .. size-1` is inside the
input, `size` is the byte after it and `-1` (`Below`) stands for everywhere
else; the code distinguishes nothing further.

*LinuxTracer.*  `pc` is the tracer's place in `run_platform_steps`; `child` is
the worker's, from `child_main` through the user instructions to its death.  The
tracer's actions are the system calls it makes (`OpenPipe`, `Fork`,
`CloseWriter`, `ReadReady`, `WaitReady`, `SetOptions`, `Seed`, `Start`,
`SingleStep`, `WaitStep`), the four ways a stop is read (`InspectFails`,
`StopAtBreakpoint`, `RecordFault`, `RecordStep`), the fault report
(`ContinueWithSignal`, `PollReport`, `PollGivesUp`) and `Terminate`.  The
worker's are the stages of `child_main`, what one instruction of the input may
do (complete, int3, fault, exit, block) and `FaultHandler`.  The environment may
kill the worker at any time, signal it, or kill the tracer; SIGCHLD may be
ignored by inheritance, in which case a dead worker is reaped by the kernel.
A ptrace request fails exactly when the worker is not in a ptrace stop.

*WindowsTracer.*  `pc` is the host's place, `thread` the sandbox thread's,
`exception` what it raised.  `Allocate` ... `Resume` are the host's set-up calls
in their order with their failure exits; `VehSingleStep`, `VehBreakpoint` and
`VehFault` are the branches of `bme_veh`; `Unhandled` is an exception the
handler does not accept, which ends the process.  `raw_steps` and `reserved`
keep the vector and its capacity.  The processor clears TF on each trap; an
instruction executed with TF clear is not recorded, which is how a missing
rearm becomes visible.

*Cpu.*  `at` is the next query of the walk, `machine` what each core answers to
every leaf (external), `core` the one the thread is on; `Migrate` may change it
between any two queries, `MaxMigrations` times.  A record keeps the core that
gave it in place of its four registers, so that a property can ask what the
record said.  The leaf numbers keep the order and the gaps of the real ones.

*Engine.*  `slot` (`request, steps, outcome, address`) is the platform run in
progress, shared by all callers as `g_engine` is.  `StartQuery`, `QueryStep` and
`TakeFingerprint` are the function-local static of `host_cpu_fingerprint`: the
first caller runs its initializer, the others wait for it, and all traces refer to
that one object.  `Blocks` is a run whose input never comes back from a system call;
its caller keeps the mutex, and `Stalled` callers are those that block or wait behind
one that does.

*History.*  `rows`, `linear`, `index`, `from`, `to` are the locals of
`build_history` and of its `fill_gap` and `add_static_row`.  `decode` is an
arbitrary function from offsets to lengths, 0 for undecodable and possibly more
than the input has left: every decoder, right or wrong, is an instance.

*Tui.*  One action per handler, as FTXUI calls them one at a time.  A run's
result is any event sequence the engine's contract allows, up to `MaxEvents`
events.  `rendered` records the settings the histories were laid out with.

*Panels.*  `Rows(tab)` is what `render_registers`, `render_xmm` and `render_x87`
put into their tables, with the name and value cells that can be clicked.  `Draw`
renders the tab in front, fills the hit vectors and lays the rows out in the
viewport, clamping and writing back the scroll offset; up to `MaxBatch` events are
handled before the next `Draw`.  Which registers are shown is any of `States`
(`Tui` says which row they belong to).

*ByteText* keeps `position` and the result of `parse_code_text`; `notation` is the
loop it is in.  The alphabet has one member for each class the parser tells apart.
What a text means is said of its places and not of a scan: `GroupStarts` and
`ItemStarts` are the places at which a byte begins, `IsGroup` and `IsItem` say that it
does so properly, and `Means` that a sequence holds the bytes of those places in order.

*Quick.*  `stage` is the place in `main` and `run_quick`.  `chunks` is what the run
has to output - text lines, or members of the document - and `printed`,
`buffered` and `written` how far each got; `room` is what the device will take.
`Put` leaves it to the library when the buffer is emptied.  A failing `println`
throws out of `main` and aborts; the JSON path flushes and asks the stream.
The registers are the members of `Registers` (one of each array), each with the
`--track` class that prints it (`RegisterClass`), and `DefaultRegisters` is
`Registers{}`, with which `run_quick` compares the seed: MXCSR is 0x1F80 there and the
x87 control word 0x037F.  `Blocks` is as in `Engine`.

*Seeds.*  `field` holds the text fields of `CLI` and `UI` (one per register
slice), `requested` the `Registers` that `compose_seed` returns and `actual` the
seed of the trace.  Every mask and shift of the code is a whole number of bytes,
so registers keep their full width as sequences of bytes, and a text is what it
spells: hexadecimal bytes with their leading zeros (the XMM and x87 parsers count
digits, the others the value), a decimal with its encodings, garbage or nothing.
`written` is a history variable, and `configured` what it was when the last run
started; the reference is computed from them.  `compose_gpr_seed` is the five overlays
of the code, one on the other.  The
drill-down that hides a narrow field is left out: a hidden field still counts.

## 3. Runs

| Run | Expect | What it shows | States |
|---|---|---|---|
| `LinuxSafety` | pass | safety of the Linux tracer with signals, kills and tracer death | 478,905 |
| `LinuxRun` | pass | a Linux run returns and implements `PlatformRun` | 50,733 |
| `WindowsSafety` | pass | safety of the Windows tracer with thread exit and host failures | 81,131 |
| `WindowsRun` | pass | a Windows run returns and implements `PlatformRun` | 29,423 |
| `WindowsThreadExit` | violation | an input that ends its thread is reported as having left the input | |
| `HistoryLayout` | pass | `build_history`: its four layout properties, agreement with `Layout`, termination | 176,220 |
| `EngineCalls` | pass | two concurrent callers each get their own explained trace and one sound fingerprint, and return unless an input blocks | 268,962 |
| `TuiHistory` | pass | caches, selection, navigation and Run to row | 162,324 |
| `SeedsRun` | pass | a run starts with what was written to the seed fields | 352,832 |
| `SeedsZero` | violation | a zero in RDI or RSI is taken for an unseeded field | |
| `QuickRun` | pass | parser, exit status, text, JSON document and termination of a non-interactive run | 194,825 |
| `PanelsRun` | pass | hit boxes, copying and scrolling of the register panels | 1,431,685 |

Properties of the passing runs:

* `StepsChained` - each step starts where the last one ended, only the last can
  be a fault, none is taken past the target or outside the input.
* `OutcomeJustified` - cap means exactly the cap's number of completed steps, a
  target or int3 stop is where execution stood, Finished means RIP left.
* `TraceIsExecution` - the completed steps are exactly the instructions the
  worker (sandbox thread) executed; `executed` is kept by the processor's side
  of the model and never read by the tracer's.
* `EndsCleanly` - on Linux, descriptors and worker are gone on return
  (`NothingLeaks`) and SIGKILL goes to a pid that is no longer the worker's only in
  runs that fail (`StrayKillOnlyOnError`); on Windows, engine and regions outlive
  the thread (`SandboxOutlived`) and then regions, handle, handler and engine are
  gone (`NothingLeaks`).  One exception on Linux is the code's own and is stated
  in the property: a worker that reported a setup error and is stopped by a signal
  before its `_exit` is reaped by nobody.
* `RecordsMatchReaders`, `AccessTruthful`, `TracerDeathKillsWorker` - the untagged
  pipe, the late fault report, and EXITKILL.
* `HandlerNeverReallocates`, `AlwaysHandled` - the handler allocates nothing and is
  installed before the first trap.
* `ImplementsPlatformRun` - refinement, including the priority target > left
  input > cap on the last step.
* `RowsInInput`, `StaticRowsSound` (static rows are cut at every executed start,
  and disjoint), `EventRowsInOrder`, `EveryByteShown`, `LayoutAgrees` - history.
* `TraceExplained` - engine.  `Returns` - every call returns for good, unless its input
  blocks in a system call or it waits for the mutex behind one that does.
* `FingerprintSound` - its records are sorted and unique as `cpu.hpp` says
  (`RecordsSorted`), no leaf, subleaf or XGETBV was asked for that its own records
  do not allow (`QueriesAllowed`), and its decoded fields say what its records say,
  wherever the thread ran (`DecodedFromRecords`).
* `HistoryFresh`, `TargetInside`, `SelectionKept`, `NavigationFollowsExecution`
  - UI.  The last two are action properties.
* `BoxesFit` - no renderer puts more boxes into a vector than it reserved.
  `CopiesWhatIsShown`, `WheelMovesView` (action properties) - a click copies the
  cell the screen shows there, though the state may have moved on; one notch moves
  the view one row unless it is at an end.
* `ParseAgrees` - the loops of `parse_code_text` accept a text exactly if it is a
  word of one of the notations, read as a whole (`Readable`), with the bytes it
  means (`Means`); and `format_code_text` reads back.
* `ExitTruthful` - status 0 under `--format json` means the whole document is on
  the device and the run was no error; any other status is explained on stderr or
  by a whole document; rejected input leaves standard output empty.
* `TextReplays` - whoever starts from `Registers{}` and applies the printed deltas gets
  the tracked registers of the seed and of every event, and every "before" is the value
  he has.  Starting from registers that are all zero would not do (see below).
* `DocumentConsistent` - in a whole document every decoder's rows refer to the
  same events, with their offsets and classification, in order, and show every
  byte.
* `Exits` - the program ends or hands over to the UI, unless the bytes it runs block in
  a system call.  Every loop of the byte parser therefore ends.
* `SeedsAsWritten` - seeds: each byte comes from the narrowest well-formed slice
  over it, flags from the last entry and the clicks since, x87 tags from the
  seeded registers, and a `--seed` argument that was accepted always composes.

Every property has a mutant: a one-line bug in a modelled definition
(definitions whose comment starts with "Wrong:") under which TLC finds the
property violated.

### Bounds

* `MaxCode` 2-3 bytes, `MaxRequest` 3-4 and `MAX_STEPS_LIMIT` 2-3: the requested
  cap is below, at and above the ceiling and includes 0; with three instructions
  every coincidence of target, int3, leaving and cap occurs, and both a first and
  a last step that is also a middle one.  The tracer's loop keeps only the last
  position and the count, so longer inputs add no new kind of transition.
* `MaxSize` 4, `MaxLength` 3, `MaxEvents` 3: backward jumps, revisits, events
  inside another decode and decodes running off the input all occur, and a gap
  can hold two static rows one of which is cut by a later event.
* `EngineCalls`: two callers, seven requests with different lengths, targets,
  int3 bytes and refusals, so a result that went to the wrong caller is visible.
* `TuiHistory`: two inputs of different lengths, a text that does not parse, two
  decoders that disagree about boundaries, one without AT&T syntax.
* `SeedsRun`: three assignments, so that three overlapping slices can be written
  in every order and a malformed one can lie between two good ones; texts of one,
  eight, nine and eleven bytes lie on both sides of every width limit.
* `EngineCalls` also has two cores that differ in every answer and machines whose
  limits lie on both sides of each test; two migrations put any part of the walk on
  the other core and the rest back on the first.
* `QuickRun`: command lines that fail each check and that pass all of them; texts of
  every notation with their malformed neighbours (cut off inside a byte, trailing
  comma, three digits, text after the brace); a file at, below and above the size
  limit; two decoders that disagree; traces of two events with faults inside,
  right behind and before the input; a device with room for nothing, a part, or all.
  Three sets of registers, between which a register of every class changes, MXCSR to
  zero and the x87 control word to another than the default.
* `PanelsRun`: one legacy register, one XMM and one x87 register in a viewport of
  seven rows, so that unfolded panels are higher than it and folded ones are not;
  two events to a drawing, so that a tab change, a new state or a fold can come
  between a picture and a click.

Symmetry is not used: the sets are small, and `Returns` is a liveness property.

### Fairness

`LinuxRun` assumes weak fairness of the tracer and of the worker: the kernel
schedules both, and `poll` has a deadline, so `PollGivesUp` is a step of the
tracer.  Nothing is assumed of the environment.  Nothing is assumed of system
calls of the *input*: a worker that blocks for ever makes `waitpid` wait for
ever, so `Returns` says "returned, or the worker is blocked for good".  Signals
from outside are off in this run because one of them does stall the code: a stop
between `PTRACE_TRACEME` and the readiness record leaves `read_all` waiting for a
worker nobody continues.  `WindowsRun` is the same with the host and the sandbox
thread; there a blocked input leaves the host in `WaitForSingleObject` without a
timeout, so the run may stop (deadlock is not checked).  `EngineCalls` assumes
weak fairness of each caller; the mutex needs no strong fairness because each
caller takes it once.  A caller that waits for the static waits for another that
is scheduled.  Whether an input blocks is left open (`Blocks` is not a step of
`Thread`): `README.md:49` says "The step cap is not a wall-clock deadline, so a blocking
system call can stall a run", and as the blocked caller keeps `g_engine_mutex`
(`bme_core.cpp:1500`) those behind it stall too.  `Returns` excepts exactly these.
`HistoryLayout` assumes that the loop runs on, and `QuickRun` that the sequential program
does; that `run_engine` returns or blocks is taken from `EngineCalls`.

### Disagreements with the documentation

1. `WindowsThreadExit`, `src/src/os.windows.cpp:777`.  An input that terminates
   its thread by a system call never reaches the handler; the engine's initial
   outcome Finished is copied and `run_engine` reports "Execution left input
   range" with RIP inside the input.  Linux reports the same input as an error.
2. `SeedsZero`, `src/src/os.linux.cpp:720` and `os.windows.cpp:591`.  A requested
   RDI or RSI of zero is replaced by the scratch data address, so `--seed rdi=0`
   has no effect, although `bme_core.cpp:1623` and `3557` say the address is used
   "when left unseeded".

Also noticed, and described here rather than checked:

* `print_deltas({}, trace.seed)` (`bme_core.cpp:3694`) compares the seed with
  `Registers{}`, whose MXCSR and x87 control word are not zero (`bme_core.hpp:164`,
  `168`), while the comment at `bme_core.cpp:3692` says "Diff against a zeroed set so
  only the non-zero seed registers print."  With `--track xmm` or `--track x87` the usual
  0x1F80 and 0x037F are not printed, and a zero is.  The model has the code's base, and
  `TextReplays` is stated from it.
* The reason "Not reached - Step cap reached" (`bme_core.cpp:1588`) is set without a
  stop address, so it labels no row.
* Static decodes are cut only at execution events (`bme_core.cpp:1416`).  The
  address of an int3 or of a selected row is not an event, so it may fall inside a
  decode (EB 01 48 CC stops at an int3 inside the decode of 48 CC) and no row
  carries the reason `bme_core.hpp:225` calls "the label shown on its row".
* `run_engine` returns before it copies the steps of a failed run
  (`bme_core.cpp:1523`): a Linux input that exits after n instructions has no
  events, while `README.md:101` promises every completed or faulted one.
* The text format does not flush: output lost when the process ends goes with
  status 0, and a stream that fails earlier throws out of `main`.  `README.md` makes
  its promise for JSON only, and `ExitTruthful` asks no more.
* Reset folds the tree but leaves a hidden seed field active, so the wheel stays
  captured until Escape or a click (`bme_core.cpp:2128`).

## 4. Proofs

Assumptions on constants, all evaluated by TLC on its instances:
`PlatformAssumption` (the bounds are naturals, the cap ceiling is positive),
`LinuxAssumption` and `WindowsAssumption` (the switches are Booleans),
`HistoryAssumption` (the bounds are naturals), `CpuAssumption` (the limits of
the walk are positive), `EngineAssumption` (the requests are requests; a machine
answers a leaf with numbers and sets of bits, `AnswersTyped`, as four registers can
hold nothing else), `TuiAssumption` (inputs are not empty, each decoder gives each
offset a length), `PanelsAssumption` (there is at least one register of each kind, the
viewport has a row), `QuickAssumption` (command lines are command lines, each decoder
gives each byte a length, register states name the members of `Registers` and
`Registers{}` is one of them, the default step count is positive and below the limit, a
file that opens and is not empty has bytes),
`SeedsAssumption` (RSP is a register without one-byte high slice, entries hold texts,
the two addresses the platforms install are eight bytes long).  The bounds are
arbitrary, so the theorems hold for inputs, caps, traces, callers, decoders, panels,
texts and sequences of assignments of any size.

| Theorem | Statement |
|---|---|
| `LinuxTracerProofs!TypeCorrect` | `Spec => []TypeOK` |
| `LinuxTracerProofs!RecordChained` | `Spec => []StepsChained` |
| `LinuxTracerProofs!OutcomeExplained` | `Spec => []OutcomeJustified` |
| `LinuxTracerProofs!LinuxImplementsPlatformRun` | `Spec => ImplementsPlatformRun`, if the tracer does not die |
| `LinuxTracerProofs!LinuxTraceIsExecution` | `Spec => []TraceIsExecution` |
| `LinuxTracerProofs!LinuxEndsCleanly` | `Spec => []EndsCleanly` |
| `LinuxTracerProofs!PipeRecordsMatch` | `Spec => []RecordsMatchReaders` |
| `LinuxTracerProofs!ReportedAccessTruthful` | `Spec => []AccessTruthful` |
| `LinuxTracerProofs!WorkerDiesWithTracer` | `Spec => []TracerDeathKillsWorker` |
| `WindowsTracerProofs!TypeCorrect` | `Spec => []TypeOK` |
| `WindowsTracerProofs!WindowsTraceIsExecution` | `Spec => []TraceIsExecution` |
| `WindowsTracerProofs!RecordNeverGrows` | `Spec => []HandlerNeverReallocates` |
| `WindowsTracerProofs!WindowsEndsCleanly` | `Spec => []EndsCleanly` |
| `WindowsTracerProofs!ExceptionsAlwaysHandled` | `Spec => []AlwaysHandled` |
| `WindowsTracerProofs!WindowsImplementsPlatformRun` | `Spec => ImplementsPlatformRun`, if the input does not end its thread and the host's waits do not fail |
| `EngineProofs!ContractExplains` | every behaviour of `PlatformRun` is chained, never overran, and its outcome is justified |
| `EngineProofs!TypeCorrect` | `Spec => []TypeOK` |
| `EngineProofs!MutualExclusion` | at most one caller is in `run_platform_steps` |
| `EngineProofs!EveryTraceExplained` | `Spec => []TraceExplained` |
| `EngineProofs!FingerprintAlwaysSound` | `Spec => []FingerprintSound`, from the invariant of the walk |
| `HistoryProofs!TypeCorrect` | `Spec => []TypeOK` |
| `HistoryProofs!RowsAreSpans` | `Spec => []RowsInInput` |
| `HistoryProofs!StaticRowsRespectEvents` | `Spec => []StaticRowsSplit` |
| `HistoryProofs!StaticRowsOrdered` | `Spec => []StaticRowsDisjoint` |
| `HistoryProofs!StaticRowsAreSound` | `Spec => []StaticRowsSound`, from the two above |
| `HistoryProofs!EventRowsAligned` | `Spec => []EventRowsInOrder` |
| `HistoryProofs!EveryByteIsShown` | `Spec => []EveryByteShown` |
| `HistoryProofs!RowsAreTheLayout` | `Spec => []LayoutAgrees` |
| `HistoryProofs!ExitAlwaysTruthful` | `QuickSpec => []ExitTruthful` |
| `HistoryProofs!TextAlwaysReplays` | `QuickSpec => []TextReplays`, the seed's own line included |
| `HistoryProofs!DocumentAlwaysConsistent` | `QuickSpec => []DocumentConsistent` |
| `HistoryProofs!ParseAlwaysAgrees` | `QuickSpec => []ParseAgrees` |
| `TuiProofs!TypeCorrect` | `Spec => []TypeOK` |
| `TuiProofs!HistoriesAlwaysFresh` | `Spec => []HistoryFresh` |
| `TuiProofs!TargetAlwaysInside` | `Spec => []TargetInside` |
| `TuiProofs!SelectionAlwaysKept` | `Spec => SelectionKept` |
| `TuiProofs!NavigationSound` | `Spec => NavigationFollowsExecution` |
| `PanelsProofs!BoxesAlwaysFit` | `Spec => []BoxesFit` |
| `PanelsProofs!ClickCopiesPicture` | `Spec => CopiesWhatIsShown` |
| `PanelsProofs!WheelAlwaysMoves` | `Spec => WheelMovesView` |
| `PanelsProofs!SeedsAlwaysAsWritten` | `SeedsSpec => []SeedsAsWritten` |

*Linux, the record.*  `StepsChained` and `OutcomeJustified` are not inductive: nothing
in them says where the loop believes execution stands.  `RunInv` adds `LoopInv`:
inside the loop the record is open (no fault, no target, inside the input, below
the cap) and `previous_rip` is the record's position, the target is not the code
base, and before the loop the record is empty.  The steps that touch no record
are gathered in `Quiet` and shown once to preserve everything, also under kills
and signals at any moment; `RecordStep` and `RecordFault` are the real cases and
use the lemmas about appended records in `PlatformProofs`.  The refinement maps
`outcome` to "None" until the tracer has concluded; quiet steps map to stutters
or to the abstract `Fail`, `RecordStep` to `Complete`.  The assumption
`TracerDeath = FALSE` is needed because a dead tracer concludes nothing.

*Linux, the worker.*  The properties about both processes need `WorkerInv`, which says
for each place of the tracer where the worker can be (`StageInv`), which records the
pipe can hold (`PipeInv`: at most one, and of the kind the next reader expects),
which ends are open, who has reaped whom (`ReapInv`), that EXITKILL was set before any
byte of the input runs, and what the worker has executed (`ExecutionInv`).  There the record is
one instruction behind while the worker stands in a stop the tracer has not read:
`Pending` is the step that stop will become, and the record with it matches what was
executed.  A worker that is killed at any time may leave the record short only in
runs that end in an error.

*Windows.*  `RunInv` has the same shape for one process: `ResourceInv` says what is
allocated and installed at each point of the host, `ThreadInv` where the sandbox
thread can be then, `RecordInv` that the engine's record is open and has room while
the thread executes, and `ExecutionInv` that it follows the thread one trap behind.
`HandlerNeverReallocates` is a consequence of the record being open (below the cap)
whenever a trap is dispatched.

*Engine.*  `ContractExplains` is proved of the abstract specification alone
(`SlotInv`); the engine only has to show that the slot is a run of the caller that
holds the mutex, be it running or blocked (`OwnerInv`), and that what it copies under the mutex still explains
the request the caller made, although the cap was clamped in between (`TraceInv`).

*Cpu.*  Records are sorted because the walk never goes back: `FrontierInv` says for each
place of the walk that all records lie before the leaf asked next.  That the decoded
fields say what the records say is shown query by query (one lemma each), on whichever
core the thread is at that moment.

*History.*  `EveryByteShown` and the order of static rows speak of the finished
layout or of all rows at once.  `LayoutInv` adds `ControlInv` (where each loop
stands) and speaks of the frontier: every byte before it is covered by a row or
is the start of an event still to be laid out, and every static row ends at or
before it.  `GapRowStep` and `AddEventRowStep` show that one appended row
advances the frontier without a hole.

*History against Layout.*  `LayoutAgrees` speaks of the finished rows only.  `AgreeInv`
says what the steps have in common with the function on the way: the rows so far,
followed by what the function puts into the rest of the current gap, are the rows the
function has when it comes to the current event, and `linear` is the function's.
One appended static row then takes its place at the front of the rest of the gap, and
one event row closes it.

*Tui.*  Everything rests on `LayoutGood`: for any trace and decoder the layout has at
least one row, all rows lie in the input, and its executed rows are the events inside
the input, each once, in order.  So whether a tab is empty, and which events it shows,
does not depend on the decoder: skipping the re-layout of an empty history leaves no stale
tab, a selected event has a row in every tab, and the executed rows around the cursor
are consecutive events.  `TuiInv` is the conjunction of `TypeOK`, a well-formed trace,
`HistoryFresh` and `TargetInside`.

*Quick.*  `QuickInv` says for each stage of the program what exists (`Untouched`
before the run, `Contents` after it) and how the counts of chunks stand to each other
(`Counted`: while the stream is good, what the device took and what is in the buffer
is what was handed over).  `ExitTruthful` follows from the counts at the moment the
status is chosen.  What the chunks say does not change once they are made, so
`TextReplays` and `DocumentConsistent` are proved of the functions that make them:
which chunk stands where, that the deltas between two events turn the registers of one
into those of the other, and, from the lemmas on `Layout`, that the rows of each
decoder are the events inside the input and show every byte.

*Byte parser.*  The reference speaks of whole words and the loops never look back.
`ParseInv` closes the distance: the bytes so far are those that begin at the places up
to the position, all of them properly, and the next place that is not whitespace begins
a byte (`Grouped`).  In an array (`Itemed`) the loop is either after the brace or a
comma, or at the closing brace; there the invariant already says what the brace decides:
all values were proper if nothing follows it, and one is not if something does.  A refused
text has a place where a byte begins and is none.  The round trip of
`format_code_text` is `FormatMeans`.

*Seeds.*  `SeedsInv` says that each field holds the last text written to it and each
flag the last entry with the clicks since, that a run's registers are those of what was
written when it started, and that until the user can type every field parses (the
strict checks imply the lenient ones).  `compose_gpr_seed` is proved byte by byte over
its five overlays: a byte is that of the last overlay that covers it and is well formed,
and the order of the overlays makes that the narrowest.

*Panels.*  `BoxesFit` adds up, over all rows of a panel, what each may hold.  `Fits` says
that there is a running count of the boxes which ends within a bound; counts of two
lists of rows join into one, so the bound of a panel is the sum of the bounds of its
parts (five boxes for a general register, seven for an XMM register, three for an x87
register).  `WheelMovesView` needs `AtRest`: while the wheel is all that has moved since
the picture, the wanted offset is the one on the screen, turned once, and the one on
the screen is one the view can have.

*Induction over data.*  What a recursive function computes is proved by induction over
its argument, with the set of the arguments for which it holds in place of a predicate
(`InductionUpTo`, `UpTo`; from the least element of a set of naturals).  That the functions
exist at all is proved in the same way (`CompletedRecord`, `FromTheEnd`,
`LayoutAccumulates`, `Flattened`).

Only model-checked: everything under fairness (`Returns`, `Exits`), which is out of the
prover's reach.  Every safety invariant and every action property of the passing runs is
stated by a theorem above.

## 5. What is left out, and why

* Register, XMM and x87 contents after the seed, and the text of decoded instructions: no
  modelled decision depends on them.  They are abstracted to RIP, TF, a fault
  cause and a decode length.
* Message wording, number formats, colours, the status line, the step limit field,
  and copying a history row or a region address in the UI.
* The names and formats of the JSON document's register, host and producer members:
  they are passed through as values.
* OS helper wrappers, `format_cpu_summary`, string trimming and the x87 conversions
  in assembly: no state, or out of reach of TLC (floating point).
* What stands between `PlatformRun`'s result and the registers of an event: the
  tracers copy the whole context.
* Kernel and processor behaviour is external; it is modelled from how the code
  uses it, and such definitions are marked so in `PROJECT.json`.

## 6. Order of the work

The modules were written in this order: `Platform`, `PlatformRun`, `LinuxTracer`,
`WindowsTracer`, `History`, `Layout`, `Engine`, `Tui`, `Seeds`, `Cpu` composed into
`Engine`, `ByteText`, `Quick`, `Panels`.  The proofs followed in the same order; all
safety and action properties are proved.  What could be added is in section 5: the
status line and the step limit field of the UI, and the member formats of the JSON
document.
