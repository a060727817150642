------------------------------ MODULE LinuxTracer ------------------------------
(***************************************************************************)
(* run_platform_steps of os.linux.cpp: a tracer (the BME process) forks a  *)
(* worker, receives a readiness record over a pipe, seeds the stopped      *)
(* worker with ptrace and single-steps it.  The two processes run          *)
(* concurrently; they meet through the pipe, waitpid and ptrace stops.     *)
(*                                                                         *)
(* Kernel behaviour (ptrace, waitpid, pipes, signals) is external and      *)
(* modelled from how the code uses it.  A ptrace request fails exactly     *)
(* when the worker is not in a ptrace stop, so the error paths are taken   *)
(* for the reason they exist: somebody else killed the worker.             *)
(***************************************************************************)
EXTENDS Platform

CONSTANTS AsyncSignals,  \* may the terminal signal the worker (SIGWINCH, SIGINT)?
          TracerDeath,   \* may the BME process die in the middle of a run?
          IgnoredSIGCHLD \* values of "SIGCHLD is ignored" inherited from the launcher

ASSUME LinuxAssumption ==
    /\ AsyncSignals \in BOOLEAN
    /\ TracerDeath \in BOOLEAN
    /\ IgnoredSIGCHLD \subseteq BOOLEAN

\* ChildError: what child_main can report instead of success.
ChildError == {"Trace", "Allocation", "Commit", "Protect", "Flush", "SignalSetup"}

\* Why a SIGSEGV or SIGBUS was raised: a page fault with its access, or any
\* other trap (general protection, alignment), for which no access is known.
Cause == {"Read", "Write", "Execute", "NotPageFault"}

Signal == {"STOP", "TRAP", "SEGV", "BUS", "ILL", "WINCH"}
SiCode == {"TRACE", "BRKPT", "OTHER"}

\* A ptrace stop as PTRACE_GETSIGINFO reports it; cause is what the kernel
\* will put in the signal frame of a memory fault.
Stop   == [ signal : Signal, code : SiCode, cause : Cause ]
NoStop == [ signal |-> "STOP", code |-> "OTHER", cause |-> "NotPageFault" ]

\* ChildReady and FaultReport records on the pipe.
Message == [ kind : {"ready", "report"}, error : ChildError \cup {"None"}, cause : Cause ]
Ready(error)  == [ kind |-> "ready", error |-> error, cause |-> "NotPageFault" ]
Report(cause) == [ kind |-> "report", error |-> "None", cause |-> cause ]

RunError ==
    {"none", "no_code", "stop_offset_outside", "instrumentation", "pipe", "fork",
     "startup", "wait", "worker", "did_not_stop", "options", "register_read",
     "mxcsr", "register_set", "single_step", "exited", "signal_info"}

Result ==
    [ outcome : Outcome, error : RunError, stop_address : Address,
      stopped_at_target : BOOLEAN, fault_access : FaultAccess ]

VARIABLES
    request,       \* PlatformRunRequest; never changes
    autoreap,      \* SIGCHLD is ignored: a dead worker is not kept for waitpid
    pc,            \* where the tracer stands in run_platform_steps
    result,        \* PlatformRunResult without its steps
    steps,         \* result.steps
    previous_rip,  \* address of the instruction being stepped
    ready,         \* ready.error as received
    reader,        \* the tracer's read end of the pipe is open
    writer,        \* the tracer's write end of the pipe is open
    pipe,          \* records in the pipe
    child,         \* state of the worker process
    stop,          \* its ptrace stop, meaningful while child = "stopped"
    rip,           \* its instruction pointer
    seeded,        \* user code has been installed in its registers
    exitkill,      \* PTRACE_O_EXITKILL is set
    executed,      \* history: instructions of the input the worker completed
    stray_kill     \* history: SIGKILL was sent to a pid already reaped

tracerVars == <<result, steps, previous_rip, ready, reader, writer>>
childVars  == <<child, stop, rip, executed>>
vars == <<request, autoreap, pc, result, steps, previous_rip, ready, reader, writer,
          pipe, child, stop, rip, seeded, exitkill, executed, stray_kill>>

PC == {"prepare", "pipe", "fork", "close_writer", "read_ready", "wait_ready",
       "set_options", "seed", "start", "single_step", "wait_step", "inspect",
       "continue", "poll", "terminate", "returned", "dead"}

\* none: not forked; forked, setup, ready, raising: inside child_main;
\* refused, failing: about to _exit(1) without and with PTRACE_TRACEME done;
\* running: executing an instruction of the input; blocked: inside a system
\* call that does not return; handler: inside fault_report_handler;
\* zombie: dead, not waited for; reaped: gone.
ChildState == {"none", "forked", "setup", "ready", "raising", "refused", "failing",
               "stopped", "running", "blocked", "handler", "zombie", "reaped"}

Alive == child \notin {"none", "zombie", "reaped"}

\* The worker has executed PTRACE_TRACEME and its tracer lives.
Traced == child \in {"setup", "ready", "raising", "failing", "running", "blocked", "handler"}

Corpse == IF autoreap THEN "reaped" ELSE "zombie"

TypeOK ==
    /\ request \in Request
    /\ autoreap \in BOOLEAN
    /\ pc \in PC
    /\ result \in Result
    /\ steps \in Seq(PlatformStep)
    /\ previous_rip \in Address
    /\ ready \in ChildError \cup {"None"}
    /\ reader \in BOOLEAN
    /\ writer \in BOOLEAN
    /\ pipe \in Seq(Message)
    /\ child \in ChildState
    /\ stop \in Stop
    /\ rip \in Address
    /\ seeded \in BOOLEAN
    /\ exitkill \in BOOLEAN
    /\ executed \in Seq(Address)
    /\ stray_kill \in BOOLEAN

Init ==
    /\ request \in Request
    /\ \A offset \in request.int3 : offset < request.size
    /\ autoreap \in IgnoredSIGCHLD
    /\ pc = "prepare"
    /\ result = [ outcome |-> "Finished", error |-> "none", stop_address |-> 0,
                  stopped_at_target |-> FALSE, fault_access |-> "None" ]
    /\ steps = <<>>
    /\ previous_rip = 0
    /\ ready = "None"
    /\ reader = FALSE /\ writer = FALSE
    /\ pipe = <<>>
    /\ child = "none"
    /\ stop = NoStop
    /\ rip = 0
    /\ seeded = FALSE
    /\ exitkill = FALSE
    /\ executed = <<>>
    /\ stray_kill = FALSE

-----------------------------------------------------------------------------
(* The tracer, before the worker is under control.                         *)

\* Set the outcome; the caller says where the tracer goes next.
Conclude(outcome, error) ==
    result' = [ result EXCEPT !.outcome = outcome, !.error = error ]

\* The common failure exit: terminate_child, close the pipe, return an error.
Fail(error) ==
    /\ Conclude("Error", error)
    /\ pc' = "terminate"

Prepare ==
    /\ pc = "prepare"
    /\ \E instrumented \in BOOLEAN :
         LET verdict == prepare_platform_run(request, instrumented)
         IN  IF verdict = "ok"
             THEN /\ pc' = "pipe"
                  /\ UNCHANGED result
             ELSE /\ pc' = "returned"
                  /\ Conclude(IF verdict = "no_code" THEN "Idle" ELSE "Error", verdict)
    /\ UNCHANGED <<request, autoreap, steps, previous_rip, ready, reader, writer, pipe,
                   child, stop, rip, seeded, exitkill, executed, stray_kill>>

OpenPipe ==
    /\ pc = "pipe"
    /\ \/ /\ pc' = "fork"
          /\ reader' = TRUE /\ writer' = TRUE
          /\ UNCHANGED result
       \/ /\ pc' = "returned"
          /\ Conclude("Error", "pipe")
          /\ UNCHANGED <<reader, writer>>
    /\ UNCHANGED <<request, autoreap, steps, previous_rip, ready, pipe,
                   child, stop, rip, seeded, exitkill, executed, stray_kill>>

\* The worker inherits the write end and closes its copy of the read end.
Fork ==
    /\ pc = "fork"
    /\ \/ /\ pc' = "close_writer"
          /\ child' = "forked"
          /\ UNCHANGED <<result, reader, writer>>
       \/ /\ pc' = "returned"
          /\ Conclude("Error", "fork")
          /\ reader' = FALSE /\ writer' = FALSE
          /\ UNCHANGED child
    /\ UNCHANGED <<request, autoreap, steps, previous_rip, ready, pipe,
                   stop, rip, seeded, exitkill, executed, stray_kill>>

\* Wrong: the tracer keeps its copy of the write end.
CloseWriter_forgotten ==
    /\ pc = "close_writer"
    /\ pc' = "read_ready"
    /\ UNCHANGED <<request, autoreap, result, steps, previous_rip, ready, reader, writer,
                   pipe, childVars, seeded, exitkill, stray_kill>>

CloseWriter ==
    /\ pc = "close_writer"
    /\ pc' = "read_ready"
    /\ writer' = FALSE
    /\ UNCHANGED <<request, autoreap, result, steps, previous_rip, ready, reader, pipe,
                   childVars, seeded, exitkill, stray_kill>>

\* read_all blocks until the record is there or no writer is left.
EndOfFile == pipe = <<>> /\ ~writer /\ ~Alive

\* Wrong: the readiness record is peeked at and stays in the pipe.
ReadReady_peeks ==
    /\ pc = "read_ready"
    /\ \/ /\ pipe # <<>>
          /\ ready' = Head(pipe).error
          /\ pc' = "wait_ready"
          /\ UNCHANGED result
       \/ /\ EndOfFile
          /\ Fail("startup")
          /\ UNCHANGED ready
    /\ UNCHANGED <<request, autoreap, steps, previous_rip, reader, writer, pipe,
                   childVars, seeded, exitkill, stray_kill>>

ReadReady ==
    /\ pc = "read_ready"
    /\ \/ /\ pipe # <<>>
          /\ ready' = Head(pipe).error
          /\ pipe' = Tail(pipe)
          /\ pc' = "wait_ready"
          /\ UNCHANGED result
       \/ /\ EndOfFile
          /\ Fail("startup")
          /\ UNCHANGED <<ready, pipe>>
    /\ UNCHANGED <<request, autoreap, steps, previous_rip, reader, writer,
                   childVars, seeded, exitkill, stray_kill>>

\* waitpid on a zombie reaps it; on a worker already gone it fails.
WaitReady ==
    /\ pc = "wait_ready"
    /\ child \in {"stopped", "zombie", "reaped"}
    /\ child' = IF child = "zombie" THEN "reaped" ELSE child
    /\ \/ /\ child = "reaped"
          /\ Fail("wait")
          /\ UNCHANGED reader
       \/ /\ child # "reaped" /\ ready # "None"
          /\ Conclude("Error", "worker")
          /\ reader' = FALSE
          /\ pc' = "returned"
       \/ /\ child # "reaped" /\ ready = "None"
          /\ ~(child = "stopped" /\ stop.signal = "STOP")
          /\ Fail("did_not_stop")
          /\ UNCHANGED reader
       \/ /\ child = "stopped" /\ stop.signal = "STOP" /\ ready = "None"
          /\ pc' = "set_options"
          /\ UNCHANGED <<result, reader>>
    /\ UNCHANGED <<request, autoreap, steps, previous_rip, ready, writer, pipe,
                   stop, rip, seeded, exitkill, executed, stray_kill>>

-----------------------------------------------------------------------------
(* The tracer, driving the stopped worker.                                 *)

\* Wrong: PTRACE_O_EXITKILL is not requested.
SetOptions_skipped ==
    /\ pc = "set_options"
    /\ pc' = "seed"
    /\ UNCHANGED <<request, autoreap, tracerVars, pipe, childVars, seeded, exitkill, stray_kill>>

SetOptions ==
    /\ pc = "set_options"
    /\ \/ /\ child = "stopped"
          /\ exitkill' = TRUE
          /\ pc' = "seed"
          /\ UNCHANGED result
       \/ /\ child # "stopped"
          /\ Fail("options")
          /\ UNCHANGED exitkill
    /\ UNCHANGED <<request, autoreap, steps, previous_rip, ready, reader, writer, pipe,
                   childVars, seeded, stray_kill>>

\* Read the registers, validate MXCSR against the mask of this CPU, write the
\* seed back.  The worker's RIP becomes the code base.
Seed ==
    /\ pc = "seed"
    /\ \/ /\ child = "stopped"
          /\ seeded' = TRUE
          /\ rip' = 0
          /\ pc' = "start"
          /\ UNCHANGED result
       \/ /\ child = "stopped"
          /\ Fail("mxcsr")
          /\ UNCHANGED <<seeded, rip>>
       \/ /\ child # "stopped"
          /\ \E error \in {"register_read", "register_set"} : Fail(error)
          /\ UNCHANGED <<seeded, rip>>
    /\ UNCHANGED <<request, autoreap, steps, previous_rip, ready, reader, writer, pipe,
                   child, stop, exitkill, executed, stray_kill>>

Start ==
    /\ pc = "start"
    /\ \/ /\ request.stop_offset = 0
          /\ result' = [ result EXCEPT !.outcome = "Stopped", !.stop_address = 0,
                                       !.stopped_at_target = TRUE ]
          /\ pc' = "terminate"
          /\ UNCHANGED previous_rip
       \/ /\ request.stop_offset # 0
          /\ previous_rip' = 0
          /\ pc' = "single_step"
          /\ UNCHANGED result
    /\ UNCHANGED <<request, autoreap, steps, ready, reader, writer, pipe,
                   childVars, seeded, exitkill, stray_kill>>

SingleStep ==
    /\ pc = "single_step"
    /\ \/ /\ child = "stopped"
          /\ child' = "running"
          /\ pc' = "wait_step"
          /\ UNCHANGED result
       \/ /\ child # "stopped"
          /\ Fail("single_step")
          /\ UNCHANGED child
    /\ UNCHANGED <<request, autoreap, steps, previous_rip, ready, reader, writer, pipe,
                   stop, rip, seeded, exitkill, executed, stray_kill>>

\* An exit status means the worker is reaped: the pid is no longer ours.
WaitStep ==
    /\ pc = "wait_step"
    /\ \/ /\ child = "stopped"
          /\ pc' = "inspect"
          /\ UNCHANGED <<result, child>>
       \/ /\ child = "zombie"
          /\ child' = "reaped"
          /\ result' = [ result EXCEPT !.outcome = "Error", !.error = "exited",
                                       !.stop_address = previous_rip ]
          /\ pc' = "terminate"
       \/ /\ child = "reaped"
          /\ Fail("wait")
          /\ UNCHANGED child
    /\ UNCHANGED <<request, autoreap, steps, previous_rip, ready, reader, writer, pipe,
                   stop, rip, seeded, exitkill, executed, stray_kill>>

-----------------------------------------------------------------------------
(* Classifying a stop: GETSIGINFO, read_snapshot, then one of three cases. *)

breakpoint_signal == stop.signal = "TRAP" /\ stop.code = "BRKPT"
single_step_trap  == stop.signal = "TRAP" /\ stop.code = "TRACE"

is_software_breakpoint(address) == InCode(request, address) /\ address \in request.int3

breakpoint_trap == breakpoint_signal /\ is_software_breakpoint(previous_rip)

\* Wrong: only trace-class traps complete an instruction.
completed_trap_trace_only == single_step_trap

\* A completed syscall can use a breakpoint-class stop on WSL2.
completed_trap == single_step_trap \/ (breakpoint_signal /\ rip # previous_rip)

\* The worker vanished between waitpid and the ptrace reads.
InspectFails ==
    /\ pc = "inspect"
    /\ child # "stopped"
    /\ \E error \in {"signal_info", "register_read"} : Fail(error)
    /\ UNCHANGED <<request, autoreap, steps, previous_rip, ready, reader, writer, pipe,
                   childVars, seeded, exitkill, stray_kill>>

StopAtBreakpoint ==
    /\ pc = "inspect"
    /\ child = "stopped"
    /\ breakpoint_trap
    /\ result' = [ result EXCEPT !.outcome = "Stopped", !.stop_address = previous_rip ]
    /\ pc' = "terminate"
    /\ UNCHANGED <<request, autoreap, steps, previous_rip, ready, reader, writer, pipe,
                   childVars, seeded, exitkill, stray_kill>>

\* Any other signal is a fault of the current instruction.
RecordFault ==
    /\ pc = "inspect"
    /\ child = "stopped"
    /\ ~breakpoint_trap /\ ~completed_trap
    /\ steps' = Append(steps, [rip |-> rip, next |-> rip, faulted |-> TRUE])
    /\ LET memory == stop.signal \in {"SEGV", "BUS"}
       IN  /\ result' = [ result EXCEPT !.outcome = "Faulted", !.stop_address = rip,
                               !.fault_access = IF memory THEN "Unknown" ELSE @ ]
           /\ pc' = IF memory THEN "continue" ELSE "terminate"
    /\ UNCHANGED <<request, autoreap, previous_rip, ready, reader, writer, pipe,
                   childVars, seeded, exitkill, stray_kill>>

\* Wrong: the cap is checked with > and lets one instruction too many run.
after_step_off_by_one(next, count) ==
    IF HasTarget(request) /\ next = request.stop_offset THEN "target"
    ELSE IF ~InCode(request, next) THEN "left"
    ELSE IF count > EffectiveMaxSteps(request) THEN "cap"
    ELSE "go"

\* Wrong: the target is compared only after the range and cap tests.
after_step_target_last(next, count) ==
    IF ~InCode(request, next) THEN "left"
    ELSE IF count >= EffectiveMaxSteps(request) THEN "cap"
    ELSE IF HasTarget(request) /\ next = request.stop_offset THEN "target"
    ELSE "go"

\* Wrong: the range test accepts the guard page that follows the input.
after_step_past_end(next, count) ==
    IF HasTarget(request) /\ next = request.stop_offset THEN "target"
    ELSE IF next < 0 \/ next > request.size THEN "left"
    ELSE IF count >= EffectiveMaxSteps(request) THEN "cap"
    ELSE "go"

\* What the loop decides once an instruction completed: the target first, then
\* the input range, then the cap.
after_step(next, count) ==
    IF HasTarget(request) /\ next = request.stop_offset THEN "target"
    ELSE IF ~InCode(request, next) THEN "left"
    ELSE IF count >= EffectiveMaxSteps(request) THEN "cap"
    ELSE "go"

RecordStep ==
    /\ pc = "inspect"
    /\ child = "stopped"
    /\ ~breakpoint_trap /\ completed_trap
    /\ steps' = Append(steps, [rip |-> previous_rip, next |-> rip, faulted |-> FALSE])
    /\ LET verdict == after_step(rip, Len(steps) + 1)
       IN  /\ result' = CASE verdict = "target" ->
                                [ result EXCEPT !.outcome = "Stopped", !.stop_address = rip,
                                                !.stopped_at_target = TRUE ]
                         [] verdict = "left" -> [ result EXCEPT !.outcome = "Finished" ]
                         [] verdict = "cap"  -> [ result EXCEPT !.outcome = "AbortedCap" ]
                         [] verdict = "go"   -> result
           /\ previous_rip' = IF verdict = "go" THEN rip ELSE previous_rip
           /\ pc' = IF verdict = "go" THEN "single_step" ELSE "terminate"
    /\ UNCHANGED <<request, autoreap, ready, reader, writer, pipe,
                   childVars, seeded, exitkill, stray_kill>>

-----------------------------------------------------------------------------
(* collect_fault_report: deliver the signal so that the worker's handler   *)
(* can report the access, and wait at most FAULT_REPORT_TIMEOUT_MS.        *)

\* Wrong: the trap number is not checked, so every other trap reads as a read.
classify_fault_access_untyped(report) ==
    IF report.cause = "NotPageFault" THEN "Read" ELSE report.cause

\* The report repeats the very siginfo that GETSIGINFO returned, so the address
\* comparison always succeeds; the trap number decides.
classify_fault_access(report) ==
    IF report.cause = "NotPageFault" THEN "Unknown" ELSE report.cause

ContinueWithSignal ==
    /\ pc = "continue"
    /\ \/ /\ child = "stopped"
          /\ child' = "handler"
          /\ pc' = "poll"
       \/ /\ child # "stopped"
          /\ pc' = "terminate"
          /\ UNCHANGED child
    /\ UNCHANGED <<request, autoreap, tracerVars, pipe, stop, rip, seeded, exitkill,
                   executed, stray_kill>>

PollReport ==
    /\ pc = "poll"
    /\ pipe # <<>>
    /\ result' = [ result EXCEPT !.fault_access = classify_fault_access(Head(pipe)) ]
    /\ pipe' = Tail(pipe)
    /\ pc' = "terminate"
    /\ UNCHANGED <<request, autoreap, steps, previous_rip, ready, reader, writer,
                   childVars, seeded, exitkill, stray_kill>>

\* The second passed, or the worker died without a report (POLLHUP alone).
PollGivesUp ==
    /\ pc = "poll"
    /\ pipe = <<>>
    /\ pc' = "terminate"
    /\ UNCHANGED <<request, autoreap, tracerVars, pipe, childVars, seeded, exitkill,
                   stray_kill>>

\* Wrong: the worker is killed and never waited for.
Terminate_without_wait ==
    /\ pc = "terminate"
    /\ stray_kill' = (stray_kill \/ child = "reaped")
    /\ child' = IF child = "reaped" THEN child ELSE Corpse
    /\ reader' = FALSE
    /\ pc' = "returned"
    /\ UNCHANGED <<request, autoreap, result, steps, previous_rip, ready, writer, pipe,
                   stop, rip, seeded, exitkill, executed>>

\* terminate_child (SIGKILL, waitpid) and close_report_descriptor.
Terminate ==
    /\ pc = "terminate"
    /\ stray_kill' = (stray_kill \/ child = "reaped")
    /\ child' = "reaped"
    /\ reader' = FALSE
    /\ pc' = "returned"
    /\ UNCHANGED <<request, autoreap, result, steps, previous_rip, ready, writer, pipe,
                   stop, rip, seeded, exitkill, executed>>

-----------------------------------------------------------------------------
(* The worker: child_main.                                                 *)

ChildUnchanged ==
    UNCHANGED <<request, autoreap, pc, tracerVars, seeded, exitkill, stray_kill>>

\* A record sent while the read end is open reaches the pipe and the worker
\* goes on; with the tracer gone the write fails and the worker dies.
Send(message, then) ==
    \/ /\ reader
       /\ pipe' = Append(pipe, message)
       /\ child' = then
    \/ /\ ~reader
       /\ child' = Corpse
       /\ UNCHANGED pipe

ChildTraceMe ==
    /\ child = "forked"
    /\ \/ /\ child' = "setup"
          /\ UNCHANGED pipe
       \/ Send(Ready("Trace"), "refused")
    /\ UNCHANGED <<stop, rip, executed>>
    /\ ChildUnchanged

\* Allocation, commit, protection, cache flush and signal setup, in order;
\* any of them may fail.
ChildSetup ==
    /\ child = "setup"
    /\ \/ /\ child' = "ready"
          /\ UNCHANGED pipe
       \/ \E error \in ChildError \ {"Trace"} : Send(Ready(error), "failing")
    /\ UNCHANGED <<stop, rip, executed>>
    /\ ChildUnchanged

ChildReady ==
    /\ child = "ready"
    /\ Send(Ready("None"), "raising")
    /\ UNCHANGED <<stop, rip, executed>>
    /\ ChildUnchanged

ChildRaise ==
    /\ child = "raising"
    /\ child' = "stopped"
    /\ stop' = NoStop
    /\ UNCHANGED <<pipe, rip, executed>>
    /\ ChildUnchanged

ChildExit ==
    /\ child \in {"refused", "failing"}
    /\ child' = Corpse
    /\ UNCHANGED <<pipe, stop, rip, executed>>
    /\ ChildUnchanged

(* The worker: instructions of the input, one per PTRACE_SINGLESTEP.       *)

Trap(signal, code, cause) ==
    /\ child' = "stopped"
    /\ stop' = [signal |-> signal, code |-> code, cause |-> cause]

\* An instruction other than int3 completes.  A syscall moves RIP and may be
\* reported as a breakpoint-class trap.
UserCompletes ==
    /\ child = "running"
    /\ rip \notin request.int3
    /\ \E next \in -1 .. request.size :
         /\ rip' = next
         /\ \/ Trap("TRAP", "TRACE", "NotPageFault")
            \/ next # rip /\ Trap("TRAP", "BRKPT", "NotPageFault")
    /\ executed' = Append(executed, rip)
    /\ UNCHANGED pipe
    /\ ChildUnchanged

\* int3 traps with RIP past its opcode.
UserBreaks ==
    /\ child = "running"
    /\ rip \in request.int3
    /\ rip' = rip + 1
    /\ Trap("TRAP", "BRKPT", "NotPageFault")
    /\ UNCHANGED <<pipe, executed>>
    /\ ChildUnchanged

\* The instruction faults where it stands, or on fetching from outside.
UserFaults ==
    /\ child = "running"
    /\ rip \notin request.int3
    /\ rip' \in {rip, Below}
    /\ \/ \E signal \in {"SEGV", "BUS"}, cause \in Cause : Trap(signal, "OTHER", cause)
       \/ Trap("ILL", "OTHER", "NotPageFault")
    /\ UNCHANGED <<pipe, executed>>
    /\ ChildUnchanged

\* The input makes an exit system call.
UserExits ==
    /\ child = "running"
    /\ child' = Corpse
    /\ UNCHANGED <<pipe, stop, rip, executed>>
    /\ ChildUnchanged

\* The input makes a system call that never returns.
UserBlocks ==
    /\ child = "running"
    /\ child' = "blocked"
    /\ UNCHANGED <<pipe, stop, rip, executed>>
    /\ ChildUnchanged

\* fault_report_handler: report the access and exit.
FaultHandler ==
    /\ child = "handler"
    /\ Send(Report(stop.cause), Corpse)
    /\ UNCHANGED <<stop, rip, executed>>
    /\ ChildUnchanged

-----------------------------------------------------------------------------
(* The environment.                                                        *)

ExternalKill ==
    /\ Alive
    /\ child' = Corpse
    /\ UNCHANGED <<pipe, stop, rip, executed>>
    /\ ChildUnchanged

\* A signal for the foreground process group stops the traced worker before
\* it executes anything more, whatever its default action is.
AsyncSignal ==
    /\ AsyncSignals
    /\ Traced /\ pc # "dead"
    /\ Trap("WINCH", "OTHER", "NotPageFault")
    /\ UNCHANGED <<pipe, rip, executed>>
    /\ ChildUnchanged

\* The kernel closes the descriptors and, with EXITKILL, kills the worker.
TracerDies ==
    /\ TracerDeath
    /\ pc \notin {"returned", "dead"}
    /\ pc' = "dead"
    /\ reader' = FALSE /\ writer' = FALSE
    /\ child' = IF exitkill /\ Alive THEN Corpse ELSE child
    /\ UNCHANGED <<request, autoreap, result, steps, previous_rip, ready, pipe,
                   stop, rip, seeded, exitkill, executed, stray_kill>>

\* The caller has its result (or is gone); nothing more happens.
Done ==
    /\ pc \in {"returned", "dead"}
    /\ UNCHANGED vars

Tracer ==
    \/ Prepare \/ OpenPipe \/ Fork \/ CloseWriter \/ ReadReady \/ WaitReady
    \/ SetOptions \/ Seed \/ Start \/ SingleStep \/ WaitStep
    \/ InspectFails \/ StopAtBreakpoint \/ RecordFault \/ RecordStep
    \/ ContinueWithSignal \/ PollReport \/ PollGivesUp \/ Terminate

Worker ==
    \/ ChildTraceMe \/ ChildSetup \/ ChildReady \/ ChildRaise \/ ChildExit
    \/ UserCompletes \/ UserBreaks \/ UserFaults \/ UserExits \/ UserBlocks
    \/ FaultHandler

Environment == ExternalKill \/ AsyncSignal \/ TracerDies

Next == Tracer \/ Worker \/ Environment \/ Done

Spec == Init /\ [][Next]_vars

\* Both processes are scheduled; poll has a deadline.  Nothing is assumed of
\* the environment, nor that a system call of the input returns.
Fairness == WF_vars(Tracer) /\ WF_vars(Worker)

FairSpec == Spec /\ Fairness

-----------------------------------------------------------------------------
(* Properties.                                                             *)

\* The outcome has been decided; only clean-up is left.
Concluded == pc \in {"continue", "poll", "terminate", "returned"}

\* Every step starts where the one before it ended, only the last can be a
\* fault, and no step was taken after RIP left the input or met the target
\* (the loop of run_platform_steps).
StepsChained == Chained(steps) /\ NeverOverran(request, steps)

\* Whatever outcome is returned, the recorded steps explain it: a cap means
\* exactly the cap's number of completed steps, a target or int3 stop is where
\* execution stood, Finished means RIP left the input.
OutcomeJustified ==
    Concluded => Justified(request, steps, result.outcome, result.stop_address)

\* The trace is what the worker did: unless the run failed, the completed steps
\* are exactly the instructions of the input the worker executed - a fault or an
\* int3 does not count, a syscall reported as a breakpoint-class trap does.
TraceIsExecution ==
    Concluded /\ result.outcome # "Error" =>
        LET done == Completed(steps)
        IN  /\ Len(done) = Len(executed)
            /\ \A i \in 1 .. Len(done) : done[i].rip = executed[i]

\* When run_platform_steps returns, both pipe ends are closed and the worker is
\* gone.  The exception is the code's: a worker that reported a setup error is
\* not terminated, so a signal that stops it before its _exit leaves it behind.
NothingLeaks ==
    pc = "returned" =>
        /\ ~reader /\ ~writer
        /\ \/ child \in {"none", "reaped"}
           \/ AsyncSignals /\ result.error = "worker" /\ child \in {"stopped", "zombie"}

\* terminate_child sends SIGKILL to a pid that is no longer the worker's only in
\* runs that end in an error, never after a recorded outcome - except when the
\* launcher made the kernel reap children by itself.
StrayKillOnlyOnError ==
    stray_kill => result.outcome = "Error" \/ autoreap

\* Whatever path led to its end, the run leaves no process and no descriptor, and
\* what it kills on the way is its own worker.
EndsCleanly == NothingLeaks /\ StrayKillOnlyOnError

\* The pipe carries untagged records of two kinds; each read gets the kind it
\* expects: readiness in the handshake, a fault report after a fault.
RecordsMatchReaders ==
    pipe # <<>> =>
        /\ pc = "read_ready" => Head(pipe).kind = "ready"
        /\ pc = "poll" => Head(pipe).kind = "report"

\* A read, write or execute access is reported only when it is the access of the
\* page fault that ended the run; a late, lost or missing report leaves Unknown.
AccessTruthful ==
    result.fault_access \in {"Read", "Write", "Execute"} =>
        /\ result.outcome = "Faulted"
        /\ stop.signal \in {"SEGV", "BUS"}
        /\ result.fault_access = stop.cause

\* From the moment the input's registers are installed, the death of the tracer
\* takes the worker with it (PTRACE_O_EXITKILL before PTRACE_SETREGS).
TracerDeathKillsWorker == pc = "dead" /\ seeded => ~Alive

\* run_platform_steps returns, unless the input blocks in a system call.
Returns == <>(pc = "returned") \/ <>[](child = "blocked")

\* The tracer implements the abstract run.
Abstract ==
    INSTANCE PlatformRun
    WITH outcome <- IF Concluded THEN result.outcome ELSE "None",
         address <- result.stop_address

\* Seen from the caller, a Linux run records and concludes as PlatformRun says.
ImplementsPlatformRun == Abstract!Spec
===============================================================================
