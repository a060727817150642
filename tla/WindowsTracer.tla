----------------------------- MODULE WindowsTracer -----------------------------
(***************************************************************************)
(* run_platform_steps of os.windows.cpp: the host creates a suspended      *)
(* sandbox thread in its own process, seeds its context with the trap flag *)
(* set, resumes it and waits for it to end.  A process-wide vectored       *)
(* exception handler (bme_veh) runs on the sandbox thread after every      *)
(* instruction, records it in the global engine and, when the run is over, *)
(* restores the thread's original context so that it simply returns.       *)
(*                                                                         *)
(* Windows itself is external and modelled from how the code uses it.      *)
(***************************************************************************)
EXTENDS Platform

CONSTANTS ThreadExit,   \* may the input end the sandbox thread itself?
          HostFailures  \* may waiting for or terminating the thread fail?

ASSUME WindowsAssumption == ThreadExit \in BOOLEAN /\ HostFailures \in BOOLEAN

RunError ==
    {"none", "no_code", "stop_offset_outside", "instrumentation", "alloc", "commit",
     "protect", "flush", "create_thread", "thread_id", "get_context", "mxcsr",
     "set_context", "install_handler", "resume", "wait"}

Exception == {"single_step", "breakpoint", "access", "other"}

\* ExceptionInformation[0] of an access violation: 0, 1, 8 or anything else.
Access == {"Read", "Write", "Execute", "Unknown"}

Engine ==
    [ present : BOOLEAN, active : BOOLEAN, previous_rip : Address, outcome : Outcome,
      fault_address : Address, fault_access : FaultAccess, stopped_at_target : BOOLEAN ]

NoEngine ==
    [ present |-> FALSE, active |-> FALSE, previous_rip |-> 0, outcome |-> "Finished",
      fault_address |-> 0, fault_access |-> "None", stopped_at_target |-> FALSE ]

Result ==
    [ outcome : Outcome, error : RunError, stop_address : Address,
      stopped_at_target : BOOLEAN, fault_access : FaultAccess ]

VARIABLES
    request,    \* PlatformRunRequest; never changes
    pc,         \* where the host stands in run_platform_steps
    result,     \* PlatformRunResult without its steps
    steps,      \* result.steps
    engine,     \* g_engine without its recorded steps
    raw_steps,  \* g_engine->raw_steps
    reserved,   \* capacity reserved for raw_steps
    regions,    \* code, stack and data regions are allocated
    handle,     \* the thread handle is open
    handler,    \* bme_veh is installed
    thread,     \* state of the sandbox thread
    exception,  \* what it raised, meaningful while thread = "raised"
    access,     \* ExceptionInformation[0] of that exception
    rip,        \* its instruction pointer
    trap_flag,  \* TF in its flags
    executed    \* history: instructions of the input the thread completed

threadVars == <<thread, exception, access, rip, trap_flag, executed>>
vars == <<request, pc, result, steps, engine, raw_steps, reserved, regions, handle,
          handler, thread, exception, access, rip, trap_flag, executed>>

PC == {"prepare", "allocate", "populate", "create_engine", "create_thread", "seed",
       "start", "install", "resume", "wait", "deactivate", "collect", "fail_thread",
       "returned", "crashed"}

\* running: executing the input; blocked: inside a system call that does not
\* return; raised: an exception is being dispatched; restored: running from its
\* original context, about to return.
ThreadState == {"none", "suspended", "running", "blocked", "raised", "restored", "exited"}

TypeOK ==
    /\ request \in Request
    /\ pc \in PC
    /\ result \in Result
    /\ steps \in Seq(PlatformStep)
    /\ engine \in Engine
    /\ raw_steps \in Seq(PlatformStep)
    /\ reserved \in 0 .. MAX_STEPS_LIMIT
    /\ regions \in BOOLEAN
    /\ handle \in BOOLEAN
    /\ handler \in BOOLEAN
    /\ thread \in ThreadState
    /\ exception \in Exception
    /\ access \in Access
    /\ rip \in Address
    /\ trap_flag \in BOOLEAN
    /\ executed \in Seq(Address)

Init ==
    /\ request \in Request
    /\ \A offset \in request.int3 : offset < request.size
    /\ pc = "prepare"
    /\ result = [ outcome |-> "Finished", error |-> "none", stop_address |-> 0,
                  stopped_at_target |-> FALSE, fault_access |-> "None" ]
    /\ steps = <<>>
    /\ engine = NoEngine
    /\ raw_steps = <<>>
    /\ reserved = 0
    /\ regions = FALSE
    /\ handle = FALSE
    /\ handler = FALSE
    /\ thread = "none"
    /\ exception = "other"
    /\ access = "Unknown"
    /\ rip = 0
    /\ trap_flag = FALSE
    /\ executed = <<>>

-----------------------------------------------------------------------------
(* The host: set-up.                                                       *)

Conclude(outcome, error) ==
    result' = [ result EXCEPT !.outcome = outcome, !.error = error ]

\* fail: release the regions and return an error.
Fail(error) ==
    /\ Conclude("Error", error)
    /\ regions' = FALSE
    /\ pc' = "returned"

\* fail_thread: the rest of it is the action FailThread.
FailWithThread(error) ==
    /\ Conclude("Error", error)
    /\ pc' = "fail_thread"

Prepare ==
    /\ pc = "prepare"
    /\ \E instrumented \in BOOLEAN :
         LET verdict == prepare_platform_run(request, instrumented)
         IN  IF verdict = "ok"
             THEN /\ pc' = "allocate"
                  /\ UNCHANGED result
             ELSE /\ pc' = "returned"
                  /\ Conclude(IF verdict = "no_code" THEN "Idle" ELSE "Error", verdict)
    /\ UNCHANGED <<request, steps, engine, raw_steps, reserved, regions, handle, handler,
                   threadVars>>

\* Any of the three reservations may fail; what succeeded is released.
Allocate ==
    /\ pc = "allocate"
    /\ \/ /\ regions' = TRUE
          /\ pc' = "populate"
          /\ UNCHANGED result
       \/ Fail("alloc")
    /\ UNCHANGED <<request, steps, engine, raw_steps, reserved, handle, handler, threadVars>>

\* Commit, copy the input, protect, flush.
Populate ==
    /\ pc = "populate"
    /\ \/ /\ pc' = "create_engine"
          /\ UNCHANGED <<result, regions>>
       \/ \E error \in {"commit", "protect", "flush"} : Fail(error)
    /\ UNCHANGED <<request, steps, engine, raw_steps, reserved, handle, handler, threadVars>>

\* A fresh engine with room for every step the cap allows.
CreateEngine ==
    /\ pc = "create_engine"
    /\ engine' = [ NoEngine EXCEPT !.present = TRUE ]
    /\ raw_steps' = <<>>
    /\ reserved' = EffectiveMaxSteps(request)
    /\ pc' = "create_thread"
    /\ UNCHANGED <<request, result, steps, regions, handle, handler, threadVars>>

CreateThread ==
    /\ pc = "create_thread"
    /\ \/ /\ thread' = "suspended"
          /\ handle' = TRUE
          /\ pc' = "seed"
          /\ UNCHANGED <<result, engine, regions>>
       \/ /\ engine' = NoEngine
          /\ Fail("create_thread")
          /\ UNCHANGED <<thread, handle>>
    /\ UNCHANGED <<request, steps, raw_steps, reserved, handler,
                   exception, access, rip, trap_flag, executed>>

\* Save the startup context, validate MXCSR, install the seed with TF set.
Seed ==
    /\ pc = "seed"
    /\ \/ /\ rip' = 0
          /\ trap_flag' = TRUE
          /\ pc' = "start"
          /\ UNCHANGED result
       \/ /\ \E error \in {"thread_id", "get_context", "mxcsr", "set_context"} :
               FailWithThread(error)
          /\ UNCHANGED <<rip, trap_flag>>
    /\ UNCHANGED <<request, steps, engine, raw_steps, reserved, regions, handle, handler,
                   thread, exception, access, executed>>

\* terminate_thread: the handle is closed even when termination fails.
TerminateThread ==
    /\ handle' = FALSE
    /\ \/ thread' = IF thread = "none" THEN thread ELSE "exited"
       \/ HostFailures /\ UNCHANGED thread

\* A target at the code base stops the run before anything is executed.
Start ==
    /\ pc = "start"
    /\ \/ /\ request.stop_offset = 0
          /\ TerminateThread
          /\ result' = [ result EXCEPT !.outcome = "Stopped", !.stop_address = 0,
                                       !.stopped_at_target = TRUE ]
          /\ regions' = FALSE
          /\ engine' = NoEngine
          /\ pc' = "returned"
       \/ /\ request.stop_offset # 0
          /\ pc' = "install"
          /\ UNCHANGED <<result, regions, engine, thread, handle>>
    /\ UNCHANGED <<request, steps, raw_steps, reserved, handler,
                   exception, access, rip, trap_flag, executed>>

InstallHandler ==
    /\ pc = "install"
    /\ \/ /\ handler' = TRUE
          /\ pc' = "resume"
          /\ UNCHANGED result
       \/ /\ FailWithThread("install_handler")
          /\ UNCHANGED handler
    /\ UNCHANGED <<request, steps, engine, raw_steps, reserved, regions, handle, threadVars>>

\* Wrong: the engine is activated only after the thread has been resumed.
Resume_before_active ==
    /\ pc = "resume"
    /\ thread' = "running"
    /\ pc' = "wait"
    /\ UNCHANGED <<request, result, steps, engine, raw_steps, reserved, regions, handle,
                   handler, exception, access, rip, trap_flag, executed>>

\* The engine is active before the thread can trap.
Resume ==
    /\ pc = "resume"
    /\ \/ /\ engine' = [ engine EXCEPT !.active = TRUE ]
          /\ thread' = "running"
          /\ pc' = "wait"
          /\ UNCHANGED <<result, handler>>
       \/ /\ handler' = FALSE
          /\ FailWithThread("resume")
          /\ UNCHANGED <<engine, thread>>
    /\ UNCHANGED <<request, steps, raw_steps, reserved, regions, handle,
                   exception, access, rip, trap_flag, executed>>

-----------------------------------------------------------------------------
(* The sandbox thread: the input under the trap flag.                      *)

HostUnchanged == UNCHANGED <<request, pc, result, steps, reserved, regions, handle, handler>>

Raise(what, information) ==
    /\ thread' = "raised"
    /\ exception' = what
    /\ access' = information

\* An instruction other than int3 completes; with TF set the processor clears
\* it and raises a single-step exception.
UserCompletes ==
    /\ thread = "running"
    /\ InCode(request, rip) /\ rip \notin request.int3
    /\ rip' \in -1 .. request.size
    /\ executed' = Append(executed, rip)
    /\ \/ /\ trap_flag
          /\ Raise("single_step", "Unknown")
          /\ trap_flag' = FALSE
       \/ /\ ~trap_flag
          /\ UNCHANGED <<thread, exception, access, trap_flag>>
    /\ HostUnchanged
    /\ UNCHANGED <<engine, raw_steps>>

UserBreaks ==
    /\ thread = "running"
    /\ rip \in request.int3
    /\ Raise("breakpoint", "Unknown")
    /\ UNCHANGED <<rip, trap_flag, executed>>
    /\ HostUnchanged
    /\ UNCHANGED <<engine, raw_steps>>

\* The instruction faults where it stands, or on fetching from outside.
UserFaults ==
    /\ thread = "running"
    /\ rip \notin request.int3
    /\ rip' \in {rip, Below}
    /\ \/ \E information \in Access : Raise("access", information)
       \/ Raise("other", "Unknown")
    /\ UNCHANGED <<trap_flag, executed>>
    /\ HostUnchanged
    /\ UNCHANGED <<engine, raw_steps>>

\* The input ends its own thread with a system call.
UserExitsThread ==
    /\ ThreadExit
    /\ thread = "running"
    /\ thread' = "exited"
    /\ UNCHANGED <<exception, access, rip, trap_flag, executed>>
    /\ HostUnchanged
    /\ UNCHANGED <<engine, raw_steps>>

\* The input makes a system call that never returns.
UserBlocks ==
    /\ thread = "running"
    /\ thread' = "blocked"
    /\ UNCHANGED <<exception, access, rip, trap_flag, executed>>
    /\ HostUnchanged
    /\ UNCHANGED <<engine, raw_steps>>

\* sandbox_thread_main returns.
ThreadReturns ==
    /\ thread = "restored"
    /\ thread' = "exited"
    /\ UNCHANGED <<exception, access, rip, trap_flag, executed>>
    /\ HostUnchanged
    /\ UNCHANGED <<engine, raw_steps>>

-----------------------------------------------------------------------------
(* bme_veh.                                                                *)

\* Exceptions of other threads, or of an inactive engine, are passed on.
VehAccepts(of_sandbox) == handler /\ engine.present /\ engine.active /\ of_sandbox

\* *context = saved_context: the startup context has TF clear.
RestoreContext ==
    /\ thread' = "restored"
    /\ trap_flag' = FALSE

\* Wrong: the cap lets one instruction too many run.
after_step_off_by_one(next, count) ==
    IF HasTarget(request) /\ next = request.stop_offset THEN "target"
    ELSE IF ~InCode(request, next) THEN "left"
    ELSE IF count > EffectiveMaxSteps(request) THEN "cap"
    ELSE "go"

\* Wrong: the cap is tested before the target and the range.
after_step_cap_first(next, count) ==
    IF count >= EffectiveMaxSteps(request) THEN "cap"
    ELSE IF HasTarget(request) /\ next = request.stop_offset THEN "target"
    ELSE IF ~InCode(request, next) THEN "left"
    ELSE "go"

\* The target first, then the input range, then the cap.
after_step(next, count) ==
    IF HasTarget(request) /\ next = request.stop_offset THEN "target"
    ELSE IF ~InCode(request, next) THEN "left"
    ELSE IF count >= EffectiveMaxSteps(request) THEN "cap"
    ELSE "go"

\* Wrong: the trap flag is not set again, so the next instruction runs untraced.
Rearm_forgotten == UNCHANGED trap_flag

\* context->EFlags |= TF
Rearm == trap_flag' = TRUE

VehSingleStep ==
    /\ thread = "raised" /\ exception = "single_step"
    /\ VehAccepts(TRUE)
    /\ raw_steps' = Append(raw_steps, [rip |-> engine.previous_rip, next |-> rip,
                                       faulted |-> FALSE])
    /\ LET verdict == after_step(rip, Len(raw_steps) + 1)
       IN  /\ engine' = CASE verdict = "target" ->
                                [ engine EXCEPT !.outcome = "Stopped", !.fault_address = rip,
                                                !.stopped_at_target = TRUE ]
                         [] verdict = "left" -> [ engine EXCEPT !.outcome = "Finished" ]
                         [] verdict = "cap"  -> [ engine EXCEPT !.outcome = "AbortedCap" ]
                         [] verdict = "go"   -> [ engine EXCEPT !.previous_rip = rip ]
           /\ IF verdict = "go" THEN thread' = "running" /\ Rearm ELSE RestoreContext
    /\ UNCHANGED <<exception, access, rip, executed>>
    /\ HostUnchanged

VehBreakpoint ==
    /\ thread = "raised" /\ exception = "breakpoint"
    /\ VehAccepts(TRUE)
    /\ engine' = [ engine EXCEPT !.outcome = "Stopped", !.fault_address = engine.previous_rip ]
    /\ RestoreContext
    /\ UNCHANGED <<raw_steps, exception, access, rip, executed>>
    /\ HostUnchanged

VehFault ==
    /\ thread = "raised" /\ exception \in {"access", "other"}
    /\ VehAccepts(TRUE)
    /\ engine' = [ engine EXCEPT !.outcome = "Faulted", !.fault_address = rip,
                     !.fault_access = IF exception = "access" THEN access ELSE @ ]
    /\ RestoreContext
    /\ UNCHANGED <<raw_steps, exception, access, rip, executed>>
    /\ HostUnchanged

\* An exception nobody handles ends the process.
Unhandled ==
    /\ thread = "raised"
    /\ ~VehAccepts(TRUE)
    /\ pc' = "crashed"
    /\ UNCHANGED <<request, result, steps, engine, raw_steps, reserved, regions, handle,
                   handler, threadVars>>

-----------------------------------------------------------------------------
(* The host: after the run.                                                *)

\* WaitForSingleObject(thread, INFINITE), then deactivate and remove the
\* handler; only then is the wait result looked at.
WaitThread ==
    /\ pc = "wait"
    /\ \/ thread = "exited" /\ pc' = "deactivate" /\ UNCHANGED result
       \/ HostFailures /\ pc' = "deactivate" /\ Conclude("Error", "wait")
    /\ UNCHANGED <<request, steps, engine, raw_steps, reserved, regions, handle, handler,
                   threadVars>>

Deactivate ==
    /\ pc = "deactivate"
    /\ engine' = [ engine EXCEPT !.active = FALSE ]
    /\ handler' = FALSE
    /\ pc' = IF result.error = "wait" THEN "fail_thread" ELSE "collect"
    /\ UNCHANGED <<request, result, steps, raw_steps, reserved, regions, handle, threadVars>>

\* Wrong: the engine and the regions go before the thread does.
FailThread_release_first ==
    /\ pc = "fail_thread"
    /\ handle
    /\ regions' = FALSE
    /\ engine' = NoEngine
    /\ UNCHANGED <<request, pc, result, steps, raw_steps, reserved, handle, handler, threadVars>>

FailThread ==
    /\ pc = "fail_thread"
    /\ TerminateThread
    /\ regions' = FALSE
    /\ engine' = NoEngine
    /\ pc' = "returned"
    /\ UNCHANGED <<request, result, steps, raw_steps, reserved, handler,
                   exception, access, rip, trap_flag, executed>>

\* Copy the engine's record into the result, the fault as a last step.
Collect ==
    /\ pc = "collect"
    /\ steps' = IF engine.outcome = "Faulted"
                THEN Append(raw_steps, [rip |-> engine.fault_address,
                                        next |-> engine.fault_address, faulted |-> TRUE])
                ELSE raw_steps
    /\ result' = [ result EXCEPT !.outcome = engine.outcome,
                     !.stop_address = engine.fault_address,
                     !.stopped_at_target = engine.stopped_at_target,
                     !.fault_access = engine.fault_access ]
    /\ handle' = FALSE
    /\ regions' = FALSE
    /\ engine' = NoEngine
    /\ pc' = "returned"
    /\ UNCHANGED <<request, raw_steps, reserved, handler, threadVars>>

Done ==
    /\ pc \in {"returned", "crashed"}
    /\ UNCHANGED vars

Host ==
    \/ Prepare \/ Allocate \/ Populate \/ CreateEngine \/ CreateThread \/ Seed \/ Start
    \/ InstallHandler \/ Resume \/ WaitThread \/ Deactivate \/ FailThread \/ Collect

\* Nothing of the sandbox moves once the process is gone.
Sandbox ==
    /\ pc # "crashed"
    /\ \/ UserCompletes \/ UserBreaks \/ UserFaults \/ UserExitsThread
       \/ UserBlocks \/ ThreadReturns
       \/ VehSingleStep \/ VehBreakpoint \/ VehFault \/ Unhandled

Next == Host \/ Sandbox \/ Done

Spec == Init /\ [][Next]_vars

\* Both threads are scheduled; no system call of the input is assumed to return.
FairSpec == Spec /\ WF_vars(Host) /\ WF_vars(Sandbox)

-----------------------------------------------------------------------------
(* Properties.                                                             *)

\* The trace is what the sandbox thread did: every completed instruction was
\* trapped and recorded, in order, and nothing else was (bme_veh rearms TF).
TraceIsExecution ==
    pc = "returned" /\ result.outcome # "Error" =>
        LET done == Completed(steps)
        IN  /\ Len(done) = Len(executed)
            /\ \A i \in 1 .. Len(done) : done[i].rip = executed[i]

\* The handler never grows raw_steps beyond the capacity reserved for it, so it
\* never allocates while an exception is dispatched.
HandlerNeverReallocates == Len(raw_steps) <= reserved

\* While the sandbox thread can still touch them, the engine and the regions
\* exist; the only exception is a thread that could not be terminated.
SandboxOutlived ==
    thread \in {"running", "blocked", "raised", "restored"} /\ handle => engine.present /\ regions

\* Once run_platform_steps returns, regions, handle, handler and engine are gone.
NothingLeaks ==
    pc = "returned" => ~regions /\ ~handle /\ ~handler /\ ~engine.present

\* On every path out, a failed wait included, resources are released only after
\* the thread that uses them, and then all of them are.
EndsCleanly == SandboxOutlived /\ NothingLeaks

\* An exception of the sandbox thread always finds the handler installed and the
\* engine active, unless waiting for the thread itself failed.
AlwaysHandled == pc = "crashed" => result.error = "wait"

\* Every run returns, unless the input blocks in a system call (the host waits
\* for the sandbox thread without a timeout).
Returns == <>(pc = "returned") \/ <>[](thread = "blocked")

\* The outcome is final: the context has been restored or the host is done.
Concluded == thread = "restored" \/ pc = "returned" \/ (thread = "exited" /\ engine.present)

RecordedSteps ==
    IF ~engine.present THEN steps
    ELSE IF engine.outcome = "Faulted"
         THEN Append(raw_steps, [rip |-> engine.fault_address,
                                 next |-> engine.fault_address, faulted |-> TRUE])
    ELSE raw_steps

Abstract ==
    INSTANCE PlatformRun
    WITH steps   <- RecordedSteps,
         outcome <- IF ~Concluded THEN "None"
                    ELSE IF engine.present /\ result.error = "none" THEN engine.outcome
                    ELSE result.outcome,
         address <- IF engine.present THEN engine.fault_address ELSE result.stop_address

\* Seen from the caller, a Windows run records and concludes as PlatformRun says,
\* provided the input does not end its own thread and the host's waits succeed.
ImplementsPlatformRun == Abstract!Spec

\* A run that reports Finished has left the input ("Reached end of input" or
\* "Execution left input range" in run_engine).
FinishedMeansLeft ==
    pc = "returned" /\ result.outcome = "Finished" => ~InCode(request, Position(steps))
===============================================================================
