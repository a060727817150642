-------------------------- MODULE WindowsTracerProofs --------------------------
(***************************************************************************)
(* Proofs about WindowsTracer, for every input, cap and host: what the     *)
(* vectored handler finds when the sandbox thread traps, what it records,  *)
(* and what is left when run_platform_steps returns.                       *)
(***************************************************************************)
EXTENDS WindowsTracer, PlatformProofs

-----------------------------------------------------------------------------
(* The inductive invariant.                                                *)

\* Breakpoints lie in the input.
BreakpointsInCode == \A offset \in request.int3 : offset < request.size

TypeInv == TypeOK /\ BreakpointsInCode

\* What is allocated, open and installed at each point of run_platform_steps.
ResourceInv ==
    /\ pc \in {"prepare", "allocate", "returned"} => ~regions
    /\ pc \in {"populate", "create_engine", "create_thread", "seed", "start", "install",
               "resume", "wait", "deactivate", "collect", "fail_thread"} => regions
    /\ pc \in {"prepare", "allocate", "populate", "create_engine", "returned"} =>
         ~engine.present
    /\ pc \in {"create_thread", "seed", "start", "install", "resume", "wait", "deactivate",
               "collect", "fail_thread"} => engine.present
    /\ pc \in {"prepare", "allocate", "populate", "create_engine", "create_thread",
               "returned"} => ~handle
    /\ pc \in {"resume", "wait", "deactivate"} => handler
    /\ pc \notin {"resume", "wait", "deactivate", "crashed"} => ~handler
    /\ pc \in {"wait", "deactivate"} => engine.active

\* Where the sandbox thread can be; the host moves on past a thread that has not
\* ended only after a failed wait.
ThreadInv ==
    /\ pc \in {"prepare", "allocate", "populate", "create_engine", "create_thread"} =>
         thread = "none"
    /\ pc \in {"seed", "start", "install", "resume"} => thread = "suspended"
    /\ pc = "wait" => thread \notin {"none", "suspended"}
    /\ pc \in {"deactivate", "collect"} /\ result.error # "wait" => thread = "exited"
    /\ pc = "fail_thread" /\ result.error # "wait" => thread = "suspended"
    /\ pc = "returned" /\ result.error # "wait" => thread \in {"none", "suspended", "exited"}
    /\ pc \notin {"deactivate", "fail_thread", "returned", "crashed"} => result.error = "none"
    /\ pc = "deactivate" => result.error \in {"none", "wait"}
    /\ result.error = "wait" => HostFailures /\ result.outcome = "Error"
    /\ pc = "fail_thread" => result.outcome = "Error"
    /\ pc = "crashed" => result.error = "wait" /\ (handle => engine.present /\ regions)
    /\ thread = "running" => trap_flag

\* The request passed prepare_platform_run.
Admitted ==
    /\ request.size > 0
    /\ HasTarget(request) => request.stop_offset < request.size

\* The input is being executed under the engine.
Stepping == thread \in {"running", "blocked", "raised"} /\ engine.present

\* The engine's record lets execution go on while the thread executes, and has
\* room for the step that is being executed.
RecordInv ==
    /\ pc \notin {"returned", "crashed"} => steps = <<>> /\ result.stop_address = 0
    /\ pc \notin {"prepare", "returned", "crashed"} => Admitted
    /\ thread \in {"none", "suspended"} /\ engine.present =>
         raw_steps = <<>> /\ engine = [ NoEngine EXCEPT !.present = TRUE ]
    /\ pc \in {"start", "install", "resume"} => rip = 0 /\ trap_flag
    /\ pc \in {"install", "resume"} => request.stop_offset # 0
    /\ engine.present => reserved = EffectiveMaxSteps(request)
    /\ engine.present => \A i \in 1 .. Len(raw_steps) : ~raw_steps[i].faulted
    /\ Stepping => /\ Open(request, raw_steps) /\ engine.previous_rip = Position(raw_steps)
                   /\ request.stop_offset # 0
                   /\ engine.outcome = "Finished" /\ engine.fault_address = 0
    /\ HandlerNeverReallocates

\* Steps and instructions agree one by one.
Matches(done, instructions) ==
    /\ Len(done) = Len(instructions)
    /\ \A i \in 1 .. Len(done) : done[i].rip = instructions[i]

\* The instruction whose trap the handler has not seen yet.
Trapped == thread = "raised" /\ exception = "single_step"

Pending == [rip |-> engine.previous_rip, next |-> rip, faulted |-> FALSE]

\* The record follows what the thread executes, one instruction behind while a
\* single-step exception is being dispatched.
ExecutionInv ==
    /\ thread \in {"none", "suspended"} => executed = <<>>
    /\ thread \in {"running", "blocked"} /\ engine.present => rip = engine.previous_rip
    /\ engine.present /\ thread \notin {"none", "suspended"} =>
         Matches(IF Trapped THEN Append(raw_steps, Pending) ELSE raw_steps, executed)
    /\ thread = "raised" /\ exception = "breakpoint" /\ engine.present =>
         engine.previous_rip \in request.int3
    /\ pc = "returned" /\ result.outcome # "Error" => Matches(Completed(steps), executed)

RunInv == TypeInv /\ ResourceInv /\ ThreadInv /\ RecordInv /\ ExecutionInv

-----------------------------------------------------------------------------
(* Each part is preserved.                                                 *)

\* No engine is neither present nor active.
LEMMA NoEngineType ==
    /\ NoEngine \in Engine /\ ~NoEngine.present /\ ~NoEngine.active
    /\ [ NoEngine EXCEPT !.present = TRUE ] \in Engine
    /\ [ NoEngine EXCEPT !.present = TRUE ].present
    /\ ~[ NoEngine EXCEPT !.present = TRUE ].active
    /\ 0 \in Address /\ -1 \in Address
<1>1. 0 \in Address /\ -1 \in Address
  BY PlatformAssumption DEF Address
<1> QED
  BY <1>1 DEF NoEngine, Engine, Outcome, FaultAccess

\* What the handler does to the engine after a single step.
LEMMA VehKeepsEngine ==
    ASSUME VehSingleStep, engine \in Engine
    PROVE  /\ engine'.present = engine.present /\ engine'.active = engine.active
           /\ engine' \in Engine \/ rip \notin Address
<1> DEFINE verdict == after_step(rip, Len(raw_steps) + 1)
<1>1. verdict \in {"target", "left", "cap", "go"}
  BY DEF after_step
<1> HIDE DEF verdict
<1> QED
  BY <1>1 DEF VehSingleStep, Engine, Outcome, verdict

\* No step of the host or of the sandbox thread leaves the types.
LEMMA TypeStep == TypeInv /\ [Next]_vars => TypeInv'
<1> SUFFICES ASSUME TypeInv, [Next]_vars PROVE TypeInv'
  OBVIOUS
<1>inv. TypeInv
  OBVIOUS
<1> USE DEF TypeInv, TypeOK, BreakpointsInCode, PC, ThreadState
<1>1. CASE Prepare
  <2>1. result' \in Result
    BY <1>1 DEF Prepare, Conclude, prepare_platform_run, Result, Outcome, RunError
  <2> QED
    BY <1>1, <2>1 DEF Prepare, threadVars
<1>2. CASE Allocate
  BY <1>2, <1>inv DEF Allocate, Fail, Conclude, threadVars, Result, Outcome, RunError
<1>3. CASE Populate
  BY <1>3, <1>inv, ZenonT(40) DEF Populate, Fail, Conclude, threadVars, Result, Outcome, RunError
<1>4. CASE CreateEngine
  <2>1. EffectiveMaxSteps(request) \in 0 .. MAX_STEPS_LIMIT
    BY PlatformAssumption DEF EffectiveMaxSteps, Request
  <2> QED
    BY <1>4, <2>1, NoEngineType DEF CreateEngine, threadVars
<1>5. CASE CreateThread
  BY <1>5, <1>inv, NoEngineType DEF CreateThread, Fail, Conclude, Result, Outcome, RunError
<1>6. CASE Seed
  BY <1>6, <1>inv, NoEngineType, ZenonT(40) DEF Seed, FailWithThread, Conclude, Result, Outcome,
     RunError
<1>7. CASE Start
  BY <1>7, <1>inv, NoEngineType DEF Start, TerminateThread, Result, Outcome, RunError
<1>8. CASE InstallHandler
  BY <1>8, <1>inv DEF InstallHandler, FailWithThread, Conclude, threadVars, Result, Outcome,
     RunError
<1>9. CASE Resume
  BY <1>9, <1>inv DEF Resume, FailWithThread, Conclude, Result, Outcome, RunError, Engine
<1>10. CASE WaitThread
  BY <1>10, <1>inv DEF WaitThread, Conclude, threadVars, Result, Outcome, RunError
<1>11. CASE Deactivate
  BY <1>11, <1>inv DEF Deactivate, threadVars, Engine
<1>12. CASE FailThread
  BY <1>12, <1>inv, NoEngineType DEF FailThread, TerminateThread
<1>13. CASE Collect
  <2>1. raw_steps \in Seq(PlatformStep) /\ engine \in Engine
    OBVIOUS
  <2>2. [rip |-> engine.fault_address, next |-> engine.fault_address, faulted |-> TRUE]
          \in PlatformStep
    BY <2>1 DEF Engine, PlatformStep
  <2>3. steps' \in Seq(PlatformStep)
    BY <1>13, <2>1, <2>2 DEF Collect
  <2>4. result' \in Result
    BY <1>13, <2>1 DEF Collect, Engine, Result
  <2> QED
    BY <1>13, <2>3, <2>4, NoEngineType DEF Collect, threadVars
<1>14. CASE UserCompletes
  <2>1. rip' \in Address
    BY <1>14, PlatformAssumption DEF UserCompletes, Request, Address
  <2>2. executed' \in Seq(Address)
    BY <1>14 DEF UserCompletes
  <2> QED
    BY <1>14, <2>1, <2>2, ZenonT(40) DEF UserCompletes, HostUnchanged, Raise, Exception, Access
<1>15. CASE UserBreaks
  BY <1>15, <1>inv DEF UserBreaks, HostUnchanged, Raise, Exception, Access
<1>16. CASE UserFaults
  <2>1. rip' \in Address
    BY <1>16, NoEngineType DEF UserFaults, Below
  <2>2. exception' \in Exception /\ access' \in Access /\ thread' \in ThreadState
    BY <1>16 DEF UserFaults, Raise, Exception, Access
  <2> QED
    BY <1>16, <2>1, <2>2 DEF UserFaults, HostUnchanged
<1>17. CASE UserExitsThread
  BY <1>17, <1>inv DEF UserExitsThread, HostUnchanged
<1>18. CASE UserBlocks
  BY <1>18, <1>inv DEF UserBlocks, HostUnchanged
<1>19. CASE ThreadReturns
  BY <1>19, <1>inv DEF ThreadReturns, HostUnchanged
<1>20. CASE VehSingleStep
  <2>1. [rip |-> engine.previous_rip, next |-> rip, faulted |-> FALSE] \in PlatformStep
    BY DEF Engine, PlatformStep
  <2>2. raw_steps' \in Seq(PlatformStep)
    BY <1>20, <2>1 DEF VehSingleStep
  <2>3. engine' \in Engine
    BY <1>20, VehKeepsEngine
  <2>4. thread' \in ThreadState /\ trap_flag' \in BOOLEAN
    BY <1>20 DEF VehSingleStep, RestoreContext, Rearm
  <2> QED
    BY <1>20, <2>2, <2>3, <2>4 DEF VehSingleStep, HostUnchanged
<1>21. CASE VehBreakpoint
  <2>1. engine' \in Engine
    BY <1>21 DEF VehBreakpoint, Engine, Outcome
  <2> QED
    BY <1>21, <2>1 DEF VehBreakpoint, HostUnchanged, RestoreContext
<1>22. CASE VehFault
  <2>1. engine' \in Engine
    BY <1>22 DEF VehFault, Engine, Outcome, Access, FaultAccess
  <2> QED
    BY <1>22, <2>1 DEF VehFault, HostUnchanged, RestoreContext
<1>23. CASE Unhandled
  BY <1>23, <1>inv DEF Unhandled, VehAccepts, threadVars
<1>24. CASE UNCHANGED vars
  BY <1>24, <1>inv DEF vars
<1> QED
  BY <1>1, <1>2, <1>3, <1>4, <1>5, <1>6, <1>7, <1>8, <1>9, <1>10, <1>11, <1>12, <1>13,
     <1>14, <1>15, <1>16, <1>17, <1>18, <1>19, <1>20, <1>21, <1>22, <1>23, <1>24
     DEF Next, Host, Sandbox, Done

\* Every step keeps the resources to what run_platform_steps holds at that point.
LEMMA ResourceStep == RunInv /\ [Next]_vars => ResourceInv'
<1> SUFFICES ASSUME RunInv, [Next]_vars PROVE ResourceInv'
  OBVIOUS
<1>inv. /\ ResourceInv /\ ThreadInv
        /\ engine \in Engine /\ pc \in PC /\ thread \in ThreadState
  BY DEF RunInv, TypeInv, TypeOK
<1> USE DEF ResourceInv, Engine
<1>1. CASE Prepare
  BY <1>1, <1>inv DEF Prepare, Conclude, threadVars
<1>2. CASE Allocate
  BY <1>2, <1>inv DEF Allocate, Fail, Conclude, threadVars
<1>3. CASE Populate
  BY <1>3, <1>inv DEF Populate, Fail, Conclude, threadVars
<1>4. CASE CreateEngine
  BY <1>4, <1>inv, NoEngineType DEF CreateEngine, threadVars
<1>5. CASE CreateThread
  <2>1. \/ pc' = "seed" /\ UNCHANGED <<engine, regions, handler>>
        \/ pc' = "returned" /\ ~regions' /\ engine' = NoEngine /\ UNCHANGED <<handle, handler>>
    BY <1>5 DEF CreateThread, Fail
  <2>2. CASE pc' = "seed"
    BY <1>5, <1>inv, <2>1, <2>2 DEF CreateThread
  <2>3. CASE pc' = "returned"
    BY <1>5, <1>inv, <2>1, <2>3, NoEngineType DEF CreateThread
  <2> QED
    BY <2>1, <2>2, <2>3
<1>6. CASE Seed
  BY <1>6, <1>inv, NoEngineType DEF Seed, FailWithThread, Conclude
<1>7. CASE Start
  <2>1. \/ pc' = "install" /\ UNCHANGED <<engine, regions, handler>>
        \/ /\ pc' = "returned" /\ ~regions' /\ engine' = NoEngine /\ ~handle'
           /\ UNCHANGED handler
    BY <1>7 DEF Start, TerminateThread
  <2> QED
    BY <1>7, <1>inv, <2>1, NoEngineType DEF Start
<1>8. CASE InstallHandler
  BY <1>8, <1>inv DEF InstallHandler, FailWithThread, Conclude, threadVars
<1>9. CASE Resume
  BY <1>9, <1>inv DEF Resume, FailWithThread, Conclude
<1>10. CASE WaitThread
  BY <1>10, <1>inv DEF WaitThread, Conclude, threadVars, ThreadInv
<1>11. CASE Deactivate
  BY <1>11, <1>inv DEF Deactivate, threadVars, ThreadInv
<1>12. CASE FailThread
  BY <1>12, <1>inv, NoEngineType DEF FailThread, TerminateThread
<1>13. CASE Collect
  BY <1>13, <1>inv DEF Collect, NoEngine, threadVars, ThreadInv
<1>14. CASE UserCompletes
  BY <1>14, <1>inv DEF UserCompletes, HostUnchanged, Raise
<1>15. CASE UserBreaks
  BY <1>15, <1>inv DEF UserBreaks, HostUnchanged, Raise
<1>16. CASE UserFaults
  BY <1>16, <1>inv DEF UserFaults, HostUnchanged, Raise
<1>17. CASE UserExitsThread
  BY <1>17, <1>inv DEF UserExitsThread, HostUnchanged
<1>18. CASE UserBlocks
  BY <1>18, <1>inv DEF UserBlocks, HostUnchanged
<1>19. CASE ThreadReturns
  BY <1>19, <1>inv DEF ThreadReturns, HostUnchanged
<1>20. CASE VehSingleStep
  <2>1. UNCHANGED <<pc, regions, handle, handler>>
    BY <1>20 DEF VehSingleStep, HostUnchanged
  <2> QED
    BY <1>20, <1>inv, <2>1, VehKeepsEngine
<1>21. CASE VehBreakpoint
  BY <1>21, <1>inv DEF VehBreakpoint, HostUnchanged, VehAccepts, RestoreContext
<1>22. CASE VehFault
  BY <1>22, <1>inv DEF VehFault, HostUnchanged, VehAccepts, RestoreContext
<1>23. CASE Unhandled
  BY <1>23, <1>inv DEF Unhandled, VehAccepts, threadVars
<1>24. CASE UNCHANGED vars
  BY <1>24, <1>inv DEF vars
<1> QED
  BY <1>1, <1>2, <1>3, <1>4, <1>5, <1>6, <1>7, <1>8, <1>9, <1>10, <1>11, <1>12, <1>13,
     <1>14, <1>15, <1>16, <1>17, <1>18, <1>19, <1>20, <1>21, <1>22, <1>23, <1>24
     DEF Next, Host, Sandbox, Done

\* Every step keeps the sandbox thread where the host expects it.
LEMMA ThreadStep == RunInv /\ [Next]_vars => ThreadInv'
<1> SUFFICES ASSUME RunInv, [Next]_vars PROVE ThreadInv'
  OBVIOUS
<1>inv. /\ ResourceInv /\ ThreadInv /\ RecordInv
        /\ engine \in Engine /\ pc \in PC /\ thread \in ThreadState /\ result \in Result
  BY DEF RunInv, TypeInv, TypeOK
<1> USE DEF ThreadInv, Result
<1>1. CASE Prepare
  BY <1>1, <1>inv DEF Prepare, Conclude, threadVars, prepare_platform_run
<1>2. CASE Allocate
  BY <1>2, <1>inv DEF Allocate, Fail, Conclude, threadVars
<1>3. CASE Populate
  BY <1>3, <1>inv DEF Populate, Fail, Conclude, threadVars
<1>4. CASE CreateEngine
  BY <1>4, <1>inv, NoEngineType DEF CreateEngine, threadVars
<1>5. CASE CreateThread
  BY <1>5, <1>inv, NoEngineType DEF CreateThread, Fail, Conclude
<1>6. CASE Seed
  BY <1>6, <1>inv, NoEngineType DEF Seed, FailWithThread, Conclude
<1>7. CASE Start
  BY <1>7, <1>inv, NoEngineType DEF Start, TerminateThread
<1>8. CASE InstallHandler
  BY <1>8, <1>inv DEF InstallHandler, FailWithThread, Conclude, threadVars
<1>9. CASE Resume
  BY <1>9, <1>inv DEF Resume, FailWithThread, Conclude, RecordInv
<1>10. CASE WaitThread
  BY <1>10, <1>inv DEF WaitThread, Conclude, threadVars
<1>11. CASE Deactivate
  BY <1>11, <1>inv DEF Deactivate, threadVars
<1>12. CASE FailThread
  BY <1>12, <1>inv, NoEngineType DEF FailThread, TerminateThread
<1>13. CASE Collect
  BY <1>13, <1>inv DEF Collect, NoEngine, threadVars
<1>14. CASE UserCompletes
  BY <1>14, <1>inv DEF UserCompletes, HostUnchanged, Raise, ResourceInv, Engine
<1>15. CASE UserBreaks
  BY <1>15, <1>inv DEF UserBreaks, HostUnchanged, Raise, ResourceInv, Engine
<1>16. CASE UserFaults
  BY <1>16, <1>inv DEF UserFaults, HostUnchanged, Raise, ResourceInv, Engine
<1>17. CASE UserExitsThread
  BY <1>17, <1>inv DEF UserExitsThread, HostUnchanged, ResourceInv, Engine
<1>18. CASE UserBlocks
  BY <1>18, <1>inv DEF UserBlocks, HostUnchanged, ResourceInv, Engine
<1>19. CASE ThreadReturns
  BY <1>19, <1>inv DEF ThreadReturns, HostUnchanged, ResourceInv, Engine
<1>20. CASE VehSingleStep
  <2>1. UNCHANGED <<pc, result, regions, handle>>
        /\ thread = "raised" /\ pc \in {"resume", "wait", "deactivate", "crashed"}
    BY <1>20, <1>inv DEF VehSingleStep, HostUnchanged, VehAccepts, ResourceInv
  <2>2. (thread' = "running" /\ trap_flag') \/ thread' = "restored"
    BY <1>20 DEF VehSingleStep, Rearm, RestoreContext
  <2>3. engine'.present = engine.present
    BY <1>20, <1>inv, VehKeepsEngine
  <2> QED
    BY <1>inv, <2>1, <2>2, <2>3
<1>21. CASE VehBreakpoint
  BY <1>21, <1>inv DEF VehBreakpoint, HostUnchanged, VehAccepts, RestoreContext,
     ResourceInv, Engine
<1>22. CASE VehFault
  BY <1>22, <1>inv DEF VehFault, HostUnchanged, VehAccepts, RestoreContext, ResourceInv,
     Engine
<1>23. CASE Unhandled
  <2>1. pc' = "crashed" /\ UNCHANGED <<result, engine, regions, handle, thread, trap_flag>>
    BY <1>23 DEF Unhandled, threadVars
  <2>2. thread = "raised" /\ pc # "wait"
    BY <1>23, <1>inv DEF Unhandled, VehAccepts, ResourceInv
  <2>3. pc \in {"deactivate", "collect", "fail_thread", "returned", "crashed"}
    BY <1>inv, <2>2 DEF PC
  <2>4. result.error = "wait"
    BY <1>inv, <2>2, <2>3
  <2>5. handle => engine.present /\ regions
    BY <1>inv, <2>3 DEF ResourceInv
  <2> QED
    BY <1>inv, <2>1, <2>2, <2>4, <2>5
<1>24. CASE UNCHANGED vars
  BY <1>24, <1>inv DEF vars
<1> QED
  BY <1>1, <1>2, <1>3, <1>4, <1>5, <1>6, <1>7, <1>8, <1>9, <1>10, <1>11, <1>12, <1>13,
     <1>14, <1>15, <1>16, <1>17, <1>18, <1>19, <1>20, <1>21, <1>22, <1>23, <1>24
     DEF Next, Host, Sandbox, Done

\* Every step keeps the engine's record open while the input is executed.
LEMMA RecordKept == RunInv /\ [Next]_vars => RecordInv'
<1> SUFFICES ASSUME RunInv, [Next]_vars PROVE RecordInv'
  OBVIOUS
<1>inv. RecordInv /\ result \in Result
  BY DEF RunInv, TypeInv, TypeOK
<1>types. /\ ResourceInv /\ ThreadInv /\ request \in Request /\ raw_steps \in Seq(PlatformStep)
          /\ engine \in Engine /\ thread \in ThreadState /\ rip \in Address /\ pc \in PC
  BY DEF RunInv, TypeInv, TypeOK
<1> USE DEF RecordInv, Stepping, Admitted, HandlerNeverReallocates, Result
<1>1. CASE Prepare
  <2>1. pc' = "allocate" => Admitted
    BY <1>1, <1>types DEF Prepare, prepare_platform_run, Request
  <2> QED
    BY <1>1, <1>inv, <2>1 DEF Prepare, threadVars
<1>2. CASE Allocate
  BY <1>2, <1>inv DEF Allocate, Fail, Conclude, threadVars
<1>3. CASE Populate
  BY <1>3, <1>inv DEF Populate, Fail, Conclude, threadVars
<1>4. CASE CreateEngine
  <2>1. EffectiveMaxSteps(request) \in Nat
    BY <1>types, CapPositive
  <2>2. thread = "none"
    BY <1>4, <1>types DEF CreateEngine, ThreadInv
  <2> QED
    BY <1>4, <1>inv, <2>1, <2>2, NoEngineType DEF CreateEngine, threadVars
<1>5. CASE CreateThread
  <2>1. CASE pc' = "seed"
    BY <1>5, <1>inv, <1>types, <2>1 DEF CreateThread, Fail, ThreadInv
  <2>2. CASE engine' = NoEngine
    BY <1>5, <1>inv, <1>types, <2>2, NoEngineType DEF CreateThread, Fail
  <2> QED
    BY <1>5, <2>1, <2>2 DEF CreateThread
<1>6. CASE Seed
  BY <1>6, <1>inv, NoEngineType DEF Seed, FailWithThread, Conclude
<1>7. CASE Start
  BY <1>7, <1>inv, NoEngineType DEF Start, TerminateThread
<1>8. CASE InstallHandler
  BY <1>8, <1>inv DEF InstallHandler, FailWithThread, Conclude, threadVars
<1>9. CASE Resume
  <2>1. CASE pc' = "wait"
    <3>1. /\ raw_steps = <<>> /\ engine.present /\ engine = [ NoEngine EXCEPT !.present = TRUE ]
          /\ Admitted /\ request.stop_offset # 0
      BY <1>9, <1>inv, <1>types DEF Resume, ThreadInv, ResourceInv
    <3>2. Open(request, raw_steps) /\ Position(raw_steps) = 0
      BY <1>types, <3>1, EmptyRecord
    <3>3. /\ engine'.present /\ engine'.previous_rip = 0 /\ engine'.outcome = "Finished"
          /\ engine'.fault_address = 0
      BY <1>9, <2>1, <3>1 DEF Resume, NoEngine, FailWithThread
    <3>4. /\ UNCHANGED <<request, result, steps, raw_steps, reserved>> /\ thread' = "running"
          /\ pc = "resume"
      BY <1>9, <2>1 DEF Resume, FailWithThread
    <3> QED
      BY <1>inv, <2>1, <3>1, <3>2, <3>3, <3>4
  <2>2. CASE pc' = "fail_thread"
    BY <1>9, <1>inv, <2>2 DEF Resume, FailWithThread, Conclude
  <2> QED
    BY <1>9, <2>1, <2>2 DEF Resume, FailWithThread
<1>10. CASE WaitThread
  BY <1>10, <1>inv DEF WaitThread, Conclude, threadVars
<1>11. CASE Deactivate
  <2>1. thread \notin {"none", "suspended"}
    BY <1>11, <1>inv, <1>types, NoEngineType DEF Deactivate, ResourceInv
  <2> QED
    BY <1>11, <1>inv, <1>types, <2>1 DEF Deactivate, threadVars, Engine
<1>12. CASE FailThread
  BY <1>12, <1>inv, NoEngineType DEF FailThread, TerminateThread
<1>13. CASE Collect
  BY <1>13, <1>inv, NoEngineType DEF Collect, threadVars
<1>14. CASE UserCompletes
  <2>1. pc \notin {"start", "install", "resume"}
    BY <1>14, <1>types DEF UserCompletes, ThreadInv
  <2> QED
    BY <1>14, <1>inv, <2>1 DEF UserCompletes, HostUnchanged, Raise
<1>15. CASE UserBreaks
  BY <1>15, <1>inv DEF UserBreaks, HostUnchanged, Raise
<1>16. CASE UserFaults
  <2>1. pc \notin {"start", "install", "resume"}
    BY <1>16, <1>types DEF UserFaults, ThreadInv
  <2> QED
    BY <1>16, <1>inv, <2>1 DEF UserFaults, HostUnchanged, Raise
<1>17. CASE UserExitsThread
  BY <1>17, <1>inv DEF UserExitsThread, HostUnchanged
<1>18. CASE UserBlocks
  BY <1>18, <1>inv DEF UserBlocks, HostUnchanged
<1>19. CASE ThreadReturns
  BY <1>19, <1>inv DEF ThreadReturns, HostUnchanged
<1>20. CASE VehSingleStep
  <2>1. /\ UNCHANGED <<request, pc, result, steps, reserved, rip>> /\ Stepping
        /\ raw_steps' = Append(raw_steps, Pending)
        /\ engine'.present
    BY <1>20, <1>types, VehKeepsEngine DEF VehSingleStep, HostUnchanged, VehAccepts, Pending
  <2>2. Pending \in PlatformStep /\ ~Pending.faulted /\ Pending.next = rip
    BY <1>types DEF Pending, PlatformStep, Engine
  <2>3. /\ Len(raw_steps') = Len(raw_steps) + 1 /\ Len(raw_steps) \in Nat
        /\ \A i \in 1 .. Len(raw_steps) : raw_steps'[i] = raw_steps[i]
        /\ raw_steps'[Len(raw_steps) + 1] = Pending
        /\ Position(raw_steps') = rip
    BY <1>types, <2>1, <2>2, AppendedStep
  <2>4. \A i \in 1 .. Len(raw_steps') : ~raw_steps'[i].faulted
    BY <1>inv, <2>1, <2>2, <2>3
  <2>5. Len(raw_steps') <= reserved'
    BY <1>inv, <1>types, <2>1, <2>3, CapPositive DEF Open
  <2>6. pc \in {"resume", "wait", "deactivate", "crashed"}
    BY <1>20, <1>types DEF VehSingleStep, VehAccepts, ResourceInv
  <2>7. CASE after_step(rip, Len(raw_steps) + 1) = "go"
    <3>1. /\ InCode(request, rip) /\ (HasTarget(request) => rip # request.stop_offset)
          /\ Len(raw_steps) + 1 < EffectiveMaxSteps(request)
      BY <1>types, <2>3, <2>7, CapPositive DEF after_step
    <3>2. Open(request, raw_steps')
      BY <2>3, <2>4, <3>1 DEF Open
    <3>3. /\ thread' = "running" /\ engine'.previous_rip = rip
          /\ engine'.outcome = engine.outcome /\ engine'.fault_address = engine.fault_address
      BY <1>20, <1>types, <2>7 DEF VehSingleStep, Engine
    <3> QED
      BY <1>inv, <1>types, <2>1, <2>3, <2>4, <2>5, <2>6, <3>2, <3>3 DEF ThreadInv
  <2>8. CASE after_step(rip, Len(raw_steps) + 1) # "go"
    <3>1. thread' = "restored"
      BY <1>20, <2>8 DEF VehSingleStep, RestoreContext
    <3> QED
      BY <1>inv, <1>types, <2>1, <2>4, <2>5, <2>6, <3>1 DEF ThreadInv
  <2> QED
    BY <2>7, <2>8
<1>21. CASE VehBreakpoint
  <2>1. pc \in {"resume", "wait", "deactivate", "crashed"}
    BY <1>21, <1>types DEF VehBreakpoint, VehAccepts, ResourceInv
  <2> QED
    BY <1>21, <1>inv, <1>types, <2>1
       DEF VehBreakpoint, HostUnchanged, RestoreContext, Engine, ThreadInv
<1>22. CASE VehFault
  <2>1. pc \in {"resume", "wait", "deactivate", "crashed"}
    BY <1>22, <1>types DEF VehFault, VehAccepts, ResourceInv
  <2> QED
    BY <1>22, <1>inv, <1>types, <2>1
       DEF VehFault, HostUnchanged, RestoreContext, Engine, ThreadInv
<1>23. CASE Unhandled
  BY <1>23, <1>inv DEF Unhandled, VehAccepts, threadVars
<1>24. CASE UNCHANGED vars
  BY <1>24, <1>inv DEF vars
<1> QED
  BY <1>1, <1>2, <1>3, <1>4, <1>5, <1>6, <1>7, <1>8, <1>9, <1>10, <1>11, <1>12, <1>13,
     <1>14, <1>15, <1>16, <1>17, <1>18, <1>19, <1>20, <1>21, <1>22, <1>23, <1>24
     DEF Next, Host, Sandbox, Done

\* Nothing executed, nothing recorded.
LEMMA MatchesEmpty == Matches(Completed(<<>>), <<>>) /\ Matches(<<>>, <<>>)
<1>1. <<>> \in Seq(PlatformStep) /\ \A i \in 1 .. Len(<<>>) : ~<<>>[i].faulted
  OBVIOUS
<1>2. Completed(<<>>) = <<>>
  BY <1>1, CompletedAll
<1> QED
  BY <1>2 DEF Matches

\* One more step for one more instruction.
LEMMA MatchesNext ==
    ASSUME NEW done \in Seq(PlatformStep), NEW instructions \in Seq(Address),
           NEW step \in PlatformStep, Matches(done, instructions)
    PROVE  Matches(Append(done, step), Append(instructions, step.rip))
  BY DEF Matches, PlatformStep

\* Every step keeps the record and the thread's execution together.
LEMMA ExecutionStep == RunInv /\ [Next]_vars => ExecutionInv'
<1> SUFFICES ASSUME RunInv, [Next]_vars PROVE ExecutionInv'
  OBVIOUS
<1>inv. ExecutionInv /\ ThreadInv /\ ResourceInv
  BY DEF RunInv
<1>types. /\ RecordInv /\ request \in Request /\ raw_steps \in Seq(PlatformStep)
          /\ engine \in Engine /\ thread \in ThreadState /\ rip \in Address /\ rip' \in Address
          /\ pc \in PC /\ executed \in Seq(Address) /\ result \in Result
  BY TypeStep DEF RunInv, TypeInv, TypeOK
<1> USE DEF ExecutionInv, Trapped, ThreadInv, Result
<1>1. CASE Prepare
  <2>1. steps = <<>> /\ executed = <<>> /\ Matches(Completed(steps), executed)
    BY <1>1, <1>inv, <1>types, MatchesEmpty DEF Prepare, RecordInv
  <2> QED
    BY <1>1, <1>inv, <2>1 DEF Prepare, threadVars, ResourceInv
<1>2. CASE Allocate
  BY <1>2, <1>inv, <1>types DEF Allocate, Fail, Conclude, threadVars, ResourceInv
<1>3. CASE Populate
  BY <1>3, <1>inv, <1>types DEF Populate, Fail, Conclude, threadVars, ResourceInv
<1>4. CASE CreateEngine
  BY <1>4, <1>inv, NoEngineType DEF CreateEngine, threadVars, ResourceInv
<1>5. CASE CreateThread
  <2>1. CASE pc' = "seed"
    BY <1>5, <1>inv, <1>types, <2>1 DEF CreateThread, Fail
  <2>2. CASE pc' = "returned"
    <3>1. /\ engine' = NoEngine /\ thread' = "none" /\ executed' = <<>>
          /\ result'.outcome = "Error"
      BY <1>5, <1>inv, <1>types, <2>2 DEF CreateThread, Fail, Conclude
    <3> QED
      BY <3>1, NoEngineType
  <2> QED
    BY <1>5, <2>1, <2>2 DEF CreateThread, Fail
<1>6. CASE Seed
  BY <1>6, <1>inv, NoEngineType DEF Seed, FailWithThread, Conclude
<1>7. CASE Start
  <2>1. steps = <<>> /\ executed = <<>> /\ Matches(Completed(steps), executed)
    BY <1>7, <1>inv, <1>types, MatchesEmpty DEF Start, RecordInv
  <2> QED
    BY <1>7, <1>inv, <2>1, NoEngineType DEF Start, TerminateThread
<1>8. CASE InstallHandler
  BY <1>8, <1>inv DEF InstallHandler, FailWithThread, Conclude, threadVars
<1>9. CASE Resume
  <2>1. CASE pc' = "wait"
    <3>1. /\ raw_steps = <<>> /\ engine = [ NoEngine EXCEPT !.present = TRUE ] /\ executed = <<>>
          /\ rip = 0
      BY <1>9, <1>inv, <1>types DEF Resume, RecordInv, ResourceInv
    <3>2. engine'.previous_rip = 0
      BY <1>9, <2>1, <3>1 DEF Resume, NoEngine, FailWithThread
    <3>3. thread' = "running" /\ UNCHANGED <<raw_steps, executed, rip>>
      BY <1>9, <2>1 DEF Resume, FailWithThread
    <3> QED
      BY <2>1, <3>1, <3>2, <3>3, MatchesEmpty
  <2>2. CASE pc' = "fail_thread"
    BY <1>9, <1>inv, <2>2 DEF Resume
  <2> QED
    BY <1>9, <2>1, <2>2 DEF Resume, FailWithThread
<1>10. CASE WaitThread
  BY <1>10, <1>inv DEF WaitThread, Conclude, threadVars, Pending, ResourceInv
<1>11. CASE Deactivate
  <2>1. UNCHANGED Pending /\ engine'.present = engine.present
    BY <1>11, <1>types DEF Deactivate, Pending, Engine, threadVars
  <2>2. engine'.previous_rip = engine.previous_rip
    BY <1>11, <1>types DEF Deactivate, Engine
  <2> QED
    BY <1>11, <1>inv, <2>1, <2>2 DEF Deactivate, threadVars
<1>12. CASE FailThread
  BY <1>12, <1>inv, NoEngineType DEF FailThread, TerminateThread
<1>13. CASE Collect
  <2> DEFINE step == [rip |-> engine.fault_address, next |-> engine.fault_address,
                      faulted |-> TRUE]
  <2>1. engine.present /\ thread = "exited" /\ Matches(raw_steps, executed)
    BY <1>13, <1>inv DEF Collect, ResourceInv
  <2>2. \A i \in 1 .. Len(raw_steps) : ~raw_steps[i].faulted
    BY <1>types, <2>1 DEF RecordInv
  <2>3. step \in PlatformStep /\ step.faulted
    BY <1>types DEF PlatformStep, Engine
  <2>4. steps' = IF engine.outcome = "Faulted" THEN Append(raw_steps, step) ELSE raw_steps
    BY <1>13 DEF Collect
  <2> HIDE DEF step
  <2>5. Completed(steps') = raw_steps
    BY <1>types, <2>2, <2>3, <2>4, CompletedAll, CompletedBeforeFault
  <2>6. engine' = NoEngine /\ UNCHANGED <<executed, thread, rip>>
    BY <1>13 DEF Collect, threadVars
  <2> QED
    BY <2>1, <2>5, <2>6, NoEngineType
<1>14. CASE UserCompletes
  <2>1. /\ thread = "running" /\ trap_flag /\ thread' = "raised" /\ exception' = "single_step"
        /\ executed' = Append(executed, rip)
        /\ UNCHANGED <<pc, result, steps, engine, raw_steps>>
    BY <1>14, <1>inv DEF UserCompletes, HostUnchanged, Raise
  <2>2. CASE engine.present
    <3>1. /\ Pending' \in PlatformStep /\ Pending'.rip = engine.previous_rip
          /\ rip = engine.previous_rip
      BY <1>inv, <1>types, <2>1, <2>2 DEF Pending, PlatformStep, Engine
    <3>2. Matches(Append(raw_steps, Pending'), executed')
      BY <1>inv, <1>types, <2>1, <2>2, <3>1, MatchesNext
    <3>3. pc # "returned"
      BY <1>inv, <2>2 DEF ResourceInv
    <3> QED
      BY <2>1, <3>2, <3>3
  <2>3. CASE ~engine.present
    BY <1>inv, <2>1, <2>3
  <2> QED
    BY <2>2, <2>3
<1>15. CASE UserBreaks
  BY <1>15, <1>inv DEF UserBreaks, HostUnchanged, Raise
<1>16. CASE UserFaults
  BY <1>16, <1>inv DEF UserFaults, HostUnchanged, Raise
<1>17. CASE UserExitsThread
  BY <1>17, <1>inv DEF UserExitsThread, HostUnchanged
<1>18. CASE UserBlocks
  BY <1>18, <1>inv DEF UserBlocks, HostUnchanged
<1>19. CASE ThreadReturns
  BY <1>19, <1>inv DEF ThreadReturns, HostUnchanged
<1>20. CASE VehSingleStep
  <2>1. /\ Trapped /\ engine.present /\ engine'.present
        /\ raw_steps' = Append(raw_steps, Pending)
        /\ UNCHANGED <<pc, result, rip, executed>>
    BY <1>20, <1>types, VehKeepsEngine DEF VehSingleStep, HostUnchanged, VehAccepts, Pending
  <2>2. Matches(raw_steps', executed') /\ pc # "returned"
    BY <1>inv, <2>1 DEF ResourceInv
  <2>3. CASE after_step(rip, Len(raw_steps) + 1) = "go"
    <3>1. thread' = "running" /\ engine'.previous_rip = rip
      BY <1>20, <1>types, <2>3 DEF VehSingleStep, Engine
    <3> QED
      BY <2>1, <2>2, <3>1
  <2>4. CASE after_step(rip, Len(raw_steps) + 1) # "go"
    <3>1. thread' = "restored"
      BY <1>20, <2>4 DEF VehSingleStep, RestoreContext
    <3> QED
      BY <2>1, <2>2, <3>1
  <2> QED
    BY <2>3, <2>4
<1>21. CASE VehBreakpoint
  <2>1. pc # "returned"
    BY <1>21, <1>inv DEF VehBreakpoint, VehAccepts, ResourceInv
  <2> QED
    BY <1>21, <1>inv, <1>types, <2>1 DEF VehBreakpoint, HostUnchanged, VehAccepts, RestoreContext
<1>22. CASE VehFault
  <2>1. pc # "returned"
    BY <1>22, <1>inv DEF VehFault, VehAccepts, ResourceInv
  <2> QED
    BY <1>22, <1>inv, <1>types, <2>1 DEF VehFault, HostUnchanged, VehAccepts, RestoreContext
<1>23. CASE Unhandled
  BY <1>23, <1>inv DEF Unhandled, VehAccepts, threadVars, Pending, ResourceInv
<1>24. CASE UNCHANGED vars
  BY <1>24, <1>inv DEF vars, Pending, ResourceInv
<1> QED
  BY <1>1, <1>2, <1>3, <1>4, <1>5, <1>6, <1>7, <1>8, <1>9, <1>10, <1>11, <1>12, <1>13,
     <1>14, <1>15, <1>16, <1>17, <1>18, <1>19, <1>20, <1>21, <1>22, <1>23, <1>24
     DEF Next, Host, Sandbox, Done

-----------------------------------------------------------------------------
(* Results.                                                                *)

\* The initial state is well typed.
LEMMA TypeInit == Init => TypeInv
<1> SUFFICES ASSUME Init PROVE TypeInv
  OBVIOUS
<1>1. result \in Result
  BY NoEngineType DEF Init, Result, Outcome, RunError, FaultAccess
<1>2. reserved \in 0 .. MAX_STEPS_LIMIT
  BY PlatformAssumption DEF Init
<1>3. steps \in Seq(PlatformStep) /\ raw_steps \in Seq(PlatformStep) /\ executed \in Seq(Address)
  BY DEF Init
<1>4. BreakpointsInCode
  BY DEF Init, BreakpointsInCode
<1> QED
  BY <1>1, <1>2, <1>3, <1>4, NoEngineType
     DEF Init, TypeInv, TypeOK, PC, ThreadState, Exception, Access

\* The invariant holds when run_platform_steps is entered.
LEMMA RunInit == Init => RunInv
<1> SUFFICES ASSUME Init PROVE RunInv
  OBVIOUS
<1>1. TypeInv
  BY TypeInit
<1>2. ResourceInv /\ ThreadInv
  BY NoEngineType DEF Init, ResourceInv, ThreadInv
<1>3. RecordInv
  BY NoEngineType DEF Init, RecordInv, Stepping, HandlerNeverReallocates
<1>4. ExecutionInv
  BY NoEngineType DEF Init, ExecutionInv
<1> QED
  BY <1>1, <1>2, <1>3, <1>4 DEF RunInv

\* Every step of the host and of the sandbox thread preserves it.
LEMMA RunStep == RunInv /\ [Next]_vars => RunInv'
  BY TypeStep, ResourceStep, ThreadStep, RecordKept, ExecutionStep DEF RunInv

\* Every reachable state of a Windows run is well typed.
THEOREM TypeCorrect == Spec => []TypeOK
<1>1. TypeInv => TypeOK
  BY DEF TypeInv
<1> QED
  BY <1>1, TypeInit, TypeStep, PTL DEF Spec

\* Unless the run failed, the completed steps are exactly the instructions the
\* sandbox thread executed: bme_veh rearms the trap flag before each of them.
THEOREM WindowsTraceIsExecution == Spec => []TraceIsExecution
<1>1. RunInv => TraceIsExecution
  BY DEF RunInv, ExecutionInv, TraceIsExecution, Matches
<1> QED
  BY <1>1, RunInit, RunStep, PTL DEF Spec

\* The capacity reserved before the thread starts is enough for the whole run,
\* whatever cap was asked for: the handler never allocates.
THEOREM RecordNeverGrows == Spec => []HandlerNeverReallocates
<1>1. RunInv => HandlerNeverReallocates
  BY DEF RunInv, RecordInv
<1> QED
  BY <1>1, RunInit, RunStep, PTL DEF Spec

\* On every path out of run_platform_steps the regions and the engine outlive the
\* thread that uses them, and then everything is released.
THEOREM WindowsEndsCleanly == Spec => []EndsCleanly
<1>1. RunInv => EndsCleanly
  <2> SUFFICES ASSUME RunInv PROVE SandboxOutlived /\ NothingLeaks
    BY DEF EndsCleanly
  <2>1. ResourceInv /\ ThreadInv /\ pc \in PC
    BY DEF RunInv, TypeInv, TypeOK
  <2>2. SandboxOutlived
    BY <2>1 DEF SandboxOutlived, ResourceInv, ThreadInv, PC
  <2>3. NothingLeaks
    BY <2>1 DEF NothingLeaks, ResourceInv
  <2> QED
    BY <2>2, <2>3
<1> QED
  BY <1>1, RunInit, RunStep, PTL DEF Spec

\* No exception of the sandbox thread finds the handler missing or the engine
\* inactive, unless the wait for that thread failed.
THEOREM ExceptionsAlwaysHandled == Spec => []AlwaysHandled
<1>1. RunInv => AlwaysHandled
  BY DEF RunInv, ThreadInv, AlwaysHandled
<1> QED
  BY <1>1, RunInit, RunStep, PTL DEF Spec

-----------------------------------------------------------------------------
(* Refinement.                                                             *)

\* The contract's vocabulary is the tracer's.
LEMMA SameVocabulary ==
    /\ Abstract!Address = Address
    /\ Abstract!Request = Request
    /\ \A s : Abstract!Position(s) = Position(s)
    /\ \A q : Abstract!HasTarget(q) <=> HasTarget(q)
    /\ \A q, a : Abstract!InCode(q, a) <=> InCode(q, a)
    /\ \A q : Abstract!EffectiveMaxSteps(q) = EffectiveMaxSteps(q)
  BY DEF Address, Request, Position, Last, HasTarget, NoOffset, InCode, EffectiveMaxSteps,
         Abstract!Address, Abstract!Request, Abstract!Position, Abstract!Last,
         Abstract!HasTarget, Abstract!NoOffset, Abstract!InCode, Abstract!EffectiveMaxSteps

\* As long as waiting never fails, the process lives and the host waits for as
\* long as the thread is under way.
LEMMA WaitsForThread ==
    ASSUME RunInv, HostFailures = FALSE
    PROVE  /\ result.error # "wait" /\ pc # "crashed"
           /\ thread \in {"running", "blocked", "raised", "restored"} =>
                pc = "wait" /\ engine.present /\ VehAccepts(TRUE)
           /\ pc = "fail_thread" => thread = "suspended"
           /\ ~engine.present => (Concluded <=> pc = "returned")
<1>1. ResourceInv /\ ThreadInv /\ pc \in PC
  BY DEF RunInv, TypeInv, TypeOK
<1>2. result.error # "wait" /\ pc # "crashed"
  BY <1>1 DEF ThreadInv
<1>3. thread \in {"running", "blocked", "raised", "restored"} => pc = "wait"
  BY <1>1, <1>2 DEF ThreadInv, PC
<1>4. pc = "wait" => engine.present /\ VehAccepts(TRUE)
  BY <1>1 DEF ResourceInv, VehAccepts
<1> QED
  BY <1>1, <1>2, <1>3, <1>4 DEF ThreadInv, Concluded

\* The engine of a thread that has not run yet has nothing to show.
LEMMA FreshEngine ==
    ASSUME RunInv, thread \in {"none", "suspended"}, engine.present
    PROVE  RecordedSteps = <<>> /\ engine.fault_address = 0 /\ engine.outcome = "Finished"
<1>1. raw_steps = <<>> /\ engine = [ NoEngine EXCEPT !.present = TRUE ]
  BY DEF RunInv, RecordInv
<1>2. engine.fault_address = 0 /\ engine.outcome = "Finished"
  BY <1>1 DEF NoEngine
<1> QED
  BY <1>1, <1>2 DEF RecordedSteps

\* A failing host, seen through the mapping.
LEMMA FailRefines ==
    ASSUME RunInv, ~Concluded, result' \in Result, UNCHANGED <<request, steps>>,
           RecordedSteps = steps, pc' = "returned", ~engine'.present,
           result'.outcome = "Error"
    PROVE  Abstract!Next
<1>1. Concluded' /\ RecordedSteps' = steps
  BY DEF Concluded, RecordedSteps
<1>2. Abstract!Fail
  BY <1>1, SameVocabulary DEF Abstract!Fail, Abstract!Running, Result
<1> QED
  BY <1>2 DEF Abstract!Next

\* Every step of such a run is a step of PlatformRun or a stutter.
LEMMA StepRefines ==
    ASSUME RunInv, RunInv', [Next]_vars, ThreadExit = FALSE, HostFailures = FALSE
    PROVE  [Abstract!Next]_(Abstract!vars)
<1> USE DEF Abstract!Running, Abstract!Accepted, Abstract!Executing
<1>types. /\ result \in Result /\ result' \in Result /\ request \in Request
          /\ rip \in Address /\ raw_steps \in Seq(PlatformStep) /\ engine \in Engine
          /\ pc \in PC /\ thread \in ThreadState
  BY DEF RunInv, TypeInv, TypeOK
<1>inv. /\ ResourceInv /\ ThreadInv /\ RecordInv /\ ExecutionInv
        /\ ResourceInv' /\ RecordInv'
  BY DEF RunInv
<1>wait. /\ result.error # "wait" /\ pc # "crashed"
         /\ thread \in {"running", "blocked", "raised", "restored"} =>
              pc = "wait" /\ engine.present /\ VehAccepts(TRUE)
         /\ pc = "fail_thread" => thread = "suspended"
         /\ ~engine.present => (Concluded <=> pc = "returned")
  BY WaitsForThread
<1>1. CASE Prepare
  <2>1. /\ pc = "prepare" /\ ~engine.present /\ UNCHANGED <<request, steps, engine>>
        /\ ~Concluded /\ RecordedSteps = steps /\ RecordedSteps' = steps
    BY <1>1, <1>inv, <1>wait DEF Prepare, ResourceInv, RecordedSteps
  <2>2. PICK instrumented \in BOOLEAN :
          LET verdict == prepare_platform_run(request, instrumented)
          IN  IF verdict = "ok"
              THEN pc' = "allocate" /\ UNCHANGED result
              ELSE /\ pc' = "returned"
                   /\ result'.outcome = IF verdict = "no_code" THEN "Idle" ELSE "Error"
                   /\ result'.stop_address = result.stop_address
    BY <1>1, <1>types DEF Prepare, Conclude, Result
  <2>3. CASE pc' = "allocate" /\ UNCHANGED result
    <3>1. ~Concluded'
      BY <1>1, <1>inv, <2>1, <2>3 DEF Prepare, threadVars, ThreadInv, Concluded
    <3> QED
      BY <2>1, <2>3, <3>1 DEF Abstract!vars
  <2>4. CASE pc' = "returned" /\ result'.outcome = "Error"
    BY <1>types, <2>1, <2>4, FailRefines
  <2>5. CASE /\ pc' = "returned" /\ result'.outcome = "Idle" /\ request.size = 0
             /\ result'.stop_address = result.stop_address
    <3>1. Concluded'
      BY <2>5 DEF Concluded
    <3>2. Abstract!Refuse
      BY <2>1, <2>5, <3>1 DEF Abstract!Refuse
    <3> QED
      BY <3>2 DEF Abstract!Next
  <2> QED
    BY <2>2, <2>3, <2>4, <2>5 DEF prepare_platform_run
<1>2. CASE Allocate
  <2>1. /\ pc = "allocate" /\ ~engine.present /\ thread = "none"
        /\ UNCHANGED <<request, steps, engine, thread>>
        /\ ~Concluded /\ RecordedSteps = steps /\ RecordedSteps' = steps
    BY <1>2, <1>inv, <1>wait DEF Allocate, ResourceInv, ThreadInv, RecordedSteps, threadVars
  <2>2. CASE pc' = "populate"
    <3>1. UNCHANGED result /\ ~Concluded'
      BY <1>2, <2>1, <2>2 DEF Allocate, Fail, Concluded
    <3> QED
      BY <2>1, <3>1 DEF Abstract!vars
  <2>3. CASE pc' = "returned"
    <3>1. result'.outcome = "Error"
      BY <1>2, <1>types, <2>3 DEF Allocate, Fail, Conclude, Result
    <3> QED
      BY <1>types, <2>1, <2>3, <3>1, FailRefines
  <2> QED
    BY <1>2, <2>2, <2>3 DEF Allocate, Fail
<1>3. CASE Populate
  <2>1. /\ pc = "populate" /\ ~engine.present /\ thread = "none"
        /\ UNCHANGED <<request, steps, engine, thread>>
        /\ ~Concluded /\ RecordedSteps = steps /\ RecordedSteps' = steps
    BY <1>3, <1>inv, <1>wait DEF Populate, ResourceInv, ThreadInv, RecordedSteps, threadVars
  <2>2. CASE pc' = "create_engine"
    <3>1. UNCHANGED result /\ ~Concluded'
      BY <1>3, <2>1, <2>2 DEF Populate, Fail, Concluded
    <3> QED
      BY <2>1, <3>1 DEF Abstract!vars
  <2>3. CASE pc' = "returned"
    <3>1. result'.outcome = "Error"
      BY <1>3, <1>types, <2>3 DEF Populate, Fail, Conclude, Result
    <3> QED
      BY <1>types, <2>1, <2>3, <3>1, FailRefines
  <2> QED
    BY <1>3, <2>2, <2>3 DEF Populate, Fail
<1>4. CASE CreateEngine
  <2>1. /\ pc = "create_engine" /\ ~engine.present /\ thread = "none" /\ steps = <<>>
        /\ result.stop_address = 0
    BY <1>4, <1>inv DEF CreateEngine, ResourceInv, ThreadInv, RecordInv
  <2>2. /\ engine'.present /\ engine'.fault_address = 0 /\ engine'.outcome = "Finished"
        /\ raw_steps' = <<>> /\ pc' = "create_thread"
        /\ UNCHANGED <<request, result, thread>>
    BY <1>4 DEF CreateEngine, NoEngine, threadVars
  <2>3. RecordedSteps = <<>> /\ RecordedSteps' = <<>> /\ ~Concluded /\ ~Concluded'
    BY <2>1, <2>2 DEF RecordedSteps, Concluded
  <2> QED
    BY <2>1, <2>2, <2>3 DEF Abstract!vars
<1>5. CASE CreateThread
  <2>1. /\ pc = "create_thread" /\ engine.present /\ thread = "none" /\ steps = <<>>
        /\ UNCHANGED <<request, steps, raw_steps>> /\ ~Concluded
    BY <1>5, <1>inv DEF CreateThread, ResourceInv, ThreadInv, RecordInv, Concluded
  <2>2. RecordedSteps = <<>>
    BY <2>1, FreshEngine
  <2>3. CASE pc' = "seed"
    <3>1. UNCHANGED <<result, engine>> /\ ~Concluded'
      BY <1>5, <2>3 DEF CreateThread, Fail, Concluded
    <3> QED
      BY <2>1, <3>1 DEF RecordedSteps, Abstract!vars
  <2>4. CASE pc' = "returned"
    <3>1. ~engine'.present /\ result'.outcome = "Error"
      BY <1>5, <1>types, <2>4, NoEngineType DEF CreateThread, Fail, Conclude, Result
    <3> QED
      BY <1>types, <2>1, <2>2, <2>4, <3>1, FailRefines
  <2> QED
    BY <1>5, <2>3, <2>4 DEF CreateThread, Fail
<1>6. CASE Seed
  <2>1. /\ UNCHANGED <<request, steps, raw_steps, engine, thread>> /\ thread = "suspended"
        /\ pc' \in {"start", "fail_thread"} /\ pc = "seed" /\ engine.present
    BY <1>6, <1>inv DEF Seed, FailWithThread, ThreadInv, ResourceInv
  <2> QED
    BY <2>1 DEF RecordedSteps, Concluded, Abstract!vars
<1>7. CASE Start
  <2>1. /\ pc = "start" /\ engine.present /\ thread = "suspended" /\ steps = <<>>
        /\ UNCHANGED <<request, steps, raw_steps>> /\ ~Concluded /\ Admitted
    BY <1>7, <1>inv DEF Start, ResourceInv, ThreadInv, RecordInv, Concluded
  <2>2. RecordedSteps = <<>>
    BY <2>1, FreshEngine
  <2>3. CASE request.stop_offset = 0
    <3>1. /\ pc' = "returned" /\ ~engine'.present /\ result'.outcome = "Stopped"
          /\ result'.stop_address = 0
      BY <1>7, <1>types, <2>3, NoEngineType DEF Start, Result
    <3>2. Concluded' /\ RecordedSteps' = <<>>
      BY <2>1, <3>1 DEF Concluded, RecordedSteps
    <3>3. Abstract!StopAtEntry
      BY <2>1, <2>2, <2>3, <3>1, <3>2, SameVocabulary DEF Abstract!StopAtEntry, Admitted
    <3> QED
      BY <3>3 DEF Abstract!Next
  <2>4. CASE request.stop_offset # 0
    <3>1. UNCHANGED <<result, engine, thread>> /\ ~Concluded'
      BY <1>7, <2>1, <2>4 DEF Start, Concluded
    <3> QED
      BY <2>1, <3>1 DEF RecordedSteps, Abstract!vars
  <2> QED
    BY <2>3, <2>4
<1>8. CASE InstallHandler
  <2>1. /\ UNCHANGED <<request, steps, raw_steps, engine, thread>> /\ thread = "suspended"
        /\ pc' \in {"resume", "fail_thread"} /\ pc = "install" /\ engine.present
    BY <1>8, <1>inv DEF InstallHandler, FailWithThread, ThreadInv, ResourceInv, threadVars
  <2> QED
    BY <2>1 DEF RecordedSteps, Concluded, Abstract!vars
<1>9. CASE Resume
  <2>1. /\ UNCHANGED <<request, steps, raw_steps>> /\ thread = "suspended"
        /\ pc' \in {"wait", "fail_thread"} /\ pc = "resume" /\ engine.present
        /\ thread' \in {"running", "suspended"}
    BY <1>9, <1>inv DEF Resume, FailWithThread, ThreadInv, ResourceInv
  <2>2. /\ engine'.present /\ engine'.outcome = engine.outcome
        /\ engine'.fault_address = engine.fault_address
    BY <1>9, <1>types, <2>1 DEF Resume, Engine
  <2>3. UNCHANGED RecordedSteps /\ ~Concluded /\ ~Concluded'
    BY <2>1, <2>2 DEF RecordedSteps, Concluded
  <2> QED
    BY <2>1, <2>2, <2>3 DEF Abstract!vars
<1>10. CASE WaitThread
  <2>1. UNCHANGED <<request, result, steps, raw_steps, engine, thread>>
    BY <1>10 DEF WaitThread, threadVars
  <2>2. pc = "wait" /\ pc' = "deactivate"
    BY <1>10 DEF WaitThread
  <2> QED
    BY <2>1, <2>2 DEF RecordedSteps, Concluded, Abstract!vars
<1>11. CASE Deactivate
  <2>1. UNCHANGED <<request, result, steps, raw_steps, thread>>
    BY <1>11 DEF Deactivate, threadVars
  <2>2. pc = "deactivate" /\ pc' = "collect"
    BY <1>11, <1>wait DEF Deactivate
  <2>3. /\ engine'.present = engine.present /\ engine'.outcome = engine.outcome
        /\ engine'.fault_address = engine.fault_address
    BY <1>11, <1>types DEF Deactivate, Engine
  <2>4. UNCHANGED RecordedSteps /\ (Concluded <=> Concluded')
    BY <2>1, <2>2, <2>3 DEF RecordedSteps, Concluded
  <2> QED
    BY <2>1, <2>3, <2>4 DEF Abstract!vars
<1>12. CASE FailThread
  <2>1. /\ pc = "fail_thread" /\ thread = "suspended" /\ engine.present /\ steps = <<>>
        /\ result.outcome = "Error" /\ ~Concluded
    BY <1>12, <1>inv, <1>wait DEF FailThread, ResourceInv, RecordInv, ThreadInv, Concluded
  <2>2. RecordedSteps = steps
    BY <2>1, FreshEngine
  <2>3. UNCHANGED <<request, steps, result>> /\ pc' = "returned" /\ ~engine'.present
    BY <1>12, NoEngineType DEF FailThread
  <2> QED
    BY <1>types, <2>1, <2>2, <2>3, FailRefines
<1>13. CASE Collect
  <2>1. /\ pc = "collect" /\ engine.present /\ thread = "exited" /\ result.error = "none"
        /\ Concluded
    BY <1>13, <1>inv, <1>wait DEF Collect, ResourceInv, ThreadInv, Concluded
  <2>2. /\ result'.outcome = engine.outcome /\ result'.stop_address = engine.fault_address
        /\ ~engine'.present /\ pc' = "returned" /\ UNCHANGED request
    BY <1>13, <1>types, NoEngineType DEF Collect, Result
  <2>3. RecordedSteps' = RecordedSteps /\ Concluded'
    BY <1>13, <2>1, <2>2 DEF Collect, RecordedSteps, Concluded
  <2> QED
    BY <2>1, <2>2, <2>3 DEF Abstract!vars
<1>14. CASE UserCompletes
  <2>1. /\ UNCHANGED <<request, pc, result, steps, engine, raw_steps>> /\ pc = "wait"
        /\ thread = "running" /\ thread' \in {"running", "raised", "blocked"}
    BY <1>14, <1>wait DEF UserCompletes, HostUnchanged, Raise
  <2> QED
    BY <2>1 DEF RecordedSteps, Concluded, Abstract!vars
<1>15. CASE UserBreaks
  <2>1. /\ UNCHANGED <<request, pc, result, steps, engine, raw_steps>> /\ pc = "wait"
        /\ thread = "running" /\ thread' \in {"running", "raised", "blocked"}
    BY <1>15, <1>wait DEF UserBreaks, HostUnchanged, Raise
  <2> QED
    BY <2>1 DEF RecordedSteps, Concluded, Abstract!vars
<1>16. CASE UserFaults
  <2>1. /\ UNCHANGED <<request, pc, result, steps, engine, raw_steps>> /\ pc = "wait"
        /\ thread = "running" /\ thread' \in {"running", "raised", "blocked"}
    BY <1>16, <1>wait DEF UserFaults, HostUnchanged, Raise
  <2> QED
    BY <2>1 DEF RecordedSteps, Concluded, Abstract!vars
<1>17. CASE UserBlocks
  <2>1. /\ UNCHANGED <<request, pc, result, steps, engine, raw_steps>> /\ pc = "wait"
        /\ thread = "running" /\ thread' \in {"running", "raised", "blocked"}
    BY <1>17, <1>wait DEF UserBlocks, HostUnchanged
  <2> QED
    BY <2>1 DEF RecordedSteps, Concluded, Abstract!vars
<1>18. CASE UserExitsThread
  BY <1>18 DEF UserExitsThread
<1>19. CASE ThreadReturns
  <2>1. /\ UNCHANGED <<request, pc, result, steps, engine, raw_steps>> /\ engine.present
        /\ thread = "restored" /\ thread' = "exited"
    BY <1>19, <1>wait DEF ThreadReturns, HostUnchanged
  <2> QED
    BY <2>1 DEF RecordedSteps, Concluded, Abstract!vars
<1>20. CASE VehSingleStep
  <2>1. /\ UNCHANGED <<request, pc, result, steps>>
        /\ pc = "wait" /\ engine.present /\ engine'.present /\ result.error = "none"
        /\ Open(request, raw_steps) /\ engine.previous_rip = Position(raw_steps)
        /\ engine.outcome = "Finished" /\ engine.fault_address = 0
        /\ Admitted /\ request.stop_offset # 0 /\ ~Concluded
        /\ thread = "raised"
    BY <1>20, <1>inv, <1>types, <1>wait, VehKeepsEngine
       DEF VehSingleStep, HostUnchanged, RecordInv, ThreadInv, Stepping, Concluded
  <2>2. raw_steps' = Append(raw_steps, [rip |-> Position(raw_steps), next |-> rip,
                                        faulted |-> FALSE])
    BY <1>20, <2>1 DEF VehSingleStep
  <2>3. Len(raw_steps) \in Nat /\ EffectiveMaxSteps(request) \in Nat
    BY <1>types, CapPositive
  <2>4. RecordedSteps = raw_steps
    BY <2>1 DEF RecordedSteps
  <2> DEFINE verdict == after_step(rip, Len(raw_steps) + 1)
             at_target == HasTarget(request) /\ rip = request.stop_offset
  <2>5. /\ verdict = "target" => at_target
        /\ verdict = "left" => ~at_target /\ ~InCode(request, rip)
        /\ verdict = "cap" => /\ ~at_target /\ InCode(request, rip)
                              /\ Len(raw_steps) + 1 = EffectiveMaxSteps(request)
        /\ verdict = "go" => /\ ~at_target /\ InCode(request, rip)
                             /\ Len(raw_steps) + 1 < EffectiveMaxSteps(request)
        /\ verdict \in {"target", "left", "cap", "go"}
    BY <2>1, <2>3 DEF after_step, Open
  <2>6. /\ engine'.outcome = CASE verdict = "target" -> "Stopped" [] verdict = "cap" -> "AbortedCap"
                               [] OTHER -> "Finished"
        /\ engine'.fault_address = IF verdict = "target" THEN rip ELSE 0
        /\ thread' = IF verdict = "go" THEN "running" ELSE "restored"
    BY <1>20, <1>types, <2>1, <2>5 DEF VehSingleStep, RestoreContext, Engine
  <2> HIDE DEF verdict
  <2>7. /\ RecordedSteps' = raw_steps' /\ (Concluded' <=> verdict # "go")
    BY <2>1, <2>5, <2>6 DEF RecordedSteps, Concluded
  <2>8. Abstract!Complete(rip)
    BY <2>1, <2>2, <2>3, <2>4, <2>5, <2>6, <2>7, SameVocabulary
       DEF Abstract!Complete, Admitted
  <2> QED
    BY <1>types, <2>8, SameVocabulary DEF Abstract!Next
<1>21. CASE VehBreakpoint
  <2>1. /\ UNCHANGED <<request, pc, result, steps, raw_steps>>
        /\ pc = "wait" /\ engine.present /\ result.error = "none"
        /\ engine.previous_rip = Position(raw_steps) /\ engine.previous_rip \in request.int3
        /\ engine.outcome = "Finished"
        /\ Admitted /\ request.stop_offset # 0 /\ ~Concluded
    BY <1>21, <1>inv, <1>wait
       DEF VehBreakpoint, HostUnchanged, RecordInv, ThreadInv, ExecutionInv, Stepping, Concluded
  <2>2. /\ engine'.present /\ engine'.outcome = "Stopped" /\ thread' = "restored"
        /\ engine'.fault_address = engine.previous_rip
    BY <1>21, <1>types, <2>1 DEF VehBreakpoint, RestoreContext, Engine
  <2>3. RecordedSteps = raw_steps /\ RecordedSteps' = raw_steps /\ Concluded'
    BY <2>1, <2>2 DEF RecordedSteps, Concluded
  <2>4. Abstract!Breakpoint
    BY <2>1, <2>2, <2>3, SameVocabulary DEF Abstract!Breakpoint, Admitted
  <2> QED
    BY <2>4 DEF Abstract!Next
<1>22. CASE VehFault
  <2>1. /\ UNCHANGED <<request, pc, result, steps, raw_steps>>
        /\ pc = "wait" /\ engine.present /\ result.error = "none"
        /\ engine.outcome = "Finished"
        /\ Admitted /\ request.stop_offset # 0 /\ ~Concluded
    BY <1>22, <1>inv, <1>wait
       DEF VehFault, HostUnchanged, RecordInv, ThreadInv, Stepping, Concluded
  <2>2. /\ engine'.present /\ engine'.outcome = "Faulted" /\ thread' = "restored"
        /\ engine'.fault_address = rip
    BY <1>22, <1>types, <2>1 DEF VehFault, RestoreContext, Engine
  <2>3. /\ RecordedSteps = raw_steps /\ Concluded'
        /\ RecordedSteps' = Append(raw_steps, [rip |-> rip, next |-> rip, faulted |-> TRUE])
    BY <2>1, <2>2 DEF RecordedSteps, Concluded
  <2>4. Abstract!Fault(rip)
    BY <2>1, <2>2, <2>3, SameVocabulary DEF Abstract!Fault, Admitted
  <2> QED
    BY <1>types, <2>4, SameVocabulary DEF Abstract!Next
<1>23. CASE Unhandled
  BY <1>23, <1>wait DEF Unhandled
<1>24. CASE UNCHANGED vars
  BY <1>24 DEF vars, RecordedSteps, Concluded, Abstract!vars
<1> QED
  BY <1>1, <1>2, <1>3, <1>4, <1>5, <1>6, <1>7, <1>8, <1>9, <1>10, <1>11, <1>12, <1>13,
     <1>14, <1>15, <1>16, <1>17, <1>18, <1>19, <1>20, <1>21, <1>22, <1>23, <1>24
     DEF Next, Host, Sandbox, Done

\* Seen from the caller, every Windows run records and concludes as PlatformRun
\* says, if the input does not end its own thread and waiting does not fail.
THEOREM WindowsImplementsPlatformRun ==
    ASSUME ThreadExit = FALSE, HostFailures = FALSE
    PROVE  Spec => ImplementsPlatformRun
<1>1. Init => Abstract!Init
  BY SameVocabulary, NoEngineType DEF Init, Concluded, RecordedSteps, Abstract!Init
<1>2. RunInv /\ RunInv' /\ [Next]_vars => [Abstract!Next]_(Abstract!vars)
  BY StepRefines
<1> QED
  BY <1>1, <1>2, RunInit, RunStep, PTL DEF Spec, ImplementsPlatformRun, Abstract!Spec
===============================================================================
