--------------------------- MODULE LinuxTracerProofs ---------------------------
(***************************************************************************)
(* Proofs about LinuxTracer, for every input, cap and environment: its     *)
(* types; what a run returns (the recorded steps chain, the outcome is     *)
(* explained by them, and the tracer implements PlatformRun as long as it  *)
(* lives); and how tracer and worker meet (what the pipe holds for whom,   *)
(* where the worker can be while the tracer is somewhere, and what the     *)
(* trace says about what the worker did).                                  *)
(***************************************************************************)
EXTENDS LinuxTracer, PlatformProofs

-----------------------------------------------------------------------------
(* Types.                                                                  *)

\* Breakpoints lie in the input, so the RIP that follows one is an address.
BreakpointsInCode == \A offset \in request.int3 : offset < request.size

TypeInv == TypeOK /\ BreakpointsInCode

\* The result is left alone or concluded with an outcome and an error.
ResultStep ==
    \/ UNCHANGED result
    \/ \E outcome \in Outcome, error \in RunError : Conclude(outcome, error)

\* Concluding keeps the type of the result.
LEMMA ConcludeType == ASSUME result \in Result, ResultStep PROVE result' \in Result
  BY DEF ResultStep, Conclude, Result

\* The records on the pipe are messages.
LEMMA MessageType ==
    /\ \A error \in ChildError \cup {"None"} : Ready(error) \in Message
    /\ \A cause \in Cause : Report(cause) \in Message
  BY DEF Ready, Report, Message, Cause

\* What is taken from the pipe is a message, and messages are left.
LEMMA PipeType ==
    ASSUME pipe \in Seq(Message), pipe # <<>>
    PROVE  Head(pipe) \in Message /\ Tail(pipe) \in Seq(Message)
  OBVIOUS

\* The code base and the place outside the input are addresses.
LEMMA AddressType == 0 \in Address /\ -1 \in Address
  BY PlatformAssumption DEF Address

\* The initial state is well typed.
LEMMA TypeInit == Init => TypeInv
<1> SUFFICES ASSUME Init PROVE TypeInv
  OBVIOUS
<1>1. result \in Result
  BY AddressType DEF Init, Result, Outcome, RunError, FaultAccess
<1>2. stop \in Stop
  BY DEF Init, Stop, NoStop, Signal, SiCode, Cause
<1>3. autoreap \in BOOLEAN
  BY LinuxAssumption DEF Init
<1>4. steps \in Seq(PlatformStep) /\ pipe \in Seq(Message) /\ executed \in Seq(Address)
  BY DEF Init
<1>5. BreakpointsInCode
  BY DEF Init, BreakpointsInCode
<1> QED
  BY <1>1, <1>2, <1>3, <1>4, <1>5, AddressType DEF Init, TypeInv, TypeOK, PC, ChildState

\* No step of the tracer, the worker or the environment leaves the types.
LEMMA TypeStep == TypeInv /\ [Next]_vars => TypeInv'
<1> SUFFICES ASSUME TypeInv, [Next]_vars PROVE TypeInv'
  OBVIOUS
<1> USE DEF TypeInv
<1>1. CASE Prepare
  <2>1. result' \in Result
    BY <1>1, ConcludeType DEF Prepare, prepare_platform_run, ResultStep, Outcome,
       RunError, TypeOK
  <2>2. pc' \in PC /\ child' \in ChildState
    BY <1>1 DEF Prepare, TypeOK, PC, ChildState
  <2> QED
    BY <1>1, <2>1, <2>2 DEF Prepare, TypeOK, BreakpointsInCode
<1>2. CASE OpenPipe
  <2>1. result' \in Result
    BY <1>2, ConcludeType DEF OpenPipe, ResultStep, Outcome, RunError, TypeOK
  <2>2. reader' \in BOOLEAN /\ writer' \in BOOLEAN
    BY <1>2 DEF OpenPipe, TypeOK
  <2>3. pc' \in PC /\ child' \in ChildState
    BY <1>2 DEF OpenPipe, TypeOK, PC, ChildState
  <2> QED
    BY <1>2, <2>1, <2>2, <2>3 DEF OpenPipe, TypeOK, BreakpointsInCode
<1>3. CASE Fork
  <2>1. result' \in Result
    BY <1>3, ConcludeType DEF Fork, ResultStep, Outcome, RunError, TypeOK
  <2>2. reader' \in BOOLEAN /\ writer' \in BOOLEAN
    BY <1>3 DEF Fork, TypeOK
  <2>3. pc' \in PC /\ child' \in ChildState
    BY <1>3 DEF Fork, TypeOK, PC, ChildState
  <2> QED
    BY <1>3, <2>1, <2>2, <2>3 DEF Fork, TypeOK, BreakpointsInCode
<1>4. CASE CloseWriter
  BY <1>4 DEF CloseWriter, childVars, TypeOK, BreakpointsInCode, PC, ChildState
<1>5. CASE ReadReady
  <2>1. result' \in Result
    BY <1>5, ConcludeType DEF ReadReady, Fail, ResultStep, Outcome, RunError, TypeOK
  <2>2. pipe' \in Seq(Message)
    BY <1>5, PipeType DEF ReadReady, TypeOK
  <2>3. ready' \in ChildError \cup {"None"}
    BY <1>5, PipeType DEF ReadReady, TypeOK, Message
  <2>4. pc' \in PC /\ child' \in ChildState
    BY <1>5 DEF ReadReady, Fail, childVars, TypeOK, PC, ChildState
  <2> QED
    BY <1>5, <2>1, <2>2, <2>3, <2>4 DEF ReadReady, Fail, childVars, TypeOK,
       BreakpointsInCode
<1>6. CASE WaitReady
  <2>1. result' \in Result
    BY <1>6, ConcludeType DEF WaitReady, Fail, ResultStep, Outcome, RunError, TypeOK
  <2>2. pc' \in PC /\ child' \in ChildState
    BY <1>6 DEF WaitReady, Fail, TypeOK, PC, ChildState
  <2>3. reader' \in BOOLEAN
    BY <1>6 DEF WaitReady, TypeOK
  <2> QED
    BY <1>6, <2>1, <2>2, <2>3 DEF WaitReady, Fail, TypeOK, BreakpointsInCode
<1>7. CASE SetOptions
  <2>1. result' \in Result
    BY <1>7, ConcludeType DEF SetOptions, Fail, ResultStep, Outcome, RunError, TypeOK
  <2>2. pc' \in PC /\ child' \in ChildState
    BY <1>7 DEF SetOptions, Fail, childVars, TypeOK, PC, ChildState
  <2>3. exitkill' \in BOOLEAN
    BY <1>7 DEF SetOptions, TypeOK
  <2> QED
    BY <1>7, <2>1, <2>2, <2>3 DEF SetOptions, Fail, childVars, TypeOK, BreakpointsInCode
<1>8. CASE Seed
  <2>1. result' \in Result
    BY <1>8, ConcludeType DEF Seed, Fail, ResultStep, Outcome, RunError, TypeOK
  <2>2. rip' \in Address
    BY <1>8, AddressType DEF Seed, TypeOK
  <2>3. seeded' \in BOOLEAN
    BY <1>8 DEF Seed, TypeOK
  <2>4. pc' \in PC /\ child' \in ChildState
    BY <1>8 DEF Seed, Fail, TypeOK, PC, ChildState
  <2> QED
    BY <1>8, <2>1, <2>2, <2>3, <2>4 DEF Seed, Fail, TypeOK, BreakpointsInCode
<1>9. CASE Start
  <2>1. result' \in Result
    BY <1>9, AddressType DEF Start, TypeOK, Result, Outcome
  <2>2. previous_rip' \in Address
    BY <1>9, AddressType DEF Start, TypeOK
  <2>3. pc' \in PC /\ child' \in ChildState
    BY <1>9 DEF Start, childVars, TypeOK, PC, ChildState
  <2> QED
    BY <1>9, <2>1, <2>2, <2>3 DEF Start, childVars, TypeOK, BreakpointsInCode
<1>10. CASE SingleStep
  <2>1. result' \in Result
    BY <1>10, ConcludeType DEF SingleStep, Fail, ResultStep, Outcome, RunError, TypeOK
  <2>2. pc' \in PC /\ child' \in ChildState
    BY <1>10 DEF SingleStep, Fail, TypeOK, PC, ChildState
  <2> QED
    BY <1>10, <2>1, <2>2 DEF SingleStep, Fail, TypeOK, BreakpointsInCode
<1>11. CASE WaitStep
  <2>1. result' \in Result
    BY <1>11 DEF WaitStep, Fail, Conclude, TypeOK, Result, Outcome, RunError
  <2>2. pc' \in PC /\ child' \in ChildState
    BY <1>11 DEF WaitStep, Fail, TypeOK, PC, ChildState
  <2> QED
    BY <1>11, <2>1, <2>2 DEF WaitStep, Fail, TypeOK, BreakpointsInCode
<1>12. CASE InspectFails
  <2>1. result' \in Result
    BY <1>12, ConcludeType DEF InspectFails, Fail, ResultStep, Outcome, RunError, TypeOK
  <2>2. pc' \in PC /\ child' \in ChildState
    BY <1>12 DEF InspectFails, Fail, childVars, TypeOK, PC, ChildState
  <2> QED
    BY <1>12, <2>1, <2>2 DEF InspectFails, Fail, childVars, TypeOK, BreakpointsInCode
<1>13. CASE StopAtBreakpoint
  <2>1. result' \in Result
    BY <1>13 DEF StopAtBreakpoint, TypeOK, Result, Outcome
  <2>2. pc' \in PC /\ child' \in ChildState
    BY <1>13 DEF StopAtBreakpoint, childVars, TypeOK, PC, ChildState
  <2> QED
    BY <1>13, <2>1, <2>2 DEF StopAtBreakpoint, childVars, TypeOK, BreakpointsInCode
<1>14. CASE RecordFault
  <2>1. result' \in Result
    BY <1>14 DEF RecordFault, TypeOK, Result, Outcome, FaultAccess
  <2>2. steps' \in Seq(PlatformStep)
    BY <1>14 DEF RecordFault, TypeOK, PlatformStep
  <2>3. pc' \in PC /\ child' \in ChildState
    BY <1>14 DEF RecordFault, childVars, TypeOK, PC, ChildState
  <2> QED
    BY <1>14, <2>1, <2>2, <2>3 DEF RecordFault, childVars, TypeOK, BreakpointsInCode
<1>15. CASE RecordStep
  <2>1. result' \in Result
    BY <1>15 DEF RecordStep, TypeOK, Result, Outcome, after_step
  <2>2. steps' \in Seq(PlatformStep)
    BY <1>15 DEF RecordStep, TypeOK, PlatformStep
  <2>3. pc' \in PC /\ child' \in ChildState
    BY <1>15 DEF RecordStep, childVars, TypeOK, PC, ChildState
  <2> QED
    BY <1>15, <2>1, <2>2, <2>3 DEF RecordStep, childVars, TypeOK, BreakpointsInCode
<1>16. CASE ContinueWithSignal
  BY <1>16 DEF ContinueWithSignal, tracerVars, TypeOK, BreakpointsInCode, PC, ChildState
<1>17. CASE PollReport
  <2>1. pipe' \in Seq(Message) /\ Head(pipe) \in Message
    BY <1>17, PipeType DEF PollReport, TypeOK
  <2>2. result' \in Result
    BY <1>17, <2>1 DEF PollReport, TypeOK, Result, classify_fault_access, FaultAccess,
       Message, Cause
  <2>3. pc' \in PC /\ child' \in ChildState
    BY <1>17 DEF PollReport, childVars, TypeOK, PC, ChildState
  <2> QED
    BY <1>17, <2>1, <2>2, <2>3 DEF PollReport, childVars, TypeOK, BreakpointsInCode
<1>18. CASE PollGivesUp
  BY <1>18 DEF PollGivesUp, tracerVars, childVars, TypeOK, BreakpointsInCode, PC,
     ChildState
<1>19. CASE Terminate
  BY <1>19 DEF Terminate, TypeOK, BreakpointsInCode, PC, ChildState
<1>20. CASE ChildTraceMe
  <2>1. pipe' \in Seq(Message)
    BY <1>20, MessageType DEF ChildTraceMe, Send, ChildError, TypeOK
  <2>2. pc' \in PC /\ child' \in ChildState
    BY <1>20 DEF ChildTraceMe, Send, Corpse, ChildUnchanged, tracerVars, TypeOK, PC,
       ChildState
  <2> QED
    BY <1>20, <2>1, <2>2 DEF ChildTraceMe, Send, Corpse, ChildUnchanged, tracerVars,
       TypeOK, BreakpointsInCode
<1>21. CASE ChildSetup
  <2>1. pipe' \in Seq(Message)
    BY <1>21, MessageType DEF ChildSetup, Send, ChildError, TypeOK
  <2>2. pc' \in PC /\ child' \in ChildState
    BY <1>21 DEF ChildSetup, Send, Corpse, ChildUnchanged, tracerVars, TypeOK, PC,
       ChildState
  <2> QED
    BY <1>21, <2>1, <2>2 DEF ChildSetup, Send, Corpse, ChildUnchanged, tracerVars, TypeOK,
       BreakpointsInCode
<1>22. CASE ChildReady
  <2>1. Ready("None") \in Message
    BY <1>22, MessageType DEF ChildReady, ChildError
  <2>2. pipe' \in Seq(Message)
    BY <1>22, <2>1 DEF ChildReady, Send, TypeOK
  <2>3. pc' \in PC /\ child' \in ChildState
    BY <1>22 DEF ChildReady, Send, Corpse, ChildUnchanged, tracerVars, TypeOK, PC,
       ChildState
  <2> QED
    BY <1>22, <2>1, <2>2, <2>3 DEF ChildReady, Send, Corpse, ChildUnchanged, tracerVars,
       TypeOK, BreakpointsInCode
<1>23. CASE ChildRaise
  BY <1>23 DEF ChildRaise, NoStop, ChildUnchanged, tracerVars, Stop, Signal, SiCode,
     Cause, TypeOK, BreakpointsInCode, PC, ChildState
<1>24. CASE ChildExit
  BY <1>24 DEF ChildExit, Corpse, ChildUnchanged, tracerVars, TypeOK, BreakpointsInCode,
     PC, ChildState
<1>25. CASE UserCompletes
  <2>1. stop' \in Stop
    BY <1>25 DEF UserCompletes, Trap, Stop, Signal, SiCode, Cause
  <2>2. rip' \in Address
    BY <1>25, PlatformAssumption DEF UserCompletes, TypeOK, Request, Address
  <2>3. executed' \in Seq(Address)
    BY <1>25 DEF UserCompletes, TypeOK
  <2>4. pc' \in PC /\ child' \in ChildState
    BY <1>25 DEF UserCompletes, Trap, ChildUnchanged, tracerVars, TypeOK, PC, ChildState
  <2> QED
    BY <1>25, <2>1, <2>2, <2>3, <2>4 DEF UserCompletes, Trap, ChildUnchanged, tracerVars,
       TypeOK, BreakpointsInCode
<1>26. CASE UserBreaks
  <2>1. stop' \in Stop
    BY <1>26 DEF UserBreaks, Trap, Stop, Signal, SiCode, Cause
  <2>2. rip' \in Address
    BY <1>26, PlatformAssumption DEF UserBreaks, TypeOK, BreakpointsInCode, Request,
       Address
  <2>3. pc' \in PC /\ child' \in ChildState
    BY <1>26 DEF UserBreaks, Trap, ChildUnchanged, tracerVars, TypeOK, PC, ChildState
  <2> QED
    BY <1>26, <2>1, <2>2, <2>3 DEF UserBreaks, Trap, ChildUnchanged, tracerVars, TypeOK,
       BreakpointsInCode
<1>27. CASE UserFaults
  <2>1. stop' \in Stop
    BY <1>27 DEF UserFaults, Trap, Stop, Signal, SiCode, Cause
  <2>2. rip' \in Address
    BY <1>27, AddressType DEF UserFaults, TypeOK, Below
  <2>3. pc' \in PC /\ child' \in ChildState
    BY <1>27 DEF UserFaults, Trap, ChildUnchanged, tracerVars, TypeOK, PC, ChildState
  <2> QED
    BY <1>27, <2>1, <2>2, <2>3 DEF UserFaults, Trap, ChildUnchanged, tracerVars, TypeOK,
       BreakpointsInCode
<1>28. CASE UserExits
  BY <1>28 DEF UserExits, Corpse, ChildUnchanged, tracerVars, TypeOK, BreakpointsInCode,
     PC, ChildState
<1>29. CASE UserBlocks
  BY <1>29 DEF UserBlocks, ChildUnchanged, tracerVars, TypeOK, BreakpointsInCode, PC,
     ChildState
<1>30. CASE FaultHandler
  <2>1. stop.cause \in Cause /\ Send(Report(stop.cause), Corpse)
    BY <1>30 DEF FaultHandler, Stop, TypeOK
  <2>2. \E message \in Message : Send(message, Corpse)
    BY <1>30, <2>1, MessageType DEF FaultHandler
  <2>3. pipe' \in Seq(Message)
    BY <1>30, <2>2 DEF FaultHandler, Send, TypeOK
  <2>4. pc' \in PC /\ child' \in ChildState
    BY <1>30 DEF FaultHandler, Send, Corpse, ChildUnchanged, tracerVars, TypeOK, PC,
       ChildState
  <2> QED
    BY <1>30, <2>1, <2>2, <2>3, <2>4 DEF FaultHandler, Send, Corpse, ChildUnchanged,
       tracerVars, TypeOK, BreakpointsInCode
<1>31. CASE ExternalKill
  BY <1>31 DEF ExternalKill, Corpse, ChildUnchanged, tracerVars, TypeOK,
     BreakpointsInCode, PC, ChildState
<1>32. CASE AsyncSignal
  BY <1>32 DEF AsyncSignal, Trap, ChildUnchanged, tracerVars, Stop, Signal, SiCode, Cause,
     TypeOK, BreakpointsInCode, PC, ChildState
<1>33. CASE TracerDies
  BY <1>33 DEF TracerDies, Corpse, TypeOK, BreakpointsInCode, PC, ChildState
<1>34. CASE Done
  BY <1>34 DEF Done, vars, TypeOK, BreakpointsInCode, PC, ChildState
<1>35. CASE UNCHANGED vars
  BY <1>35 DEF vars, TypeOK, BreakpointsInCode
<1> QED
  BY <1>1, <1>2, <1>3, <1>4, <1>5, <1>6, <1>7, <1>8, <1>9, <1>10, <1>11, <1>12, <1>13,
     <1>14, <1>15, <1>16, <1>17, <1>18, <1>19, <1>20, <1>21, <1>22, <1>23, <1>24, <1>25,
     <1>26, <1>27, <1>28, <1>29, <1>30, <1>31, <1>32, <1>33, <1>34, <1>35
     DEF Next, Tracer, Worker, Environment

\* Every reachable state of a Linux run is well typed.
THEOREM TypeCorrect == Spec => []TypeOK
<1>1. TypeInv => TypeOK
  BY DEF TypeInv
<1> QED
  BY <1>1, TypeInit, TypeStep, PTL DEF Spec

-----------------------------------------------------------------------------
(* What a run returns: the inductive invariant.                            *)

\* The worker is not yet being stepped.
Before == pc \in {"prepare", "pipe", "fork", "close_writer", "read_ready", "wait_ready",
                  "set_options", "seed", "start"}

\* The loop of run_platform_steps.
Looping == pc \in {"single_step", "wait_step", "inspect"}

\* The request passed prepare_platform_run.
Admitted ==
    /\ request.size > 0
    /\ HasTarget(request) => request.stop_offset < request.size

\* What the loop relies on: it is entered and continued only with an open record,
\* and previous_rip is where that record leaves execution.
LoopInv ==
    /\ Before => steps = <<>>
    /\ pc \notin {"prepare", "returned", "dead"} => Admitted
    /\ Looping => /\ Open(request, steps)
                  /\ previous_rip = Position(steps)
                  /\ request.stop_offset # 0

RunInv == TypeInv /\ LoopInv /\ StepsChained /\ OutcomeJustified

\* A run starts with an empty record.
LEMMA RunInit == Init => RunInv
<1> SUFFICES ASSUME Init PROVE RunInv
  OBVIOUS
<1>1. TypeInv
  BY TypeInit
<1>2. StepsChained
  BY EmptyRecord DEF Init, StepsChained
<1> QED
  BY <1>1, <1>2 DEF Init, RunInv, LoopInv, Before, Looping, OutcomeJustified, Concluded

\* A step that changes neither the record nor the request nor previous_rip, and
\* only fails, moves on outside the loop, or stays where it was.
Quiet ==
    /\ UNCHANGED <<request, steps, previous_rip>>
    /\ \/ UNCHANGED <<pc, result>>
       \/ result'.outcome = "Error" /\ pc' \in {"terminate", "returned"}
            /\ (Before \/ Looping) /\ pc # "prepare"
       \/ Before /\ Before' /\ pc # "prepare" /\ UNCHANGED result
       \/ Looping /\ Looping' /\ UNCHANGED result
       \/ Concluded /\ Concluded' /\ pc # "returned"
            /\ result'.outcome = result.outcome /\ result'.stop_address = result.stop_address
       \/ pc' = "dead" /\ TracerDeath

\* Quiet steps preserve the invariant: nothing it speaks of is disturbed.
LEMMA QuietStep == ASSUME RunInv, TypeInv', Quiet PROVE RunInv'
<1>1. StepsChained'
  BY DEF RunInv, StepsChained, Quiet
<1>2. LoopInv'
  BY DEF RunInv, LoopInv, Quiet, Before, Looping, Admitted, Concluded
<1>3. OutcomeJustified'
  <2>1. CASE result'.outcome = "Error"
    BY <2>1 DEF OutcomeJustified, Justified
  <2>2. CASE UNCHANGED <<pc, result>>
    BY <2>2 DEF RunInv, Quiet, OutcomeJustified, Concluded
  <2>3. CASE Before' \/ Looping' \/ pc' = "dead"
    BY <2>3 DEF OutcomeJustified, Concluded, Before, Looping
  <2>4. CASE /\ Concluded /\ Concluded'
             /\ result'.outcome = result.outcome /\ result'.stop_address = result.stop_address
    BY <2>4 DEF RunInv, Quiet, OutcomeJustified
  <2> QED
    BY <2>1, <2>2, <2>3, <2>4 DEF Quiet
<1> QED
  BY <1>1, <1>2, <1>3 DEF RunInv

\* The steps that record nothing are quiet.
LEMMA QuietActions ==
    ASSUME RunInv, TypeInv',
           \/ OpenPipe \/ Fork \/ CloseWriter \/ ReadReady \/ WaitReady \/ SetOptions \/ Seed
           \/ SingleStep \/ WaitStep \/ InspectFails \/ ContinueWithSignal \/ PollReport
           \/ PollGivesUp \/ Terminate \/ Worker \/ Environment \/ UNCHANGED vars
    PROVE  Quiet
<1>1. CASE OpenPipe \/ Fork \/ CloseWriter \/ ReadReady \/ WaitReady \/ SetOptions \/ Seed
  BY <1>1 DEF RunInv, TypeInv, TypeOK, Result, OpenPipe, Fork, CloseWriter, ReadReady,
              WaitReady, SetOptions, Seed, Fail, Conclude, Quiet, Before
<1>2. CASE SingleStep \/ WaitStep \/ InspectFails
  BY <1>2 DEF RunInv, TypeInv, TypeOK, Result, SingleStep, WaitStep, InspectFails, Fail,
              Conclude, Quiet, Looping
<1>3. CASE ContinueWithSignal \/ PollReport \/ PollGivesUp \/ Terminate
  BY <1>3 DEF RunInv, TypeInv, TypeOK, Result, ContinueWithSignal, PollReport, PollGivesUp,
              Terminate, tracerVars, Quiet, Concluded
<1>4. CASE Worker
  BY <1>4 DEF Worker, ChildTraceMe, ChildSetup, ChildReady, ChildRaise, ChildExit, UserCompletes,
              UserBreaks, UserFaults, UserExits, UserBlocks, FaultHandler, ChildUnchanged,
              tracerVars, Quiet
<1>5. CASE Environment
  BY <1>5 DEF Environment, ExternalKill, AsyncSignal, TracerDies, ChildUnchanged, tracerVars, Quiet
<1>6. CASE UNCHANGED vars
  BY <1>6 DEF vars, Quiet
<1> QED
  BY <1>1, <1>2, <1>3, <1>4, <1>5, <1>6

\* Recording a fault closes the record with a step that explains the outcome.
LEMMA FaultStep == ASSUME RunInv, TypeInv', RecordFault PROVE RunInv'
<1> DEFINE step == [rip |-> rip, next |-> rip, faulted |-> TRUE]
<1>1. Looping /\ Open(request, steps) /\ step \in PlatformStep /\ steps \in Seq(PlatformStep)
      /\ request \in Request
  BY DEF RecordFault, RunInv, LoopInv, TypeInv, TypeOK, Looping, PlatformStep
<1>2. request' = request /\ steps' = Append(steps, step)
  BY DEF RecordFault
<1>3. StepsChained'
  BY <1>1, <1>2, RecordedStep DEF RunInv, StepsChained
<1>4. pc' \in {"continue", "terminate"} /\ result'.outcome = "Faulted" /\ result'.stop_address = rip
  BY DEF RecordFault, RunInv, TypeInv, TypeOK, Result
<1>5. OutcomeJustified'
  <2>1. Len(steps') = Len(steps) + 1 /\ Last(steps') = step /\ Len(steps) \in Nat
    BY <1>1, <1>2, AppendedStep
  <2>2. Len(steps') <= EffectiveMaxSteps(request)
    BY <1>1, <2>1, CapPositive DEF Open
  <2> QED
    BY <1>2, <1>4, <2>1, <2>2 DEF OutcomeJustified, Justified
<1>6. LoopInv'
  BY <1>1, <1>2, <1>4 DEF RunInv, LoopInv, Before, Looping, Admitted
<1> QED
  BY <1>3, <1>5, <1>6 DEF RunInv

\* Recording a completed instruction leaves the record open when the loop goes on
\* and explains the outcome when it ends.
LEMMA CompletedStep == ASSUME RunInv, TypeInv', RecordStep PROVE RunInv'
<1> DEFINE step == [rip |-> previous_rip, next |-> rip, faulted |-> FALSE]
           verdict == after_step(rip, Len(steps) + 1)
<1>1. /\ Looping /\ Open(request, steps) /\ step \in PlatformStep
      /\ steps \in Seq(PlatformStep) /\ request \in Request
      /\ step.rip = Position(steps) /\ Len(steps) \in Nat
  BY DEF RecordStep, RunInv, LoopInv, TypeInv, TypeOK, Looping, PlatformStep
<1>2. request' = request /\ steps' = Append(steps, step)
  BY DEF RecordStep
<1>3. StepsChained'
  BY <1>1, <1>2, RecordedStep DEF RunInv, StepsChained
<1>4. /\ Len(steps') = Len(steps) + 1 /\ Position(steps') = rip
      /\ \A i \in 1 .. Len(steps') : ~steps'[i].faulted
  <2>1. /\ Len(steps') = Len(steps) + 1 /\ Position(steps') = rip
        /\ \A i \in 1 .. Len(steps) : steps'[i] = steps[i]
        /\ steps'[Len(steps) + 1] = step
    BY <1>1, <1>2, AppendedStep
  <2> QED
    BY <1>1, <2>1 DEF Open
<1>5. CASE verdict = "go"
  <2>1. pc' = "single_step" /\ previous_rip' = rip
    BY <1>5 DEF RecordStep
  <2>2. Open(request, steps')
    BY <1>1, <1>4, <1>5, CapPositive DEF after_step, Open
  <2> QED
    BY <1>1, <1>2, <1>3, <1>4, <2>1, <2>2
       DEF RunInv, LoopInv, Before, Looping, Admitted, OutcomeJustified, Concluded
<1>6. CASE verdict # "go"
  <2>1. pc' = "terminate"
    BY <1>6 DEF RecordStep
  <2>2. \/ verdict = "target" /\ result'.outcome = "Stopped" /\ result'.stop_address = rip
        \/ verdict = "left" /\ result'.outcome = "Finished"
        \/ verdict = "cap" /\ result'.outcome = "AbortedCap"
    BY <1>6 DEF RecordStep, after_step, RunInv, TypeInv, TypeOK, Result
  <2>3. OutcomeJustified'
    <3>1. CASE verdict = "target" /\ result'.outcome = "Stopped" /\ result'.stop_address = rip
      <4>1. HasTarget(request) /\ rip = request.stop_offset
        BY <3>1 DEF after_step
      <4> QED
        BY <1>2, <1>4, <3>1, <4>1 DEF OutcomeJustified, Justified
    <3>2. CASE verdict = "left" /\ result'.outcome = "Finished"
      <4>1. ~InCode(request, rip)
        BY <3>2 DEF after_step
      <4> QED
        BY <1>1, <1>2, <1>4, <3>2, <4>1 DEF OutcomeJustified, Justified
    <3>3. CASE verdict = "cap" /\ result'.outcome = "AbortedCap"
      <4>1. /\ InCode(request, rip) /\ (HasTarget(request) => rip # request.stop_offset)
            /\ Len(steps) + 1 >= EffectiveMaxSteps(request)
        BY <3>3 DEF after_step
      <4>2. Len(steps') = EffectiveMaxSteps(request)
        BY <1>1, <1>4, <4>1, CapPositive DEF Open
      <4> QED
        BY <1>2, <1>4, <3>3, <4>1, <4>2 DEF OutcomeJustified, Justified
    <3> QED
      BY <2>2, <3>1, <3>2, <3>3
  <2>4. LoopInv'
    BY <1>1, <1>2, <2>1 DEF RunInv, LoopInv, Before, Looping, Admitted
  <2> QED
    BY <1>3, <2>3, <2>4 DEF RunInv
<1> QED
  BY <1>5, <1>6

\* Every step of the system preserves the invariant.
LEMMA RunStep == RunInv /\ [Next]_vars => RunInv'
<1> SUFFICES ASSUME RunInv, [Next]_vars PROVE RunInv'
  OBVIOUS
<1>1. TypeInv'
  BY TypeStep DEF RunInv
<1>2. CASE Prepare
  <2>1. request' = request /\ steps' = steps /\ steps = <<>>
    BY <1>2 DEF Prepare, RunInv, LoopInv, Before
  <2>2. \/ pc' = "pipe" /\ Admitted
        \/ /\ pc' = "returned"
           /\ \/ result'.outcome = "Error"
              \/ result'.outcome = "Idle" /\ request.size = 0
    <3>1. PICK instrumented \in BOOLEAN :
            LET verdict == prepare_platform_run(request, instrumented)
            IN  IF verdict = "ok"
                THEN pc' = "pipe"
                ELSE /\ pc' = "returned"
                     /\ result'.outcome = IF verdict = "no_code" THEN "Idle" ELSE "Error"
      BY <1>2 DEF Prepare, Conclude, RunInv, TypeInv, TypeOK, Result
    <3>2. request.size \in Nat /\ request.stop_offset \in Int
      BY DEF RunInv, TypeInv, TypeOK, Request
    <3> QED
      BY <3>1, <3>2 DEF prepare_platform_run, Admitted
  <2>3. StepsChained'
    BY <2>1 DEF RunInv, StepsChained
  <2>4. LoopInv'
    BY <2>1, <2>2 DEF LoopInv, Looping, Admitted
  <2>5. OutcomeJustified'
    BY <2>1, <2>2 DEF OutcomeJustified, Concluded, Justified
  <2> QED
    BY <1>1, <2>3, <2>4, <2>5 DEF RunInv
<1>3. CASE Start
  <2>1. request' = request /\ steps' = steps /\ steps = <<>> /\ Admitted /\ request \in Request
    BY <1>3 DEF Start, RunInv, LoopInv, Before, TypeInv, TypeOK
  <2>2. StepsChained'
    BY <2>1 DEF RunInv, StepsChained
  <2>3. CASE request.stop_offset = 0
    <3>1. pc' = "terminate" /\ result'.outcome = "Stopped" /\ result'.stop_address = 0
      BY <1>3, <2>3 DEF Start, RunInv, TypeInv, TypeOK, Result
    <3>2. OutcomeJustified'
      BY <2>1, <2>3, <3>1, EmptyRecord DEF OutcomeJustified, Justified, HasTarget, NoOffset
    <3>3. LoopInv'
      BY <2>1, <3>1 DEF LoopInv, Before, Looping, Admitted
    <3> QED
      BY <1>1, <2>2, <3>2, <3>3 DEF RunInv
  <2>4. CASE request.stop_offset # 0
    <3>1. pc' = "single_step" /\ previous_rip' = 0
      BY <1>3, <2>4 DEF Start
    <3>2. Open(request, steps) /\ Position(steps) = 0
      BY <2>1, <2>4, EmptyRecord DEF Admitted
    <3> QED
      BY <1>1, <2>1, <2>2, <2>4, <3>1, <3>2
         DEF RunInv, LoopInv, Before, Looping, Admitted, OutcomeJustified, Concluded
  <2> QED
    BY <2>3, <2>4
<1>4. CASE StopAtBreakpoint
  <2>1. /\ request' = request /\ steps' = steps /\ pc' = "terminate"
        /\ result'.outcome = "Stopped" /\ result'.stop_address = previous_rip
        /\ previous_rip \in request.int3
    BY <1>4 DEF StopAtBreakpoint, breakpoint_trap, is_software_breakpoint, RunInv, TypeInv, TypeOK,
                Result
  <2>2. Looping /\ Open(request, steps) /\ previous_rip = Position(steps)
    BY <1>4 DEF StopAtBreakpoint, RunInv, LoopInv, Looping
  <2>3. StepsChained'
    BY <2>1 DEF RunInv, StepsChained
  <2>4. LoopInv'
    BY <2>1, <2>2 DEF RunInv, LoopInv, Before, Looping, Admitted
  <2>5. OutcomeJustified'
    BY <2>1, <2>2 DEF OutcomeJustified, Justified, Open
  <2> QED
    BY <1>1, <2>3, <2>4, <2>5 DEF RunInv
<1>5. CASE RecordFault
  BY <1>1, <1>5, FaultStep
<1>6. CASE RecordStep
  BY <1>1, <1>6, CompletedStep
<1> QED
  BY <1>1, <1>2, <1>3, <1>4, <1>5, <1>6, QuietActions, QuietStep DEF Next, Tracer, Done

\* In every run, however the worker, the terminal or a killer interferes, the
\* recorded steps chain and were never taken past a stopping point.
THEOREM RecordChained == Spec => []StepsChained
<1>1. RunInv => StepsChained
  BY DEF RunInv
<1> QED
  BY <1>1, RunInit, RunStep, PTL DEF Spec

\* In every run the returned outcome is explained by the recorded steps.
THEOREM OutcomeExplained == Spec => []OutcomeJustified
<1>1. RunInv => OutcomeJustified
  BY DEF RunInv
<1> QED
  BY <1>1, RunInit, RunStep, PTL DEF Spec

-----------------------------------------------------------------------------
(* Refinement.                                                             *)

\* The abstract run speaks the same vocabulary.
LEMMA SameVocabulary ==
    /\ Abstract!Address = Address
    /\ Abstract!Request = Request
    /\ \A s : Abstract!Position(s) = Position(s)
    /\ \A q : Abstract!HasTarget(q) <=> HasTarget(q)
    /\ \A q, a : Abstract!InCode(q, a) <=> InCode(q, a)
    /\ \A q : Abstract!EffectiveMaxSteps(q) = EffectiveMaxSteps(q)
  BY DEF Address, Request, Position, Last, HasTarget, NoOffset, InCode, EffectiveMaxSteps,
         Abstract!Address, Abstract!Request, Abstract!Position, Abstract!Last,
         Abstract!HasTarget, Abstract!NoOffset, Abstract!InCode, Abstract!EffectiveMaxSteps

\* Seen through the mapping, a quiet step is a failure or nothing at all.
LEMMA QuietRefines ==
    ASSUME TypeInv, TypeInv', Quiet, TracerDeath = FALSE
    PROVE  Abstract!Fail \/ UNCHANGED Abstract!vars
<1>1. result \in Result /\ result' \in Result
  BY DEF TypeInv, TypeOK
<1>2. CASE result'.outcome = "Error" /\ pc' \in {"terminate", "returned"} /\ (Before \/ Looping)
  <2>1. ~Concluded /\ Concluded'
    BY <1>2 DEF Concluded, Before, Looping
  <2> QED
    BY <1>1, <1>2, <2>1, SameVocabulary DEF Quiet, Abstract!Fail, Abstract!Running, Result
<1>3. CASE UNCHANGED <<pc, result>>
  BY <1>3 DEF Quiet, Concluded, Abstract!vars
<1>4. CASE UNCHANGED result /\ ((Before /\ Before') \/ (Looping /\ Looping'))
  <2>1. ~Concluded /\ ~Concluded'
    BY <1>4 DEF Concluded, Before, Looping
  <2> QED
    BY <1>4, <2>1 DEF Quiet, Abstract!vars
<1>5. CASE /\ Concluded /\ Concluded'
           /\ result'.outcome = result.outcome /\ result'.stop_address = result.stop_address
  BY <1>5 DEF Quiet, Abstract!vars
<1> QED
  BY <1>2, <1>3, <1>4, <1>5 DEF Quiet

\* Every step of a run whose tracer lives is a step of PlatformRun or a stutter.
LEMMA StepRefines ==
    ASSUME RunInv, RunInv', [Next]_vars, TracerDeath = FALSE
    PROVE  [Abstract!Next]_(Abstract!vars)
<1> USE SameVocabulary DEF Abstract!Running, Abstract!Accepted, Abstract!Executing
<1>1. /\ result \in Result /\ result' \in Result /\ request \in Request
      /\ rip \in Address /\ steps \in Seq(PlatformStep)
  BY DEF RunInv, TypeInv, TypeOK
<1>2. CASE Prepare
  <2>1. ~Concluded /\ UNCHANGED <<request, steps>>
    BY <1>2 DEF Prepare, Concluded
  <2>2. PICK instrumented \in BOOLEAN :
          LET verdict == prepare_platform_run(request, instrumented)
          IN  IF verdict = "ok"
              THEN pc' = "pipe" /\ UNCHANGED result
              ELSE /\ pc' = "returned"
                   /\ result'.outcome = IF verdict = "no_code" THEN "Idle" ELSE "Error"
                   /\ result'.stop_address = result.stop_address
    BY <1>1, <1>2 DEF Prepare, Conclude, Result
  <2>3. CASE pc' = "pipe" /\ UNCHANGED result
    BY <2>1, <2>3 DEF Concluded, Abstract!vars
  <2>4. CASE /\ pc' = "returned" /\ result'.outcome = "Error"
             /\ result'.stop_address = result.stop_address
    <3>1. Abstract!Fail
      BY <1>1, <2>1, <2>4 DEF Concluded, Abstract!Fail, Result
    <3> QED
      BY <3>1 DEF Abstract!Next
  <2>5. CASE /\ pc' = "returned" /\ result'.outcome = "Idle" /\ request.size = 0
             /\ result'.stop_address = result.stop_address
    <3>1. Abstract!Refuse
      BY <1>1, <2>1, <2>5 DEF Concluded, Abstract!Refuse
    <3> QED
      BY <3>1 DEF Abstract!Next
  <2> QED
    BY <2>2, <2>3, <2>4, <2>5 DEF prepare_platform_run
<1>3. CASE Start
  <2>1. ~Concluded /\ UNCHANGED <<request, steps>> /\ Admitted
    BY <1>3 DEF Start, Concluded, RunInv, LoopInv
  <2>2. CASE request.stop_offset = 0
    <3>1. pc' = "terminate" /\ result'.outcome = "Stopped" /\ result'.stop_address = 0
      BY <1>1, <1>3, <2>2 DEF Start, Result
    <3>2. Abstract!StopAtEntry
      BY <2>1, <2>2, <3>1 DEF Concluded, Admitted, Abstract!StopAtEntry
    <3> QED
      BY <3>2 DEF Abstract!Next
  <2>3. CASE request.stop_offset # 0
    BY <1>3, <2>1, <2>3 DEF Start, Concluded, Abstract!vars
  <2> QED
    BY <2>2, <2>3
<1>4. Looping => ~Concluded /\ Admitted /\ request.stop_offset # 0 /\ previous_rip = Position(steps)
  <2> SUFFICES ASSUME Looping
               PROVE  ~Concluded /\ Admitted /\ request.stop_offset # 0
                      /\ previous_rip = Position(steps)
    OBVIOUS
  <2> QED
    BY DEF Looping, Concluded, RunInv, LoopInv, Admitted
<1>5. CASE StopAtBreakpoint
  <2>1. /\ Looping /\ UNCHANGED <<request, steps>> /\ pc' = "terminate"
        /\ result'.outcome = "Stopped" /\ result'.stop_address = previous_rip
        /\ previous_rip \in request.int3
    BY <1>1, <1>5 DEF StopAtBreakpoint, breakpoint_trap, is_software_breakpoint, Looping, Result
  <2>2. Abstract!Breakpoint
    BY <1>4, <2>1 DEF Concluded, Admitted, Abstract!Breakpoint
  <2> QED
    BY <2>2 DEF Abstract!Next
<1>6. CASE RecordFault
  <2>1. /\ Looping /\ UNCHANGED request /\ pc' \in {"continue", "terminate"}
        /\ steps' = Append(steps, [rip |-> rip, next |-> rip, faulted |-> TRUE])
        /\ result'.outcome = "Faulted" /\ result'.stop_address = rip
    BY <1>1, <1>6 DEF RecordFault, Looping, Result
  <2>2. Abstract!Fault(rip)
    BY <1>4, <2>1 DEF Concluded, Admitted, Abstract!Fault
  <2> QED
    BY <1>1, <2>2 DEF Abstract!Next
<1>7. CASE RecordStep
  <2> DEFINE verdict == after_step(rip, Len(steps) + 1)
  <2>1. /\ Looping /\ UNCHANGED request
        /\ steps' = Append(steps, [rip |-> Position(steps), next |-> rip, faulted |-> FALSE])
    BY <1>4, <1>7 DEF RecordStep, Looping
  <2>2. \/ /\ verdict = "target" /\ pc' = "terminate"
           /\ result'.outcome = "Stopped" /\ result'.stop_address = rip
        \/ /\ verdict = "left" /\ pc' = "terminate"
           /\ result'.outcome = "Finished" /\ result'.stop_address = result.stop_address
        \/ /\ verdict = "cap" /\ pc' = "terminate"
           /\ result'.outcome = "AbortedCap" /\ result'.stop_address = result.stop_address
        \/ verdict = "go" /\ pc' = "single_step" /\ result' = result
    BY <1>1, <1>7 DEF RecordStep, after_step, Result
  <2>3. Len(steps) + 1 <= EffectiveMaxSteps(request) /\ Len(steps) \in Nat
    BY <1>1, <2>1, CapPositive DEF RunInv, LoopInv, Open
  <2>4. /\ verdict = "target" => HasTarget(request) /\ rip = request.stop_offset
        /\ verdict # "target" => ~(HasTarget(request) /\ rip = request.stop_offset)
        /\ verdict = "left" => ~InCode(request, rip)
        /\ verdict = "cap" => InCode(request, rip) /\ Len(steps) + 1 = EffectiveMaxSteps(request)
        /\ verdict = "go" => InCode(request, rip) /\ Len(steps) + 1 < EffectiveMaxSteps(request)
    BY <1>1, <2>3, CapPositive DEF after_step
  <2>5. ~Concluded /\ Admitted /\ request.stop_offset # 0
    BY <1>4, <2>1
  <2> HIDE DEF verdict
  <2>6. CASE verdict = "target"
    <3>1. Abstract!Complete(rip)
      BY <2>1, <2>2, <2>4, <2>5, <2>6 DEF Concluded, Admitted, Abstract!Complete
    <3> QED
      BY <1>1, <3>1 DEF Abstract!Next
  <2>7. CASE verdict = "left"
    <3>1. Abstract!Complete(rip)
      BY <2>1, <2>2, <2>4, <2>5, <2>7 DEF Concluded, Admitted, Abstract!Complete
    <3> QED
      BY <1>1, <3>1 DEF Abstract!Next
  <2>8. CASE verdict = "cap"
    <3>1. Abstract!Complete(rip)
      BY <2>1, <2>2, <2>4, <2>5, <2>8 DEF Concluded, Admitted, Abstract!Complete
    <3> QED
      BY <1>1, <3>1 DEF Abstract!Next
  <2>9. CASE verdict = "go"
    <3>1. Abstract!Complete(rip)
      BY <2>1, <2>2, <2>4, <2>5, <2>9 DEF Concluded, Admitted, Abstract!Complete
    <3> QED
      BY <1>1, <3>1 DEF Abstract!Next
  <2> QED
    BY <2>2, <2>6, <2>7, <2>8, <2>9
<1> QED
  <2>1. TypeInv /\ TypeInv'
    BY DEF RunInv
  <2> QED
    BY <1>2, <1>3, <1>5, <1>6, <1>7, <2>1, QuietActions, QuietRefines
       DEF Next, Tracer, Done, Abstract!Next

\* A Linux run implements PlatformRun, for every input and cap, as long as the
\* tracer itself is not killed: kills of the worker, stray signals and failing
\* system calls included.
THEOREM LinuxImplementsPlatformRun ==
    ASSUME TracerDeath = FALSE PROVE Spec => ImplementsPlatformRun
<1>1. Init => Abstract!Init
  BY SameVocabulary DEF Init, Concluded, Abstract!Init
<1>2. RunInv /\ RunInv' /\ [Next]_vars => [Abstract!Next]_(Abstract!vars)
  BY StepRefines
<1> QED
  BY <1>1, <1>2, RunInit, RunStep, PTL DEF Spec, ImplementsPlatformRun, Abstract!Spec

-----------------------------------------------------------------------------
(* Tracer and worker: the inductive invariant.                             *)

\* The tracer's ends of the pipe.
DescriptorInv ==
    /\ pc \in {"prepare", "pipe", "returned", "dead"} => ~reader
    /\ pc \notin {"fork", "close_writer"} => ~writer

Gone == child \in {"zombie", "reaped"}

\* Where the worker can be while the tracer is at some point.
StageInv ==
    /\ pc \in {"prepare", "pipe", "fork"} => child = "none"
    /\ pc \in {"close_writer", "read_ready"} =>
         child \in {"forked", "setup", "ready", "raising", "refused", "failing", "stopped"} \/ Gone
    /\ pc = "wait_ready" => child \in {"raising", "refused", "failing", "stopped"} \/ Gone
    /\ pc \in {"set_options", "seed", "start", "single_step", "inspect", "continue"} =>
         child = "stopped" \/ Gone
    /\ pc = "wait_step" => child \in {"running", "blocked", "stopped"} \/ Gone
    /\ pc \in {"poll", "terminate"} => child \in {"handler", "stopped"} \/ Gone

\* A worker that reported an error does not raise SIGSTOP; only a signal from
\* outside can stop it before it exits.
Refusing(error) ==
    error # "None" => child # "raising" /\ (child = "stopped" => AsyncSignals)

Memory == stop.signal \in {"SEGV", "BUS"}

\* At most one record is in the pipe, of the kind that is read next, and the
\* fault report is about the stop that the tracer has recorded.
PipeInv ==
    /\ pc \in {"prepare", "pipe", "fork"} => pipe = <<>>
    /\ pc \in {"close_writer", "read_ready"} =>
         \/ pipe = <<>>
         \/ /\ child \notin {"forked", "setup", "ready"}
            /\ \E error \in ChildError \cup {"None"} : pipe = <<Ready(error)>> /\ Refusing(error)
    /\ pc = "wait_ready" => pipe = <<>> /\ Refusing(ready)
    /\ pc \in {"set_options", "seed", "start", "single_step", "wait_step", "inspect",
               "continue"} => pipe = <<>>
    /\ pc = "poll" =>
         \/ pipe = <<>>
         \/ pipe = <<Report(stop.cause)>> /\ Memory /\ Gone

\* The access of a fault is unknown until a report is read, and then the stop
\* cannot change any more.
AccessInv ==
    /\ result.fault_access \in {"Read", "Write", "Execute"} =>
         /\ pc \in {"terminate", "returned", "dead"}
         /\ result.outcome = "Faulted" /\ Memory /\ result.fault_access = stop.cause /\ Gone
    /\ pc \in {"continue", "poll"} => result.outcome = "Faulted"
    /\ pc = "continue" => Memory
    /\ pc = "poll" /\ child = "handler" => Memory

\* The worker's pid is the tracer's until the worker is waited for.
ReapInv ==
    /\ child = "reaped" =>
         \/ autoreap \/ pc \in {"returned", "dead"}
         \/ pc = "terminate" /\ result.outcome = "Error"
    /\ stray_kill => pc = "returned" /\ (result.outcome = "Error" \/ autoreap)
    /\ NothingLeaks

\* PTRACE_O_EXITKILL precedes the seed.
ExitKillInv ==
    /\ pc = "seed" \/ seeded => exitkill
    /\ exitkill /\ pc = "dead" => ~Alive

\* Steps and instructions agree one by one.
Matches(done, instructions) ==
    /\ Len(done) = Len(instructions)
    /\ \A i \in 1 .. Len(done) : done[i].rip = instructions[i]

\* The worker stands stopped after an instruction that is not recorded yet.
StepPending == child = "stopped" /\ completed_trap /\ ~breakpoint_trap

Pending == [rip |-> previous_rip, next |-> rip, faulted |-> FALSE]

\* The record follows what the worker executes, one instruction behind while a
\* completed one is being looked at.
ExecutionInv ==
    /\ Before => executed = <<>>
    /\ pc = "start" => rip = 0
    /\ pc = "single_step" \/ (pc = "wait_step" /\ child \in {"running", "blocked"}) =>
         rip = previous_rip /\ Matches(steps, executed)
    /\ pc \in {"wait_step", "inspect"} /\ child = "stopped" =>
         Matches(IF StepPending THEN Append(steps, Pending) ELSE steps, executed)
    /\ Concluded /\ result.outcome # "Error" => Matches(Completed(steps), executed)

WorkerInv ==
    /\ RunInv /\ DescriptorInv /\ StageInv /\ PipeInv /\ AccessInv /\ ReapInv /\ ExitKillInv
    /\ ExecutionInv

-----------------------------------------------------------------------------
(* Each part is preserved.                                                 *)

\* A record put into an empty pipe is the only one.
LEMMA OneRecord == \A message \in Message : Append(<<>>, message) = <<message>>
  OBVIOUS

\* Every step keeps the pipe ends, the worker's stage and EXITKILL before the seed.
LEMMA ControlStep == WorkerInv /\ [Next]_vars => (DescriptorInv /\ StageInv /\ ExitKillInv)'
<1> SUFFICES ASSUME WorkerInv, [Next]_vars PROVE (DescriptorInv /\ StageInv /\ ExitKillInv)'
  OBVIOUS
<1>inv. /\ DescriptorInv /\ StageInv /\ ExitKillInv /\ PipeInv
        /\ autoreap \in BOOLEAN /\ pc \in PC /\ child \in ChildState
  BY DEF WorkerInv, RunInv, TypeInv, TypeOK
<1> USE DEF DescriptorInv, StageInv, ExitKillInv, Gone, Alive
<1>1. CASE Prepare
  BY <1>1, <1>inv DEF Prepare
<1>2. CASE OpenPipe
  BY <1>2, <1>inv DEF OpenPipe
<1>3. CASE Fork
  BY <1>3, <1>inv DEF Fork
<1>4. CASE CloseWriter
  BY <1>4, <1>inv DEF CloseWriter, childVars
<1>5. CASE ReadReady
  BY <1>5, <1>inv DEF ReadReady, Fail, childVars, EndOfFile, PipeInv, Ready
<1>6. CASE WaitReady
  BY <1>6, <1>inv DEF WaitReady, Fail
<1>7. CASE SetOptions
  BY <1>7, <1>inv DEF SetOptions, Fail, childVars
<1>8. CASE Seed
  BY <1>8, <1>inv DEF Seed, Fail
<1>9. CASE Start
  BY <1>9, <1>inv DEF Start, childVars
<1>10. CASE SingleStep
  BY <1>10, <1>inv DEF SingleStep, Fail
<1>11. CASE WaitStep
  BY <1>11, <1>inv DEF WaitStep, Fail
<1>12. CASE InspectFails
  BY <1>12, <1>inv DEF InspectFails, Fail, childVars
<1>13. CASE StopAtBreakpoint
  BY <1>13, <1>inv DEF StopAtBreakpoint, childVars
<1>14. CASE RecordFault
  BY <1>14, <1>inv DEF RecordFault, childVars
<1>15. CASE RecordStep
  BY <1>15, <1>inv DEF RecordStep, childVars
<1>16. CASE ContinueWithSignal
  BY <1>16, <1>inv DEF ContinueWithSignal, tracerVars
<1>17. CASE PollReport
  BY <1>17, <1>inv DEF PollReport, childVars
<1>18. CASE PollGivesUp
  BY <1>18, <1>inv DEF PollGivesUp, childVars, tracerVars
<1>19. CASE Terminate
  BY <1>19, <1>inv DEF Terminate
<1>20. CASE ChildTraceMe
  BY <1>20, <1>inv DEF ChildTraceMe, ChildUnchanged, tracerVars, Send, Corpse
<1>21. CASE ChildSetup
  BY <1>21, <1>inv DEF ChildSetup, ChildUnchanged, tracerVars, Send, Corpse
<1>22. CASE ChildReady
  BY <1>22, <1>inv DEF ChildReady, ChildUnchanged, tracerVars, Send, Corpse
<1>23. CASE ChildRaise
  BY <1>23, <1>inv DEF ChildRaise, ChildUnchanged, tracerVars
<1>24. CASE ChildExit
  BY <1>24, <1>inv DEF ChildExit, ChildUnchanged, tracerVars, Corpse
<1>25. CASE UserCompletes
  BY <1>25, <1>inv DEF UserCompletes, ChildUnchanged, tracerVars, Trap
<1>26. CASE UserBreaks
  BY <1>26, <1>inv DEF UserBreaks, ChildUnchanged, tracerVars, Trap
<1>27. CASE UserFaults
  BY <1>27, <1>inv DEF UserFaults, ChildUnchanged, tracerVars, Trap
<1>28. CASE UserExits
  BY <1>28, <1>inv DEF UserExits, ChildUnchanged, tracerVars, Corpse
<1>29. CASE UserBlocks
  BY <1>29, <1>inv DEF UserBlocks, ChildUnchanged, tracerVars
<1>30. CASE FaultHandler
  BY <1>30, <1>inv DEF FaultHandler, ChildUnchanged, tracerVars, Send, Corpse
<1>31. CASE ExternalKill
  BY <1>31, <1>inv DEF ExternalKill, ChildUnchanged, tracerVars, Corpse
<1>32. CASE AsyncSignal
  BY <1>32, <1>inv DEF AsyncSignal, ChildUnchanged, tracerVars, Trap, Traced
<1>33. CASE TracerDies
  BY <1>33, <1>inv DEF TracerDies, Corpse
<1>34. CASE UNCHANGED vars
  BY <1>34, <1>inv DEF vars
<1> QED
  BY <1>1, <1>2, <1>3, <1>4, <1>5, <1>6, <1>7, <1>8, <1>9, <1>10, <1>11, <1>12, <1>13,
     <1>14, <1>15, <1>16, <1>17, <1>18, <1>19, <1>20, <1>21, <1>22, <1>23, <1>24, <1>25,
     <1>26, <1>27, <1>28, <1>29, <1>30, <1>31, <1>32, <1>33, <1>34
     DEF Next, Tracer, Worker, Environment, Done

\* Every step keeps what is in the pipe to what is read next.
LEMMA PipeStep == WorkerInv /\ [Next]_vars => PipeInv'
<1> SUFFICES ASSUME WorkerInv, [Next]_vars PROVE PipeInv'
  OBVIOUS
<1>inv. /\ DescriptorInv /\ StageInv /\ AccessInv /\ PipeInv
        /\ autoreap \in BOOLEAN /\ pc \in PC /\ child \in ChildState /\ pipe \in Seq(Message)
  BY DEF WorkerInv, RunInv, TypeInv, TypeOK
<1> USE DEF DescriptorInv, StageInv, PipeInv, Refusing, Gone
<1>1. CASE Prepare
  BY <1>1, <1>inv DEF Prepare
<1>2. CASE OpenPipe
  BY <1>2, <1>inv DEF OpenPipe
<1>3. CASE Fork
  BY <1>3, <1>inv DEF Fork
<1>4. CASE CloseWriter
  BY <1>4, <1>inv DEF CloseWriter, childVars
<1>5. CASE ReadReady
  BY <1>5, <1>inv DEF ReadReady, Fail, childVars, EndOfFile, Ready
<1>6. CASE WaitReady
  BY <1>6, <1>inv DEF WaitReady, Fail
<1>7. CASE SetOptions
  BY <1>7, <1>inv DEF SetOptions, Fail, childVars
<1>8. CASE Seed
  BY <1>8, <1>inv DEF Seed, Fail
<1>9. CASE Start
  BY <1>9, <1>inv DEF Start, childVars
<1>10. CASE SingleStep
  BY <1>10, <1>inv DEF SingleStep, Fail
<1>11. CASE WaitStep
  BY <1>11, <1>inv DEF WaitStep, Fail
<1>12. CASE InspectFails
  BY <1>12, <1>inv DEF InspectFails, Fail, childVars
<1>13. CASE StopAtBreakpoint
  BY <1>13, <1>inv DEF StopAtBreakpoint, childVars
<1>14. CASE RecordFault
  BY <1>14, <1>inv DEF RecordFault, childVars
<1>15. CASE RecordStep
  BY <1>15, <1>inv DEF RecordStep, childVars
<1>16. CASE ContinueWithSignal
  BY <1>16, <1>inv DEF ContinueWithSignal, tracerVars
<1>17. CASE PollReport
  BY <1>17, <1>inv DEF PollReport, childVars
<1>18. CASE PollGivesUp
  BY <1>18, <1>inv DEF PollGivesUp, childVars, tracerVars
<1>19. CASE Terminate
  BY <1>19, <1>inv DEF Terminate
<1>20. CASE ChildTraceMe
  <2>1. CASE pipe' = pipe
    BY <1>20, <1>inv, <2>1 DEF ChildTraceMe, ChildUnchanged, tracerVars, Send, Corpse, Memory
  <2>2. CASE pipe' # pipe
    <3>1. PICK error \in ChildError \cup {"None"} :
            /\ pipe' = Append(pipe, Ready(error)) /\ child' = "refused"
            /\ error # "None"
      BY <1>20, <2>2 DEF ChildTraceMe, Send, ChildError
    <3>2. pipe = <<>> => pipe' = <<Ready(error)>>
      BY <3>1, OneRecord, MessageType
    <3> QED
      BY <1>20, <1>inv, <3>1, <3>2 DEF ChildTraceMe, ChildUnchanged, tracerVars
  <2> QED
    BY <2>1, <2>2
<1>21. CASE ChildSetup
  <2>1. CASE pipe' = pipe
    BY <1>21, <1>inv, <2>1 DEF ChildSetup, ChildUnchanged, tracerVars, Send, Corpse, Memory
  <2>2. CASE pipe' # pipe
    <3>1. PICK error \in ChildError \cup {"None"} :
            /\ pipe' = Append(pipe, Ready(error)) /\ child' = "failing"
            /\ error # "None"
      BY <1>21, <2>2 DEF ChildSetup, Send, ChildError
    <3>2. pipe = <<>> => pipe' = <<Ready(error)>>
      BY <3>1, OneRecord, MessageType
    <3> QED
      BY <1>21, <1>inv, <3>1, <3>2 DEF ChildSetup, ChildUnchanged, tracerVars
  <2> QED
    BY <2>1, <2>2
<1>22. CASE ChildReady
  <2>1. CASE pipe' = pipe
    BY <1>22, <1>inv, <2>1 DEF ChildReady, ChildUnchanged, tracerVars, Send, Corpse, Memory
  <2>2. CASE pipe' # pipe
    <3>1. PICK error \in ChildError \cup {"None"} :
            /\ pipe' = Append(pipe, Ready(error)) /\ child' = "raising"
            /\ error = "None"
      BY <1>22, <2>2 DEF ChildReady, Send, ChildError
    <3>2. pipe = <<>> => pipe' = <<Ready(error)>>
      BY <3>1, OneRecord, MessageType
    <3> QED
      BY <1>22, <1>inv, <3>1, <3>2 DEF ChildReady, ChildUnchanged, tracerVars
  <2> QED
    BY <2>1, <2>2
<1>23. CASE ChildRaise
  BY <1>23, <1>inv DEF ChildRaise, ChildUnchanged, tracerVars
<1>24. CASE ChildExit
  BY <1>24, <1>inv DEF ChildExit, ChildUnchanged, tracerVars, Corpse
<1>25. CASE UserCompletes
  BY <1>25, <1>inv DEF UserCompletes, ChildUnchanged, tracerVars, Trap
<1>26. CASE UserBreaks
  BY <1>26, <1>inv DEF UserBreaks, ChildUnchanged, tracerVars, Trap
<1>27. CASE UserFaults
  BY <1>27, <1>inv DEF UserFaults, ChildUnchanged, tracerVars, Trap
<1>28. CASE UserExits
  BY <1>28, <1>inv DEF UserExits, ChildUnchanged, tracerVars, Corpse
<1>29. CASE UserBlocks
  BY <1>29, <1>inv DEF UserBlocks, ChildUnchanged, tracerVars
<1>30. CASE FaultHandler
  <2>1. UNCHANGED <<pc, stop, ready>> /\ child = "handler"
    BY <1>30 DEF FaultHandler, ChildUnchanged, tracerVars
  <2>2. child' \in {"zombie", "reaped"}
    BY <1>30 DEF FaultHandler, Send, Corpse
  <2>3. CASE pc = "poll"
    <3>1. pipe = <<>> /\ Memory
      BY <1>inv, <2>1, <2>3 DEF AccessInv
    <3>2. pipe' = pipe \/ pipe' = Append(pipe, Report(stop.cause))
      BY <1>30 DEF FaultHandler, Send
    <3>3. stop.cause \in Cause
      BY DEF WorkerInv, RunInv, TypeInv, TypeOK, Stop
    <3>4. pipe' = <<>> \/ pipe' = <<Report(stop'.cause)>>
      BY <2>1, <3>1, <3>2, <3>3, OneRecord, MessageType
    <3> QED
      BY <2>1, <2>2, <2>3, <3>1, <3>4 DEF Memory
  <2>4. CASE pc # "poll"
    BY <1>inv, <2>1, <2>4
  <2> QED
    BY <2>3, <2>4
<1>31. CASE ExternalKill
  BY <1>31, <1>inv DEF ExternalKill, Alive, ChildUnchanged, tracerVars, Corpse, Memory
<1>32. CASE AsyncSignal
  BY <1>32, <1>inv DEF AsyncSignal, ChildUnchanged, tracerVars, Trap, Traced
<1>33. CASE TracerDies
  BY <1>33, <1>inv DEF TracerDies, Corpse
<1>34. CASE UNCHANGED vars
  BY <1>34, <1>inv DEF vars, Memory
<1> QED
  BY <1>1, <1>2, <1>3, <1>4, <1>5, <1>6, <1>7, <1>8, <1>9, <1>10, <1>11, <1>12, <1>13,
     <1>14, <1>15, <1>16, <1>17, <1>18, <1>19, <1>20, <1>21, <1>22, <1>23, <1>24, <1>25,
     <1>26, <1>27, <1>28, <1>29, <1>30, <1>31, <1>32, <1>33, <1>34
     DEF Next, Tracer, Worker, Environment, Done

\* Every step keeps the reported access to the stop that was recorded.
LEMMA AccessStep == WorkerInv /\ [Next]_vars => AccessInv'
<1> SUFFICES ASSUME WorkerInv, [Next]_vars PROVE AccessInv'
  OBVIOUS
<1>inv. /\ StageInv /\ AccessInv /\ PipeInv
        /\ autoreap \in BOOLEAN /\ pc \in PC /\ child \in ChildState /\ result \in Result
  BY DEF WorkerInv, RunInv, TypeInv, TypeOK
<1> USE DEF StageInv, AccessInv, Gone, Memory, Result
<1>1. CASE Prepare
  BY <1>1, <1>inv DEF Prepare, Conclude
<1>2. CASE OpenPipe
  BY <1>2, <1>inv DEF OpenPipe, Conclude
<1>3. CASE Fork
  BY <1>3, <1>inv DEF Fork, Conclude
<1>4. CASE CloseWriter
  BY <1>4, <1>inv DEF CloseWriter, childVars
<1>5. CASE ReadReady
  BY <1>5, <1>inv DEF ReadReady, Fail, childVars, Conclude
<1>6. CASE WaitReady
  BY <1>6, <1>inv DEF WaitReady, Fail, Conclude
<1>7. CASE SetOptions
  BY <1>7, <1>inv DEF SetOptions, Fail, childVars, Conclude
<1>8. CASE Seed
  BY <1>8, <1>inv DEF Seed, Fail, Conclude
<1>9. CASE Start
  BY <1>9, <1>inv DEF Start, childVars
<1>10. CASE SingleStep
  BY <1>10, <1>inv DEF SingleStep, Fail, Conclude
<1>11. CASE WaitStep
  BY <1>11, <1>inv DEF WaitStep, Fail, Conclude
<1>12. CASE InspectFails
  BY <1>12, <1>inv DEF InspectFails, Fail, childVars, Conclude
<1>13. CASE StopAtBreakpoint
  BY <1>13, <1>inv DEF StopAtBreakpoint, childVars
<1>14. CASE RecordFault
  BY <1>14, <1>inv DEF RecordFault, childVars
<1>15. CASE RecordStep
  BY <1>15, <1>inv DEF RecordStep, childVars, after_step
<1>16. CASE ContinueWithSignal
  BY <1>16, <1>inv DEF ContinueWithSignal, tracerVars
<1>17. CASE PollReport
  BY <1>17, <1>inv DEF PollReport, childVars, PipeInv, Report, classify_fault_access
<1>18. CASE PollGivesUp
  BY <1>18, <1>inv DEF PollGivesUp, childVars, tracerVars
<1>19. CASE Terminate
  BY <1>19, <1>inv DEF Terminate
<1>20. CASE ChildTraceMe
  BY <1>20, <1>inv DEF ChildTraceMe, ChildUnchanged, tracerVars, Send, Corpse
<1>21. CASE ChildSetup
  BY <1>21, <1>inv DEF ChildSetup, ChildUnchanged, tracerVars, Send, Corpse
<1>22. CASE ChildReady
  BY <1>22, <1>inv DEF ChildReady, ChildUnchanged, tracerVars, Send, Corpse
<1>23. CASE ChildRaise
  BY <1>23, <1>inv DEF ChildRaise, ChildUnchanged, tracerVars
<1>24. CASE ChildExit
  BY <1>24, <1>inv DEF ChildExit, ChildUnchanged, tracerVars, Corpse
<1>25. CASE UserCompletes
  BY <1>25, <1>inv DEF UserCompletes, ChildUnchanged, tracerVars, Trap
<1>26. CASE UserBreaks
  BY <1>26, <1>inv DEF UserBreaks, ChildUnchanged, tracerVars, Trap
<1>27. CASE UserFaults
  BY <1>27, <1>inv DEF UserFaults, ChildUnchanged, tracerVars, Trap
<1>28. CASE UserExits
  BY <1>28, <1>inv DEF UserExits, ChildUnchanged, tracerVars, Corpse
<1>29. CASE UserBlocks
  BY <1>29, <1>inv DEF UserBlocks, ChildUnchanged, tracerVars
<1>30. CASE FaultHandler
  BY <1>30, <1>inv DEF FaultHandler, ChildUnchanged, tracerVars, Send, Corpse, PipeInv
<1>31. CASE ExternalKill
  BY <1>31, <1>inv DEF ExternalKill, ChildUnchanged, tracerVars, Corpse, Alive
<1>32. CASE AsyncSignal
  BY <1>32, <1>inv DEF AsyncSignal, ChildUnchanged, tracerVars, Trap, Traced
<1>33. CASE TracerDies
  BY <1>33, <1>inv DEF TracerDies, Corpse, Alive
<1>34. CASE UNCHANGED vars
  BY <1>34, <1>inv DEF vars
<1> QED
  BY <1>1, <1>2, <1>3, <1>4, <1>5, <1>6, <1>7, <1>8, <1>9, <1>10, <1>11, <1>12, <1>13,
     <1>14, <1>15, <1>16, <1>17, <1>18, <1>19, <1>20, <1>21, <1>22, <1>23, <1>24, <1>25,
     <1>26, <1>27, <1>28, <1>29, <1>30, <1>31, <1>32, <1>33, <1>34
     DEF Next, Tracer, Worker, Environment, Done

\* Every step keeps the pid the tracer's own, and returns with nothing left.
LEMMA ReapStep == WorkerInv /\ [Next]_vars => ReapInv'
<1> SUFFICES ASSUME WorkerInv, [Next]_vars PROVE ReapInv'
  OBVIOUS
<1>inv. /\ DescriptorInv /\ StageInv /\ AccessInv /\ PipeInv /\ ReapInv
        /\ autoreap \in BOOLEAN /\ pc \in PC /\ child \in ChildState /\ result \in Result
  BY DEF WorkerInv, RunInv, TypeInv, TypeOK
<1> USE DEF DescriptorInv, StageInv, ReapInv, NothingLeaks, Gone, Result
<1>1. CASE Prepare
  BY <1>1, <1>inv DEF Prepare, Conclude
<1>2. CASE OpenPipe
  BY <1>2, <1>inv DEF OpenPipe, Conclude
<1>3. CASE Fork
  BY <1>3, <1>inv DEF Fork, Conclude
<1>4. CASE CloseWriter
  BY <1>4, <1>inv DEF CloseWriter, childVars
<1>5. CASE ReadReady
  BY <1>5, <1>inv DEF ReadReady, Fail, childVars, Conclude
<1>6. CASE WaitReady
  BY <1>6, <1>inv DEF WaitReady, Fail, Conclude, PipeInv, Refusing
<1>7. CASE SetOptions
  BY <1>7, <1>inv DEF SetOptions, Fail, childVars, Conclude
<1>8. CASE Seed
  BY <1>8, <1>inv DEF Seed, Fail, Conclude
<1>9. CASE Start
  BY <1>9, <1>inv DEF Start, childVars
<1>10. CASE SingleStep
  BY <1>10, <1>inv DEF SingleStep, Fail, Conclude
<1>11. CASE WaitStep
  BY <1>11, <1>inv DEF WaitStep, Fail, Conclude
<1>12. CASE InspectFails
  BY <1>12, <1>inv DEF InspectFails, Fail, childVars, Conclude
<1>13. CASE StopAtBreakpoint
  BY <1>13, <1>inv DEF StopAtBreakpoint, childVars
<1>14. CASE RecordFault
  BY <1>14, <1>inv DEF RecordFault, childVars
<1>15. CASE RecordStep
  BY <1>15, <1>inv DEF RecordStep, childVars, after_step
<1>16. CASE ContinueWithSignal
  BY <1>16, <1>inv DEF ContinueWithSignal, tracerVars
<1>17. CASE PollReport
  BY <1>17, <1>inv DEF PollReport, childVars
<1>18. CASE PollGivesUp
  BY <1>18, <1>inv DEF PollGivesUp, childVars, tracerVars
<1>19. CASE Terminate
  BY <1>19, <1>inv DEF Terminate
<1>20. CASE ChildTraceMe
  BY <1>20, <1>inv DEF ChildTraceMe, ChildUnchanged, tracerVars, Send, Corpse
<1>21. CASE ChildSetup
  BY <1>21, <1>inv DEF ChildSetup, ChildUnchanged, tracerVars, Send, Corpse
<1>22. CASE ChildReady
  BY <1>22, <1>inv DEF ChildReady, ChildUnchanged, tracerVars, Send, Corpse
<1>23. CASE ChildRaise
  BY <1>23, <1>inv DEF ChildRaise, ChildUnchanged, tracerVars
<1>24. CASE ChildExit
  BY <1>24, <1>inv DEF ChildExit, ChildUnchanged, tracerVars, Corpse
<1>25. CASE UserCompletes
  BY <1>25, <1>inv DEF UserCompletes, ChildUnchanged, tracerVars, Trap
<1>26. CASE UserBreaks
  BY <1>26, <1>inv DEF UserBreaks, ChildUnchanged, tracerVars, Trap
<1>27. CASE UserFaults
  BY <1>27, <1>inv DEF UserFaults, ChildUnchanged, tracerVars, Trap
<1>28. CASE UserExits
  BY <1>28, <1>inv DEF UserExits, ChildUnchanged, tracerVars, Corpse
<1>29. CASE UserBlocks
  BY <1>29, <1>inv DEF UserBlocks, ChildUnchanged, tracerVars
<1>30. CASE FaultHandler
  BY <1>30, <1>inv DEF FaultHandler, ChildUnchanged, tracerVars, Send, Corpse
<1>31. CASE ExternalKill
  BY <1>31, <1>inv DEF ExternalKill, ChildUnchanged, tracerVars, Corpse, Alive
<1>32. CASE AsyncSignal
  BY <1>32, <1>inv DEF AsyncSignal, ChildUnchanged, tracerVars, Trap, Traced
<1>33. CASE TracerDies
  BY <1>33, <1>inv DEF TracerDies, Corpse, Alive
<1>34. CASE UNCHANGED vars
  BY <1>34, <1>inv DEF vars
<1> QED
  BY <1>1, <1>2, <1>3, <1>4, <1>5, <1>6, <1>7, <1>8, <1>9, <1>10, <1>11, <1>12, <1>13,
     <1>14, <1>15, <1>16, <1>17, <1>18, <1>19, <1>20, <1>21, <1>22, <1>23, <1>24, <1>25,
     <1>26, <1>27, <1>28, <1>29, <1>30, <1>31, <1>32, <1>33, <1>34
     DEF Next, Tracer, Worker, Environment, Done


\* Nothing recorded, nothing executed.
LEMMA MatchesEmpty == Matches(Completed(<<>>), <<>>) /\ Matches(<<>>, <<>>)
<1>1. Completed(<<>>) = <<>>
  <2>1. <<>> \in Seq(PlatformStep) /\ \A i \in 1 .. Len(<<>>) : ~<<>>[i].faulted
    OBVIOUS
  <2> QED
    BY <2>1, CompletedAll
<1> QED
  BY <1>1 DEF Matches

\* One more step for one more instruction.
LEMMA MatchesNext ==
    ASSUME NEW done \in Seq(PlatformStep), NEW instructions \in Seq(Address),
           NEW step \in PlatformStep, Matches(done, instructions)
    PROVE  Matches(Append(done, step), Append(instructions, step.rip))
  BY DEF Matches, PlatformStep

\* Every step keeps the record and the worker's execution together.
LEMMA ExecutionStep == WorkerInv /\ [Next]_vars => ExecutionInv'
<1> SUFFICES ASSUME WorkerInv, [Next]_vars PROVE ExecutionInv'
  OBVIOUS
<1>inv. /\ StageInv /\ ExecutionInv
        /\ autoreap \in BOOLEAN /\ pc \in PC /\ child \in ChildState /\ result \in Result
  BY DEF WorkerInv, RunInv, TypeInv, TypeOK
<1>types. /\ steps \in Seq(PlatformStep) /\ executed \in Seq(Address)
          /\ rip \in Address /\ rip' \in Address /\ previous_rip \in Address
          /\ request \in Request /\ BreakpointsInCode
          /\ Looping => Open(request, steps)
  BY RunStep DEF WorkerInv, RunInv, LoopInv, TypeInv, TypeOK
<1> USE DEF StageInv, ExecutionInv, Gone, Result, Before, Concluded
<1>1. CASE Prepare
  <2>1. steps = <<>> /\ Matches(Completed(steps), executed)
    BY <1>1, <1>inv, MatchesEmpty DEF Prepare, WorkerInv, RunInv, LoopInv
  <2> QED
    BY <1>1, <1>inv, <2>1 DEF Prepare
<1>2. CASE OpenPipe
  BY <1>2, <1>inv DEF OpenPipe, Conclude
<1>3. CASE Fork
  BY <1>3, <1>inv DEF Fork, Conclude
<1>4. CASE CloseWriter
  BY <1>4, <1>inv DEF CloseWriter, childVars
<1>5. CASE ReadReady
  BY <1>5, <1>inv DEF ReadReady, Fail, childVars, Conclude
<1>6. CASE WaitReady
  BY <1>6, <1>inv DEF WaitReady, Fail, Conclude
<1>7. CASE SetOptions
  BY <1>7, <1>inv DEF SetOptions, Fail, childVars, Conclude
<1>8. CASE Seed
  BY <1>8, <1>inv DEF Seed, Fail, Conclude
<1>9. CASE Start
  <2>1. steps = <<>> /\ Matches(Completed(steps), executed) /\ Matches(steps, executed)
    BY <1>9, <1>inv, MatchesEmpty DEF Start, WorkerInv, RunInv, LoopInv
  <2> QED
    BY <1>9, <1>inv, <2>1 DEF Start, childVars
<1>10. CASE SingleStep
  BY <1>10, <1>inv DEF SingleStep, Fail, Conclude
<1>11. CASE WaitStep
  BY <1>11, <1>inv DEF WaitStep, Fail, Conclude, StepPending, Pending, completed_trap,
     breakpoint_trap, single_step_trap, breakpoint_signal, is_software_breakpoint
<1>12. CASE InspectFails
  BY <1>12, <1>inv DEF InspectFails, Fail, childVars, Conclude
<1>13. CASE StopAtBreakpoint
  <2>1. Completed(steps) = steps
    BY <1>13, <1>types, CompletedAll DEF StopAtBreakpoint, Looping, Open
  <2>2. Matches(steps, executed)
    BY <1>13, <1>inv DEF StopAtBreakpoint, StepPending
  <2> QED
    BY <1>13, <1>inv, <2>1, <2>2 DEF StopAtBreakpoint, childVars
<1>14. CASE RecordFault
  <2> DEFINE step == [rip |-> rip, next |-> rip, faulted |-> TRUE]
  <2>1. steps' = Append(steps, step) /\ step \in PlatformStep /\ step.faulted
    BY <1>14, <1>types DEF RecordFault, PlatformStep
  <2>2. \A i \in 1 .. Len(steps) : ~steps[i].faulted
    BY <1>14, <1>types DEF RecordFault, Looping, Open
  <2> HIDE DEF step
  <2>3. Completed(steps') = steps
    BY <1>types, <2>1, <2>2, CompletedBeforeFault
  <2>4. Matches(steps, executed) /\ executed' = executed
    BY <1>14, <1>inv DEF RecordFault, StepPending, childVars
  <2> QED
    BY <1>14, <1>inv, <2>3, <2>4 DEF RecordFault, childVars
<1>15. CASE RecordStep
  <2>1. steps' = Append(steps, Pending) /\ Pending \in PlatformStep /\ ~Pending.faulted
    BY <1>15, <1>types DEF RecordStep, Pending, PlatformStep
  <2>2. \A i \in 1 .. Len(steps) : ~steps[i].faulted
    BY <1>15, <1>types DEF RecordStep, Looping, Open
  <2>3. /\ steps' \in Seq(PlatformStep) /\ Len(steps') = Len(steps) + 1
        /\ \A i \in 1 .. Len(steps) : steps'[i] = steps[i]
        /\ steps'[Len(steps) + 1] = Pending
    BY <1>types, <2>1, AppendedStep
  <2>4. \A i \in 1 .. Len(steps') : ~steps'[i].faulted
    BY <1>types, <2>1, <2>2, <2>3
  <2>5. Completed(steps') = steps'
    BY <2>3, <2>4, CompletedAll
  <2>6. Matches(steps', executed) /\ executed' = executed /\ rip' = rip
    BY <1>15, <1>inv, <2>1 DEF RecordStep, StepPending, childVars
  <2>7. \/ pc' = "terminate"
        \/ pc' = "single_step" /\ previous_rip' = rip
    BY <1>15 DEF RecordStep
  <2> QED
    BY <2>5, <2>6, <2>7
<1>16. CASE ContinueWithSignal
  BY <1>16, <1>inv DEF ContinueWithSignal, tracerVars
<1>17. CASE PollReport
  BY <1>17, <1>inv DEF PollReport, childVars
<1>18. CASE PollGivesUp
  BY <1>18, <1>inv DEF PollGivesUp, childVars, tracerVars
<1>19. CASE Terminate
  BY <1>19, <1>inv DEF Terminate
<1>20. CASE ChildTraceMe
  BY <1>20, <1>inv DEF ChildTraceMe, ChildUnchanged, tracerVars, Send, Corpse
<1>21. CASE ChildSetup
  BY <1>21, <1>inv DEF ChildSetup, ChildUnchanged, tracerVars, Send, Corpse
<1>22. CASE ChildReady
  BY <1>22, <1>inv DEF ChildReady, ChildUnchanged, tracerVars, Send, Corpse
<1>23. CASE ChildRaise
  BY <1>23, <1>inv DEF ChildRaise, ChildUnchanged, tracerVars
<1>24. CASE ChildExit
  BY <1>24, <1>inv DEF ChildExit, ChildUnchanged, tracerVars, Corpse
<1>25. CASE UserCompletes
  <2>1. child = "running" /\ UNCHANGED <<pc, steps, previous_rip, request, result>>
    BY <1>25 DEF UserCompletes, ChildUnchanged, tracerVars
  <2>2. CASE pc = "wait_step"
    <3>1. rip = previous_rip /\ Matches(steps, executed) /\ rip \notin request.int3
      BY <1>25, <1>inv, <2>1, <2>2 DEF UserCompletes
    <3>2. /\ child' = "stopped" /\ executed' = Append(executed, previous_rip)
          /\ stop'.signal = "TRAP"
          /\ stop'.code = "TRACE" \/ (stop'.code = "BRKPT" /\ rip' # previous_rip)
      BY <1>25, <3>1 DEF UserCompletes, Trap
    <3>3. StepPending'
      BY <2>1, <3>1, <3>2 DEF StepPending, completed_trap, breakpoint_trap, single_step_trap,
         breakpoint_signal, is_software_breakpoint
    <3>4. Matches(Append(steps, Pending'), executed')
      <4>1. Pending' \in PlatformStep /\ Pending'.rip = previous_rip
        BY <1>types, <2>1 DEF Pending, PlatformStep
      <4> QED
        BY <1>types, <3>1, <3>2, <4>1, MatchesNext
    <3> QED
      BY <1>inv, <2>1, <2>2, <3>2, <3>3, <3>4
  <2>3. CASE pc # "wait_step"
    <3>1. pc \in {"returned", "dead"}
      BY <1>inv, <2>1, <2>3 DEF PC
    <3>2. pc = "dead"
      BY <2>1, <3>1 DEF WorkerInv, ReapInv, NothingLeaks
    <3> QED
      BY <2>1, <3>2
  <2> QED
    BY <2>2, <2>3
<1>26. CASE UserBreaks
  <2>1. /\ child = "running" /\ child' = "stopped" /\ rip \in request.int3
        /\ UNCHANGED <<pc, steps, previous_rip, request, result, executed>>
        /\ stop'.signal = "TRAP" /\ stop'.code = "BRKPT"
    BY <1>26 DEF UserBreaks, Trap, ChildUnchanged, tracerVars
  <2>2. InCode(request, rip)
    BY <1>types, <2>1 DEF BreakpointsInCode, InCode, Request
  <2>3. pc = "wait_step" => ~StepPending'
    BY <1>inv, <2>1, <2>2 DEF StepPending, breakpoint_trap, breakpoint_signal,
       is_software_breakpoint
  <2> QED
    BY <1>inv, <2>1, <2>3 DEF PC
<1>27. CASE UserFaults
  BY <1>27, <1>inv DEF UserFaults, ChildUnchanged, tracerVars, Trap, StepPending,
     completed_trap, breakpoint_trap, single_step_trap, breakpoint_signal,
     is_software_breakpoint
<1>28. CASE UserExits
  BY <1>28, <1>inv DEF UserExits, ChildUnchanged, tracerVars, Corpse
<1>29. CASE UserBlocks
  BY <1>29, <1>inv DEF UserBlocks, ChildUnchanged, tracerVars
<1>30. CASE FaultHandler
  BY <1>30, <1>inv DEF FaultHandler, ChildUnchanged, tracerVars, Send, Corpse
<1>31. CASE ExternalKill
  BY <1>31, <1>inv DEF ExternalKill, ChildUnchanged, tracerVars, Corpse, Alive
<1>32. CASE AsyncSignal
  BY <1>32, <1>inv DEF AsyncSignal, ChildUnchanged, tracerVars, Trap, Traced, StepPending,
     completed_trap, breakpoint_trap, single_step_trap, breakpoint_signal,
     is_software_breakpoint
<1>33. CASE TracerDies
  BY <1>33, <1>inv DEF TracerDies, Corpse, Alive
<1>34. CASE UNCHANGED vars
  <2>1. UNCHANGED <<StepPending, Pending>>
    BY <1>34 DEF vars, StepPending, Pending, completed_trap, breakpoint_trap, single_step_trap,
       breakpoint_signal, is_software_breakpoint
  <2> QED
    BY <1>34, <1>inv, <2>1 DEF vars
<1> QED
  BY <1>1, <1>2, <1>3, <1>4, <1>5, <1>6, <1>7, <1>8, <1>9, <1>10, <1>11, <1>12, <1>13,
     <1>14, <1>15, <1>16, <1>17, <1>18, <1>19, <1>20, <1>21, <1>22, <1>23, <1>24, <1>25,
     <1>26, <1>27, <1>28, <1>29, <1>30, <1>31, <1>32, <1>33, <1>34
     DEF Next, Tracer, Worker, Environment, Done


-----------------------------------------------------------------------------
(* Results.                                                                *)

\* The invariant holds when run_platform_steps is entered.
LEMMA WorkerInit == Init => WorkerInv
<1> SUFFICES ASSUME Init PROVE WorkerInv
  OBVIOUS
<1>1. RunInv
  BY RunInit
<1>2. DescriptorInv /\ StageInv /\ PipeInv /\ ExitKillInv
  BY DEF Init, DescriptorInv, StageInv, PipeInv, ExitKillInv
<1>3. AccessInv /\ ReapInv
  BY DEF Init, AccessInv, ReapInv, NothingLeaks
<1>4. ExecutionInv
  BY DEF Init, ExecutionInv, Concluded
<1> QED
  BY <1>1, <1>2, <1>3, <1>4 DEF WorkerInv

\* Every step of tracer, worker and environment preserves it.
LEMMA WorkerStep == WorkerInv /\ [Next]_vars => WorkerInv'
  BY RunStep, ControlStep, PipeStep, AccessStep, ReapStep, ExecutionStep DEF WorkerInv

\* Unless the run failed, the completed steps are exactly the instructions of the
\* input that the worker executed, whatever stopped or killed it on the way.
THEOREM LinuxTraceIsExecution == Spec => []TraceIsExecution
<1>1. WorkerInv => TraceIsExecution
  BY DEF WorkerInv, ExecutionInv, TraceIsExecution, Matches
<1> QED
  BY <1>1, WorkerInit, WorkerStep, PTL DEF Spec

\* Every path out of run_platform_steps closes the pipe and leaves no worker, but
\* for the stated exception, and SIGKILL goes to a reaped pid only after an error
\* or if the kernel reaps children by itself.
THEOREM LinuxEndsCleanly == Spec => []EndsCleanly
<1>1. WorkerInv => EndsCleanly
  BY DEF WorkerInv, ReapInv, EndsCleanly, StrayKillOnlyOnError
<1> QED
  BY <1>1, WorkerInit, WorkerStep, PTL DEF Spec

\* The handshake never reads a fault report and the poll never a readiness record,
\* although the records carry no tag.
THEOREM PipeRecordsMatch == Spec => []RecordsMatchReaders
<1>1. WorkerInv => RecordsMatchReaders
  <2> SUFFICES ASSUME PipeInv, pipe # <<>>
               PROVE  /\ pc = "read_ready" => Head(pipe).kind = "ready"
                      /\ pc = "poll" => Head(pipe).kind = "report"
    BY DEF WorkerInv, RecordsMatchReaders
  <2> QED
    BY DEF PipeInv, Ready, Report
<1> QED
  BY <1>1, WorkerInit, WorkerStep, PTL DEF Spec

\* A reported access is the access of the fault that ended the run, however late
\* the worker's handler reports and whatever else stops it.
THEOREM ReportedAccessTruthful == Spec => []AccessTruthful
<1>1. WorkerInv => AccessTruthful
  BY DEF WorkerInv, AccessInv, AccessTruthful, Memory
<1> QED
  BY <1>1, WorkerInit, WorkerStep, PTL DEF Spec

\* A worker that holds the input's registers does not outlive its tracer.
THEOREM WorkerDiesWithTracer == Spec => []TracerDeathKillsWorker
<1>1. WorkerInv => TracerDeathKillsWorker
  BY DEF WorkerInv, ExitKillInv, TracerDeathKillsWorker
<1> QED
  BY <1>1, WorkerInit, WorkerStep, PTL DEF Spec
===============================================================================
