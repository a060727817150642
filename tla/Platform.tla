------------------------------- MODULE Platform -------------------------------
(***************************************************************************)
(* Vocabulary shared by the two tracers (os.linux.cpp, os.windows.cpp):    *)
(* the request, the recorded steps, the outcomes (os.hpp, bme_core.hpp)    *)
(* and the admission test both run first (os.cpp).                         *)
(*                                                                         *)
(* Addresses are offsets from the code base.  The code is the interval     *)
(* 0 .. size-1.  It is mapped flush against a guard page, so "size" is the *)
(* first address past the input; every other address outside the input     *)
(* behaves alike and is represented by Below.                              *)
(***************************************************************************)
EXTENDS Integers, Sequences

CONSTANTS MaxCode,          \* largest input, in bytes, that is explored
          MaxRequest,       \* largest step cap that is requested
          MAX_STEPS_LIMIT   \* hard ceiling on the step cap

ASSUME PlatformAssumption ==
    /\ MaxCode \in Nat
    /\ MaxRequest \in Nat
    /\ MAX_STEPS_LIMIT \in Nat \ {0}

NoOffset == -1
Below    == -1

Address == -1 .. MaxCode

\* int3 is the set of offsets that hold a software breakpoint instruction.
Request ==
    [ size        : 0 .. MaxCode,
      max_steps   : 0 .. MaxRequest,
      stop_offset : -1 .. MaxCode,
      int3        : SUBSET (0 .. MaxCode) ]

\* One captured instruction: where it started and RIP in its snapshot.
PlatformStep == [ rip : Address, next : Address, faulted : BOOLEAN ]

Outcome     == {"Idle", "Error", "Finished", "Faulted", "AbortedCap", "Stopped"}
FaultAccess == {"None", "Read", "Write", "Execute", "Unknown"}

InCode(request, address) == 0 <= address /\ address < request.size

HasTarget(request) == request.stop_offset # NoOffset

\* min(max_steps != 0 ? max_steps : 1, MAX_STEPS_LIMIT)
EffectiveMaxSteps(request) ==
    LET asked == IF request.max_steps # 0 THEN request.max_steps ELSE 1
    IN  IF asked < MAX_STEPS_LIMIT THEN asked ELSE MAX_STEPS_LIMIT

\* The verdict of prepare_platform_run: "ok", or the error it refuses with.
prepare_platform_run(request, instrumented) ==
    IF request.size = 0 THEN "no_code"
    ELSE IF HasTarget(request) /\ request.stop_offset >= request.size
         THEN "stop_offset_outside"
    ELSE IF instrumented THEN "instrumentation"
    ELSE "ok"

-----------------------------------------------------------------------------
(* What a recorded run must look like, whatever platform produced it.      *)

Last(steps) == steps[Len(steps)]

\* Where execution stands after the recorded steps.
Position(steps) == IF Len(steps) = 0 THEN 0 ELSE Last(steps).next

\* The steps that are not faults, in order.
Completed(steps) ==
    LET kept[n \in 0 .. Len(steps)] ==
            IF n = 0 THEN <<>>
            ELSE IF steps[n].faulted THEN kept[n - 1]
            ELSE Append(kept[n - 1], steps[n])
    IN  kept[Len(steps)]

\* Every step starts where the step before it left RIP, the first one at the
\* code base; only the last step can be a fault, and only a fault's reported
\* address may differ from where execution stood (an instruction fetch fault).
Chained(steps) ==
    \A i \in 1 .. Len(steps) :
        /\ steps[i].faulted => i = Len(steps)
        /\ ~steps[i].faulted => steps[i].rip = IF i = 1 THEN 0 ELSE steps[i - 1].next

\* Every step but the last left RIP inside the input and off the target: the
\* run never steps past a point where it had to stop.
NeverOverran(request, steps) ==
    \A i \in 1 .. Len(steps) - 1 :
        /\ InCode(request, steps[i].next)
        /\ HasTarget(request) => steps[i].next # request.stop_offset

\* Each outcome is justified by the last step alone.
Justified(request, steps, outcome, address) ==
    CASE outcome = "Stopped" ->
           /\ \A i \in 1 .. Len(steps) : ~steps[i].faulted
           /\ address = Position(steps)
           /\ \/ HasTarget(request) /\ address = request.stop_offset
              \/ address \in request.int3
      [] outcome = "Faulted" ->
           /\ Len(steps) > 0
           /\ Last(steps).faulted
           /\ address = Last(steps).rip
           /\ Len(steps) <= EffectiveMaxSteps(request)
      [] outcome = "Finished" ->
           /\ Len(steps) > 0
           /\ ~InCode(request, Position(steps))
      [] outcome = "AbortedCap" ->
           /\ Len(steps) = EffectiveMaxSteps(request)
           /\ InCode(request, Position(steps))
           /\ HasTarget(request) => Position(steps) # request.stop_offset
      [] outcome = "Idle" -> request.size = 0 /\ Len(steps) = 0
      [] outcome = "Error" -> TRUE
===============================================================================
