----------------------------- MODULE PlatformRun -----------------------------
(***************************************************************************)
(* What run_platform_steps promises on either platform: starting at the    *)
(* code base it records one step per completed instruction and concludes   *)
(* exactly once - refused, failed, stopped at the target or at an int3,    *)
(* faulted, out of the input, or at the cap.  How the machine is driven    *)
(* (a traced child on Linux, a trap handler on Windows) is left out.       *)
(***************************************************************************)
EXTENDS Platform

VARIABLES request,   \* what the caller asked for
          steps,     \* steps recorded so far
          outcome,   \* "None" while running, then an Outcome for good
          address    \* stop address of a stopped or faulted run

vars == <<request, steps, outcome, address>>

Running == outcome = "None"

Accepted ==
    /\ request.size > 0
    /\ HasTarget(request) => request.stop_offset < request.size

\* Execution may go on: the target is not the code base itself.
Executing == Running /\ Accepted /\ request.stop_offset # 0

Init ==
    /\ request \in Request
    /\ steps = <<>>
    /\ outcome = "None"
    /\ address = 0

\* Nothing to run.
Refuse ==
    /\ Running
    /\ request.size = 0
    /\ outcome' = "Idle"
    /\ UNCHANGED <<request, steps, address>>

\* The platform gives up; what was recorded so far is kept as it is.
Fail ==
    /\ Running
    /\ outcome' = "Error"
    /\ address' \in Address
    /\ UNCHANGED <<request, steps>>

\* The target is the first instruction: nothing is executed.
StopAtEntry ==
    /\ Running /\ Accepted
    /\ request.stop_offset = 0
    /\ outcome' = "Stopped"
    /\ address' = 0
    /\ UNCHANGED <<request, steps>>

\* One instruction completes.  The target wins over leaving the input, which
\* wins over the cap.
Complete(next) ==
    LET at_target == HasTarget(request) /\ next = request.stop_offset
        cap       == EffectiveMaxSteps(request)
    IN  /\ Executing
        /\ steps' = Append(steps, [rip |-> Position(steps), next |-> next, faulted |-> FALSE])
        /\ \/ /\ at_target
              /\ outcome' = "Stopped"
              /\ address' = next
           \/ /\ ~at_target /\ ~InCode(request, next)
              /\ outcome' = "Finished"
              /\ UNCHANGED address
           \/ /\ ~at_target /\ InCode(request, next) /\ Len(steps) + 1 = cap
              /\ outcome' = "AbortedCap"
              /\ UNCHANGED address
           \/ /\ ~at_target /\ InCode(request, next) /\ Len(steps) + 1 < cap
              /\ UNCHANGED <<outcome, address>>
        /\ UNCHANGED request

\* The instruction at Position(steps) is an int3: stop before it.
Breakpoint ==
    /\ Executing
    /\ Position(steps) \in request.int3
    /\ outcome' = "Stopped"
    /\ address' = Position(steps)
    /\ UNCHANGED <<request, steps>>

\* The instruction raises a fault, recorded with its partial state.
Fault(rip) ==
    /\ Executing
    /\ steps' = Append(steps, [rip |-> rip, next |-> rip, faulted |-> TRUE])
    /\ outcome' = "Faulted"
    /\ address' = rip
    /\ UNCHANGED request

Next ==
    \/ Refuse
    \/ Fail
    \/ StopAtEntry
    \/ \E next \in Address : Complete(next)
    \/ Breakpoint
    \/ \E rip \in Address : Fault(rip)

Spec == Init /\ [][Next]_vars
===============================================================================
