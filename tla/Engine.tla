-------------------------------- MODULE Engine --------------------------------
(***************************************************************************)
(* run_engine of bme_core.cpp, called by several threads at once.  A       *)
(* caller first takes the CPU fingerprint, a function-local static that    *)
(* whoever comes first computes (module Cpu) while the others wait.  The   *)
(* platform run uses one process-wide slot (g_engine and the vectored      *)
(* handler on Windows), so the callers take turns under g_engine_mutex.    *)
(* While a caller holds the mutex the slot is an instance of PlatformRun,  *)
(* whose actions are the steps of the run; the caller then turns the       *)
(* platform's result into a Trace.                                         *)
(***************************************************************************)
EXTENDS Platform, Cpu

CONSTANTS Callers,   \* threads that call run_engine
          NoCaller,  \* the mutex is free
          Scenarios  \* the machine they run on and the request each makes

ASSUME EngineAssumption ==
    /\ NoCaller \notin Callers
    /\ MaxRequest > 0
    /\ \A s \in Scenarios :
         /\ DOMAIN s.machine \subseteq Cores /\ DOMAIN s.machine # {}
         /\ AnswersTyped(s.machine)
         /\ s.wanted \in [Callers -> Request]
         /\ \A c \in Callers : \A offset \in s.wanted[c].int3 : offset < s.wanted[c].size

\* What run_engine says about how a run ended.
StopReason == {"", "selected_row", "int3", "fault", "cap", "end_of_input", "left_input"}

\* No stop_address.
NoAddress == -2

Trace ==
    [ outcome : Outcome, events : Seq(PlatformStep), executed : Nat,
      stop_reason : StopReason, stop_address : Address \cup {NoAddress} ]

NoTrace ==
    [ outcome |-> "Idle", events |-> <<>>, executed |-> 0, stop_reason |-> "",
      stop_address |-> NoAddress ]

VARIABLES
    pc,        \* where each caller stands in run_engine
    wanted,    \* the request each caller passes
    trace,     \* what its last call returned
    mutex,     \* holder of g_engine_mutex
    request, steps, outcome, address   \* the platform's slot, see PlatformRun

slot == <<request, steps, outcome, address>>
vars == <<pc, wanted, trace, mutex, request, steps, outcome, address, cpuvars>>

Run == INSTANCE PlatformRun

TypeOK ==
    /\ pc \in [Callers -> {"idle", "cpu", "query", "lock", "run", "blocked", "returned"}]
    /\ wanted \in [Callers -> Request]
    /\ trace \in [Callers -> Trace]
    /\ mutex \in Callers \cup {NoCaller}
    /\ request \in Request
    /\ steps \in Seq(PlatformStep)
    /\ outcome \in Outcome \cup {"None"}
    /\ address \in Address

NoRequest == [ size |-> 0, max_steps |-> 0, stop_offset |-> NoOffset, int3 |-> {} ]

Init ==
    /\ pc = [c \in Callers |-> "idle"]
    /\ \E s \in Scenarios : wanted = s.wanted /\ CpuInit(s.machine)
    /\ trace = [c \in Callers |-> NoTrace]
    /\ mutex = NoCaller
    /\ request = NoRequest
    /\ steps = <<>>
    /\ outcome = "None"
    /\ address = 0

-----------------------------------------------------------------------------

Call(c) ==
    /\ pc[c] = "idle"
    /\ pc' = [pc EXCEPT ![c] = "cpu"]
    /\ UNCHANGED <<wanted, trace, mutex, slot, cpuvars>>

\* host_cpu_fingerprint: the first caller runs the initializer of the static.
StartQuery(c) ==
    /\ pc[c] = "cpu"
    /\ at = "unqueried"
    /\ at' = "vendor"
    /\ pc' = [pc EXCEPT ![c] = "query"]
    /\ UNCHANGED <<wanted, trace, mutex, slot, machine, core, migrations,
                   subleaf, fingerprint>>

QueryStep(c) ==
    /\ pc[c] = "query"
    /\ Query
    /\ UNCHANGED <<pc, wanted, trace, mutex, slot>>

QueryMoves(c) ==
    /\ pc[c] = "query"
    /\ Migrate
    /\ UNCHANGED <<pc, wanted, trace, mutex, slot>>

\* The static is complete: the caller that made it returns, the others stop
\* waiting, and later ones find it.  Every trace refers to the one object, so there
\* is nothing to keep for a caller; the rest of the provenance is its own.
TakeFingerprint(c) ==
    /\ pc[c] \in {"cpu", "query"}
    /\ at = "ready"
    /\ pc' = [pc EXCEPT ![c] = "lock"]
    /\ UNCHANGED <<wanted, trace, mutex, slot, cpuvars>>

\* run_platform_steps starts from a fresh slot; run_engine has already clamped
\* the cap, which the platform clamps once more.
Fresh(r) ==
    /\ request' = [ r EXCEPT !.max_steps = EffectiveMaxSteps(r) ]
    /\ steps' = <<>>
    /\ outcome' = "None"
    /\ address' = 0

\* Wrong: the platform run starts without holding the mutex.
Lock_skipped(c) ==
    /\ pc[c] = "lock"
    /\ mutex' = c
    /\ Fresh(wanted[c])
    /\ pc' = [pc EXCEPT ![c] = "run"]
    /\ UNCHANGED <<wanted, trace, cpuvars>>

Lock(c) ==
    /\ pc[c] = "lock"
    /\ mutex = NoCaller
    /\ mutex' = c
    /\ Fresh(wanted[c])
    /\ pc' = [pc EXCEPT ![c] = "run"]
    /\ UNCHANGED <<wanted, trace, cpuvars>>

\* run_platform_steps: one step of the abstract run, until it has an outcome.
RunStep(c) ==
    /\ pc[c] = "run"
    /\ Run!Next
    /\ UNCHANGED <<pc, wanted, trace, mutex, cpuvars>>

\* "A blocking system call can prevent the next single-step trap": an instruction of
\* the input never completes, the platform waits for it without a deadline, and the
\* caller keeps the mutex.
Blocks(c) ==
    /\ pc[c] = "run"
    /\ Run!Executing
    /\ pc' = [pc EXCEPT ![c] = "blocked"]
    /\ UNCHANGED <<wanted, trace, mutex, slot, cpuvars>>

\* The tracers set stopped_at_target when RIP is the target; an int3 there is
\* never reached.
stopped_at_target == HasTarget(request) /\ address = request.stop_offset

\* Falling off the end is told from jumping out.
finish_reason(next_rip) == IF next_rip = request.size THEN "end_of_input" ELSE "left_input"

\* What run_engine returns for a platform result.  A run with an error message
\* (a refusal or a failure) returns before the recorded steps are copied.
result_trace ==
    IF outcome \in {"Idle", "Error"} THEN [ NoTrace EXCEPT !.outcome = outcome ]
    ELSE [ outcome      |-> outcome,
           events       |-> steps,
           executed     |-> Len(Completed(steps)),
           stop_reason  |->
               CASE outcome = "Stopped"    -> IF stopped_at_target THEN "selected_row" ELSE "int3"
                 [] outcome = "Faulted"    -> "fault"
                 [] outcome = "AbortedCap" -> "cap"
                 [] outcome = "Finished"   -> finish_reason(Position(steps)),
           stop_address |-> IF outcome \in {"Stopped", "Faulted"} THEN address ELSE NoAddress ]

\* Wrong: an early return leaves the mutex locked.
Return_without_unlock(c) ==
    /\ pc[c] = "run"
    /\ ~Run!Running
    /\ trace' = [trace EXCEPT ![c] = result_trace]
    /\ mutex' = IF outcome = "Error" THEN mutex ELSE NoCaller
    /\ pc' = [pc EXCEPT ![c] = "returned"]
    /\ UNCHANGED <<wanted, slot, cpuvars>>

\* The trace is filled in and lock_guard releases the mutex on every return.
Return(c) ==
    /\ pc[c] = "run"
    /\ ~Run!Running
    /\ trace' = [trace EXCEPT ![c] = result_trace]
    /\ mutex' = NoCaller
    /\ pc' = [pc EXCEPT ![c] = "returned"]
    /\ UNCHANGED <<wanted, slot, cpuvars>>

\* Never to go on: its own input blocks, or that of the caller that has the mutex.
Stalled(c) ==
    \/ pc[c] = "blocked"
    \/ pc[c] = "lock" /\ \E d \in Callers : mutex = d /\ pc[d] = "blocked"

Done ==
    /\ \A c \in Callers : pc[c] = "returned" \/ Stalled(c)
    /\ UNCHANGED vars

\* The steps of run_engine in one thread.
Thread(c) ==
    Call(c) \/ StartQuery(c) \/ QueryStep(c) \/ TakeFingerprint(c) \/ Lock(c) \/ RunStep(c)
    \/ Return(c)

Next == (\E c \in Callers : Thread(c) \/ QueryMoves(c) \/ Blocks(c)) \/ Done

Spec == Init /\ [][Next]_vars

\* Every thread is scheduled.  A platform run whose input does not block ends, as
\* the tracers show; here it follows from the cap.  Whether it blocks is the
\* input's affair.  The mutex needs no fairness of its own: each caller takes it once.
FairSpec == Spec /\ \A c \in Callers : WF_vars(Thread(c))

-----------------------------------------------------------------------------
(* Properties.                                                             *)

\* The trace a caller gets back explains its own request, whoever else was
\* running: its events chain from the code base, never go past its target or
\* its input, and its outcome, count and reason follow from them.
TraceExplained ==
    \A c \in Callers : pc[c] = "returned" /\ trace[c].outcome \notin {"Idle", "Error"} =>
        LET t   == trace[c]
            where == IF t.stop_address = NoAddress THEN 0 ELSE t.stop_address
            end == Position(t.events)
        IN  /\ Chained(t.events)
            /\ NeverOverran(wanted[c], t.events)
            /\ Justified(wanted[c], t.events, t.outcome, where)
            /\ t.executed <= EffectiveMaxSteps(wanted[c])
            /\ t.stop_reason = "end_of_input" => end = wanted[c].size
            /\ t.stop_reason = "left_input" => end # wanted[c].size
            /\ t.stop_reason = "int3" => t.stop_address \in wanted[c].int3
            /\ t.stop_reason = "selected_row" => t.stop_address = wanted[c].stop_offset

\* Every call returns for good, whatever the outcome of the calls before it, unless
\* its input blocks in a system call or waits for the mutex behind one that does
\* (README.md: "a blocking system call can stall a run").
Returns == \A c \in Callers : <>[](pc[c] = "returned" \/ Stalled(c))
===============================================================================
