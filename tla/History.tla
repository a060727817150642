-------------------------------- MODULE History --------------------------------
(***************************************************************************)
(* build_history of bme_core.cpp: lay the instruction boundaries of one    *)
(* decoder over the input.  Executed (or faulted) instructions give one    *)
(* row each, in execution order; the bytes between them are decoded        *)
(* linearly into static rows, which are cut short wherever the trace shows *)
(* that an instruction really starts.                                      *)
(*                                                                         *)
(* A decoder is the function from offsets to instruction lengths that      *)
(* disasm_one computes, 0 where it cannot decode.  It is unconstrained:    *)
(* the decoders disagree with each other and with the processor, which is  *)
(* why the histories exist.  Addresses are offsets from the code base.     *)
(***************************************************************************)
EXTENDS Layout

CONSTANTS MaxSize,    \* largest input, in bytes, that is explored
          MaxLength,  \* longest instruction (15 bytes on x86-64)
          MaxEvents   \* longest trace that is explored

ASSUME HistoryAssumption ==
    /\ MaxSize \in Nat
    /\ MaxLength \in Nat \ {0}
    /\ MaxEvents \in Nat

EventKind == {"Completed", "Faulted"}
RowKind   == {"Reached", "Faulted", "NotReached", "Data"}

\* execution_event_index of a static row.
NoEvent == 0

VARIABLES
    size,          \* trace.code.size()
    instrumented,  \* trace.instrumentation_detected
    events,        \* trace.execution_events: offset and kind
    decode,        \* what the decoder says at each offset
    pc,            \* where build_history stands
    rows,          \* result
    linear,        \* first offset not yet laid out
    index,         \* event_index, counted from 1
    from, to       \* the gap being filled

input == <<size, instrumented, events, decode>>
vars  == <<size, instrumented, events, decode, pc, rows, linear, index, from, to>>

PC == {"start", "event", "gap", "row", "done"}

InInput(offset) == 0 <= offset /\ offset < size

event_at(offset) == \E i \in 1 .. Len(events) : events[i].offset = offset

Event == [ offset : -1 .. MaxSize, kind : EventKind ]

Row == [ offset : 0 .. MaxSize, length : 0 .. MaxSize, kind : RowKind, event : 0 .. MaxEvents ]

TypeOK ==
    /\ size \in 0 .. MaxSize
    /\ instrumented \in BOOLEAN
    /\ events \in Seq(Event) /\ Len(events) <= MaxEvents
    /\ decode \in [0 .. size - 1 -> 0 .. MaxLength]
    /\ pc \in PC
    /\ rows \in Seq(Row)
    /\ linear \in 0 .. size
    /\ index \in 1 .. MaxEvents + 1
    /\ from \in 0 .. size
    /\ to \in 0 .. size

\* What a tracer hands over: only the last event is a fault, only a fault can
\* lie outside the input, and execution starts at offset 0.
Recorded(trace) ==
    \A i \in 1 .. Len(trace) :
        /\ trace[i].kind = "Faulted" => i = Len(trace)
        /\ trace[i].kind = "Completed" => InInput(trace[i].offset)
        /\ i = 1 => trace[i].offset = 0 \/ ~InInput(trace[i].offset)

Init ==
    /\ size \in 0 .. MaxSize
    /\ instrumented \in BOOLEAN
    /\ \E n \in 0 .. MaxEvents :
         events \in [1 .. n -> [offset : -1 .. size, kind : EventKind]]
    /\ Recorded(events)
    /\ size = 0 \/ instrumented => events = <<>>
    /\ decode \in [0 .. size - 1 -> 0 .. MaxLength]
    /\ pc = "start"
    /\ rows = <<>>
    /\ linear = 0
    /\ index = 1
    /\ from = 0 /\ to = 0

-----------------------------------------------------------------------------

\* Wrong: a decode that runs past the input is accepted.
disasm_at_unchecked(offset) == IF decode[offset] # 0 THEN decode[offset] ELSE 1

\* disasm_at: the length of the row at this offset; "(bad)" takes one byte.
disasm_at(offset) ==
    IF decode[offset] # 0 /\ decode[offset] <= size - offset THEN decode[offset] ELSE 1

\* Wrong: a static row is cut only at the end of the gap.
IsBoundary_unsplit(boundary) ==
    LET next == from + disasm_at(from)
    IN  boundary = IF next < to THEN next ELSE to

\* Where a static row ends: at the end of its decode or of the gap, or before
\* the first event that starts inside it.
IsBoundary(boundary) ==
    LET next  == from + disasm_at(from)
        limit == IF next < to THEN next ELSE to
    IN  /\ from < boundary /\ boundary <= limit
        /\ \A offset \in from + 1 .. boundary - 1 : ~event_at(offset)
        /\ boundary = limit \/ event_at(boundary)

\* Wrong: a decode that was cut short still counts as an instruction.
StaticRow_never_data(boundary) ==
    [ offset |-> from, length |-> boundary - from, event |-> NoEvent, kind |-> "NotReached" ]

StaticRow(boundary) ==
    [ offset |-> from, length |-> boundary - from, event |-> NoEvent,
      kind   |-> IF boundary = from + disasm_at(from) THEN "NotReached" ELSE "Data" ]

EventRow ==
    [ offset |-> events[index].offset, length |-> disasm_at(events[index].offset),
      event  |-> index,
      kind   |-> IF events[index].kind = "Completed" THEN "Reached" ELSE "Faulted" ]

-----------------------------------------------------------------------------

\* Nothing to lay out, or a trace that was refused.
Refuse ==
    /\ pc = "start"
    /\ size = 0 \/ instrumented
    /\ pc' = "done"
    /\ UNCHANGED <<input, rows, linear, index, from, to>>

Begin ==
    /\ pc = "start"
    /\ size # 0 /\ ~instrumented
    /\ pc' = "event"
    /\ UNCHANGED <<input, rows, linear, index, from, to>>

\* An instruction-fetch fault outside the input has no row.
SkipEvent ==
    /\ pc = "event"
    /\ index <= Len(events)
    /\ ~InInput(events[index].offset)
    /\ index' = index + 1
    /\ UNCHANGED <<input, pc, rows, linear, from, to>>

\* Lay out what lies before an event that is further on.
TakeEvent ==
    /\ pc = "event"
    /\ index <= Len(events)
    /\ InInput(events[index].offset)
    /\ IF events[index].offset > linear
       THEN pc' = "gap" /\ from' = linear /\ to' = events[index].offset
       ELSE pc' = "row" /\ UNCHANGED <<from, to>>
    /\ UNCHANGED <<input, rows, linear, index>>

\* Wrong: an instruction executed again gives no further row.
AddEventRow_once ==
    /\ pc = "row"
    /\ rows' = IF \E i \in 1 .. Len(rows) : rows[i].offset = EventRow.offset
               THEN rows ELSE Append(rows, EventRow)
    /\ linear' = IF EventRow.offset + EventRow.length > linear
                 THEN EventRow.offset + EventRow.length ELSE linear
    /\ index' = index + 1
    /\ pc' = "event"
    /\ UNCHANGED <<input, from, to>>

AddEventRow ==
    /\ pc = "row"
    /\ rows' = Append(rows, EventRow)
    /\ linear' = IF EventRow.offset + EventRow.length > linear
                 THEN EventRow.offset + EventRow.length ELSE linear
    /\ index' = index + 1
    /\ pc' = "event"
    /\ UNCHANGED <<input, from, to>>

\* Wrong: the bytes after the last event are left out.
LastGap_missing ==
    /\ pc = "event"
    /\ index > Len(events)
    /\ pc' = "done"
    /\ UNCHANGED <<input, rows, linear, index, from, to>>

LastGap ==
    /\ pc = "event"
    /\ index > Len(events)
    /\ pc' = "gap" /\ from' = linear /\ to' = size
    /\ UNCHANGED <<input, rows, linear, index>>

\* Wrong: an offset that has an event is skipped without moving on.
GapRow_stuck(boundary) ==
    /\ pc = "gap" /\ from < to
    /\ IsBoundary(boundary)
    /\ rows' = IF event_at(from) THEN rows ELSE Append(rows, StaticRow(boundary))
    /\ from' = IF event_at(from) THEN from ELSE boundary
    /\ UNCHANGED <<input, pc, linear, index, to>>

\* fill_gap, one iteration: an offset that has an event gets no static row.
GapRow(boundary) ==
    /\ pc = "gap" /\ from < to
    /\ IsBoundary(boundary)
    /\ rows' = IF event_at(from) THEN rows ELSE Append(rows, StaticRow(boundary))
    /\ from' = boundary
    /\ UNCHANGED <<input, pc, linear, index, to>>

GapFilled ==
    /\ pc = "gap" /\ from >= to
    /\ pc' = IF index > Len(events) THEN "done" ELSE "row"
    /\ UNCHANGED <<input, rows, linear, index, from, to>>

Done == pc = "done" /\ UNCHANGED vars

Step ==
    \/ Refuse \/ Begin \/ SkipEvent \/ TakeEvent \/ AddEventRow \/ LastGap \/ GapFilled
    \/ \E boundary \in 1 .. size : GapRow(boundary)

Next == Step \/ Done

Spec == Init /\ [][Next]_vars

\* A sequential function keeps running.
FairSpec == Spec /\ WF_vars(Step)

-----------------------------------------------------------------------------
(* Properties.                                                             *)

Static(row) == row.event = NoEvent

Covers(row, offset) == row.offset <= offset /\ offset < row.offset + row.length

\* Every row is a non-empty piece of the input: the span of bytes that
\* build_history_lines and run_quick take from the code exists.
RowsInInput ==
    \A i \in 1 .. Len(rows) :
        rows[i].length > 0 /\ rows[i].offset + rows[i].length <= size

\* No static row runs over an offset at which an instruction was executed or
\* faulted, whether that was before or after the row was laid out.
StaticRowsSplit ==
    \A i \in 1 .. Len(rows) :
        Static(rows[i]) => \A offset \in 0 .. size - 1 :
            Covers(rows[i], offset) => ~event_at(offset)

\* Static rows come in address order and never overlap, however execution
\* jumped between them.
StaticRowsDisjoint ==
    \A i, j \in 1 .. Len(rows) :
        i < j /\ Static(rows[i]) /\ Static(rows[j]) =>
            rows[i].offset + rows[i].length <= rows[j].offset

\* What is shown as not executed is a clean partition of bytes that really were
\* not: static rows share no byte with each other or with an executed start.
StaticRowsSound == StaticRowsSplit /\ StaticRowsDisjoint

\* Each event inside the input has exactly one row, at its own offset and in
\* execution order; this is how the histories of all decoders stay aligned.
EventRowsInOrder ==
    /\ \A i, j \in 1 .. Len(rows) :
         i < j /\ ~Static(rows[i]) /\ ~Static(rows[j]) => rows[i].event < rows[j].event
    /\ \A i \in 1 .. Len(rows) :
         ~Static(rows[i]) => rows[i].offset = events[rows[i].event].offset
    /\ pc = "done" =>
         \A k \in 1 .. Len(events) :
            InInput(events[k].offset) => \E i \in 1 .. Len(rows) : rows[i].event = k

\* Every byte of the input is on some row.
EveryByteShown ==
    pc = "done" /\ ~instrumented =>
        \A offset \in 0 .. size - 1 : \E i \in 1 .. Len(rows) : Covers(rows[i], offset)

\* The step-by-step build_history returns exactly the rows of the functional
\* definition of it that the user interface and run_quick are modelled with.
LayoutAgrees ==
    pc = "done" /\ ~instrumented => rows = Layout(size, events, decode)

\* build_history returns.
Returns == <>(pc = "done")
===============================================================================
