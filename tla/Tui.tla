---------------------------------- MODULE Tui ----------------------------------
(***************************************************************************)
(* The interactive front end, run_tui of bme_core.cpp: the bytes being     *)
(* edited, the last trace, one history per decoder plus the Main one, the  *)
(* timeline cursor shared by all of them, and the settings that make the   *)
(* histories be laid out again.  One action per handler; FTXUI calls them  *)
(* one at a time on its own thread.                                        *)
(*                                                                         *)
(* The register panels are in module Panels and the seed fields in Seeds.  *)
(* Left out: colours, the status line, copying a history row or an address *)
(* and the step limit field, which no action below depends on.             *)
(***************************************************************************)
EXTENDS Layout

CONSTANTS Codes,      \* byte inputs that parse
          BadText,    \* text in the byte field that does not parse
          NoCode,     \* no trace yet
          Size,       \* number of bytes of each input
          BackendCount, \* decoders are 0 .. BackendCount - 1
          AttBackends,  \* the decoders that can print AT&T syntax
          Decoded,    \* Decoded[code][backend][offset]: length, 0 if undecodable
          MaxEvents   \* longest trace that is explored

ASSUME TuiAssumption ==
    /\ BadText \notin Codes /\ NoCode \notin Codes
    /\ Size \in [Codes -> Nat \ {0}]
    /\ BackendCount \in Nat \ {0}
    /\ AttBackends \subseteq 0 .. BackendCount - 1
    /\ \A code \in Codes : \A backend \in 0 .. BackendCount - 1 :
          Decoded[code][backend] \in [0 .. Size[code] - 1 -> Nat]
    /\ MaxEvents \in Nat

Backends == 0 .. BackendCount - 1
Tabs     == 0 .. BackendCount     \* Main, then one tab per decoder
Syntax   == {"Intel", "ATT"}

NoOffset == -1

backend_supports(backend, syntax) == syntax = "Intel" \/ backend \in AttBackends

\* Why a trace has no events: none, refused because of instrumentation, failed
\* before or after the sandbox was seeded.
Failure == {"none", "instrumentation", "unseeded", "seeded"}

Event == [ offset : Int, kind : {"Completed", "Faulted"} ]

NoTrace == [ code |-> NoCode, target |-> NoOffset, failure |-> "none",
             events |-> <<>>, stop |-> NoOffset ]

VARIABLES
    text,          \* ui.code
    backend, syntax, normalized,   \* settings
    trace,         \* ui.trace; target is the stop_offset it was run with
    history_rows,  \* rows of every tab
    rendered,      \* settings the histories were last laid out with
    cursor,        \* selected line; 0 is the seed
    history_tab,
    previous_history_tab,
    warning,       \* show_instrumentation_warning
    modal          \* "none", "settings" or "about"

vars == <<text, backend, syntax, normalized, trace, history_rows, rendered, cursor,
          history_tab, previous_history_tab, warning, modal>>
settings == <<backend, syntax, normalized>>
view     == <<history_rows, rendered, cursor, history_tab, previous_history_tab>>

RowsShown == history_rows[history_tab]

TypeOK ==
    /\ text \in Codes \cup {BadText}
    /\ backend \in Backends
    /\ syntax \in Syntax
    /\ normalized \in BOOLEAN
    /\ trace.code \in Codes \cup {NoCode}
    /\ trace.events \in Seq(Event)
    /\ trace.failure \in Failure
    /\ DOMAIN history_rows = Tabs
    /\ rendered \in Backends \X Syntax \X BOOLEAN
    /\ history_tab \in Tabs
    /\ previous_history_tab = history_tab
    /\ cursor \in 0 .. Len(RowsShown)
    /\ warning \in BOOLEAN
    /\ modal \in {"none", "settings", "about"}

Init ==
    /\ text \in Codes \cup {BadText}
    /\ backend \in Backends
    /\ syntax \in Syntax
    /\ backend_supports(backend, syntax)
    /\ normalized = TRUE
    /\ trace = NoTrace
    /\ history_rows = [tab \in Tabs |-> <<>>]
    /\ rendered = <<backend, syntax, normalized>>
    /\ cursor = 0
    /\ history_tab = 0
    /\ previous_history_tab = 0
    /\ warning \in BOOLEAN
    /\ modal = "none"

-----------------------------------------------------------------------------
(* Selection.                                                              *)

\* The decoder whose boundaries a tab shows.
DecoderOf(tab, main) == IF tab = 0 THEN main ELSE tab - 1

\* build_history for one tab of a trace.
HistoryOf(t, decoder) ==
    IF t.code = NoCode \/ t.failure = "instrumentation" THEN <<>>
    ELSE Layout(Size[t.code], t.events, Decoded[t.code][decoder])

Histories(t, main) == [ tab \in Tabs |-> HistoryOf(t, DecoderOf(tab, main)) ]

NoSelection == [ has_row |-> FALSE, offset |-> 0, event |-> 0 ]

\* history_selection: what the cursor stands on in a tab.
history_selection(tab) ==
    LET rows == history_rows[tab]
    IN  IF cursor \in 1 .. Len(rows)
        THEN [ has_row |-> TRUE, offset |-> rows[cursor].offset, event |-> rows[cursor].event ]
        ELSE NoSelection

\* Wrong: the line number is kept instead of the row.
restore_history_selection_by_line(rows, old, selection) ==
    IF old < Len(rows) THEN old ELSE Len(rows)

\* restore_history_selection: the first row of the same event, or the first
\* static row that covers the address of a static one; failing that the line.
restore_history_selection(rows, old, selection) ==
    LET Matches(i) ==
            IF selection.event # 0 THEN rows[i].event = selection.event
            ELSE /\ rows[i].event = 0
                 /\ rows[i].offset <= selection.offset
                 /\ selection.offset < rows[i].offset + rows[i].length
        found == { i \in 1 .. Len(rows) : Matches(i) }
    IN  IF ~selection.has_row THEN 0
        ELSE IF found # {} THEN CHOOSE i \in found : \A j \in found : i <= j
        ELSE IF old < Len(rows) THEN old ELSE Len(rows)

\* rebuild_history with the new settings: every tab is laid out again and the
\* selection is looked up in the tab that is shown.
rebuild_history(main, syn, norm) ==
    /\ history_rows' = Histories(trace, main)
    /\ rendered' = <<main, syn, norm>>
    /\ cursor' = restore_history_selection(history_rows'[history_tab], cursor,
                                           history_selection(history_tab))
    /\ UNCHANGED <<history_tab, previous_history_tab>>

-----------------------------------------------------------------------------
(* Running.                                                                *)

\* How a run of each input may go: the events up to a fault, the target, an int3,
\* the end or the cap, and the offset of the instruction it stopped at.
Runs ==
    [ code \in Codes |->
        LET inside  == 0 .. Size[code] - 1
            Done(p) == [ i \in 1 .. Len(p) |-> [ offset |-> p[i], kind |-> "Completed" ] ]
            paths   == { p \in UNION { [1 .. n -> inside] : n \in 0 .. MaxEvents } :
                           p # <<>> => p[1] = 0 }
            Stops(p)  == IF p = <<>> THEN {0}
                         ELSE {NoOffset} \cup { o \in inside : ~StartsEvent(Done(p), o) }
            Faults(p) == IF p = <<>> THEN {-1, 0} ELSE {-1} \cup inside
            stopped == UNION { { [ events |-> Done(p), stop |-> o ] : o \in Stops(p) }
                               : p \in paths }
            faulted == UNION { { [ events |-> Append(Done(p), [ offset |-> o,
                                                                kind   |-> "Faulted" ]),
                                   stop   |-> o ] : o \in Faults(p) }
                               : p \in { q \in paths : Len(q) < MaxEvents } }
        IN  stopped \cup faulted ]

\* The traces run_engine may return: it was refused or failed without events, or
\* it ran; a target inside the input is never executed.
Results(code, target) ==
    LET Trace(failure, events, stop) ==
            [ code |-> code, target |-> target, failure |-> failure,
              events |-> events, stop |-> stop ]
        runs == { r \in Runs[code] : target # NoOffset => ~StartsEvent(r.events, target) }
    IN  { Trace(f, <<>>, NoOffset) : f \in Failure \ {"none"} }
        \cup (IF target < Size[code] THEN { Trace("none", r.events, r.stop) : r \in runs }
              ELSE {})

\* trace.stop_address = trace.seed[RIP] + stop_offset.  A run that failed before
\* it was seeded has both addresses 0.
StoppedAt(t, target) ==
    t.stop = target \/ (t.failure = "unseeded" /\ target = 0)

\* Wrong: the bytes are not compared with the ones the history was made from.
Execute_stale(target) ==
    /\ modal = "none"
    /\ text # BadText
    /\ \E result \in Results(text, target) :
         /\ trace' = result
         /\ history_rows' = Histories(result, backend)
         /\ rendered' = <<backend, syntax, normalized>>
         /\ cursor' = 0
         /\ warning' = (warning \/ result.failure = "instrumentation")
    /\ UNCHANGED <<text, settings, history_tab, previous_history_tab, modal>>

\* execute: bytes that do not parse, or a target chosen in the history of other
\* bytes, only change the status line.
Execute(target) ==
    /\ modal = "none"
    /\ text # BadText
    /\ target # NoOffset => text = trace.code
    /\ \E result \in Results(text, target) :
         /\ trace' = result
         /\ history_rows' = Histories(result, backend)
         /\ rendered' = <<backend, syntax, normalized>>
         /\ cursor' = IF target # NoOffset /\ StoppedAt(result, target)
                      THEN restore_history_selection(history_rows'[history_tab], 0,
                               [ has_row |-> TRUE, offset |-> target, event |-> 0 ])
                      ELSE 0
         /\ warning' = (warning \/ result.failure = "instrumentation")
    /\ UNCHANGED <<text, settings, history_tab, previous_history_tab, modal>>

Run == Execute(NoOffset)

run_to_selected_row ==
    /\ cursor \in 1 .. Len(RowsShown)
    /\ Execute(RowsShown[cursor].offset)

\* The user types into the byte field.
Edit ==
    /\ modal = "none"
    /\ text' \in Codes \cup {BadText}
    /\ UNCHANGED <<settings, trace, view, warning, modal>>

-----------------------------------------------------------------------------
(* Navigation.                                                             *)

Executed(row) == row.kind \in {"Reached", "Faulted"}

Move(to) ==
    /\ modal = "none"
    /\ cursor' = to
    /\ UNCHANGED <<text, settings, trace, history_rows, rendered, history_tab,
                   previous_history_tab, warning, modal>>

\* Wrong: every row is a step, also the ones that were not executed.
Step_every_row ==
    /\ cursor < Len(RowsShown)
    /\ Move(cursor + 1)

\* step: the next executed row, if there is one.
Step ==
    \E i \in cursor + 1 .. Len(RowsShown) :
        /\ Executed(RowsShown[i])
        /\ \A j \in cursor + 1 .. i - 1 : ~Executed(RowsShown[j])
        /\ Move(i)

\* back: the executed row before, or the seed.
Back ==
    LET before == { i \in 1 .. cursor - 1 : Executed(RowsShown[i]) }
    IN  Move(IF before = {} THEN 0 ELSE CHOOSE i \in before : \A j \in before : j <= i)

WheelUp   == Move(IF cursor > 0 THEN cursor - 1 ELSE 0)
WheelDown == Move(IF cursor < Len(RowsShown) THEN cursor + 1 ELSE cursor)

\* The history menu: any of its lines can be chosen.
MenuSelect == \E i \in 0 .. Len(RowsShown) : Move(i)

\* The tab's on_change: look up in the new tab what was selected in the old one.
ChangeTab ==
    /\ modal = "none"
    /\ history_tab' \in Tabs \ {history_tab}
    /\ cursor' = restore_history_selection(history_rows[history_tab'], cursor,
                                           history_selection(previous_history_tab))
    /\ previous_history_tab' = history_tab'
    /\ UNCHANGED <<text, settings, trace, history_rows, rendered, warning, modal>>

Reset ==
    /\ modal = "none"
    /\ trace' = NoTrace
    /\ history_rows' = [tab \in Tabs |-> <<>>]
    /\ cursor' = 0
    /\ history_tab' = 0
    /\ previous_history_tab' = 0
    /\ UNCHANGED <<text, settings, rendered, warning, modal>>

-----------------------------------------------------------------------------
(* Settings.                                                               *)

\* toggle_syntax: refused where the decoder cannot print it.
toggle_syntax ==
    LET next == IF syntax = "Intel" THEN "ATT" ELSE "Intel"
    IN  /\ modal = "settings"
        /\ backend_supports(backend, next)
        /\ syntax' = next
        /\ IF history_rows[0] # <<>> THEN rebuild_history(backend, next, normalized)
           ELSE UNCHANGED view
        /\ UNCHANGED <<text, backend, normalized, trace, warning, modal>>

\* Wrong: the syntax is kept although the new decoder cannot print it.
cycle_backend_keeping_syntax(direction) ==
    LET next == (backend + direction + BackendCount) % BackendCount
    IN  /\ modal = "settings"
        /\ backend' = next
        /\ IF history_rows[0] # <<>> THEN rebuild_history(next, syntax, normalized)
           ELSE UNCHANGED view
        /\ UNCHANGED <<text, syntax, normalized, trace, warning, modal>>

\* cycle_backend: falls back to Intel where AT&T is not available.
cycle_backend(direction) ==
    LET next == (backend + direction + BackendCount) % BackendCount
        syn  == IF backend_supports(next, syntax) THEN syntax ELSE "Intel"
    IN  /\ modal = "settings"
        /\ backend' = next
        /\ syntax' = syn
        /\ IF history_rows[0] # <<>> THEN rebuild_history(next, syn, normalized)
           ELSE UNCHANGED view
        /\ UNCHANGED <<text, normalized, trace, warning, modal>>

\* The address checkbox.
ToggleAddresses ==
    /\ modal = "settings"
    /\ normalized' = ~normalized
    /\ IF trace.code # NoCode THEN rebuild_history(backend, syntax, ~normalized)
       ELSE UNCHANGED view
    /\ UNCHANGED <<text, backend, syntax, trace, warning, modal>>

OpenModal ==
    /\ modal = "none"
    /\ modal' \in {"settings", "about"}
    /\ UNCHANGED <<text, settings, trace, view, warning>>

CloseModal ==
    /\ modal # "none"
    /\ modal' = "none"
    /\ UNCHANGED <<text, settings, trace, view, warning>>

Next ==
    \/ Run \/ run_to_selected_row \/ Edit \/ Step \/ Back \/ WheelUp \/ WheelDown
    \/ MenuSelect \/ ChangeTab \/ Reset \/ toggle_syntax \/ cycle_backend(1)
    \/ cycle_backend(-1) \/ ToggleAddresses \/ OpenModal \/ CloseModal

Spec == Init /\ [][Next]_vars

-----------------------------------------------------------------------------
(* Properties.                                                             *)

\* No cache goes stale: whatever was edited, run, reset or switched, every tab
\* shows the current trace with its own decoder, laid out with the settings in
\* force, the Main decoder can print the syntax in force, and the cursor is on a
\* line of the tab that is shown.
HistoryFresh ==
    /\ history_rows = Histories(trace, backend)
    /\ history_rows[0] # <<>> => rendered = <<backend, syntax, normalized>>
    /\ backend_supports(backend, syntax)
    /\ cursor \in 0 .. Len(RowsShown)

SelectedEvent == history_selection(history_tab).event

Relaid == history_tab' # history_tab \/ rendered' # rendered

\* Switching tab, decoder, syntax or addresses keeps the selected execution event
\* selected, although its row may be on another line.
SelectionKept ==
    [][ trace' = trace /\ SelectedEvent # 0 /\ Relaid => SelectedEvent' = SelectedEvent ]_vars

\* history_state_at: the last event at or above the cursor, whose registers are
\* shown; 0 is the seed.
ShownEvent ==
    LET above == { i \in 1 .. cursor : RowsShown[i].event # 0 }
    IN  IF above = {} THEN 0
        ELSE RowsShown[CHOOSE i \in above : \A j \in above : j <= i].event

\* Step always shows the state after the very next instruction that was executed
\* and Back the one before (or the state already shown, from a static row).
NavigationFollowsExecution ==
    [][ /\ Step => ShownEvent' = ShownEvent + 1
        /\ Back => ShownEvent' = IF SelectedEvent # 0 THEN ShownEvent - 1 ELSE ShownEvent
      ]_vars

\* Run to row never asks the platform for an offset outside the bytes it runs,
\* even when the bytes were edited after the row was laid out.
TargetInside ==
    trace.target # NoOffset => trace.target \in 0 .. Size[trace.code] - 1
===============================================================================
