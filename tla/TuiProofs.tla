------------------------------ MODULE TuiProofs ------------------------------
(***************************************************************************)
(* Proofs about the interactive front end, for inputs, decoders and traces *)
(* of any length.                                                          *)
(***************************************************************************)
EXTENDS Tui, LayoutProofs

\* The events a run records, of which only the last can be outside the input.
GoodRun(size, events) == events \in Seq(Event) /\ GoodEvents(size, events)

\* Every run of an input executes inside it, but for a last fault.
LEMMA RunsGood ==
    ASSUME NEW code \in Codes, NEW r \in Runs[code]
    PROVE  GoodRun(Size[code], r.events)
<1> DEFINE inside  == 0 .. Size[code] - 1
           Done(p) == [ i \in 1 .. Len(p) |-> [ offset |-> p[i], kind |-> "Completed" ] ]
           Good(e) == /\ e \in Seq(Event)
                      /\ \A k \in 1 .. Len(e) : e[k].offset \in inside
<1>1. Size[code] \in Nat \ {0}
  BY TuiAssumption
<1>2. ASSUME NEW n \in Nat, NEW p \in [1 .. n -> inside] PROVE Good(Done(p))
  <2>1. Len(p) = n
    OBVIOUS
  <2>2. \A i \in 1 .. n : p[i] \in inside /\ p[i] \in Int
    BY <1>1
  <2>3. \A i \in 1 .. n : [ offset |-> p[i], kind |-> "Completed" ] \in Event
    BY <2>2 DEF Event
  <2>4. Done(p) \in [1 .. n -> Event] /\ \A i \in 1 .. n : Done(p)[i].offset = p[i]
    BY <2>1, <2>3
  <2> HIDE DEF Done
  <2>5. Done(p) \in Seq(Event) /\ Len(Done(p)) = n
    BY <2>4
  <2> QED
    BY <2>2, <2>4, <2>5
<1>3. \/ \E n \in 0 .. MaxEvents : \E p \in [1 .. n -> inside] : r.events = Done(p)
      \/ \E n \in 0 .. MaxEvents : \E p \in [1 .. n -> inside] : \E o \in {-1} \cup inside :
            r.events = Append(Done(p), [ offset |-> o, kind |-> "Faulted" ])
  <2> DEFINE
        paths   == { p \in UNION { [1 .. n -> inside] : n \in 0 .. MaxEvents } :
                       p # <<>> => p[1] = 0 }
        Stops(p)  == IF p = <<>> THEN {0}
                     ELSE {NoOffset} \cup { o \in inside : ~StartsEvent(Done(p), o) }
        Faults(p) == IF p = <<>> THEN {-1, 0} ELSE {-1} \cup inside
        stopped == UNION { { [ events |-> Done(p), stop |-> o ] : o \in Stops(p) }
                           : p \in paths }
        faulted == UNION { { [ events |-> Append(Done(p), [ offset |-> o,
                                                            kind   |-> "Faulted" ]),
                               stop   |-> o ] : o \in Faults(p) }
                           : p \in { q \in paths : Len(q) < MaxEvents } }
  <2>1. Runs[code] = stopped \cup faulted
    BY DEF Runs
  <2>2. \A p \in paths : \E n \in 0 .. MaxEvents : p \in [1 .. n -> inside]
    OBVIOUS
  <2>3. \A p : Faults(p) \subseteq {-1} \cup inside
    BY <1>1
  <2> HIDE DEF paths, Stops, Faults, Done
  <2>4. CASE r \in stopped
    <3>1. PICK p \in paths : \E o \in Stops(p) : r = [ events |-> Done(p), stop |-> o ]
      BY <2>4
    <3> QED
      BY <2>2, <3>1
  <2>5. CASE r \in faulted
    <3>1. PICK p \in paths : \E o \in Faults(p) :
             r = [ events |-> Append(Done(p), [ offset |-> o, kind |-> "Faulted" ]), stop |-> o ]
      BY <2>5
    <3>2. PICK o \in Faults(p) :
             r = [ events |-> Append(Done(p), [ offset |-> o, kind |-> "Faulted" ]), stop |-> o ]
      BY <3>1
    <3>3. r.events = Append(Done(p), [ offset |-> o, kind |-> "Faulted" ])
      BY <3>2
    <3>4. o \in {-1} \cup inside
      BY <2>3
    <3> QED
      BY <2>2, <3>3, <3>4
  <2> QED
    BY <2>1, <2>4, <2>5
<1> HIDE DEF Done
<1>4. MaxEvents \in Nat
  BY TuiAssumption
<1>5. ASSUME NEW n \in 0 .. MaxEvents, NEW p \in [1 .. n -> inside], r.events = Done(p)
      PROVE  GoodRun(Size[code], r.events)
  <2>1. Good(r.events)
    BY <1>2, <1>4, <1>5
  <2> QED
    BY <2>1 DEF GoodRun, GoodEvents
<1>6. ASSUME NEW n \in 0 .. MaxEvents, NEW p \in [1 .. n -> inside], NEW o \in {-1} \cup inside,
             r.events = Append(Done(p), [ offset |-> o, kind |-> "Faulted" ])
      PROVE  GoodRun(Size[code], r.events)
  <2> DEFINE e == Done(p)
             x == [ offset |-> o, kind |-> "Faulted" ]
  <2>1. Good(e)
    BY <1>2, <1>4
  <2>2. x \in Event
    BY <1>1 DEF Event
  <2>3. r.events = Append(e, x)
    BY <1>6
  <2> HIDE DEF e, x
  <2>4. /\ r.events \in Seq(Event) /\ Len(r.events) - 1 = Len(e)
        /\ \A k \in 1 .. Len(e) : r.events[k] = e[k]
    BY <2>1, <2>2, <2>3
  <2>5. Len(r.events) \in Nat
    BY <2>4
  <2> QED
    BY <2>1, <2>4, <2>5 DEF GoodRun, GoodEvents
<1> QED
  BY <1>3, <1>5, <1>6

\* What run_engine returns is about the request, and its events lie in the input.
LEMMA ResultsGood ==
    ASSUME NEW code \in Codes, NEW target, NEW result \in Results(code, target)
    PROVE  /\ result.code = code /\ result.target = target /\ result.failure \in Failure
           /\ GoodRun(Size[code], result.events)
<1>1. CASE \E f \in Failure \ {"none"} :
             result = [ code |-> code, target |-> target, failure |-> f,
                        events |-> <<>>, stop |-> NoOffset ]
  <2>1. <<>> \in Seq(Event) /\ Len(<<>>) = 0
    OBVIOUS
  <2>2. GoodRun(Size[code], <<>>)
    BY <2>1 DEF GoodRun, GoodEvents
  <2> QED
    BY <1>1, <2>2
<1>2. CASE \E r \in Runs[code] :
             result = [ code |-> code, target |-> target, failure |-> "none",
                        events |-> r.events, stop |-> r.stop ]
  BY <1>2, RunsGood DEF Failure
<1>3. \/ \E f \in Failure \ {"none"} :
             result = [ code |-> code, target |-> target, failure |-> f,
                        events |-> <<>>, stop |-> NoOffset ]
      \/ \E r \in Runs[code] :
             result = [ code |-> code, target |-> target, failure |-> "none",
                        events |-> r.events, stop |-> r.stop ]
  BY DEF Results
<1> QED
  BY <1>1, <1>2, <1>3

-----------------------------------------------------------------------------
(* The histories of a trace.                                               *)

GoodTrace(t) ==
    /\ t.code \in Codes \cup {NoCode}
    /\ t.failure \in Failure
    /\ t.events \in Seq(Event)
    /\ t.code # NoCode => GoodRun(Size[t.code], t.events)

\* There is something to show.
Shown(t) == t.code # NoCode /\ t.failure # "instrumentation"

\* The events that have a row.
Events(t) == Inside(Size[t.code], t.events)

\* Every decoder shows the same events, or nothing.
LEMMA HistoryGood ==
    ASSUME NEW t, GoodTrace(t), NEW decoder \in Backends
    PROVE  /\ ~Shown(t) => HistoryOf(t, decoder) = <<>>
           /\ Shown(t) => /\ GoodRows(Size[t.code], HistoryOf(t, decoder), Events(t))
                          /\ HistoryOf(t, decoder) # <<>> /\ t.code \in Codes
           /\ Len(HistoryOf(t, decoder)) \in Nat
<1>1. CASE ~Shown(t)
  BY <1>1 DEF Shown, HistoryOf
<1>2. CASE Shown(t)
  <2>1. /\ t.code \in Codes /\ t.code # NoCode /\ t.failure # "instrumentation"
        /\ GoodRun(Size[t.code], t.events)
    BY <1>2 DEF Shown, GoodTrace
  <2>2. /\ Size[t.code] \in Nat \ {0}
        /\ Decoded[t.code][decoder] \in [0 .. Size[t.code] - 1 -> Nat]
    BY <2>1, TuiAssumption DEF Backends
  <2>3. HistoryOf(t, decoder) = Layout(Size[t.code], t.events, Decoded[t.code][decoder])
    BY <2>1 DEF HistoryOf
  <2>4. /\ GoodRows(Size[t.code], HistoryOf(t, decoder), Events(t))
        /\ HistoryOf(t, decoder) # <<>>
    BY <2>1, <2>2, <2>3, LayoutGood DEF Events, GoodRun
  <2>5. Len(HistoryOf(t, decoder)) \in Nat
    BY <2>4 DEF GoodRows
  <2> QED
    BY <1>2, <2>1, <2>4, <2>5
<1> QED
  BY <1>1, <1>2

\* The decoder of a tab.
LEMMA DecoderInRange ==
    ASSUME NEW tab \in Tabs, NEW main \in Backends
    PROVE  DecoderOf(tab, main) \in Backends
  BY TuiAssumption DEF Tabs, Backends, DecoderOf

\* A selection is looked up within the rows, and an event that has a row is found.
LEMMA Restored ==
    ASSUME NEW rows, Len(rows) \in Nat, NEW old \in Nat, NEW selection
    PROVE  LET to == restore_history_selection(rows, old, selection)
           IN  /\ to \in 0 .. Len(rows)
               /\ \A e : /\ selection.has_row /\ selection.event = e /\ e # 0
                         /\ \E i \in 1 .. Len(rows) : rows[i].event = e
                         => to \in 1 .. Len(rows) /\ rows[to].event = e
<1> DEFINE Matches(i) ==
             IF selection.event # 0 THEN rows[i].event = selection.event
             ELSE /\ rows[i].event = 0
                  /\ rows[i].offset <= selection.offset
                  /\ selection.offset < rows[i].offset + rows[i].length
           found == { i \in 1 .. Len(rows) : Matches(i) }
           least == CHOOSE i \in found : \A j \in found : i <= j
           to == restore_history_selection(rows, old, selection)
<1>1. to = IF ~selection.has_row THEN 0
           ELSE IF found # {} THEN least
           ELSE IF old < Len(rows) THEN old ELSE Len(rows)
  BY DEF restore_history_selection
<1>2. found # {} => least \in found
  <2>1. found \subseteq 0 .. Len(rows)
    OBVIOUS
  <2> HIDE DEF found
  <2>2. found # {} => \E x \in found : \A y \in found : x <= y
    BY <2>1, LeastOf, Zenon
  <2> QED
    BY <2>2
<1> HIDE DEF to, least
<1>3. to \in 0 .. Len(rows)
  <2>1. found \subseteq 0 .. Len(rows)
    OBVIOUS
  <2> HIDE DEF found
  <2> QED
    BY <1>1, <1>2, <2>1
<1>4. ASSUME NEW e, selection.has_row, selection.event = e, e # 0,
             NEW i \in 1 .. Len(rows), rows[i].event = e
      PROVE  to \in 1 .. Len(rows) /\ rows[to].event = e
  <2>1. i \in found
    BY <1>4
  <2>2. to \in found
    <3> HIDE DEF found
    <3> QED
      BY <1>1, <1>2, <1>4, <2>1
  <2> QED
    BY <1>4, <2>2
<1> QED
  BY <1>3, <1>4 DEF to


-----------------------------------------------------------------------------
(* The inductive invariant.                                                *)

TuiInv == TypeOK /\ GoodTrace(trace) /\ HistoryFresh /\ TargetInside

\* The rows of a tab are the layout of the trace by the tab's decoder.
LEMMA RowsOfTab ==
    ASSUME TuiInv, NEW tab \in Tabs
    PROVE  /\ history_rows[tab] = HistoryOf(trace, DecoderOf(tab, backend))
           /\ Len(history_rows[tab]) \in Nat
           /\ ~Shown(trace) => history_rows[tab] = <<>>
           /\ Shown(trace) =>
                /\ GoodRows(Size[trace.code], history_rows[tab], Events(trace))
                /\ history_rows[tab] # <<>> /\ trace.code \in Codes
<1>1. history_rows = Histories(trace, backend) /\ backend \in Backends /\ GoodTrace(trace)
  BY DEF TuiInv, HistoryFresh, TypeOK
<1>2. history_rows[tab] = HistoryOf(trace, DecoderOf(tab, backend))
  BY <1>1 DEF Histories
<1>3. DecoderOf(tab, backend) \in Backends
  BY <1>1, DecoderInRange
<1> QED
  BY <1>1, <1>2, <1>3, HistoryGood

\* Laying out any good trace with any decoder in front.
LEMMA HistoriesGood ==
    ASSUME NEW t, GoodTrace(t), NEW main \in Backends, NEW tab \in Tabs
    PROVE  /\ Histories(t, main)[tab] = HistoryOf(t, DecoderOf(tab, main))
           /\ DOMAIN Histories(t, main) = Tabs
           /\ Len(Histories(t, main)[tab]) \in Nat
           /\ ~Shown(t) => Histories(t, main)[tab] = <<>>
           /\ Shown(t) => GoodRows(Size[t.code], Histories(t, main)[tab], Events(t))
<1>1. /\ Histories(t, main)[tab] = HistoryOf(t, DecoderOf(tab, main))
      /\ DOMAIN Histories(t, main) = Tabs
  BY DEF Histories
<1>2. DecoderOf(tab, main) \in Backends
  BY DecoderInRange
<1> QED
  BY <1>1, <1>2, HistoryGood

\* No trace, no rows.
LEMMA NoTraceGood ==
    /\ GoodTrace(NoTrace) /\ ~Shown(NoTrace)
    /\ NoTrace.target = NoOffset /\ NoTrace.code = NoCode
    /\ \A main \in Backends : Histories(NoTrace, main) = [ tab \in Tabs |-> <<>> ]
<1>1. /\ NoTrace.code = NoCode /\ NoTrace.target = NoOffset /\ NoTrace.failure = "none"
      /\ NoTrace.events = <<>>
  BY DEF NoTrace
<1>2. GoodTrace(NoTrace) /\ ~Shown(NoTrace)
  BY <1>1 DEF GoodTrace, Shown, Failure
<1>3. \A main \in Backends : Histories(NoTrace, main) = [ tab \in Tabs |-> <<>> ]
  BY <1>1 DEF Histories, HistoryOf
<1> QED
  BY <1>1, <1>2, <1>3

\* At the start nothing is shown.
LEMMA TuiInit == Init => TuiInv
<1> SUFFICES ASSUME Init PROVE TuiInv
  OBVIOUS
<1>1. 0 \in Tabs /\ backend \in Backends
  BY TuiAssumption DEF Tabs, Init
<1>2. /\ trace = NoTrace /\ history_rows = [ tab \in Tabs |-> <<>> ]
      /\ cursor = 0 /\ history_tab = 0 /\ previous_history_tab = 0
      /\ rendered = <<backend, syntax, normalized>> /\ backend_supports(backend, syntax)
  BY DEF Init
<1>3. history_rows[0] = <<>> /\ Len(RowsShown) = 0
  BY <1>1, <1>2 DEF RowsShown
<1>4. HistoryFresh
  BY <1>1, <1>2, <1>3, NoTraceGood DEF HistoryFresh
<1>5. GoodTrace(trace) /\ TargetInside
  BY <1>2, NoTraceGood DEF TargetInside
<1>6. TypeOK
  <2>1. /\ trace.code \in Codes \cup {NoCode} /\ trace.events \in Seq(Event)
        /\ trace.failure \in Failure
    BY <1>5 DEF GoodTrace
  <2>2. /\ text \in Codes \cup {BadText} /\ syntax \in Syntax /\ normalized \in BOOLEAN
        /\ warning \in BOOLEAN /\ modal = "none"
    BY DEF Init
  <2>3. DOMAIN history_rows = Tabs /\ cursor \in 0 .. Len(RowsShown)
    BY <1>2, <1>3
  <2> QED
    BY <1>1, <1>2, <2>1, <2>2, <2>3 DEF TypeOK
<1> QED
  BY <1>4, <1>5, <1>6 DEF TuiInv

\* What stays the same, or stays true, when a handler leaves trace and histories alone.
LEMMA MoveStep ==
    ASSUME TuiInv, NEW to \in 0 .. Len(RowsShown), Move(to)
    PROVE  TuiInv'
<1>1. /\ cursor' = to /\ RowsShown' = RowsShown
      /\ UNCHANGED <<text, backend, syntax, normalized, trace, history_rows, rendered, history_tab,
                     previous_history_tab, warning, modal>>
  BY DEF Move, RowsShown, settings
<1>2. HistoryFresh'
  BY <1>1 DEF TuiInv, HistoryFresh
<1>3. TypeOK'
  BY <1>1 DEF TuiInv, TypeOK
<1>4. GoodTrace(trace)' /\ TargetInside'
  BY <1>1 DEF TuiInv, TargetInside, GoodTrace
<1> QED
  BY <1>2, <1>3, <1>4 DEF TuiInv

\* Editing and the modal windows.
LEMMA OutsideStep ==
    ASSUME TuiInv, Edit \/ OpenModal \/ CloseModal \/ UNCHANGED vars
    PROVE  TuiInv'
<1>1. /\ UNCHANGED <<backend, syntax, normalized, trace, history_rows, rendered, cursor,
                     history_tab, previous_history_tab, warning>>
      /\ text' \in Codes \cup {BadText} /\ modal' \in {"none", "settings", "about"}
  BY DEF Edit, OpenModal, CloseModal, settings, view, vars, TuiInv, TypeOK
<1>2. RowsShown' = RowsShown
  BY <1>1 DEF RowsShown
<1>3. HistoryFresh'
  BY <1>1, <1>2 DEF TuiInv, HistoryFresh
<1>4. TypeOK'
  BY <1>1, <1>2 DEF TuiInv, TypeOK
<1>5. GoodTrace(trace)' /\ TargetInside'
  BY <1>1 DEF TuiInv, TargetInside, GoodTrace
<1> QED
  BY <1>3, <1>4, <1>5 DEF TuiInv

\* Another tab comes to the front.
LEMMA TabStep ==
    ASSUME TuiInv, ChangeTab
    PROVE  TuiInv'
<1>1. /\ history_tab' \in Tabs /\ previous_history_tab' = history_tab'
      /\ cursor' = restore_history_selection(history_rows[history_tab'], cursor,
                                             history_selection(previous_history_tab))
      /\ UNCHANGED <<text, backend, syntax, normalized, trace, history_rows, rendered, warning,
                     modal>>
  BY DEF ChangeTab, settings
<1>2. Len(history_rows[history_tab']) \in Nat
  BY <1>1, RowsOfTab
<1>3. cursor \in Nat
  <2>1. history_tab \in Tabs /\ cursor \in 0 .. Len(RowsShown)
    BY DEF TuiInv, TypeOK
  <2> QED
    BY <2>1
<1>4. cursor' \in 0 .. Len(history_rows[history_tab'])
  BY <1>1, <1>2, <1>3, Restored
<1>5. cursor' \in 0 .. Len(RowsShown')
  BY <1>1, <1>4 DEF RowsShown
<1>6. HistoryFresh'
  BY <1>1, <1>5 DEF TuiInv, HistoryFresh
<1>7. TypeOK'
  BY <1>1, <1>5 DEF TuiInv, TypeOK
<1>8. GoodTrace(trace)' /\ TargetInside'
  BY <1>1 DEF TuiInv, TargetInside, GoodTrace
<1> QED
  BY <1>6, <1>7, <1>8 DEF TuiInv


\* Everything is put back but the settings.
LEMMA ResetStep ==
    ASSUME TuiInv, Reset
    PROVE  TuiInv'
<1>1. /\ trace' = NoTrace /\ history_rows' = [ tab \in Tabs |-> <<>> ]
      /\ cursor' = 0 /\ history_tab' = 0 /\ previous_history_tab' = 0
      /\ UNCHANGED <<text, backend, syntax, normalized, rendered, warning, modal>>
  BY DEF Reset, settings
<1>2. 0 \in Tabs /\ backend \in Backends
  BY TuiAssumption DEF Tabs, TuiInv, TypeOK
<1>3. history_rows'[0] = <<>> /\ Len(RowsShown') = 0
  BY <1>1, <1>2 DEF RowsShown
<1>4. HistoryFresh'
  BY <1>1, <1>2, <1>3, NoTraceGood DEF TuiInv, HistoryFresh
<1>5. GoodTrace(trace')
  BY <1>1, NoTraceGood
<1>6. TargetInside'
  BY <1>1, NoTraceGood DEF TargetInside
<1>7. TypeOK'
  <2>1. /\ trace'.code \in Codes \cup {NoCode} /\ trace'.events \in Seq(Event)
        /\ trace'.failure \in Failure
    BY <1>5 DEF GoodTrace
  <2>2. DOMAIN history_rows' = Tabs /\ cursor' \in 0 .. Len(RowsShown')
    BY <1>1, <1>3
  <2> QED
    BY <1>1, <1>2, <2>1, <2>2 DEF TuiInv, TypeOK
<1> QED
  BY <1>4, <1>5, <1>6, <1>7 DEF TuiInv, GoodTrace

\* A run with a target that lies in the bytes it is asked for.
LEMMA ExecuteStep ==
    ASSUME TuiInv, NEW target, Execute(target),
           target # NoOffset /\ text = trace.code => target \in 0 .. Size[text] - 1
    PROVE  TuiInv'
<1>1. PICK result \in Results(text, target) :
         /\ trace' = result
         /\ history_rows' = Histories(result, backend)
         /\ rendered' = <<backend, syntax, normalized>>
         /\ cursor' = IF target # NoOffset /\ StoppedAt(result, target)
                      THEN restore_history_selection(history_rows'[history_tab], 0,
                               [ has_row |-> TRUE, offset |-> target, event |-> 0 ])
                      ELSE 0
         /\ warning' = (warning \/ result.failure = "instrumentation")
  BY DEF Execute
<1>2. /\ text # BadText /\ (target # NoOffset => text = trace.code)
      /\ UNCHANGED <<text, backend, syntax, normalized, history_tab, previous_history_tab, modal>>
  BY DEF Execute, settings
<1>3. /\ text \in Codes /\ backend \in Backends /\ history_tab \in Tabs
      /\ syntax \in Syntax /\ normalized \in BOOLEAN /\ warning \in BOOLEAN
      /\ previous_history_tab = history_tab /\ modal \in {"none", "settings", "about"}
      /\ backend_supports(backend, syntax)
  BY <1>2 DEF TuiInv, TypeOK, HistoryFresh
<1>4. /\ result.code = text /\ result.target = target /\ result.failure \in Failure
      /\ GoodRun(Size[text], result.events)
  BY <1>3, ResultsGood
<1>5. GoodTrace(result)
  BY <1>3, <1>4 DEF GoodTrace, GoodRun
<1>6. Len(history_rows'[history_tab]) \in Nat /\ DOMAIN history_rows' = Tabs
  BY <1>1, <1>3, <1>5, HistoriesGood
<1>7. cursor' \in 0 .. Len(RowsShown')
  <2>1. cursor' \in 0 .. Len(history_rows'[history_tab])
    <3>1. 0 \in 0 .. Len(history_rows'[history_tab]) /\ 0 \in Nat
      BY <1>6
    <3> QED
      BY <1>1, <1>6, <3>1, Restored
  <2> QED
    BY <1>2, <2>1 DEF RowsShown
<1>8. HistoryFresh'
  BY <1>1, <1>2, <1>3, <1>7 DEF HistoryFresh
<1>9. TargetInside'
  BY <1>1, <1>2, <1>4 DEF TargetInside
<1>10. TypeOK'
  <2>1. /\ trace'.code \in Codes \cup {NoCode} /\ trace'.events \in Seq(Event)
        /\ trace'.failure \in Failure
    BY <1>1, <1>5 DEF GoodTrace
  <2>2. warning' \in BOOLEAN
    BY <1>1
  <2>3. rendered' \in Backends \X Syntax \X BOOLEAN
    BY <1>1, <1>3
  <2> QED
    BY <1>2, <1>3, <1>6, <1>7, <2>1, <2>2, <2>3 DEF TypeOK
<1>11. GoodTrace(trace)'
  BY <1>1, <1>5 DEF GoodTrace
<1> QED
  BY <1>8, <1>9, <1>10, <1>11 DEF TuiInv

\* Run to row: the row lies in the bytes its history was made from.
LEMMA RowTargetInside ==
    ASSUME TuiInv, cursor \in 1 .. Len(RowsShown)
    PROVE  RowsShown[cursor].offset \in 0 .. Size[trace.code] - 1
<1>1. history_tab \in Tabs
  BY DEF TuiInv, TypeOK
<1>2. RowsShown # <<>>
  BY DEF TuiInv
<1>3. GoodRows(Size[trace.code], RowsShown, Events(trace))
  BY <1>1, <1>2, RowsOfTab DEF RowsShown
<1>4. RowsShown[cursor] \in AnyRow(Size[trace.code])
  BY <1>3 DEF GoodRows
<1> QED
  BY <1>4 DEF AnyRow

\* Other settings: the histories are laid out again wherever there is something to show.
LEMMA SettingsStep ==
    ASSUME TuiInv, trace' = trace, NEW relaid \in BOOLEAN, Shown(trace) => relaid,
           backend' \in Backends, syntax' \in Syntax, normalized' \in BOOLEAN,
           backend_supports(backend', syntax'),
           relaid => rebuild_history(backend', syntax', normalized'),
           ~relaid => UNCHANGED view,
           UNCHANGED <<text, warning, modal>>
    PROVE  TuiInv'
<1>1. history_tab' = history_tab /\ previous_history_tab' = previous_history_tab
  BY DEF rebuild_history, view
<1>2. /\ history_tab \in Tabs /\ previous_history_tab = history_tab /\ GoodTrace(trace)
      /\ text \in Codes \cup {BadText} /\ warning \in BOOLEAN
      /\ modal \in {"none", "settings", "about"} /\ cursor \in 0 .. Len(RowsShown)
      /\ rendered \in Backends \X Syntax \X BOOLEAN /\ 0 \in Tabs
      /\ history_rows = Histories(trace, backend) /\ backend \in Backends
  BY TuiAssumption DEF TuiInv, TypeOK, HistoryFresh, Tabs
<1>3. history_rows' = Histories(trace, backend')
  <2>1. CASE relaid
    BY <2>1 DEF rebuild_history
  <2>2. CASE ~relaid
    <3>1. \A tab \in Tabs : /\ Histories(trace, backend)[tab] = <<>>
                            /\ Histories(trace, backend')[tab] = <<>>
      BY <1>2, <2>2, HistoriesGood
    <3>2. Histories(trace, backend) = Histories(trace, backend')
      BY <3>1 DEF Histories
    <3> QED
      BY <1>2, <2>2, <3>2 DEF view
  <2> QED
    BY <2>1, <2>2
<1>4. /\ DOMAIN history_rows' = Tabs /\ Len(history_rows'[history_tab]) \in Nat
      /\ ~Shown(trace) => history_rows'[0] = <<>>
  BY <1>2, <1>3, HistoriesGood
<1>5. cursor' \in 0 .. Len(RowsShown')
  <2>1. CASE relaid
    <3>1. cursor' = restore_history_selection(history_rows'[history_tab], cursor,
                                              history_selection(history_tab))
      BY <2>1 DEF rebuild_history
    <3>2. cursor \in Nat
      BY <1>2
    <3>3. cursor' \in 0 .. Len(history_rows'[history_tab])
      BY <1>4, <3>1, <3>2, Restored
    <3> QED
      BY <1>1, <3>3 DEF RowsShown
  <2>2. CASE ~relaid
    BY <1>1, <1>2, <2>2 DEF view, RowsShown
  <2> QED
    BY <2>1, <2>2
<1>6. /\ rendered' \in Backends \X Syntax \X BOOLEAN
      /\ history_rows'[0] # <<>> => rendered' = <<backend', syntax', normalized'>>
  <2>1. CASE relaid
    <3>1. rendered' = <<backend', syntax', normalized'>>
      BY <2>1 DEF rebuild_history
    <3> QED
      BY <3>1
  <2>2. CASE ~relaid
    BY <1>2, <1>4, <2>2 DEF view
  <2> QED
    BY <2>1, <2>2
<1>7. HistoryFresh'
  BY <1>3, <1>5, <1>6 DEF HistoryFresh, backend_supports
<1>8. TypeOK'
  <2>1. /\ trace'.code \in Codes \cup {NoCode} /\ trace'.events \in Seq(Event)
        /\ trace'.failure \in Failure
    BY <1>2 DEF GoodTrace
  <2> QED
    BY <1>1, <1>2, <1>4, <1>5, <1>6, <2>1 DEF TypeOK
<1>9. GoodTrace(trace)' /\ TargetInside'
  BY <1>2 DEF TuiInv, TargetInside, GoodTrace
<1> QED
  BY <1>7, <1>8, <1>9 DEF TuiInv

\* cycle_backend goes round.
LEMMA CycleInRange ==
    ASSUME NEW b \in Backends, NEW d \in {-1, 1}
    PROVE  (b + d + BackendCount) % BackendCount \in Backends
<1>1. BackendCount \in Nat \ {0}
  BY TuiAssumption
<1>2. b + d + BackendCount \in Int
  BY <1>1 DEF Backends
<1> QED
  BY <1>1, <1>2 DEF Backends

\* The settings window.
LEMMA SettingsActions ==
    ASSUME TuiInv,
           toggle_syntax \/ cycle_backend(1) \/ cycle_backend(-1) \/ ToggleAddresses
    PROVE  TuiInv'
<1>1. /\ backend \in Backends /\ syntax \in Syntax /\ normalized \in BOOLEAN
      /\ backend_supports(backend, syntax) /\ 0 \in Tabs
  BY TuiAssumption DEF TuiInv, TypeOK, HistoryFresh, Tabs
<1>2. Shown(trace) => history_rows[0] # <<>> /\ trace.code # NoCode
  BY <1>1, RowsOfTab DEF Shown
<1>3. CASE toggle_syntax
  <2>1. /\ syntax' \in Syntax /\ backend_supports(backend, syntax')
        /\ history_rows[0] # <<>> => rebuild_history(backend, syntax', normalized)
        /\ ~(history_rows[0] # <<>>) => UNCHANGED view
        /\ UNCHANGED <<text, backend, normalized, trace, warning, modal>>
    BY <1>1, <1>3 DEF toggle_syntax, Syntax
  <2> DEFINE relaid == history_rows[0] # <<>>
  <2>2. relaid \in BOOLEAN /\ (Shown(trace) => relaid)
    BY <1>2
  <2>3. backend_supports(backend', syntax')
    BY <2>1
  <2>4. /\ relaid => rebuild_history(backend', syntax', normalized')
        /\ ~relaid => UNCHANGED view
    BY <2>1
  <2> HIDE DEF relaid
  <2> QED
    BY <1>1, <2>1, <2>2, <2>3, <2>4, SettingsStep
<1>4. ASSUME NEW d \in {-1, 1}, cycle_backend(d) PROVE TuiInv'
  <2>1. /\ backend' = (backend + d + BackendCount) % BackendCount
        /\ syntax' = IF backend_supports(backend', syntax) THEN syntax ELSE "Intel"
        /\ history_rows[0] # <<>> => rebuild_history(backend', syntax', normalized)
        /\ ~(history_rows[0] # <<>>) => UNCHANGED view
        /\ UNCHANGED <<text, normalized, trace, warning, modal>>
    BY <1>4 DEF cycle_backend
  <2> DEFINE relaid == history_rows[0] # <<>>
  <2>2. relaid \in BOOLEAN /\ (Shown(trace) => relaid)
    BY <1>2
  <2>3. backend' \in Backends
    BY <1>1, <2>1, CycleInRange
  <2>4. syntax' \in Syntax /\ backend_supports(backend', syntax')
    BY <1>1, <2>1 DEF backend_supports, Syntax
  <2>5. /\ relaid => rebuild_history(backend', syntax', normalized')
        /\ ~relaid => UNCHANGED view
    BY <2>1
  <2> HIDE DEF relaid
  <2> QED
    BY <1>1, <2>1, <2>2, <2>3, <2>4, <2>5, SettingsStep
<1>5. CASE ToggleAddresses
  <2>1. /\ normalized' = ~normalized
        /\ trace.code # NoCode => rebuild_history(backend, syntax, normalized')
        /\ ~(trace.code # NoCode) => UNCHANGED view
        /\ UNCHANGED <<text, backend, syntax, trace, warning, modal>>
    BY <1>5 DEF ToggleAddresses
  <2> DEFINE relaid == trace.code # NoCode
  <2>2. relaid \in BOOLEAN /\ (Shown(trace) => relaid)
    BY <1>2
  <2>3. normalized' \in BOOLEAN /\ backend_supports(backend', syntax')
    BY <1>1, <2>1
  <2>4. /\ relaid => rebuild_history(backend', syntax', normalized')
        /\ ~relaid => UNCHANGED view
    BY <2>1
  <2> HIDE DEF relaid
  <2> QED
    BY <1>1, <2>1, <2>2, <2>3, <2>4, SettingsStep
<1> QED
  BY <1>3, <1>4, <1>5


\* Every handler keeps the histories fresh and the selection on a line.
LEMMA TuiStep == TuiInv /\ [Next]_vars => TuiInv'
<1> SUFFICES ASSUME TuiInv, [Next]_vars PROVE TuiInv'
  OBVIOUS
<1>1. Len(RowsShown) \in Nat /\ cursor \in 0 .. Len(RowsShown)
  BY RowsOfTab DEF TuiInv, TypeOK, RowsShown
<1>2. ASSUME NEW to, to \in 0 .. Len(RowsShown), Move(to) PROVE TuiInv'
  BY <1>2, MoveStep
<1>3. CASE Run
  BY <1>3, ExecuteStep DEF Run
<1>4. CASE run_to_selected_row
  <2> DEFINE target == RowsShown[cursor].offset
  <2>1. cursor \in 1 .. Len(RowsShown) /\ Execute(target)
    BY <1>4 DEF run_to_selected_row
  <2>2. target \in 0 .. Size[trace.code] - 1
    BY <2>1, RowTargetInside
  <2> HIDE DEF target
  <2> QED
    BY <2>1, <2>2, ExecuteStep
<1>5. CASE Step
  <2>1. PICK i \in cursor + 1 .. Len(RowsShown) : Move(i)
    BY <1>5 DEF Step
  <2>2. i \in 0 .. Len(RowsShown)
    BY <1>1
  <2> QED
    BY <1>2, <2>1, <2>2
<1>6. CASE Back
  <2> DEFINE before == { i \in 1 .. cursor - 1 : Executed(RowsShown[i]) }
             last   == CHOOSE i \in before : \A j \in before : j <= i
  <2>1. Move(IF before = {} THEN 0 ELSE last)
    BY <1>6 DEF Back
  <2>2. before \subseteq 0 .. Len(RowsShown)
    BY <1>1
  <2>3. before # {} => last \in before
    <3> HIDE DEF before
    <3>1. before # {} => \E x \in before : \A y \in before : y <= x
      BY <1>1, <2>2, GreatestOf, Zenon
    <3> QED
      BY <3>1
  <2> HIDE DEF before, last
  <2>4. (IF before = {} THEN 0 ELSE last) \in 0 .. Len(RowsShown)
    <3>1. CASE before = {}
      BY <1>1, <3>1
    <3>2. CASE before # {}
      <4>1. last \in 0 .. Len(RowsShown)
        BY <2>2, <2>3, <3>2
      <4> QED
        BY <3>2, <4>1, Zenon
    <3> QED
      BY <3>1, <3>2
  <2> QED
    BY <1>2, <2>1, <2>4
<1>7. CASE WheelUp \/ WheelDown
  <2>1. \E to \in 0 .. Len(RowsShown) : Move(to)
    BY <1>1, <1>7 DEF WheelUp, WheelDown
  <2> QED
    BY <1>2, <2>1
<1>8. CASE MenuSelect
  BY <1>2, <1>8 DEF MenuSelect
<1>9. CASE Edit \/ OpenModal \/ CloseModal \/ UNCHANGED vars
  BY <1>9, OutsideStep
<1>10. CASE toggle_syntax \/ cycle_backend(1) \/ cycle_backend(-1) \/ ToggleAddresses
  BY <1>10, SettingsActions
<1> QED
  BY <1>3, <1>4, <1>5, <1>6, <1>7, <1>8, <1>9, <1>10, TabStep, ResetStep DEF Next

-----------------------------------------------------------------------------
(* The theorems.                                                           *)

\* The invariant holds from the start and is kept by every handler.
LEMMA TuiSound == Spec => []TuiInv
  BY TuiInit, TuiStep, PTL DEF Spec

\* The user interface stays within its types for any inputs and decoders.
THEOREM TypeCorrect == Spec => []TypeOK
<1>1. TuiInv => TypeOK
  BY DEF TuiInv
<1> QED
  BY <1>1, TuiSound, PTL

\* However the handlers follow each other, every tab shows the current trace with its
\* own decoder and the settings in force, and the cursor is on a line of it.
THEOREM HistoriesAlwaysFresh == Spec => []HistoryFresh
<1>1. TuiInv => HistoryFresh
  BY DEF TuiInv
<1> QED
  BY <1>1, TuiSound, PTL

\* Run to row never asks for an offset outside the bytes it runs.
THEOREM TargetAlwaysInside == Spec => []TargetInside
<1>1. TuiInv => TargetInside
  BY DEF TuiInv
<1> QED
  BY <1>1, TuiSound, PTL

\* The row that is selected, where there is one, is a row of an event that every tab has.
LEMMA SelectedHasRow ==
    ASSUME TuiInv, SelectedEvent # 0
    PROVE  /\ Shown(trace) /\ SelectedEvent \in 1 .. Events(trace)
           /\ history_selection(history_tab).has_row
           /\ history_tab \in Tabs /\ cursor \in Nat
           /\ cursor \in 1 .. Len(RowsShown) /\ SelectedEvent = RowsShown[cursor].event
<1>1. history_tab \in Tabs /\ cursor \in 0 .. Len(RowsShown)
  BY DEF TuiInv, TypeOK
<1>2. /\ cursor \in 1 .. Len(RowsShown) /\ SelectedEvent = RowsShown[cursor].event
      /\ history_selection(history_tab).has_row
  BY DEF SelectedEvent, history_selection, NoSelection, RowsShown
<1>3. RowsShown # <<>>
  BY <1>2
<1>4. Shown(trace) /\ GoodRows(Size[trace.code], RowsShown, Events(trace))
  BY <1>1, <1>3, RowsOfTab DEF RowsShown
<1>5. RowsShown[cursor].event \in 0 .. Events(trace)
  BY <1>2, <1>4 DEF GoodRows, InOrder
<1>6. SelectedEvent \in 1 .. Events(trace)
  BY <1>2, <1>5
<1> QED
  BY <1>1, <1>2, <1>4, <1>6

\* What a lookup of the selected event in the new rows selects.
LEMMA LookupKeeps ==
    ASSUME TuiInv, TuiInv', trace' = trace, SelectedEvent # 0,
           cursor' = restore_history_selection(history_rows'[history_tab'], cursor,
                                               history_selection(history_tab))
    PROVE  SelectedEvent' = SelectedEvent
<1> DEFINE rows == history_rows'[history_tab']
<1>1. /\ Shown(trace) /\ SelectedEvent \in 1 .. Events(trace)
      /\ history_selection(history_tab).has_row /\ cursor \in Nat
  BY SelectedHasRow
<1>2. /\ history_tab' \in Tabs /\ backend' \in Backends /\ GoodTrace(trace)
      /\ history_rows' = Histories(trace, backend')
  BY DEF TuiInv, TypeOK, HistoryFresh
<1>3. GoodRows(Size[trace.code], rows, Events(trace)) /\ Len(rows) \in Nat
  BY <1>1, <1>2, HistoriesGood
<1>4. \E i \in 1 .. Len(rows) : rows[i].event = SelectedEvent
  BY <1>1, <1>3 DEF GoodRows, InOrder
<1>5. cursor' \in 1 .. Len(rows) /\ rows[cursor'].event = SelectedEvent
  <2>1. history_selection(history_tab).event = SelectedEvent
    BY DEF SelectedEvent
  <2> DEFINE selection == history_selection(history_tab)
  <2>2. /\ Len(rows) \in Nat /\ cursor \in Nat
        /\ cursor' = restore_history_selection(rows, cursor, selection)
    BY <1>1, <1>3
  <2>3. selection.has_row /\ selection.event = SelectedEvent
    BY <1>1, <2>1
  <2> DEFINE to == restore_history_selection(rows, cursor, selection)
  <2> HIDE DEF rows, selection
  <2>4. \A e : /\ selection.has_row /\ selection.event = e /\ e # 0
               /\ \E i \in 1 .. Len(rows) : rows[i].event = e
               => to \in 1 .. Len(rows) /\ rows[to].event = e
    BY <2>2, Restored, Zenon
  <2> QED
    BY <1>4, <2>2, <2>3, <2>4, Zenon
<1>6. SelectedEvent' = rows[cursor'].event
  BY <1>5 DEF SelectedEvent, history_selection
<1> QED
  BY <1>5, <1>6

\* Switching tab, decoder, syntax or addresses keeps the selected event selected.
THEOREM SelectionAlwaysKept == Spec => SelectionKept
<1> DEFINE A == trace' = trace /\ SelectedEvent # 0 /\ Relaid => SelectedEvent' = SelectedEvent
<1>1. TuiInv /\ TuiInv' /\ [Next]_vars => [A]_vars
  <2> SUFFICES ASSUME TuiInv, TuiInv', Next, trace' = trace, SelectedEvent # 0, Relaid
               PROVE  SelectedEvent' = SelectedEvent
    OBVIOUS
  <2>1. /\ Shown(trace)
        /\ history_tab \in Tabs
        /\ previous_history_tab = history_tab
        /\ 0 \in Tabs
    BY SelectedHasRow, TuiAssumption DEF TuiInv, TypeOK, Tabs
  <2>2. history_rows[0] # <<>> /\ rendered = <<backend, syntax, normalized>>
    BY <2>1, RowsOfTab DEF TuiInv, HistoryFresh
  <2>3. ASSUME NEW main, NEW syn, NEW norm, rebuild_history(main, syn, norm)
        PROVE  SelectedEvent' = SelectedEvent
    BY <2>3, LookupKeeps DEF rebuild_history
  <2>4. ASSUME NEW to, Move(to) PROVE FALSE
    BY <2>4 DEF Move, Relaid
  <2>5. ASSUME NEW target, Execute(target) PROVE FALSE
    BY <2>2, <2>5 DEF Execute, Relaid
  <2>6. CASE Run \/ run_to_selected_row
    BY <2>5, <2>6 DEF Run, run_to_selected_row
  <2>7. CASE Step \/ Back
    BY <2>4, <2>7 DEF Step, Back
  <2>8. CASE WheelUp \/ WheelDown \/ MenuSelect
    BY <2>4, <2>8 DEF WheelUp, WheelDown, MenuSelect
  <2>9. CASE Edit \/ OpenModal \/ CloseModal
    BY <2>9 DEF Edit, OpenModal, CloseModal, view, Relaid
  <2>10. CASE ChangeTab
    BY <2>1, <2>10, LookupKeeps DEF ChangeTab
  <2>11. CASE Reset
    BY <2>1, <2>11, NoTraceGood DEF Reset
  <2>12. CASE toggle_syntax
    BY <2>2, <2>3, <2>12 DEF toggle_syntax
  <2>13. ASSUME NEW d, cycle_backend(d) PROVE SelectedEvent' = SelectedEvent
    BY <2>2, <2>3, <2>13 DEF cycle_backend
  <2>14. CASE ToggleAddresses
    BY <2>1, <2>3, <2>14 DEF ToggleAddresses, Shown
  <2> QED
    BY <2>6, <2>7, <2>8, <2>9, <2>10, <2>11, <2>12, <2>13, <2>14 DEF Next
<1> QED
  BY <1>1, TuiSound, PTL DEF Spec, SelectionKept


\* The last event at or above a line.
LastEvent(rows, c) ==
    LET above == { i \in 1 .. c : rows[i].event # 0 }
    IN  IF above = {} THEN 0
        ELSE rows[CHOOSE i \in above : \A j \in above : j <= i].event

\* Where the last event is.
LEMMA LastEventIs ==
    ASSUME NEW rows, NEW c \in Nat
    PROVE  /\ (\A i \in 1 .. c : rows[i].event = 0) => LastEvent(rows, c) = 0
           /\ \A p \in 1 .. c :
                rows[p].event # 0 /\ (\A i \in p + 1 .. c : rows[i].event = 0) =>
                  LastEvent(rows, c) = rows[p].event
<1> DEFINE above == { i \in 1 .. c : rows[i].event # 0 }
           top   == CHOOSE i \in above : \A j \in above : j <= i
<1>1. LastEvent(rows, c) = IF above = {} THEN 0 ELSE rows[top].event
  BY DEF LastEvent
<1>2. (\A i \in 1 .. c : rows[i].event = 0) => above = {}
  OBVIOUS
<1>3. ASSUME NEW p \in 1 .. c, rows[p].event # 0, \A i \in p + 1 .. c : rows[i].event = 0
      PROVE  above # {} /\ top = p
  <2>1. p \in above /\ above \subseteq 1 .. c
    BY <1>3
  <2>2. \A j \in above : j <= p
    BY <1>3
  <2>3. top \in above /\ \A j \in above : j <= top
    <3> HIDE DEF above
    <3> QED
      BY <2>1, <2>2
  <2>4. p <= top /\ top <= p /\ top \in 1 .. c
    <3> HIDE DEF top, above
    <3> QED
      BY <2>1, <2>2, <2>3
  <2> HIDE DEF top, above
  <2> QED
    BY <2>1, <2>4
<1> HIDE DEF above, top
<1> QED
  BY <1>1, <1>2, <1>3

\* Consecutive event rows are consecutive events, and the first is the first event.
LEMMA NextEvent ==
    ASSUME NEW n \in Nat, NEW rows, Len(rows) \in Nat, InOrder(rows, n),
           NEW i \in 1 .. Len(rows), rows[i].event # 0
    PROVE  /\ rows[i].event \in 1 .. n
           /\ (\A j \in 1 .. i - 1 : rows[j].event = 0) => rows[i].event = 1
           /\ \A p \in 1 .. i - 1 :
                rows[p].event # 0 /\ (\A j \in p + 1 .. i - 1 : rows[j].event = 0) =>
                  rows[i].event = rows[p].event + 1
<1> DEFINE e == rows[i].event
<1>1. e \in 1 .. n
  BY DEF InOrder
<1>2. ASSUME e > 1 PROVE \E j \in 1 .. i - 1 : rows[j].event = e - 1
  <2>1. e - 1 \in 1 .. n
    BY <1>1, <1>2
  <2>2. PICK j \in 1 .. Len(rows) : rows[j].event = e - 1
    BY <2>1 DEF InOrder
  <2>3. j < i
    <3>1. CASE j = i
      BY <1>1, <2>2, <3>1
    <3>2. CASE i < j
      <4>1. rows[j].event # 0 /\ rows[i].event < rows[j].event
        <5>1. rows[j].event # 0
          BY <1>1, <1>2, <2>2
        <5> QED
          BY <3>2, <5>1 DEF InOrder
      <4> QED
        BY <1>1, <2>2, <4>1
    <3> QED
      BY <3>1, <3>2
  <2> QED
    BY <2>2, <2>3
<1>3. ASSUME \A j \in 1 .. i - 1 : rows[j].event = 0 PROVE e = 1
  BY <1>1, <1>2, <1>3
<1>4. ASSUME NEW p \in 1 .. i - 1, rows[p].event # 0,
             \A j \in p + 1 .. i - 1 : rows[j].event = 0
      PROVE  e = rows[p].event + 1
  <2>1. p \in 1 .. Len(rows) /\ p < i
    OBVIOUS
  <2>2. rows[p].event \in 0 .. n /\ rows[p].event < e
    BY <1>1, <1>4, <2>1 DEF InOrder
  <2>3. e > 1
    BY <1>1, <1>4, <2>2
  <2>4. PICK j \in 1 .. i - 1 : rows[j].event = e - 1
    BY <1>2, <2>3
  <2>5. j <= p
    BY <1>1, <1>4, <2>3, <2>4
  <2>6. j < p => rows[j].event < rows[p].event
    <3>1. j \in 1 .. Len(rows) /\ rows[j].event # 0
      BY <1>1, <2>3, <2>4
    <3> QED
      BY <1>4, <2>1, <3>1 DEF InOrder
  <2>7. j = p
    BY <1>1, <2>2, <2>4, <2>5, <2>6
  <2> QED
    BY <1>1, <2>2, <2>4, <2>7
<1> HIDE DEF e
<1> QED
  BY <1>1, <1>3, <1>4 DEF e

\* The rows that are shown are in order, also when there are none.
LEMMA ShownInOrder ==
    ASSUME TuiInv
    PROVE  /\ Len(RowsShown) \in Nat /\ cursor \in 0 .. Len(RowsShown)
           /\ \E n \in Nat : InOrder(RowsShown, n)
<1>1. history_tab \in Tabs /\ cursor \in 0 .. Len(RowsShown)
  BY DEF TuiInv, TypeOK
<1>2. Len(RowsShown) \in Nat
  BY <1>1, RowsOfTab DEF RowsShown
<1>3. CASE ~Shown(trace)
  <2>1. RowsShown = <<>>
    BY <1>1, <1>3, RowsOfTab DEF RowsShown
  <2>2. InOrder(RowsShown, 0)
    BY <2>1 DEF InOrder
  <2> QED
    BY <1>1, <1>2, <2>2
<1>4. CASE Shown(trace)
  <2>1. InOrder(RowsShown, Events(trace))
    BY <1>1, <1>4, RowsOfTab DEF RowsShown, GoodRows
  <2>2. Events(trace) \in Nat
    <3>1. Len(trace.events) \in Nat
      BY DEF TuiInv, GoodTrace
    <3> QED
      BY <3>1 DEF Events, Inside
  <2> QED
    BY <1>1, <1>2, <2>1, <2>2
<1> QED
  BY <1>3, <1>4

\* Step shows the state after the next instruction.
LEMMA StepShowsNext ==
    ASSUME TuiInv, Step
    PROVE  ShownEvent' = ShownEvent + 1
<1> DEFINE rows == RowsShown
           c    == cursor
           above == { k \in 1 .. c : rows[k].event # 0 }
<1>1. PICK i \in c + 1 .. Len(rows) : /\ Executed(rows[i])
                                      /\ \A j \in c + 1 .. i - 1 : ~Executed(rows[j])
                                      /\ Move(i)
  BY DEF Step
<1>2. Len(rows) \in Nat /\ c \in 0 .. Len(rows)
  BY ShownInOrder
<1>3. PICK n \in Nat : InOrder(rows, n)
  BY ShownInOrder
<1>4. cursor' = i /\ RowsShown' = rows
  BY <1>1 DEF Move, RowsShown
<1>5. ShownEvent = LastEvent(rows, c) /\ ShownEvent' = LastEvent(rows, i)
  BY <1>4 DEF ShownEvent, LastEvent
<1> HIDE DEF rows, c
<1>6. /\ i \in 1 .. Len(rows) /\ i \in Nat /\ c \in Nat /\ c < i
      /\ rows[i].event # 0 /\ \A j \in c + 1 .. i - 1 : rows[j].event = 0
  <2>1. i \in 1 .. Len(rows) /\ \A j \in c + 1 .. i - 1 : j \in 1 .. Len(rows)
    BY <1>2
  <2>2. \A j \in 1 .. Len(rows) : Executed(rows[j]) <=> rows[j].event # 0
    BY <1>3 DEF InOrder, Ran, Executed
  <2> QED
    BY <1>1, <1>2, <2>1, <2>2
<1>7. LastEvent(rows, i) = rows[i].event
  <2>1. \A k \in i + 1 .. i : rows[k].event = 0
    BY <1>6
  <2> QED
    BY <1>6, <2>1, LastEventIs
<1>8. CASE above = {}
  <2>1. \A k \in 1 .. c : rows[k].event = 0
    BY <1>8
  <2>2. \A k \in 1 .. i - 1 : rows[k].event = 0
    BY <1>6, <2>1
  <2>3. LastEvent(rows, c) = 0
    BY <1>6, <2>1, LastEventIs
  <2>4. rows[i].event = 1
    BY <1>2, <1>3, <1>6, <2>2, NextEvent
  <2> QED
    BY <1>5, <1>7, <2>3, <2>4
<1>9. CASE above # {}
  <2>1. above \subseteq 0 .. c
    OBVIOUS
  <2>2. PICK p \in above : \A k \in above : k <= p
    <3> HIDE DEF above
    <3> QED
      BY <1>6, <1>9, <2>1, GreatestOf, Zenon
  <2>3. p \in 1 .. c /\ rows[p].event # 0 /\ \A k \in p + 1 .. c : rows[k].event = 0
    BY <1>6, <2>2
  <2>4. p \in 1 .. i - 1 /\ \A k \in p + 1 .. i - 1 : rows[k].event = 0
    BY <1>6, <2>3
  <2>5. LastEvent(rows, c) = rows[p].event
    BY <1>6, <2>3, LastEventIs
  <2>6. rows[i].event = rows[p].event + 1
    BY <1>2, <1>3, <1>6, <2>3, <2>4, NextEvent
  <2> QED
    BY <1>5, <1>7, <2>5, <2>6
<1> QED
  BY <1>8, <1>9

\* Back shows the state before, or, from a static row, the one shown already.
LEMMA BackShowsPrevious ==
    ASSUME TuiInv, Back
    PROVE  ShownEvent' = IF SelectedEvent # 0 THEN ShownEvent - 1 ELSE ShownEvent
<1> DEFINE rows == RowsShown
           c    == cursor
           before == { k \in 1 .. c - 1 : Executed(rows[k]) }
           last == CHOOSE k \in before : \A j \in before : j <= k
           to   == IF before = {} THEN 0 ELSE last
<1>1. Move(to)
  BY DEF Back
<1>2. Len(rows) \in Nat /\ c \in 0 .. Len(rows) /\ c \in Nat
  <2>1. Len(rows) \in Nat /\ c \in 0 .. Len(rows)
    BY ShownInOrder
  <2> QED
    BY <2>1
<1>3. PICK n \in Nat : InOrder(rows, n)
  BY ShownInOrder
<1>4. ShownEvent = LastEvent(rows, c) /\ ShownEvent' = LastEvent(rows, to)
  <2> HIDE DEF to
  <2>1. cursor' = to /\ RowsShown' = rows
    BY <1>1 DEF Move, RowsShown
  <2> QED
    BY <2>1 DEF ShownEvent, LastEvent
<1>5. SelectedEvent = IF c \in 1 .. Len(rows) THEN rows[c].event ELSE 0
  BY DEF SelectedEvent, history_selection, NoSelection, RowsShown
<1> HIDE DEF rows, c
<1>6. before = { k \in 1 .. c - 1 : rows[k].event # 0 }
  <2>1. \A k \in 1 .. c - 1 : k \in 1 .. Len(rows)
    BY <1>2
  <2>2. \A k \in 1 .. c - 1 : Executed(rows[k]) <=> rows[k].event # 0
    BY <1>3, <2>1 DEF InOrder, Ran, Executed
  <2> QED
    BY <2>2
<1>7. CASE before = {}
  <2>1. \A k \in 1 .. c - 1 : rows[k].event = 0
    BY <1>6, <1>7
  <2>2. LastEvent(rows, to) = 0
    BY <1>7, LastEventIs
  <2>3. CASE SelectedEvent # 0
    <3>1. c \in 1 .. Len(rows) /\ rows[c].event # 0 /\ c \in 1 .. c
      BY <1>2, <1>5, <2>3
    <3>2. rows[c].event = 1
      BY <1>2, <1>3, <2>1, <3>1, NextEvent
    <3>3. LastEvent(rows, c) = rows[c].event
      BY <1>2, <3>1, LastEventIs
    <3> QED
      BY <1>4, <2>2, <2>3, <3>2, <3>3
  <2>4. CASE SelectedEvent = 0
    <3>1. \A k \in 1 .. c : rows[k].event = 0
      BY <1>2, <1>5, <2>1, <2>4
    <3>2. LastEvent(rows, c) = 0
      BY <1>2, <3>1, LastEventIs
    <3> QED
      BY <1>4, <2>2, <2>4, <3>2
  <2> QED
    BY <2>3, <2>4
<1>8. CASE before # {}
  <2>1. before \subseteq 0 .. c
    BY <1>2
  <2>2. last \in before /\ \A j \in before : j <= last
    <3> HIDE DEF before
    <3>1. \E x \in before : \A y \in before : y <= x
      BY <1>2, <1>8, <2>1, GreatestOf, Zenon
    <3> QED
      BY <3>1
  <2>3. to = last
    BY <1>8
  <2> HIDE DEF to, last
  <2>4. /\ last \in 1 .. c - 1 /\ last \in Nat /\ rows[last].event # 0
        /\ \A k \in last + 1 .. c - 1 : rows[k].event = 0
    BY <1>2, <1>6, <2>2
  <2>5. LastEvent(rows, to) = rows[last].event
    <3>1. last \in 1 .. last /\ \A k \in last + 1 .. last : rows[k].event = 0
      BY <2>4
    <3> QED
      BY <2>3, <2>4, <3>1, LastEventIs
  <2>6. CASE SelectedEvent # 0
    <3>1. c \in 1 .. Len(rows) /\ rows[c].event # 0 /\ c \in 1 .. c
      BY <1>2, <1>5, <2>6
    <3>2. rows[c].event = rows[last].event + 1
      BY <1>2, <1>3, <2>4, <3>1, NextEvent
    <3>3. LastEvent(rows, c) = rows[c].event
      BY <1>2, <3>1, LastEventIs
    <3>4. rows[last].event \in Int
      <4>1. last \in 1 .. Len(rows)
        BY <1>2, <2>4
      <4> QED
        BY <1>3, <4>1 DEF InOrder
    <3> QED
      BY <1>4, <2>5, <2>6, <3>2, <3>3, <3>4
  <2>7. CASE SelectedEvent = 0
    <3>1. last \in 1 .. c /\ \A k \in last + 1 .. c : rows[k].event = 0
      BY <1>2, <1>5, <2>4, <2>7
    <3>2. LastEvent(rows, c) = rows[last].event
      BY <1>2, <2>4, <3>1, LastEventIs
    <3> QED
      BY <1>4, <2>5, <2>7, <3>2
  <2> QED
    BY <2>6, <2>7
<1> QED
  BY <1>7, <1>8

\* Step always shows the state after the very next instruction that was executed and
\* Back the one before, for any decoder, jump and static rows in between.
THEOREM NavigationSound == Spec => NavigationFollowsExecution
<1> DEFINE A == /\ Step => ShownEvent' = ShownEvent + 1
                /\ Back => ShownEvent' = IF SelectedEvent # 0 THEN ShownEvent - 1 ELSE ShownEvent
<1>1. TuiInv => A
  BY StepShowsNext, BackShowsPrevious
<1> QED
  BY <1>1, TuiSound, PTL DEF NavigationFollowsExecution

===============================================================================
