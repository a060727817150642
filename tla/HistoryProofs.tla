----------------------------- MODULE HistoryProofs -----------------------------
(***************************************************************************)
(* Proofs about build_history, for every input, trace and decoder, and     *)
(* about the quick mode's output, which is made of the rows it builds.     *)
(***************************************************************************)
EXTENDS History, Quick, LayoutProofs, FiniteSetTheorems

-----------------------------------------------------------------------------
(* Types and control.                                                      *)

\* Where each loop stands: the event being laid out is inside the input, and a
\* gap ends at that event or, after the last one, at the end of the input.
ControlInv ==
    /\ index <= Len(events) + 1
    /\ instrumented => events = <<>>
    /\ pc = "start" => from = linear
    /\ pc = "row" => index <= Len(events) /\ InInput(events[index].offset)
    /\ pc = "gap" =>
         /\ linear <= from /\ from <= to
         /\ \/ /\ index <= Len(events) /\ InInput(events[index].offset)
               /\ to = events[index].offset
            \/ index > Len(events) /\ to = size
    /\ pc = "done" => size = 0 \/ instrumented \/ (index > Len(events) /\ from = size)

TypeInv == TypeOK /\ ControlInv

\* A row takes at least one byte and never more than the input has left.
LEMMA DisasmBounds ==
    ASSUME TypeOK, NEW offset \in Int, InInput(offset)
    PROVE  disasm_at(offset) \in Nat /\ disasm_at(offset) > 0 /\ disasm_at(offset) <= size - offset
<1>1. decode[offset] \in Nat /\ size \in Nat
  BY HistoryAssumption DEF TypeOK, InInput
<1> QED
  BY <1>1 DEF disasm_at, InInput

\* The row of the current event is a row.
LEMMA EventRowType ==
    ASSUME TypeInv, pc = "row"
    PROVE  /\ EventRow \in Row
           /\ EventRow.length > 0 /\ EventRow.offset + EventRow.length <= size
           /\ EventRow.event = index /\ EventRow.offset = events[index].offset
           /\ EventRow.length = disasm_at(events[index].offset)
<1>1. /\ events[index] \in Event /\ InInput(events[index].offset)
      /\ index \in 1 .. MaxEvents /\ size \in 0 .. MaxSize
  BY HistoryAssumption DEF TypeInv, TypeOK, ControlInv
<1>2. events[index].offset \in Int
  BY <1>1 DEF Event
<1>3. /\ disasm_at(events[index].offset) \in Nat /\ disasm_at(events[index].offset) > 0
      /\ disasm_at(events[index].offset) <= size - events[index].offset
  BY <1>1, <1>2, DisasmBounds DEF TypeInv
<1> QED
  BY <1>1, <1>2, <1>3, HistoryAssumption DEF EventRow, Row, RowKind, InInput

\* A static row is a row, whatever boundary it is cut at.
LEMMA StaticRowType ==
    ASSUME TypeInv, pc = "gap", from < to, NEW boundary \in 1 .. size, IsBoundary(boundary)
    PROVE  /\ StaticRow(boundary) \in Row
           /\ StaticRow(boundary).event = NoEvent
           /\ StaticRow(boundary).offset = from /\ StaticRow(boundary).length = boundary - from
           /\ from < boundary /\ boundary <= to /\ boundary <= from + disasm_at(from)
           /\ from \in Nat /\ to \in Nat /\ to <= size /\ InInput(from)
<1>1. /\ from \in 0 .. size /\ to \in 0 .. size /\ size \in 0 .. MaxSize /\ boundary \in 1 .. size
  BY DEF TypeInv, TypeOK
<1>2. InInput(from)
  BY <1>1, HistoryAssumption DEF InInput
<1>3. disasm_at(from) \in Nat
  BY <1>1, <1>2, HistoryAssumption, DisasmBounds DEF TypeInv
<1>4. from < boundary /\ boundary <= to /\ boundary <= from + disasm_at(from)
  BY <1>1, <1>3, HistoryAssumption DEF IsBoundary
<1> QED
  BY <1>1, <1>2, <1>4, HistoryAssumption DEF StaticRow, Row, RowKind, NoEvent

\* The initial state is well typed.
LEMMA TypeInit == Init => TypeInv
<1> SUFFICES ASSUME Init PROVE TypeInv
  OBVIOUS
<1>1. PICK n \in 0 .. MaxEvents : events \in [1 .. n -> [offset : -1 .. size, kind : EventKind]]
  BY DEF Init
<1>2. size \in 0 .. MaxSize
  BY DEF Init
<1>3. events \in Seq(Event) /\ Len(events) <= MaxEvents /\ Len(events) \in Nat
  <2>1. \A i \in 1 .. n : events[i] \in Event
    BY <1>1, <1>2, HistoryAssumption DEF Event
  <2> QED
    BY <1>1, <2>1, HistoryAssumption
<1> QED
  BY <1>2, <1>3, HistoryAssumption DEF Init, TypeInv, TypeOK, ControlInv, PC

\* No step of build_history leaves the types or loses its place.
LEMMA TypeStep == TypeInv /\ [Next]_vars => TypeInv'
<1> SUFFICES ASSUME TypeInv, [Next]_vars PROVE TypeInv'
  OBVIOUS
<1> USE HistoryAssumption
<1>1. CASE Refuse \/ Begin
  <2>1. TypeOK'
    BY <1>1 DEF Refuse, Begin, input, TypeInv, TypeOK, PC
  <2>2. ControlInv'
    BY <1>1 DEF Refuse, Begin, input, TypeInv, TypeOK, ControlInv
  <2> QED
    BY <2>1, <2>2 DEF TypeInv
<1>2. CASE SkipEvent
  <2>1. TypeOK'
    BY <1>2 DEF SkipEvent, input, TypeInv, TypeOK
  <2>2. ControlInv'
    BY <1>2 DEF SkipEvent, input, TypeInv, TypeOK, ControlInv
  <2> QED
    BY <2>1, <2>2 DEF TypeInv
<1>3. CASE TakeEvent
  <2>1. events[index] \in Event
    BY <1>3 DEF TakeEvent, TypeInv, TypeOK
  <2>2. events[index].offset \in 0 .. size - 1
    BY <1>3, <2>1, SMTT(30) DEF TakeEvent, Event, InInput, TypeInv, TypeOK
  <2>3. /\ UNCHANGED <<size, instrumented, events, decode, rows, linear, index>>
        /\ index <= Len(events)
    BY <1>3 DEF TakeEvent, input
  <2>4. CASE events[index].offset > linear
    <3>1. pc' = "gap" /\ from' = linear /\ to' = events[index].offset
      BY <1>3, <2>4 DEF TakeEvent
    <3>2. from' \in 0 .. size /\ to' \in 0 .. size
      BY <2>2, <3>1 DEF TypeInv, TypeOK
    <3>3. TypeOK'
      BY <2>3, <3>1, <3>2 DEF TypeInv, TypeOK, PC
    <3>4. ControlInv'
      <4>1. /\ index <= Len(events) + 1 /\ (instrumented => events = <<>>)
            /\ linear \in Nat /\ InInput(events[index].offset)
        BY <2>2 DEF TypeInv, TypeOK, ControlInv, InInput
      <4>2. linear <= to'
        BY <2>2, <2>4, <3>1, <4>1
      <4> QED
        BY <2>3, <3>1, <4>1, <4>2 DEF ControlInv, InInput
    <3> QED
      BY <3>3, <3>4 DEF TypeInv
  <2>5. CASE ~(events[index].offset > linear)
    <3>1. pc' = "row" /\ UNCHANGED <<from, to>>
      BY <1>3, <2>5 DEF TakeEvent
    <3>2. TypeOK'
      BY <2>3, <3>1 DEF TypeInv, TypeOK, PC
    <3>3. ControlInv'
      BY <2>2, <2>3, <2>5, <3>1 DEF TypeInv, TypeOK, ControlInv, InInput
    <3> QED
      BY <3>2, <3>3 DEF TypeInv
  <2> QED
    BY <2>4, <2>5
<1>4. CASE AddEventRow
  <2>1. EventRow \in Row /\ EventRow.offset + EventRow.length <= size
    BY <1>4, EventRowType DEF AddEventRow
  <2>2. linear' \in 0 .. size
    <3>1. linear' = linear \/ linear' = EventRow.offset + EventRow.length
      BY <1>4 DEF AddEventRow
    <3>2. EventRow.offset \in Nat /\ EventRow.length \in Nat
      BY <2>1 DEF Row
    <3>3. size \in Nat /\ linear \in 0 .. size
      BY DEF TypeInv, TypeOK
    <3> QED
      BY <2>1, <3>1, <3>2, <3>3
  <2>3. rows' \in Seq(Row)
    BY <1>4, <2>1 DEF AddEventRow, TypeInv, TypeOK
  <2>4. index' = index + 1 /\ index <= Len(events) /\ pc' = "event"
        /\ UNCHANGED <<size, instrumented, events, decode, from, to>>
    <3>1. index <= Len(events)
      BY <1>4 DEF AddEventRow, TypeInv, ControlInv
    <3> QED
      BY <1>4, <3>1 DEF AddEventRow, input
  <2>5. index' \in 1 .. MaxEvents + 1
    BY <2>4 DEF TypeInv, TypeOK
  <2>6. TypeOK'
    BY <2>2, <2>3, <2>4, <2>5 DEF TypeInv, TypeOK, PC
  <2>7. ControlInv'
    BY <2>4 DEF TypeInv, TypeOK, ControlInv
  <2> QED
    BY <2>6, <2>7 DEF TypeInv
<1>5. CASE LastGap
  BY <1>5 DEF LastGap, input, TypeInv, TypeOK, ControlInv, PC
<1>6. CASE GapFilled
  <2>1. TypeOK'
    BY <1>6 DEF GapFilled, input, TypeInv, TypeOK, PC
  <2>2. ControlInv'
    BY <1>6 DEF GapFilled, input, TypeInv, TypeOK, ControlInv, InInput
  <2> QED
    BY <2>1, <2>2 DEF TypeInv
<1>7. ASSUME NEW boundary \in 1 .. size, GapRow(boundary) PROVE TypeInv'
  <2>1. /\ StaticRow(boundary) \in Row /\ from < boundary /\ boundary <= to
        /\ from \in Nat /\ to \in Nat /\ to <= size
    BY <1>7, StaticRowType DEF GapRow
  <2>2. rows' \in Seq(Row)
    BY <1>7, <2>1 DEF GapRow, TypeInv, TypeOK
  <2>3. TypeOK'
    BY <1>7, <2>1, <2>2 DEF GapRow, input, TypeInv, TypeOK
  <2>4. ControlInv'
    BY <1>7, <2>1 DEF GapRow, input, TypeInv, TypeOK, ControlInv, InInput
  <2> QED
    BY <2>3, <2>4 DEF TypeInv
<1>8. CASE UNCHANGED vars
  BY <1>8 DEF vars, TypeInv, TypeOK, ControlInv, InInput
<1> QED
  BY <1>1, <1>2, <1>3, <1>4, <1>5, <1>6, <1>7, <1>8 DEF Next, Step, Done

\* build_history stays within its types: no index or offset leaves its range.
THEOREM TypeCorrect == Spec => []TypeOK
<1>1. TypeInv => TypeOK
  BY DEF TypeInv
<1> QED
  BY <1>1, TypeInit, TypeStep, PTL DEF Spec

-----------------------------------------------------------------------------
(* The layout.                                                             *)

\* How far the static layout has come.
Frontier ==
    IF pc \in {"gap", "done"} THEN from
    ELSE IF pc = "row" /\ events[index].offset > linear THEN events[index].offset
    ELSE linear

\* The row of event k is there, as the decoder delimits it.
Laid(k) ==
    \E i \in 1 .. Len(rows) :
        /\ rows[i].event = k
        /\ rows[i].offset = events[k].offset
        /\ rows[i].length = disasm_at(events[k].offset)

\* The row of an event still to come will show this offset.
Pending(offset) ==
    \E k \in index .. Len(events) :
        /\ InInput(events[k].offset)
        /\ events[k].offset <= offset
        /\ offset < events[k].offset + disasm_at(events[k].offset)

Shown(offset) == \E i \in 1 .. Len(rows) : Covers(rows[i], offset)

\* Rows belong to events already taken, in order.
EventInv ==
    /\ \A i \in 1 .. Len(rows) : rows[i].event < index
    /\ \A i \in 1 .. Len(rows) : ~Static(rows[i]) => rows[i].offset = events[rows[i].event].offset
    /\ \A i, j \in 1 .. Len(rows) :
         i < j /\ ~Static(rows[i]) /\ ~Static(rows[j]) => rows[i].event < rows[j].event
    /\ \A k \in 1 .. Len(events) : k < index /\ InInput(events[k].offset) => Laid(k)

\* Static rows stay behind the frontier.
StaticInv ==
    /\ \A i \in 1 .. Len(rows) :
         Static(rows[i]) => rows[i].offset + rows[i].length <= Frontier
    /\ StaticRowsDisjoint

\* Every byte behind the frontier is shown, or will be by an event to come.
ShownInv ==
    \A offset \in 0 .. size - 1 : offset < Frontier => Shown(offset) \/ Pending(offset)

LayoutInv == TypeInv /\ RowsInInput /\ StaticRowsSplit /\ EventInv /\ StaticInv /\ ShownInv

\* Appending a row.
LEMMA AppendedRow ==
    ASSUME NEW row \in Row, rows \in Seq(Row), rows' = Append(rows, row)
    PROVE  /\ Len(rows) \in Nat /\ Len(rows') = Len(rows) + 1
           /\ \A i \in 1 .. Len(rows) : rows'[i] = rows[i]
           /\ rows'[Len(rows) + 1] = row
  OBVIOUS

\* Before the first row there is nothing to check.
LEMMA LayoutInit == Init => LayoutInv
  BY TypeInit DEF Init, LayoutInv, RowsInInput, StaticRowsSplit, EventInv, StaticInv,
                  StaticRowsDisjoint, ShownInv, Frontier

\* A step that adds no row, moves no frontier and passes over no event that
\* belongs in the layout changes nothing.
LEMMA QuietStep ==
    ASSUME LayoutInv, TypeInv', UNCHANGED <<input, rows>>, Frontier' = Frontier,
           index' = index \/ (index' = index + 1 /\ ~InInput(events[index].offset))
    PROVE  LayoutInv'
<1> USE DEF LayoutInv, input
<1>1. RowsInInput' /\ StaticRowsSplit'
  BY DEF RowsInInput, StaticRowsSplit, event_at
<1>2. index \in Nat /\ index' \in Nat
  BY DEF TypeInv, TypeOK
<1>3. EventInv'
  <2>1. \A i \in 1 .. Len(rows) : rows[i] \in Row
    BY DEF TypeInv, TypeOK
  <2>2. \A i \in 1 .. Len(rows) : rows[i].event < index'
    BY <1>2, <2>1, HistoryAssumption DEF EventInv, Row
  <2>3. ASSUME NEW k \in 1 .. Len(events), k < index', InInput(events[k].offset) PROVE Laid(k)
    <3>1. index' = index \/ (index' = index + 1 /\ k # index)
      BY <2>3
    <3>2. k < index
      BY <1>2, <2>3, <3>1
    <3> QED
      BY <2>3, <3>2 DEF EventInv
  <2>4. \A k : Laid(k)' <=> Laid(k)
    BY DEF Laid, disasm_at
  <2>5. \A k : InInput(events[k].offset)' <=> InInput(events[k].offset)
    BY DEF InInput
  <2> QED
    BY <2>2, <2>3, <2>4, <2>5 DEF EventInv
<1>4. StaticInv'
  BY DEF StaticInv, StaticRowsDisjoint
<1>5. ShownInv'
  <2> SUFFICES ASSUME NEW offset \in 0 .. size - 1, offset < Frontier
               PROVE  (Shown(offset) \/ Pending(offset))'
    BY DEF ShownInv
  <2>1. Shown(offset) => Shown(offset)'
    BY DEF Shown
  <2>2. ASSUME Pending(offset) PROVE Pending(offset)'
    <3>1. PICK k \in index .. Len(events) :
            /\ InInput(events[k].offset) /\ events[k].offset <= offset
            /\ offset < events[k].offset + disasm_at(events[k].offset)
      BY <2>2 DEF Pending
    <3>2. k \in index' .. Len(events)
      BY <1>2, <3>1
    <3> QED
      BY <3>1, <3>2 DEF Pending, InInput, disasm_at
  <2> QED
    BY <2>1, <2>2 DEF ShownInv
<1> QED
  BY <1>1, <1>3, <1>4, <1>5

\* Laying out an event adds its row; it shows everything from the event up to
\* the new frontier, and every byte that was waiting for this event.
LEMMA AddEventRowStep == ASSUME LayoutInv, TypeInv', AddEventRow PROVE LayoutInv'
<1> DEFINE offset0 == events[index].offset
           length0 == disasm_at(offset0)
<1>1. /\ EventRow \in Row /\ EventRow.length > 0 /\ EventRow.offset + EventRow.length <= size
      /\ EventRow.event = index /\ EventRow.offset = offset0 /\ EventRow.length = length0
  BY EventRowType DEF LayoutInv, AddEventRow
<1>2. /\ rows \in Seq(Row) /\ rows' = Append(rows, EventRow) /\ index' = index + 1
      /\ index \in 1 .. Len(events) /\ linear \in Nat /\ size \in Nat /\ UNCHANGED input
      /\ InInput(offset0) /\ pc = "row" /\ pc' = "event"
  BY HistoryAssumption DEF LayoutInv, TypeInv, TypeOK, ControlInv, AddEventRow
<1>3. /\ Len(rows) \in Nat /\ Len(rows') = Len(rows) + 1
      /\ \A i \in 1 .. Len(rows) : rows'[i] = rows[i] /\ rows[i] \in Row
      /\ rows'[Len(rows) + 1] = EventRow
  BY <1>1, <1>2, AppendedRow
<1>4. offset0 \in Nat /\ length0 \in Nat /\ ~Static(EventRow)
  BY <1>1, <1>2, HistoryAssumption DEF Row, Static, NoEvent
<1>5. /\ Frontier = IF offset0 > linear THEN offset0 ELSE linear
      /\ Frontier' = IF offset0 + length0 > linear THEN offset0 + length0 ELSE linear
      /\ Frontier \in Nat /\ Frontier' \in Nat /\ Frontier <= Frontier'
  <2>1. linear' = IF offset0 + length0 > linear THEN offset0 + length0 ELSE linear
    BY <1>1 DEF AddEventRow
  <2>2. Frontier = (IF offset0 > linear THEN offset0 ELSE linear) /\ Frontier' = linear'
    BY <1>2 DEF Frontier
  <2> QED
    BY <1>2, <1>4, <2>1, <2>2
<1> HIDE DEF offset0, length0
<1>6. RowsInInput'
  BY <1>1, <1>2, <1>3 DEF LayoutInv, RowsInInput, input
<1>7. StaticRowsSplit'
  <2> SUFFICES ASSUME NEW i \in 1 .. Len(rows'), Static(rows'[i]), NEW offset \in 0 .. size - 1,
                      Covers(rows'[i], offset), event_at(offset)
               PROVE  FALSE
    BY <1>2 DEF StaticRowsSplit, event_at, input, Static, Covers
  <2>1. i # Len(rows) + 1
    BY <1>3, <1>4
  <2>2. i \in 1 .. Len(rows)
    BY <1>3, <2>1
  <2>3. rows'[i] = rows[i]
    BY <1>3, <2>2
  <2> QED
    BY <2>2, <2>3 DEF LayoutInv, StaticRowsSplit
<1>8. EventInv'
  <2>1. \A i \in 1 .. Len(rows') : rows'[i].event < index'
    <3> SUFFICES ASSUME NEW i \in 1 .. Len(rows) + 1 PROVE rows'[i].event < index + 1
      BY <1>2, <1>3
    <3>1. CASE i \in 1 .. Len(rows)
      <4>1. rows'[i].event < index /\ rows'[i].event \in Nat
        BY <1>3, <3>1, HistoryAssumption DEF LayoutInv, EventInv, Row
      <4> QED
        BY <1>2, <4>1
    <3>2. CASE i = Len(rows) + 1
      BY <1>1, <1>2, <1>3, <3>2
    <3> QED
      BY <1>3, <3>1, <3>2
  <2>2. \A i \in 1 .. Len(rows') :
           ~Static(rows'[i]) => rows'[i].offset = events[rows'[i].event].offset
    BY <1>1, <1>2, <1>3 DEF LayoutInv, EventInv, offset0
  <2>3. \A i, j \in 1 .. Len(rows') :
          i < j /\ ~Static(rows'[i]) /\ ~Static(rows'[j]) => rows'[i].event < rows'[j].event
    <3> SUFFICES ASSUME NEW i \in 1 .. Len(rows) + 1, NEW j \in 1 .. Len(rows) + 1,
                        i < j, ~Static(rows'[i]), ~Static(rows'[j])
                 PROVE  rows'[i].event < rows'[j].event
      BY <1>3
    <3>1. i \in 1 .. Len(rows)
      BY <1>3
    <3>2. CASE j \in 1 .. Len(rows)
      BY <1>3, <3>1, <3>2 DEF LayoutInv, EventInv
    <3>3. CASE j = Len(rows) + 1
      BY <1>1, <1>3, <3>1, <3>3 DEF LayoutInv, EventInv
    <3> QED
      BY <1>3, <3>2, <3>3
  <2>4. ASSUME NEW k \in 1 .. Len(events), k < index + 1, InInput(events[k].offset)
        PROVE  \E i \in 1 .. Len(rows') :
                 /\ rows'[i].event = k /\ rows'[i].offset = events[k].offset
                 /\ rows'[i].length = disasm_at(events[k].offset)
    <3>1. CASE k = index
      <4>1. Len(rows) + 1 \in 1 .. Len(rows')
        BY <1>3
      <4> QED
        BY <1>1, <1>3, <3>1, <4>1 DEF offset0, length0
    <3>2. CASE k < index
      <4>1. PICK i \in 1 .. Len(rows) :
              /\ rows[i].event = k /\ rows[i].offset = events[k].offset
              /\ rows[i].length = disasm_at(events[k].offset)
        BY <2>4, <3>2 DEF LayoutInv, EventInv, Laid
      <4>2. i \in 1 .. Len(rows') /\ rows'[i] = rows[i]
        BY <1>3
      <4> QED
        BY <4>1, <4>2
    <3> QED
      BY <1>2, <2>4, <3>1, <3>2
  <2>5. \A k \in 1 .. Len(events) : k < index + 1 /\ InInput(events[k].offset) => Laid(k)'
    BY <1>2, <2>4 DEF Laid, disasm_at, input
  <2>6. \A k : InInput(events[k].offset)' <=> InInput(events[k].offset)
    BY <1>2 DEF InInput, input
  <2>7. events' = events
    BY <1>2 DEF input
  <2> QED
    BY <1>2, <2>1, <2>2, <2>3, <2>5, <2>6, <2>7 DEF EventInv
<1>9. StaticInv'
  <2>1. \A i \in 1 .. Len(rows') : Static(rows'[i]) => i \in 1 .. Len(rows) /\ rows'[i] = rows[i]
    BY <1>3, <1>4
  <2>2. \A i \in 1 .. Len(rows') :
           Static(rows'[i]) => rows'[i].offset + rows'[i].length <= Frontier'
    <3> SUFFICES ASSUME NEW i \in 1 .. Len(rows), Static(rows[i])
                 PROVE  rows[i].offset + rows[i].length <= Frontier'
      BY <2>1
    <3>1. rows[i].offset + rows[i].length <= Frontier
      BY DEF LayoutInv, StaticInv
    <3>2. rows[i].offset \in Nat /\ rows[i].length \in Nat
      BY <1>3, HistoryAssumption DEF Row
    <3> QED
      BY <1>5, <3>1, <3>2
  <2>3. StaticRowsDisjoint'
    BY <2>1 DEF LayoutInv, StaticInv, StaticRowsDisjoint
  <2> QED
    BY <2>2, <2>3 DEF StaticInv
<1>10. ShownInv'
  <2> SUFFICES ASSUME NEW offset \in 0 .. size - 1, offset < Frontier'
               PROVE  Shown(offset)' \/ Pending(offset)'
    BY <1>2 DEF ShownInv, input
  <2>1. offset \in Nat
    BY <1>2
  <2>2. offset0 <= offset /\ offset < offset0 + length0 => Shown(offset)'
    BY <1>1, <1>3 DEF Shown, Covers
  <2>3. Shown(offset) => Shown(offset)'
    <3> SUFFICES ASSUME NEW i \in 1 .. Len(rows), Covers(rows[i], offset) PROVE Shown(offset)'
      BY DEF Shown
    <3>1. i \in 1 .. Len(rows') /\ rows'[i] = rows[i]
      BY <1>3
    <3> QED
      BY <3>1 DEF Shown, Covers
  <2>4. ASSUME Pending(offset) PROVE Shown(offset)' \/ Pending(offset)'
    <3>1. PICK k \in index .. Len(events) :
            /\ InInput(events[k].offset) /\ events[k].offset <= offset
            /\ offset < events[k].offset + disasm_at(events[k].offset)
      BY <2>4 DEF Pending
    <3>2. CASE k = index
      BY <2>2, <3>1, <3>2 DEF offset0, length0
    <3>3. CASE k # index
      <4>1. k \in index + 1 .. Len(events)
        BY <1>2, <3>3
      <4>2. /\ InInput(events[k].offset)' /\ (events[k].offset <= offset)'
            /\ (offset < events[k].offset + disasm_at(events[k].offset))'
        BY <1>2, <3>1 DEF InInput, disasm_at, input
      <4> QED
        BY <1>2, <4>1, <4>2 DEF Pending, input
    <3> QED
      BY <3>2, <3>3
  <2>5. CASE offset < Frontier
    BY <2>3, <2>4, <2>5 DEF LayoutInv, ShownInv
  <2>6. CASE ~(offset < Frontier)
    BY <1>2, <1>4, <1>5, <2>1, <2>2, <2>6
  <2> QED
    BY <2>5, <2>6
<1> QED
  BY <1>6, <1>7, <1>8, <1>9, <1>10 DEF LayoutInv

\* One iteration of fill_gap moves the frontier to the boundary.  An offset with
\* an event gets no static row: the row of that event, laid or to come, reaches
\* at least as far.
LEMMA GapRowStep ==
    ASSUME LayoutInv, TypeInv', NEW boundary \in 1 .. size, GapRow(boundary)
    PROVE  LayoutInv'
<1> DEFINE row == StaticRow(boundary)
<1>1. /\ row \in Row /\ row.event = NoEvent /\ row.offset = from /\ row.length = boundary - from
      /\ from < boundary /\ boundary <= to /\ boundary <= from + disasm_at(from)
      /\ from \in Nat /\ to \in Nat /\ to <= size /\ InInput(from)
  BY StaticRowType DEF LayoutInv, GapRow
<1>2. /\ rows \in Seq(Row) /\ index' = index /\ index \in 1 .. Len(events) + 1 /\ size \in Nat
      /\ boundary \in Nat /\ UNCHANGED input /\ Frontier = from /\ Frontier' = boundary
      /\ disasm_at(from) \in Nat
  <2>1. disasm_at(from) \in Nat
    BY <1>1, DisasmBounds DEF LayoutInv, TypeInv
  <2> QED
    BY <1>1, <2>1, HistoryAssumption DEF LayoutInv, TypeInv, TypeOK, ControlInv, GapRow, Frontier
<1>3. /\ events' = events /\ size' = size
      /\ \A offset : /\ event_at(offset)' <=> event_at(offset)
                     /\ disasm_at(offset)' = disasm_at(offset)
      /\ \A offset : InInput(offset)' <=> InInput(offset)
  BY <1>2 DEF input, event_at, disasm_at, InInput
<1>4. ASSUME NEW offset \in Nat, Pending(offset) PROVE Pending(offset)'
  BY <1>2, <1>4 DEF Pending, InInput, disasm_at, input
<1>5. \A i \in 1 .. Len(rows) : rows[i] \in Row
  BY <1>2
<1> HIDE DEF row
<1>6. CASE event_at(from)
  <2>1. rows' = rows
    BY <1>6 DEF GapRow
  <2>2. RowsInInput' /\ StaticRowsSplit'
    BY <1>3, <2>1 DEF LayoutInv, RowsInInput, StaticRowsSplit
  <2>3. EventInv'
    <3>1. \A k : Laid(k)' <=> Laid(k)
      BY <1>3, <2>1 DEF Laid
    <3> QED
      BY <1>2, <1>3, <2>1, <3>1 DEF LayoutInv, EventInv
  <2>4. StaticInv'
    <3> SUFFICES ASSUME NEW i \in 1 .. Len(rows), Static(rows[i])
                 PROVE  rows[i].offset + rows[i].length <= boundary
      BY <1>2, <2>1 DEF LayoutInv, StaticInv, StaticRowsDisjoint
    <3>1. rows[i].offset + rows[i].length <= from
      BY <1>2 DEF LayoutInv, StaticInv
    <3>2. rows[i].offset \in Nat /\ rows[i].length \in Nat
      BY <1>5, HistoryAssumption DEF Row
    <3> QED
      BY <1>1, <1>2, <3>1, <3>2
  <2>5. ShownInv'
    <3> SUFFICES ASSUME NEW offset \in 0 .. size - 1, offset < boundary
                 PROVE  Shown(offset)' \/ Pending(offset)'
      BY <1>2, <1>3 DEF ShownInv
    <3>1. offset \in Nat /\ (Shown(offset)' <=> Shown(offset))
      BY <1>2, <2>1 DEF Shown
    <3>2. CASE offset < from
      BY <1>2, <1>4, <3>1, <3>2 DEF LayoutInv, ShownInv
    <3>3. CASE ~(offset < from)
      <4>1. PICK k \in 1 .. Len(events) : events[k].offset = from
        BY <1>6 DEF event_at
      <4>2. from <= offset /\ offset < from + disasm_at(from)
        BY <1>1, <1>2, <3>1, <3>3
      <4>3. CASE k < index
        <5>1. PICK i \in 1 .. Len(rows) :
                rows[i].offset = from /\ rows[i].length = disasm_at(from)
          BY <1>1, <4>1, <4>3 DEF LayoutInv, EventInv, Laid
        <5> QED
          BY <3>1, <4>2, <5>1 DEF Shown, Covers
      <4>4. CASE ~(k < index)
        <5>1. k \in index .. Len(events)
          BY <1>2, <4>4
        <5>2. Pending(offset)
          BY <1>1, <4>1, <4>2, <5>1 DEF Pending
        <5> QED
          BY <1>4, <3>1, <5>2
      <4> QED
        BY <4>3, <4>4
    <3> QED
      BY <3>2, <3>3
  <2> QED
    BY <2>2, <2>3, <2>4, <2>5 DEF LayoutInv
<1>7. CASE ~event_at(from)
  <2>1. rows' = Append(rows, row)
    BY <1>7 DEF GapRow, row
  <2>2. /\ Len(rows) \in Nat /\ Len(rows') = Len(rows) + 1
        /\ \A i \in 1 .. Len(rows) : rows'[i] = rows[i]
        /\ rows'[Len(rows) + 1] = row
    BY <1>1, <1>2, <2>1, AppendedRow
  <2>3. RowsInInput'
    <3> SUFFICES ASSUME NEW i \in 1 .. Len(rows) + 1
                 PROVE  rows'[i].length > 0 /\ rows'[i].offset + rows'[i].length <= size
      BY <1>3, <2>2 DEF RowsInInput
    <3>1. CASE i \in 1 .. Len(rows)
      BY <2>2, <3>1 DEF LayoutInv, RowsInInput
    <3>2. CASE i = Len(rows) + 1
      BY <1>1, <1>2, <2>2, <3>2
    <3> QED
      BY <2>2, <3>1, <3>2
  <2>4. StaticRowsSplit'
    <3> SUFFICES ASSUME NEW i \in 1 .. Len(rows) + 1, Static(rows'[i]),
                        NEW offset \in 0 .. size - 1, Covers(rows'[i], offset)
                 PROVE  ~event_at(offset)
      BY <1>3, <2>2 DEF StaticRowsSplit
    <3>1. CASE i \in 1 .. Len(rows)
      BY <2>2, <3>1 DEF LayoutInv, StaticRowsSplit
    <3>2. CASE i = Len(rows) + 1
      <4>1. from <= offset /\ offset < boundary /\ offset \in Nat
        BY <1>1, <1>2, <2>2, <3>2 DEF Covers
      <4>2. offset = from \/ offset \in from + 1 .. boundary - 1
        BY <1>1, <1>2, <4>1
      <4>3. \A o \in from + 1 .. boundary - 1 : ~event_at(o)
        BY DEF GapRow, IsBoundary
      <4> QED
        BY <1>7, <4>2, <4>3
    <3> QED
      BY <2>2, <3>1, <3>2
  <2>5. EventInv'
    <3>1. \A i \in 1 .. Len(rows') :
             ~Static(rows'[i]) => i \in 1 .. Len(rows) /\ rows'[i] = rows[i]
      BY <1>1, <2>2 DEF Static
    <3>2. \A i \in 1 .. Len(rows') : rows'[i].event < index
      BY <1>1, <1>2, <2>2 DEF LayoutInv, EventInv, NoEvent
    <3>3. \A k : Laid(k) => Laid(k)'
      <4> SUFFICES ASSUME NEW k, NEW i \in 1 .. Len(rows), rows[i].event = k,
                          rows[i].offset = events[k].offset,
                          rows[i].length = disasm_at(events[k].offset)
                   PROVE  Laid(k)'
        BY DEF Laid
      <4>1. i \in 1 .. Len(rows') /\ rows'[i] = rows[i]
        BY <2>2
      <4> QED
        BY <1>3, <4>1 DEF Laid
    <3> QED
      BY <1>2, <1>3, <3>1, <3>2, <3>3 DEF LayoutInv, EventInv
  <2>6. StaticInv'
    <3>1. \A i \in 1 .. Len(rows) :
            Static(rows[i]) => rows[i].offset + rows[i].length <= from
      BY <1>2 DEF LayoutInv, StaticInv
    <3>2. \A i \in 1 .. Len(rows) : rows[i].offset \in Nat /\ rows[i].length \in Nat
      BY <1>5, HistoryAssumption DEF Row
    <3>3. \A i \in 1 .. Len(rows') :
             Static(rows'[i]) => rows'[i].offset + rows'[i].length <= boundary
      <4> SUFFICES ASSUME NEW i \in 1 .. Len(rows) + 1, Static(rows'[i])
                   PROVE  rows'[i].offset + rows'[i].length <= boundary
        BY <2>2
      <4>1. CASE i \in 1 .. Len(rows)
        <5>1. rows'[i] = rows[i]
          BY <2>2, <4>1
        <5>2. rows[i].offset + rows[i].length <= from
          BY <3>1, <4>1, <5>1
        <5>3. rows[i].offset + rows[i].length \in Nat
          BY <3>2, <4>1
        <5>4. from \in Nat /\ boundary \in Nat /\ from < boundary
          BY <1>1, <1>2
        <5> QED
          BY <5>1, <5>2, <5>3, <5>4
      <4>2. CASE i = Len(rows) + 1
        BY <1>1, <1>2, <2>2, <4>2
      <4> QED
        BY <2>2, <4>1, <4>2
    <3>4. StaticRowsDisjoint'
      <4> SUFFICES ASSUME NEW i \in 1 .. Len(rows) + 1, NEW j \in 1 .. Len(rows) + 1, i < j,
                          Static(rows'[i]), Static(rows'[j])
                   PROVE  rows'[i].offset + rows'[i].length <= rows'[j].offset
        BY <2>2 DEF StaticRowsDisjoint
      <4>1. i \in 1 .. Len(rows)
        BY <2>2
      <4>2. CASE j \in 1 .. Len(rows)
        BY <2>2, <4>1, <4>2 DEF LayoutInv, StaticInv, StaticRowsDisjoint
      <4>3. CASE j = Len(rows) + 1
        BY <1>1, <2>2, <3>1, <4>1, <4>3
      <4> QED
        BY <2>2, <4>2, <4>3
    <3> QED
      BY <1>2, <3>3, <3>4 DEF StaticInv
  <2>7. ShownInv'
    <3> SUFFICES ASSUME NEW offset \in 0 .. size - 1, offset < boundary
                 PROVE  Shown(offset)' \/ Pending(offset)'
      BY <1>2, <1>3 DEF ShownInv
    <3>1. offset \in Nat
      BY <1>2
    <3>2. CASE offset < from
      <4>1. Shown(offset) => Shown(offset)'
        <5> SUFFICES ASSUME NEW i \in 1 .. Len(rows), Covers(rows[i], offset) PROVE Shown(offset)'
          BY DEF Shown
        <5>1. i \in 1 .. Len(rows') /\ rows'[i] = rows[i]
          BY <2>2
        <5> QED
          BY <5>1 DEF Shown, Covers
      <4> QED
        BY <1>2, <1>4, <3>1, <3>2, <4>1 DEF LayoutInv, ShownInv
    <3>3. CASE ~(offset < from)
      <4>1. Len(rows) + 1 \in 1 .. Len(rows') /\ Covers(rows'[Len(rows) + 1], offset)
        BY <1>1, <1>2, <2>2, <3>1, <3>3 DEF Covers
      <4> QED
        BY <4>1 DEF Shown, Covers
    <3> QED
      BY <3>2, <3>3
  <2> QED
    BY <2>3, <2>4, <2>5, <2>6, <2>7 DEF LayoutInv
<1> QED
  BY <1>6, <1>7

\* Every step of build_history preserves the layout invariant.
LEMMA LayoutStep == LayoutInv /\ [Next]_vars => LayoutInv'
<1> SUFFICES ASSUME LayoutInv, [Next]_vars PROVE LayoutInv'
  OBVIOUS
<1>1. TypeInv'
  BY TypeStep DEF LayoutInv
<1>2. /\ linear \in Nat /\ from \in Nat /\ to \in Nat /\ index \in Nat /\ TypeOK /\ ControlInv
      /\ Len(events) \in Nat
  BY HistoryAssumption DEF LayoutInv, TypeInv, TypeOK
<1>3. CASE Refuse \/ Begin
  <2>1. UNCHANGED <<input, rows>> /\ index' = index /\ Frontier' = Frontier
    BY <1>2, <1>3 DEF Refuse, Begin, Frontier, ControlInv
  <2> QED
    BY <1>1, <2>1, QuietStep
<1>4. CASE SkipEvent
  <2>1. /\ UNCHANGED <<input, rows>> /\ index' = index + 1 /\ Frontier' = Frontier
        /\ ~InInput(events[index].offset)
    BY <1>4 DEF SkipEvent, Frontier
  <2> QED
    BY <1>1, <2>1, QuietStep
<1>5. CASE TakeEvent
  <2>1. UNCHANGED <<input, rows>> /\ index' = index /\ Frontier' = Frontier
    BY <1>5 DEF TakeEvent, Frontier, input
  <2> QED
    BY <1>1, <2>1, QuietStep
<1>6. CASE LastGap
  <2>1. UNCHANGED <<input, rows>> /\ index' = index /\ Frontier' = Frontier
    BY <1>6 DEF LastGap, Frontier
  <2> QED
    BY <1>1, <2>1, QuietStep
<1>7. CASE GapFilled
  <2>1. from = to /\ linear <= from
    BY <1>2, <1>7 DEF GapFilled, ControlInv
  <2>2. UNCHANGED <<input, rows>> /\ index' = index /\ Frontier' = Frontier
    BY <1>2, <1>7, <2>1 DEF GapFilled, Frontier, ControlInv, input
  <2> QED
    BY <1>1, <2>2, QuietStep
<1>8. CASE AddEventRow
  BY <1>1, <1>8, AddEventRowStep
<1>9. ASSUME NEW boundary \in 1 .. size, GapRow(boundary) PROVE LayoutInv'
  BY <1>1, <1>9, GapRowStep
<1>10. CASE UNCHANGED vars
  <2>1. UNCHANGED <<input, rows>> /\ index' = index /\ Frontier' = Frontier
    BY <1>10 DEF vars, input, Frontier
  <2> QED
    BY <1>1, <2>1, QuietStep
<1> QED
  BY <1>3, <1>4, <1>5, <1>6, <1>7, <1>8, <1>9, <1>10 DEF Next, Step, Done

-----------------------------------------------------------------------------
(* What build_history returns, for every input, trace and decoder.         *)

\* Every row is a non-empty span of the input.
THEOREM RowsAreSpans == Spec => []RowsInInput
<1>1. LayoutInv => RowsInInput
  BY DEF LayoutInv
<1> QED
  BY <1>1, LayoutInit, LayoutStep, PTL DEF Spec

\* No static row runs over the start of an executed instruction.
THEOREM StaticRowsRespectEvents == Spec => []StaticRowsSplit
<1>1. LayoutInv => StaticRowsSplit
  BY DEF LayoutInv
<1> QED
  BY <1>1, LayoutInit, LayoutStep, PTL DEF Spec

\* Static rows are ordered and disjoint.
THEOREM StaticRowsOrdered == Spec => []StaticRowsDisjoint
<1>1. LayoutInv => StaticRowsDisjoint
  BY DEF LayoutInv, StaticInv
<1> QED
  BY <1>1, LayoutInit, LayoutStep, PTL DEF Spec

\* Both together: the static rows of build_history are a clean partition of
\* bytes that were not executed.
THEOREM StaticRowsAreSound == Spec => []StaticRowsSound
<1>1. StaticRowsSplit /\ StaticRowsDisjoint => StaticRowsSound
  BY DEF StaticRowsSound
<1> QED
  BY <1>1, StaticRowsRespectEvents, StaticRowsOrdered, PTL

\* Each event inside the input has one row, in execution order.
THEOREM EventRowsAligned == Spec => []EventRowsInOrder
<1>1. LayoutInv => EventRowsInOrder
  <2> SUFFICES ASSUME LayoutInv PROVE EventRowsInOrder
    OBVIOUS
  <2>1. ASSUME pc = "done", NEW k \in 1 .. Len(events), InInput(events[k].offset)
        PROVE  \E i \in 1 .. Len(rows) : rows[i].event = k
    <3>1. index \in Nat /\ Len(events) \in Nat /\ size \in Nat /\ events[k] \in Event
      BY HistoryAssumption DEF LayoutInv, TypeInv, TypeOK
    <3>2. size # 0
      BY <2>1, <3>1 DEF InInput, Event
    <3>3. CASE ~instrumented
      <4>1. k < index
        BY <2>1, <3>1, <3>2, <3>3 DEF LayoutInv, TypeInv, ControlInv
      <4> QED
        BY <2>1, <4>1 DEF LayoutInv, EventInv, Laid
    <3>4. CASE instrumented
      BY <2>1, <3>4 DEF LayoutInv, TypeInv, ControlInv
    <3> QED
      BY <3>3, <3>4
  <2> QED
    BY <2>1 DEF LayoutInv, EventInv, EventRowsInOrder
<1> QED
  BY <1>1, LayoutInit, LayoutStep, PTL DEF Spec

\* Every byte of the input is on some row.
THEOREM EveryByteIsShown == Spec => []EveryByteShown
<1>1. LayoutInv => EveryByteShown
  <2> SUFFICES ASSUME LayoutInv, pc = "done", ~instrumented, NEW offset \in 0 .. size - 1
               PROVE  \E i \in 1 .. Len(rows) : Covers(rows[i], offset)
    BY DEF EveryByteShown
  <2>1. index > Len(events) /\ from = size /\ index \in Nat /\ Len(events) \in Nat /\ size \in Nat
    BY HistoryAssumption DEF LayoutInv, TypeInv, TypeOK, ControlInv
  <2>2. offset < Frontier
    BY <2>1 DEF Frontier
  <2>3. ~Pending(offset)
    BY <2>1 DEF Pending
  <2> QED
    BY <2>2, <2>3 DEF LayoutInv, ShownInv, Shown
<1> QED
  BY <1>1, LayoutInit, LayoutStep, PTL DEF Spec

-----------------------------------------------------------------------------
(* The rows are those of Layout.                                           *)

\* What Layout has laid out by the events before the current one.
Before == LaidBy(size, events, decode)[index - 1]

\* The rows so far, and what the rest of the current gap adds to them, are what Layout
\* has when it comes to the current event.
AgreeInv ==
    /\ size = 0 => events = <<>>
    /\ pc = "start" => rows = <<>> /\ linear = 0 /\ index = 1
    /\ pc \in {"event", "gap", "row"} => linear = Before.linear
    /\ pc = "event" => rows = Before.rows
    /\ pc = "gap" => rows \o Gap(size, events, decode, from, to) =
                       Before.rows \o Gap(size, events, decode, linear, to)
    /\ pc = "row" => rows = Before.rows \o Gap(size, events, decode, linear, events[index].offset)
    /\ LayoutAgrees

\* Appending a row and joining what follows, in either order.
LEMMA JoinedTwice ==
    ASSUME NEW R, NEW top \in Seq(R), NEW middle \in Seq(R), NEW tail \in Seq(R)
    PROVE  (top \o middle) \o tail = top \o (middle \o tail)
  OBVIOUS

\* Where the code cuts a static row is where Layout cuts it.
LEMMA BoundaryIsCut ==
    ASSUME TypeInv, pc = "gap", from < to, NEW boundary \in 1 .. size, IsBoundary(boundary)
    PROVE  /\ boundary \in from + 1 .. to
           /\ IsCut(size, events, decode, from, to, boundary)
           /\ StaticAt(size, decode, from, boundary) = StaticRow(boundary)
<1>1. /\ from < boundary /\ boundary <= to /\ boundary <= from + disasm_at(from)
      /\ from \in Nat /\ to \in Nat /\ InInput(from)
  BY StaticRowType
<1>2. disasm_at(from) = RowLength(size, decode, from) /\ disasm_at(from) \in Nat
  BY <1>1, DisasmBounds DEF disasm_at, RowLength, TypeInv
<1>3. \A o : event_at(o) <=> StartsEvent(events, o)
  BY DEF event_at, StartsEvent
<1>4. boundary = to \/ boundary = from + disasm_at(from) \/ event_at(boundary)
  BY DEF IsBoundary
<1>5. \A o \in from + 1 .. boundary - 1 : ~event_at(o)
  BY DEF IsBoundary
<1>6. boundary \in from + 1 .. to
  BY <1>1
<1>7. IsCut(size, events, decode, from, to, boundary)
  BY <1>1, <1>2, <1>3, <1>4, <1>5, <1>6 DEF IsCut
<1>8. StaticAt(size, decode, from, boundary) = StaticRow(boundary)
  BY <1>2 DEF StaticAt, StaticRow, NoEvent
<1> QED
  BY <1>6, <1>7, <1>8

\* The decoder and the record, as Layout takes them.
LEMMA LayoutInput ==
    ASSUME TypeInv
    PROVE  /\ size \in Nat /\ decode \in [0 .. size - 1 -> Nat] /\ Len(events) \in Nat
           /\ from \in 0 .. size /\ to \in 0 .. size /\ linear \in 0 .. size
           /\ index \in 1 .. Len(events) + 1 /\ rows \in Seq(Row)
  BY HistoryAssumption DEF TypeInv, TypeOK, ControlInv

\* build_history starts where Layout does.
LEMMA AgreeInit == Init => AgreeInv
<1> SUFFICES ASSUME Init PROVE AgreeInv
  OBVIOUS
<1>1. pc = "start" /\ rows = <<>> /\ linear = 0 /\ index = 1 /\ (size = 0 => events = <<>>)
  BY DEF Init
<1> QED
  BY <1>1 DEF AgreeInv, LayoutAgrees

\* Each step of build_history is part of what Layout does with the current event.
LEMMA AgreeStep == TypeInv /\ AgreeInv /\ [Next]_vars => AgreeInv'
<1> SUFFICES ASSUME TypeInv, AgreeInv, [Next]_vars PROVE AgreeInv'
  OBVIOUS
<1> DEFINE laid == LaidBy(size, events, decode)
           gap(x, y) == Gap(size, events, decode, x, y)
           R == Row \cup StaticRows(size)
<1>1. /\ size \in Nat /\ decode \in [0 .. size - 1 -> Nat] /\ Len(events) \in Nat
      /\ from \in 0 .. size /\ to \in 0 .. size /\ linear \in 0 .. size
      /\ index \in 1 .. Len(events) + 1 /\ rows \in Seq(Row)
  BY LayoutInput
<1>2. /\ laid[0] = [ rows |-> <<>>, linear |-> 0 ]
      /\ \A k \in 1 .. Len(events) : laid[k] = LaidNext(size, events, decode, k, laid[k - 1])
      /\ Layout(size, events, decode) =
            laid[Len(events)].rows \o gap(laid[Len(events)].linear, size)
  BY <1>1, LayoutAccumulates
<1>3. Before = laid[index - 1]
  BY DEF Before
<1>4. CASE UNCHANGED vars
  BY <1>4 DEF vars, AgreeInv, Before, LayoutAgrees
<1>5. ASSUME UNCHANGED input
      PROVE  /\ Before' = laid[index' - 1] /\ (size = 0 => events = <<>>)'
             /\ \A x, y : Gap(size, events, decode, x, y)' = gap(x, y)
  BY <1>5 DEF input, Before, AgreeInv
<1> HIDE DEF laid, gap, R
<1>6. CASE Refuse
  <2>1. /\ pc' = "done" /\ rows' = <<>> /\ UNCHANGED input
        /\ size = 0 \/ instrumented
    BY <1>6 DEF Refuse, AgreeInv
  <2>2. ASSUME ~instrumented PROVE Layout(size, events, decode) = <<>>
    <3>1. size = 0 /\ Len(events) = 0
      BY <2>1, <2>2 DEF AgreeInv
    <3>2. laid[Len(events)].rows = <<>> /\ laid[Len(events)].linear = 0
      BY <1>2, <3>1
    <3>4. Layout(size, events, decode) = <<>> \o gap(0, 0)
      BY <1>2, <3>1, <3>2
    <3>3. gap(0, 0) = <<>>
      BY GapEmpty DEF gap
    <3> QED
      BY <3>3, <3>4
  <2>3. LayoutAgrees'
    BY <2>1, <2>2 DEF LayoutAgrees, input
  <2> QED
    BY <1>5, <2>1, <2>3 DEF AgreeInv
<1>7. CASE Begin
  <2>1. /\ pc = "start" /\ pc' = "event" /\ UNCHANGED <<rows, linear, index>> /\ UNCHANGED input
    BY <1>7 DEF Begin
  <2>2. rows = <<>> /\ linear = 0 /\ index' - 1 = 0
    BY <2>1 DEF AgreeInv
  <2>3. Before' = laid[0]
    BY <1>5, <2>1, <2>2
  <2> QED
    BY <1>2, <1>5, <2>1, <2>2, <2>3 DEF AgreeInv, LayoutAgrees
<1>8. CASE SkipEvent
  <2>1. /\ pc = "event" /\ pc' = "event" /\ index' = index + 1 /\ index \in 1 .. Len(events)
        /\ UNCHANGED <<rows, linear>> /\ UNCHANGED input
        /\ ~InInput(events[index].offset)
    BY <1>1, <1>8 DEF SkipEvent
  <2>2. events[index].offset \notin 0 .. size - 1
    BY <1>1, <2>1 DEF InInput
  <2>3. Before' = laid[index] /\ laid[index] = laid[index - 1]
    <3>1. index' - 1 = index
      BY <1>1, <2>1
    <3>2. laid[index] = LaidNext(size, events, decode, index, laid[index - 1])
      BY <1>2, <2>1
    <3>3. laid[index] = laid[index - 1]
      BY <2>2, <3>2 DEF LaidNext
    <3> QED
      BY <1>5, <2>1, <3>1, <3>3
  <2> QED
    BY <1>3, <1>5, <2>1, <2>3 DEF AgreeInv, LayoutAgrees
<1>9. CASE TakeEvent
  <2>1. /\ pc = "event" /\ UNCHANGED <<rows, linear, index>> /\ UNCHANGED input
        /\ rows = Before.rows /\ linear = Before.linear
        /\ index \in 1 .. Len(events)
        /\ \/ pc' = "gap" /\ from' = linear /\ to' = events[index].offset
           \/ pc' = "row" /\ ~(events[index].offset > linear) /\ InInput(events[index].offset)
    BY <1>1, <1>9 DEF TakeEvent, AgreeInv
  <2>2. Before' = Before
    BY <1>3, <1>5, <2>1
  <2>3. CASE pc' = "gap" /\ from' = linear /\ to' = events[index].offset
    <3>1. Gap(size, events, decode, from, to)' = gap(linear, events[index].offset)
      BY <2>1, <2>3 DEF input, gap
    <3>2. Gap(size, events, decode, linear, to)' = gap(linear, events[index].offset)
      BY <2>1, <2>3 DEF input, gap
    <3> QED
      BY <1>5, <2>1, <2>2, <2>3, <3>1, <3>2 DEF AgreeInv, LayoutAgrees
  <2>4. CASE pc' = "row" /\ ~(events[index].offset > linear) /\ InInput(events[index].offset)
    <3>1. ~(linear < events[index].offset)
      <4>1. events[index] \in Event
        BY <2>1 DEF TypeInv, TypeOK
      <4>2. events[index].offset \in Int
        BY <4>1, HistoryAssumption DEF Event
      <4> QED
        BY <1>1, <2>4, <4>2
    <3>2. Gap(size, events, decode, linear, events[index].offset)' = <<>>
      BY <2>1, <3>1, GapEmpty DEF input
    <3>3. rows = rows \o <<>>
      BY <1>1
    <3> QED
      BY <1>5, <2>1, <2>2, <2>4, <3>2, <3>3 DEF AgreeInv, LayoutAgrees
  <2> QED
    BY <2>1, <2>3, <2>4
<1>10. CASE AddEventRow
  <2>1. /\ pc = "row" /\ pc' = "event" /\ index' = index + 1 /\ UNCHANGED input
        /\ rows' = Append(rows, EventRow)
        /\ linear' = IF EventRow.offset + EventRow.length > linear
                     THEN EventRow.offset + EventRow.length ELSE linear
        /\ index \in 1 .. Len(events) /\ InInput(events[index].offset)
    BY <1>1, <1>10 DEF AddEventRow, TypeInv, ControlInv
  <2>2. EventRow \in Row
    BY <2>1, EventRowType
  <2>3. events[index].offset \in 0 .. size - 1
    <3>1. events[index] \in Event
      BY <2>1 DEF TypeInv, TypeOK
    <3>2. events[index].offset \in Int
      BY <3>1, HistoryAssumption DEF Event
    <3> QED
      BY <1>1, <2>1, <3>2 DEF InInput
  <2>4. EventRow = RowOf(size, events, decode, index)
    BY DEF EventRow, RowOf, disasm_at, RowLength
  <2>5. laid[index] = LaidNext(size, events, decode, index, laid[index - 1])
    BY <1>2, <2>1
  <2>6. RowOf(size, events, decode, index).offset = events[index].offset
    BY DEF RowOf
  <2> HIDE DEF EventRow
  <2>7. laid[index] = [ rows |-> Before.rows \o gap(Before.linear, events[index].offset)
                                \o <<EventRow>>,
                        linear |-> IF EventRow.offset + EventRow.length > Before.linear
                                   THEN EventRow.offset + EventRow.length ELSE Before.linear ]
    BY <1>3, <2>3, <2>4, <2>5, <2>6 DEF LaidNext, gap
  <2>8. rows = Before.rows \o gap(linear, events[index].offset) /\ linear = Before.linear
    BY <2>1 DEF AgreeInv, gap
  <2>9. rows' = rows \o <<EventRow>>
    BY <1>1, <2>1, <2>2
  <2>10. laid[index].rows = rows' /\ laid[index].linear = linear'
    <3> DEFINE all  == Before.rows \o gap(Before.linear, events[index].offset) \o <<EventRow>>
               next == IF EventRow.offset + EventRow.length > Before.linear
                       THEN EventRow.offset + EventRow.length ELSE Before.linear
    <3>1. laid[index] = [ rows |-> all, linear |-> next ]
      BY <2>7
    <3>2. all = rows' /\ next = linear'
      BY <2>1, <2>8, <2>9
    <3> HIDE DEF all, next
    <3>3. laid[index].rows = all /\ laid[index].linear = next
      BY <3>1
    <3> QED
      BY <3>2, <3>3
  <2>11. Before' = laid[index]
    <3>1. index' - 1 = index
      BY <1>1, <2>1
    <3> QED
      BY <1>5, <2>1, <3>1
  <2> QED
    BY <1>5, <2>1, <2>10, <2>11 DEF AgreeInv, LayoutAgrees
<1>11. CASE LastGap
  <2>1. /\ pc = "event" /\ pc' = "gap" /\ from' = linear /\ to' = size
        /\ UNCHANGED <<rows, linear, index>> /\ UNCHANGED input
        /\ rows = Before.rows /\ linear = Before.linear
    BY <1>11 DEF LastGap, AgreeInv
  <2>2. Before' = Before
    BY <1>3, <1>5, <2>1
  <2>3. /\ Gap(size, events, decode, from, to)' = gap(linear, size)
        /\ Gap(size, events, decode, linear, to)' = gap(linear, size)
    BY <2>1 DEF input, gap
  <2> QED
    BY <1>5, <2>1, <2>2, <2>3 DEF AgreeInv, LayoutAgrees
<1>12. ASSUME NEW boundary \in 1 .. size, GapRow(boundary) PROVE AgreeInv'
  <2>1. /\ pc = "gap" /\ from < to /\ IsBoundary(boundary) /\ pc' = "gap" /\ from' = boundary
        /\ rows' = IF event_at(from) THEN rows ELSE Append(rows, StaticRow(boundary))
        /\ UNCHANGED <<linear, index, to>> /\ UNCHANGED input
        /\ rows \o gap(from, to) = Before.rows \o gap(linear, to)
    BY <1>12 DEF GapRow, AgreeInv, gap
  <2>2. /\ boundary \in from + 1 .. to
        /\ IsCut(size, events, decode, from, to, boundary)
        /\ StaticAt(size, decode, from, boundary) = StaticRow(boundary)
        /\ StaticRow(boundary) \in Row
    BY <2>1, BoundaryIsCut, StaticRowType
  <2> DEFINE top == GapHead(size, events, decode, from, boundary)
  <2>3. gap(from, to) = top \o gap(boundary, to)
    <3>1. from \in 0 .. to - 1
      BY <1>1, <2>1
    <3> QED
      BY <1>1, <2>2, <3>1, GapUnfolds DEF gap
  <2>4. top = IF event_at(from) THEN <<>> ELSE <<StaticRow(boundary)>>
    BY <2>2 DEF GapHead, event_at, StartsEvent
  <2> HIDE DEF top
  <2>5. rows \in Seq(R) /\ top \in Seq(R) /\ gap(boundary, to) \in Seq(R)
    <3>1. boundary \in Nat /\ to \in 0 .. size
      BY <1>1, <2>2
    <3>2. gap(boundary, to) \in Seq(StaticRows(size))
      BY <1>1, <3>1, GapRows DEF gap
    <3>3. \A S : Seq(S) \subseteq Seq(S \cup StaticRows(size))
      OBVIOUS
    <3>4. Seq(StaticRows(size)) \subseteq Seq(R) /\ Seq(Row) \subseteq Seq(R)
      BY DEF R
    <3>5. top \in Seq(Row)
      BY <2>2, <2>4
    <3> QED
      BY <1>1, <3>2, <3>4, <3>5
  <2>6. rows' = rows \o top
    <3>1. CASE event_at(from)
      <4>1. rows' = rows /\ top = <<>>
        BY <2>1, <2>4, <3>1
      <4> QED
        BY <1>1, <4>1
    <3>2. CASE ~event_at(from)
      <4>1. rows' = Append(rows, StaticRow(boundary)) /\ top = <<StaticRow(boundary)>>
        BY <2>1, <2>4, <3>2
      <4> HIDE DEF StaticRow
      <4> QED
        BY <1>1, <2>2, <4>1
    <3> QED
      BY <3>1, <3>2
  <2>7. rows' \o gap(boundary, to) = Before.rows \o gap(linear, to)
    <3>1. (rows \o top) \o gap(boundary, to) = rows \o (top \o gap(boundary, to))
      BY <2>5, JoinedTwice
    <3> QED
      BY <2>1, <2>3, <2>6, <3>1
  <2>8. Before' = Before
    BY <1>3, <1>5, <2>1
  <2>9. /\ Gap(size, events, decode, from, to)' = gap(boundary, to)
        /\ Gap(size, events, decode, linear, to)' = gap(linear, to)
    BY <2>1 DEF input, gap
  <2>10. linear = Before.linear
    BY <2>1 DEF AgreeInv
  <2> QED
    BY <1>5, <2>1, <2>7, <2>8, <2>9, <2>10 DEF AgreeInv, LayoutAgrees
<1>13. CASE GapFilled
  <2>1. /\ pc = "gap" /\ ~(from < to) /\ UNCHANGED <<rows, linear, index, from, to>>
        /\ UNCHANGED input /\ linear = Before.linear
        /\ rows \o gap(from, to) = Before.rows \o gap(linear, to)
        /\ pc' = IF index > Len(events) THEN "done" ELSE "row"
    <3>1. /\ pc = "gap" /\ from >= to /\ UNCHANGED <<rows, linear, index, from, to>>
          /\ UNCHANGED input /\ pc' = IF index > Len(events) THEN "done" ELSE "row"
      BY <1>13 DEF GapFilled
    <3>2. linear = Before.linear /\ rows \o gap(from, to) = Before.rows \o gap(linear, to)
      BY <3>1 DEF AgreeInv, gap
    <3>3. ~(from < to)
      BY <1>1, <3>1
    <3> QED
      BY <3>1, <3>2, <3>3
  <2>2. gap(from, to) = <<>> /\ rows \o <<>> = rows
    BY <1>1, <2>1, GapEmpty DEF gap
  <2>3. rows = Before.rows \o gap(linear, to)
    BY <2>1, <2>2
  <2>4. Before' = Before
    BY <1>3, <1>5, <2>1
  <2>5. CASE index > Len(events)
    <3>1. index - 1 = Len(events) /\ to = size
      BY <1>1, <2>1, <2>5 DEF TypeInv, ControlInv
    <3>2. rows = Layout(size, events, decode)
      BY <1>2, <1>3, <2>1, <2>3, <3>1
    <3>3. LayoutAgrees'
      BY <2>1, <3>2 DEF LayoutAgrees, input
    <3> QED
      BY <1>5, <2>1, <2>5, <3>3 DEF AgreeInv
  <2>6. CASE ~(index > Len(events))
    <3>1. to = events[index].offset
      BY <1>1, <2>1, <2>6 DEF TypeInv, ControlInv
    <3>2. Gap(size, events, decode, linear, events[index].offset)' = gap(linear, to)
      BY <2>1, <3>1 DEF input, gap
    <3> QED
      BY <1>5, <2>1, <2>3, <2>4, <2>6, <3>2 DEF AgreeInv, LayoutAgrees
  <2> QED
    BY <2>5, <2>6
<1>14. CASE Done
  BY <1>4, <1>14 DEF Done
<1> QED
  BY <1>4, <1>6, <1>7, <1>8, <1>9, <1>10, <1>11, <1>12, <1>13, <1>14 DEF Next, Step

\* build_history, one row at a time, returns exactly the rows of Layout: what is proved
\* of Layout for the user interface and for the --quick output holds of the loop.
THEOREM RowsAreTheLayout == Spec => []LayoutAgrees
<1>1. Init => TypeInv /\ AgreeInv
  BY TypeInit, AgreeInit
<1>2. TypeInv /\ AgreeInv /\ [Next]_vars => (TypeInv /\ AgreeInv)'
  BY TypeStep, AgreeStep
<1>3. AgreeInv => LayoutAgrees
  BY DEF AgreeInv
<1> QED
  BY <1>1, <1>2, <1>3, PTL DEF Spec

-----------------------------------------------------------------------------
(* The command line's bytes.                                               *)

TextOK ==
    /\ text \in Seq(Chars)
    /\ position \in 0 .. Size
    /\ parsed \in Seq(0 .. 255)

\* Skipping stops at the first character of another class, or at the end.
LEMMA SkipStops ==
    ASSUME text \in Seq(Chars), NEW p \in 0 .. Size, NEW class
    PROVE  LET q == SkipWhile(class, p)
           IN  /\ q \in p .. Size
               /\ \A r \in p .. q - 1 : Char(r) \in class
               /\ q = Size \/ Char(q) \notin class
<1> DEFINE Stops(q) == q = Size \/ Char(q) \notin class
           S == { q \in p .. Size : Stops(q) }
<1>1. Size \in Nat
  BY DEF Size
<1>2. S \subseteq 0 .. Size /\ S # {}
  BY <1>1, SMTT(30)
<1>3. PICK q \in S : \A r \in S : q <= r
  <2> HIDE DEF S
  <2> QED
    BY <1>1, <1>2, LeastOf, Zenon
<1>4. \A r \in p .. q - 1 : Char(r) \in class
  BY <1>1, <1>3
<1> HIDE DEF Stops
<1>5. \E b \in p .. Size : (\A r \in p .. b - 1 : Char(r) \in class) /\ Stops(b)
  BY <1>3, <1>4
<1> USE DEF Stops
<1> HIDE DEF Size, Char
<1> QED
  BY <1>5, Zenon DEF SkipWhile

\* Two digits are a byte.
LEMMA DigitValue ==
    /\ \A d \in Digits : Value(d) \in 0 .. 15
    /\ \A d, e \in Digits : 16 * Value(d) + Value(e) \in 0 .. 255
<1>1. \A d \in Digits : Value(d) \in 0 .. 15
  BY DEF Digits, Value
<1> QED
  BY <1>1

\* The parser only ever collects bytes.
LEMMA ParseStepType == ASSUME TextOK, ParseStep PROVE TextOK'
<1> USE DEF TextOK
<1>0. Size \in Nat /\ Size' = Len(text')
  BY DEF Size
<1>1. CASE Invalid
  BY <1>1 DEF Invalid, Size
<1>2. CASE Parsed(parsed)
  BY <1>2 DEF Parsed, Size
<1>3. ASSUME NEW loop, NEW p \in 0 .. Size, NEW bytes \in Seq(0 .. 255),
             Continue(loop, p, bytes)
      PROVE  TextOK'
  BY <1>3 DEF Continue, Size
<1>4. <<>> \in Seq(0 .. 255) /\ \A b \in 0 .. 255 : Append(parsed, b) \in Seq(0 .. 255)
  OBVIOUS
<1>5. skip_whitespace(0) \in 0 .. Size /\ skip_whitespace(position) \in position .. Size
  <2>1. 0 \in 0 .. Size
    BY <1>0
  <2> QED
    BY <2>1, SkipStops, Zenon DEF skip_whitespace
<1>6. CASE StartParse
  <2> DEFINE p == skip_whitespace(0)
  <2>1. \/ Invalid
        \/ p < Size /\ Continue("braces", p + 1, <<>>)
        \/ p < Size /\ Continue("escapes", p, <<>>)
        \/ Continue("pairs", p, <<>>)
    BY <1>6 DEF StartParse
  <2>2. p \in 0 .. Size /\ (p < Size => p + 1 \in 0 .. Size)
    BY <1>0, <1>5
  <2> QED
    BY <2>1, <2>2, <1>1, <1>3, <1>4
<1>7. CASE ParseBraces
  <2> DEFINE p     == skip_whitespace(position)
             start == p + 2
             end   == SkipWhile(Digits, start)
             next  == skip_whitespace(end)
             byte  == Value(Char(end - 1))
                      + (IF end - start = 2 THEN 16 * Value(Char(start)) ELSE 0)
  <2>1. \/ Invalid
        \/ Parsed(parsed)
        \/ /\ Size - p >= 3 /\ end # start /\ ~(end - start > 2)
           /\ \/ next < Size /\ Continue("braces", next, Append(parsed, byte))
              \/ next < Size /\ Continue("braces", next + 1, Append(parsed, byte))
    <3>1. p \in 0 .. Size
      BY <1>0, <1>5
    <3> HIDE DEF p, end, next, byte
    <3>2. \/ p = Size /\ Invalid
          \/ /\ p < Size /\ Char(p) = CloseBrace
             /\ \/ Parsed(parsed)
                \/ Invalid
          \/ /\ p < Size /\ Char(p) # CloseBrace
             /\ IF Size - p < 3 \/ Char(p) # "0" \/ Char(p + 1) # "x" THEN Invalid
                ELSE IF end = start \/ end - start > 2 THEN Invalid
                ELSE IF next < Size /\ Char(next) = CloseBrace
                     THEN Continue("braces", next, Append(parsed, byte))
                ELSE IF next < Size /\ Char(next) = Comma
                     THEN Continue("braces", next + 1, Append(parsed, byte))
                ELSE Invalid
      <4>1. p = Size \/ p < Size
        BY <1>0, <3>1
      <4> QED
        BY <1>7, <4>1, Zenon DEF ParseBraces, p, start, end, next, byte
    <3> HIDE DEF start
    <3>3. ~(Size - p < 3) => Size - p >= 3
      BY <3>1, <1>0
    <3> QED
      BY <3>2, <3>3, Zenon
  <2>2. ASSUME Size - p >= 3, end # start, ~(end - start > 2)
        PROVE  /\ next \in 0 .. Size /\ (next < Size => next + 1 \in 0 .. Size)
               /\ byte \in 0 .. 255
    <3>1. start \in 0 .. Size
      BY <2>2, <1>0, <1>5
    <3>2. end \in start .. Size /\ \A r \in start .. end - 1 : Char(r) \in Digits
      BY <3>1, SkipStops
    <3>3. end \in 0 .. Size
      BY <3>1, <3>2, <1>0
    <3>4. next \in end .. Size
      BY <3>3, SkipStops DEF skip_whitespace
    <3> HIDE DEF start, end, next
    <3>5. start \in start .. end - 1 /\ end - 1 \in start .. end - 1
      BY <3>1, <3>2, <2>2
    <3>6. Char(start) \in Digits /\ Char(end - 1) \in Digits
      BY <3>2, <3>5
    <3>7. byte \in 0 .. 255
      <4> DEFINE v == Value(Char(start))
                 w == Value(Char(end - 1))
      <4>1. v \in 0 .. 15 /\ w \in 0 .. 15
        BY <3>6, DigitValue
      <4> HIDE DEF v, w
      <4>2. w + (IF end - start = 2 THEN 16 * v ELSE 0) \in 0 .. 255
        <5>1. w + 16 * v \in 0 .. 255 /\ w + 0 \in 0 .. 255
          BY <4>1
        <5> QED
          BY <5>1
      <4> QED
        BY <4>2 DEF v, w
    <3> QED
      BY <3>3, <3>4, <3>7, <1>0
  <2> HIDE DEF p, start, end, next, byte
  <2> QED
    BY <2>1, <2>2, <1>1, <1>2, <1>3, <1>4
<1>8. CASE ParseEscapes
  <2> DEFINE p == skip_whitespace(position)
  <2>1. \/ Invalid
        \/ Parsed(parsed)
        \/ /\ Size - p >= 4 /\ parse_byte_ok(p + 2)
           /\ Continue("escapes", p + 4, Append(parsed, parse_byte(p + 2)))
    BY <1>8, <1>0, <1>5 DEF ParseEscapes
  <2>2. ASSUME Size - p >= 4, parse_byte_ok(p + 2)
        PROVE  p + 4 \in 0 .. Size /\ parse_byte(p + 2) \in 0 .. 255
    BY <2>2, <1>0, <1>5, DigitValue, SMTT(30) DEF parse_byte_ok, parse_byte
  <2> HIDE DEF p
  <2> QED
    BY <2>1, <2>2, <1>1, <1>2, <1>3, <1>4
<1>9. CASE ParsePairs
  <2>1. \/ Invalid
        \/ Parsed(parsed)
        \/ position # Size /\ Continue("pairs", position + 1, parsed)
        \/ /\ parse_byte_ok(position)
           /\ Continue("pairs", position + 2, Append(parsed, parse_byte(position)))
    BY <1>9 DEF ParsePairs
  <2>2. position # Size => position + 1 \in 0 .. Size
    BY <1>0
  <2>3. ASSUME parse_byte_ok(position)
        PROVE  position + 2 \in 0 .. Size /\ parse_byte(position) \in 0 .. 255
    BY <2>3, <1>0, DigitValue DEF parse_byte_ok, parse_byte
  <2> QED
    BY <2>1, <2>2, <2>3, <1>1, <1>2, <1>3, <1>4
<1> QED
  BY <1>6, <1>7, <1>8, <1>9 DEF ParseStep

-----------------------------------------------------------------------------
(* Traces and what is printed of them.                                     *)

TracedEvent == [ offset : Int, kind : {"Completed", "Faulted"}, registers : Registers ]

\* What run_quick may rely on in a trace.
GoodTrace(bytes, t) ==
    /\ t.outcome \in {"Error", "Finished", "Faulted"}
    /\ t.instrumentation \in BOOLEAN
    /\ t.seed \in Registers
    /\ t.events \in Seq(TracedEvent)
    /\ GoodEvents(Len(bytes), t.events)
    /\ t.outcome = "Error" => t.events = <<>>
    /\ t.instrumentation => t.outcome = "Error"

\* Every trace of the engine is one of these.
LEMMA TracesGood ==
    ASSUME NEW bytes \in Seq(0 .. 255), NEW cap \in Int, NEW t \in Traces(bytes, cap)
    PROVE  GoodTrace(bytes, t)
<1> DEFINE inside == 0 .. Len(bytes) - 1
           most   == Least(MaxTrace, cap)
           Events(kind, offsets) == [ offset : offsets, kind : {kind}, registers : Registers ]
           Of(n)  == { e \in [1 .. n -> Events("Completed", inside)]
                       : n > 0 => e[1].offset = 0 }
           runs    == UNION { Of(n) : n \in 0 .. most }
           faulted == { Append(e, f) : e \in { r \in runs : Len(r) < most },
                                       f \in Events("Faulted", inside \cup {-1, Len(bytes)}) }
           Trace(outcomes, instrumentations, seeds, ran) ==
               [ outcome : outcomes, instrumentation : instrumentations, seed : seeds,
                 events : ran, effective_max_steps : {cap} ]
           last == { f \in faulted : Len(f) = 1 => f[1].offset = 0 }
<1>0. Traces(bytes, cap) = Trace({"Error"}, {TRUE}, {DefaultRegisters}, {<<>>})
                           \cup Trace({"Error"}, {FALSE}, Registers, {<<>>})
                           \cup Trace({"Finished"}, {FALSE}, Registers, runs)
                           \cup Trace({"Faulted"}, {FALSE}, Registers, last)
  BY DEF Traces
<1>a. last \subseteq faulted
  OBVIOUS
<1>1. /\ t.outcome \in {"Error", "Finished", "Faulted"} /\ t.instrumentation \in BOOLEAN
      /\ t.seed \in Registers
      /\ t.outcome = "Error" => t.events = <<>>
      /\ t.outcome = "Finished" => t.events \in runs /\ ~t.instrumentation
      /\ t.outcome = "Faulted" => t.events \in faulted /\ ~t.instrumentation
  <2> HIDE DEF runs, faulted, last
  <2> QED
    BY <1>0, <1>a, QuickAssumption
<1>2. ASSUME NEW e \in runs
      PROVE  e \in Seq(TracedEvent) /\ \A k \in 1 .. Len(e) : e[k].offset \in inside
  <2> HIDE DEF Of
  <2>1. PICK n \in 0 .. most : e \in Of(n)
    BY <1>2
  <2> HIDE DEF most, runs, faulted
  <2>2. n \in Nat /\ e \in [1 .. n -> Events("Completed", inside)]
    BY <2>1 DEF Of
  <2>3. Events("Completed", inside) \subseteq TracedEvent
    BY DEF TracedEvent
  <2>4. \A f \in Events("Completed", inside) : f.offset \in inside
    OBVIOUS
  <2> HIDE DEF Events
  <2>5. e \in Seq(Events("Completed", inside)) /\ Len(e) = n
    BY <2>2
  <2> QED
    BY <2>2, <2>3, <2>4, <2>5
<1>3. ASSUME NEW e \in runs PROVE GoodEvents(Len(bytes), e)
  <2> HIDE DEF runs
  <2> QED
    BY <1>2, <1>3 DEF GoodEvents
<1>4. ASSUME NEW e \in faulted PROVE e \in Seq(TracedEvent) /\ GoodEvents(Len(bytes), e)
  <2> DEFINE short == { r \in runs : Len(r) < most }
             after == Events("Faulted", inside \cup {-1, Len(bytes)})
  <2> HIDE DEF runs, Events, most, inside
  <2>1. PICK f \in runs, g \in after : e = Append(f, g)
    <3>1. short \subseteq runs
      OBVIOUS
    <3> HIDE DEF short, after
    <3>2. faulted = { Append(f, g) : f \in short, g \in after }
      BY DEF short, after
    <3> HIDE DEF faulted
    <3>3. \E f \in short, g \in after : e = Append(f, g)
      BY <1>4, <3>2
    <3> QED
      BY <3>1, <3>3
  <2> USE DEF inside
  <2>2. f \in Seq(TracedEvent) /\ \A k \in 1 .. Len(f) : f[k].offset \in inside
    BY <1>2
  <2>3. g \in TracedEvent
    BY <2>1 DEF TracedEvent, Events
  <2> HIDE DEF TracedEvent, faulted
  <2>5. /\ e \in Seq(TracedEvent) /\ Len(e) = Len(f) + 1 /\ Len(f) \in Nat
        /\ \A k \in 1 .. Len(f) : e[k] = f[k]
    BY <2>1, <2>2, <2>3
  <2> QED
    BY <2>2, <2>5 DEF GoodEvents
<1>5. <<>> \in Seq(TracedEvent) /\ GoodEvents(Len(bytes), <<>>)
  BY DEF GoodEvents
<1> HIDE DEF runs, faulted
<1> QED
  BY <1>1, <1>2, <1>3, <1>4, <1>5 DEF GoodTrace

\* The number of steps asked for is a number.
LEMMA MaxStepsType == ASSUME args \in CommandLines PROVE max_steps \in Int
<1>1. args.max_steps \in Seq(Int)
  BY QuickAssumption DEF CommandLine
<1>2. args.max_steps # <<>> => args.max_steps[1] \in Int
  BY <1>1
<1> QED
  BY <1>2, QuickAssumption DEF max_steps, Least

-----------------------------------------------------------------------------
(* The output as a sequence of chunks.                                     *)

\* Parts of the output one after the other: every chunk is one of the first or
\* of the second part.
TwoParts(ab, a, b, m, n) ==
    /\ IsSeq(ab) /\ Len(ab) = m + n
    /\ \A i \in 1 .. m : ab[i] = a[i]
    /\ \A i \in m + 1 .. m + n : ab[i] = b[i - m]

\* Concatenation is the one sequence and then the other.
LEMMA InTwoParts ==
    ASSUME NEW a, NEW b, IsSeq(a), IsSeq(b), NEW m, NEW n, Len(a) = m, Len(b) = n
    PROVE  TwoParts(a \o b, a, b, m, n)
<1> DEFINE S == { a[i] : i \in DOMAIN a } \cup { b[i] : i \in DOMAIN b }
<1>1. a \in Seq(S) /\ b \in Seq(S)
  <2>1. /\ Len(a) \in Nat /\ DOMAIN a = 1 .. Len(a) /\ a \in [1 .. Len(a) -> S]
        /\ Len(b) \in Nat /\ DOMAIN b = 1 .. Len(b) /\ b \in [1 .. Len(b) -> S]
    BY DEF IsSeq
  <2> HIDE DEF S
  <2> QED
    BY <2>1
<1> HIDE DEF S
<1>2. a \o b \in Seq(S) /\ Len(a \o b) = Len(a) + Len(b) /\ Len(a) \in Nat /\ Len(b) \in Nat
  BY <1>1
<1>3. IsSeq(a \o b)
  BY <1>2, SeqFacts
<1>4. /\ \A i \in 1 .. Len(a) : (a \o b)[i] = a[i]
      /\ \A i \in Len(a) + 1 .. Len(a) + Len(b) : (a \o b)[i] = b[i - Len(a)]
  BY <1>1, <1>2
<1> QED
  BY <1>2, <1>3, <1>4 DEF TwoParts

\* The chunks of the text output: two lines, one for each row, the message.
LEMMA TextPlaces ==
    ASSUME NEW t, NEW n \in Nat, Len(history(t, args.backend)) = n
    PROVE  LET lines == TextLines(t)
               shown == history(t, args.backend)
           IN  /\ IsSeq(lines) /\ Len(lines) = n + 3
               /\ lines[1] = Chunk("cpu", <<>>)
               /\ lines[2] = Chunk("seed", print_deltas(DefaultRegisters, t.seed))
               /\ \A p \in 3 .. n + 2 : lines[p] = line(t, shown, p - 2)
               /\ lines[n + 3] = Chunk("message", t.outcome)
<1> DEFINE shown == history(t, args.backend)
           x == Chunk("cpu", <<>>)
           y == Chunk("seed", print_deltas(DefaultRegisters, t.seed))
           z == Chunk("message", t.outcome)
           a == <<x, y>>
           L(i) == line(t, shown, i)
           b == [ i \in 1 .. n |-> L(i) ]
           c == <<z>>
<1>1. TextLines(t) = a \o b \o c
  BY DEF TextLines
<1> HIDE DEF x, y, z, L
<1>2. IsSeq(a) /\ Len(a) = 2 /\ a[1] = x /\ a[2] = y
  <2>1. a \in Seq({x, y}) /\ Len(a) = 2 /\ a[1] = x /\ a[2] = y
    OBVIOUS
  <2> QED
    BY <2>1, SeqFacts
<1>3. IsSeq(c) /\ Len(c) = 1 /\ c[1] = z
  <2>1. c \in Seq({z}) /\ Len(c) = 1 /\ c[1] = z
    OBVIOUS
  <2> QED
    BY <2>1, SeqFacts
<1>4. IsSeq(b) /\ Len(b) = n
  <2>1. b = [ i \in 1 .. n |-> b[i] ]
    OBVIOUS
  <2> QED
    BY <2>1, Listed
<1>5. \A i \in 1 .. n : b[i] = L(i)
  OBVIOUS
<1> HIDE DEF a, b, c
<1> DEFINE ab  == a \o b
           abc == ab \o c
<1>6. TwoParts(ab, a, b, 2, n)
  BY <1>2, <1>4, InTwoParts, Zenon
<1>7. TwoParts(abc, ab, c, n + 2, 1)
  <2> HIDE DEF ab
  <2>1. IsSeq(ab) /\ Len(ab) = n + 2
    BY <1>6 DEF TwoParts
  <2> QED
    BY <1>3, <2>1, InTwoParts, Zenon
<1> HIDE DEF ab, abc
<1>8. /\ IsSeq(abc) /\ Len(abc) = n + 3
      /\ \A p \in 3 .. n + 2 : abc[p] = L(p - 2)
      /\ abc[n + 3] = z
  BY <1>3, <1>5, <1>6, <1>7 DEF TwoParts
<1>9. abc[1] = x /\ abc[2] = y
  BY <1>2, <1>6, <1>7 DEF TwoParts
<1> QED
  BY <1>1, <1>8, <1>9, Zenon DEF x, y, z, L, ab, abc

\* The chunks of the document: events and decoders in their places, and nothing
\* else has their labels.
LEMMA SectionPlaces ==
    ASSUME NEW t, NEW n \in Nat, Len(t.events) = n
    PROVE  LET all   == Sections(t)
               m     == Len(Backends)
           IN  /\ m \in Nat
               /\ IsSeq(all) /\ Len(all) = n + m + 6
               /\ \A p \in 5 .. n + 4 :
                     all[p] = Chunk("event", ExecutionEventDocument(t, p - 4))
               /\ \A p \in n + 6 .. n + m + 5 :
                     all[p] = Chunk("decoder", DecoderDocument(t, Backends[p - n - 5]))
               /\ \A p \in 1 .. n + m + 6 :
                     \/ p \in 5 .. n + 4 \/ p \in n + 6 .. n + m + 5
                     \/ all[p].label \notin {"event", "decoder"}
<1> DEFINE m == Len(Backends)
           u == Chunk("producer", <<>>)
           v == Chunk("host", <<>>)
           w == RequestDocument(t)
           x == Chunk("seed", t.seed)
           y == Chunk("outcome", t.outcome)
           z == Chunk("newline", <<>>)
           E(i) == Chunk("event", ExecutionEventDocument(t, i))
           D(i) == Chunk("decoder", DecoderDocument(t, Backends[i]))
           a == <<u, v, w>>
           b == <<x>>
           c == [ i \in 1 .. n |-> E(i) ]
           d == <<y>>
           e == [ i \in 1 .. m |-> D(i) ]
           f == <<z>>
           Other(chunk) == chunk.label \notin {"event", "decoder"}
<1>1. Sections(t) = a \o (b \o c \o d) \o e \o f
  BY DEF Sections, ExecutionView
<1>2. m \in Nat
  BY QuickAssumption
<1>3. Other(u) /\ Other(v) /\ Other(w) /\ Other(x) /\ Other(y) /\ Other(z)
  BY DEF Chunk, RequestDocument
<1> HIDE DEF m, u, v, w, x, y, z, E, D, Other
<1>4. IsSeq(a) /\ Len(a) = 3 /\ a[1] = u /\ a[2] = v /\ a[3] = w
  <2>1. a \in Seq({u, v, w}) /\ Len(a) = 3 /\ a[1] = u /\ a[2] = v /\ a[3] = w
    OBVIOUS
  <2> QED
    BY <2>1, SeqFacts
<1>5. ASSUME NEW k PROVE IsSeq(<<k>>) /\ Len(<<k>>) = 1 /\ <<k>>[1] = k
  <2>1. <<k>> \in Seq({k}) /\ Len(<<k>>) = 1 /\ <<k>>[1] = k
    OBVIOUS
  <2> QED
    BY <2>1, SeqFacts
<1>6. IsSeq(c) /\ Len(c) = n /\ \A i \in 1 .. n : c[i] = E(i)
  <2>1. c = [ i \in 1 .. n |-> c[i] ] /\ \A i \in 1 .. n : c[i] = E(i)
    OBVIOUS
  <2> QED
    BY <2>1, Listed
<1>7. IsSeq(e) /\ Len(e) = m /\ \A i \in 1 .. m : e[i] = D(i)
  <2>1. e = [ i \in 1 .. m |-> e[i] ] /\ \A i \in 1 .. m : e[i] = D(i)
    OBVIOUS
  <2> QED
    BY <2>1, <1>2, Listed
<1>8. /\ IsSeq(b) /\ Len(b) = 1 /\ b[1] = x
      /\ IsSeq(d) /\ Len(d) = 1 /\ d[1] = y
      /\ IsSeq(f) /\ Len(f) = 1 /\ f[1] = z
  BY <1>5, Zenon
<1> HIDE DEF a, b, c, d, e, f
<1> DEFINE bc  == b \o c
           bcd == bc \o d
           ad  == a \o bcd
           ae  == ad \o e
           all == ae \o f
<1>9. TwoParts(bc, b, c, 1, n)
  BY <1>6, <1>8, InTwoParts, Zenon
<1>10. TwoParts(bcd, bc, d, n + 1, 1)
  <2> HIDE DEF bc
  <2>1. IsSeq(bc) /\ Len(bc) = n + 1
    BY <1>9 DEF TwoParts
  <2> QED
    BY <1>8, <2>1, InTwoParts, Zenon
<1>11. TwoParts(ad, a, bcd, 3, n + 2)
  <2> HIDE DEF bc, bcd
  <2>1. IsSeq(bcd) /\ Len(bcd) = n + 2
    BY <1>10 DEF TwoParts
  <2> QED
    BY <1>4, <2>1, InTwoParts, Zenon
<1>12. TwoParts(ae, ad, e, n + 5, m)
  <2> HIDE DEF bc, bcd, ad
  <2>1. IsSeq(ad) /\ Len(ad) = n + 5
    BY <1>11 DEF TwoParts
  <2> QED
    BY <1>7, <2>1, InTwoParts, Zenon
<1>13. TwoParts(all, ae, f, n + m + 5, 1)
  <2> HIDE DEF bc, bcd, ad, ae
  <2>1. IsSeq(ae) /\ Len(ae) = n + m + 5
    BY <1>2, <1>12 DEF TwoParts
  <2> QED
    BY <1>8, <2>1, InTwoParts, Zenon
<1> HIDE DEF bc, bcd, ad, ae, all
<1>14. IsSeq(all) /\ Len(all) = n + m + 6
  BY <1>2, <1>13 DEF TwoParts
<1>15. ASSUME NEW p \in 1 .. n + 5 PROVE all[p] = ad[p]
  BY <1>2, <1>12, <1>13 DEF TwoParts
<1>16. ASSUME NEW p \in 4 .. n + 5 PROVE all[p] = bcd[p - 3]
  BY <1>11, <1>15 DEF TwoParts
<1>17. ASSUME NEW p \in 5 .. n + 4 PROVE all[p] = E(p - 4)
  <2>1. all[p] = bcd[p - 3] /\ p - 3 \in 1 .. n + 1
    BY <1>16
  <2>2. bcd[p - 3] = bc[p - 3]
    BY <2>1, <1>10 DEF TwoParts
  <2>3. bc[p - 3] = c[p - 4] /\ p - 4 \in 1 .. n
    BY <1>9 DEF TwoParts
  <2> QED
    BY <1>6, <2>1, <2>2, <2>3
<1>18. ASSUME NEW p \in n + 6 .. n + m + 5 PROVE all[p] = D(p - n - 5)
  <2>1. all[p] = ae[p]
    BY <1>2, <1>13 DEF TwoParts
  <2>2. ae[p] = e[p - (n + 5)] /\ p - (n + 5) = p - n - 5 /\ p - n - 5 \in 1 .. m
    BY <1>2, <1>12 DEF TwoParts
  <2> QED
    BY <1>7, <2>1, <2>2
<1>19. /\ all[1] = u /\ all[2] = v /\ all[3] = w
  BY <1>4, <1>11, <1>15 DEF TwoParts
<1>20. all[4] = x /\ all[n + 5] = y
  <2>1. all[4] = bcd[1] /\ all[n + 5] = bcd[n + 2]
    BY <1>16
  <2>2. bcd[1] = bc[1] /\ bc[1] = b[1]
    BY <1>9, <1>10 DEF TwoParts
  <2>3. bcd[n + 2] = d[1]
    BY <1>10 DEF TwoParts
  <2> QED
    BY <2>1, <2>2, <2>3, <1>8
<1>21. all[n + m + 6] = z
  BY <1>2, <1>8, <1>13 DEF TwoParts
<1>22. ASSUME NEW p \in 1 .. n + m + 6
       PROVE  p \in 5 .. n + 4 \/ p \in n + 6 .. n + m + 5 \/ Other(all[p])
  <2>1. \/ p \in 5 .. n + 4 \/ p \in n + 6 .. n + m + 5
        \/ p \in {1, 2, 3, 4} \/ p = n + 5 \/ p = n + m + 6
    BY <1>2
  <2> QED
    BY <2>1, <1>3, <1>19, <1>20, <1>21
<1> QED
  BY <1>1, <1>2, <1>14, <1>17, <1>18, <1>22, Zenon DEF m, E, D, Other, all, ae, ad, bcd, bc

-----------------------------------------------------------------------------
(* Control, output and exit status.                                        *)

\* Nothing has been produced yet.
Untouched ==
    /\ trace = NoTrace /\ chunks = <<>>
    /\ printed = 0 /\ buffered = 0 /\ written = 0 /\ stream = "good"

\* What will be printed tells what the trace says; only an error told as text has no
\* chunks.
Contents ==
    /\ code # <<>> /\ GoodTrace(code, trace)
    /\ Len(chunks) \in Nat
    /\ Json => Len(chunks) > 0 /\ Consistent(chunks, code, trace)
    /\ ~Json /\ trace.outcome # "Error" =>
         Len(chunks) > 0 /\ Replays(chunks, Tracked, code, trace)
    /\ ~Json /\ trace.outcome = "Error" => Len(chunks) = 0

\* While the stream is good, nothing that was handed to it is lost.
Counted ==
    /\ printed \in Nat /\ buffered \in Nat /\ written \in Nat
    /\ stream \in {"good", "bad"}
    /\ stream = "good" => written + buffered = printed
    /\ stage = "json" => Json /\ printed < Len(chunks)
    /\ stage = "text" =>
         /\ ~Json /\ printed <= Len(chunks)
         /\ trace.outcome = "Error" => written = 0 /\ buffered = 0

QuickInv ==
    /\ args \in CommandLines /\ room \in Nat /\ diagnosed \in BOOLEAN
    /\ TextOK
    /\ code \in Seq(0 .. 255)
    /\ stage \in {"arguments", "tui", "input", "run", "blocked", "text", "json", "exited"}
    /\ stage \in {"arguments", "tui", "input"} => Untouched /\ code = <<>>
    /\ stage \in {"run", "blocked"} => Untouched /\ code # <<>>
    /\ stage \in {"text", "json"} => Contents /\ Counted
    /\ stage = "exited" =>
         ExitTruthful /\ (IF code = <<>> THEN chunks = <<>> ELSE Contents)

\* A history is laid out over the bytes for the events of the trace.
LaidOut(bytes, ran, shown) ==
    /\ GoodRows(Len(bytes), shown, Inside(Len(bytes), ran))
    /\ \A o \in 0 .. Len(bytes) - 1 : ShownIn(shown, o)
    /\ \A i \in 1 .. Len(shown) :
         shown[i].event # 0 =>
            /\ shown[i].offset = ran[shown[i].event].offset
            /\ shown[i].kind = IF ran[shown[i].event].kind = "Completed" THEN "Reached"
                              ELSE "Faulted"

\* The history run_quick builds for a decoder is laid out like that: it is the
\* layout of the trace, whose rows LayoutProofs describes.
LEMMA HistoryGood ==
    ASSUME QuickInv, code # <<>>, NEW t, GoodTrace(code, t), ~t.instrumentation,
           NEW backend \in Range(Backends)
    PROVE  LaidOut(code, t.events, history(t, backend))
<1> DEFINE total    == Len(code)
           lengths == [ o \in 0 .. total - 1 |-> Length[backend][code[o + 1]] ]
           shown   == history(t, backend)
<1>1. shown = Layout(total, t.events, lengths)
  BY DEF history
<1>2. total \in Nat \ {0}
  BY DEF QuickInv
<1>3. lengths \in [0 .. total - 1 -> Nat]
  <2>1. Length[backend] \in [0 .. 255 -> Nat]
    BY QuickAssumption
  <2>2. \A o \in 0 .. total - 1 : code[o + 1] \in 0 .. 255
    <3>1. code \in Seq(0 .. 255) /\ \A o \in 0 .. total - 1 : o + 1 \in 1 .. total
      BY <1>2 DEF QuickInv
    <3>2. \A i \in 1 .. total : code[i] \in 0 .. 255
      BY <3>1, SeqFacts, Zenon
    <3> QED
      BY <3>1, <3>2
  <2> QED
    BY <2>1, <2>2
<1>4. GoodEvents(total, t.events)
  BY DEF GoodTrace
<1> HIDE DEF total, lengths, shown
<1>5. /\ GoodRows(total, shown, Inside(total, t.events))
      /\ Placed(total, t.events, lengths, shown)
      /\ \A o \in 0 .. total - 1 : ShownIn(shown, o)
  BY <1>1, <1>2, <1>3, <1>4, LayoutGood
<1>6. \A i \in 1 .. Len(shown) :
         shown[i].event # 0 =>
            /\ shown[i].offset = t.events[shown[i].event].offset
            /\ shown[i].kind = IF t.events[shown[i].event].kind = "Completed" THEN "Reached"
                               ELSE "Faulted"
  <2> TAKE i \in 1 .. Len(shown)
  <2> HAVE shown[i].event # 0
  <2>1. shown[i] = RowOf(total, t.events, lengths, shown[i].event)
    BY <1>5 DEF Placed
  <2> DEFINE k == shown[i].event
             r == RowOf(total, t.events, lengths, k)
  <2> HIDE DEF k
  <2>2. /\ r.offset = t.events[k].offset
        /\ r.kind = IF t.events[k].kind = "Completed" THEN "Reached" ELSE "Faulted"
    BY DEF RowOf
  <2> QED
    BY <2>1, <2>2 DEF k
<1> QED
  BY <1>5, <1>6, Zenon DEF LaidOut, total, shown

\* The events with a row are those inside the bytes.
LEMMA InsideEvents ==
    ASSUME NEW total \in Nat, NEW ran, GoodEvents(total, ran), NEW k \in 1 .. Len(ran)
    PROVE  /\ Inside(total, ran) \in 0 .. Len(ran)
           /\ k \in 1 .. Inside(total, ran) <=> ran[k].offset \in 0 .. total - 1
  BY DEF GoodEvents, Inside

\* An event has one row, with its offset and kind, if it is inside the bytes.
Tabled(total, event, k, shown) ==
    LET At == { i \in 1 .. Len(shown) : shown[i].event = k }
    IN  /\ event.offset \notin 0 .. total - 1 => At = {}
        /\ event.offset \in 0 .. total - 1 =>
             \E i \in At :
                /\ At = {i} /\ shown[i].offset = event.offset
                /\ shown[i].kind = IF event.kind = "Completed" THEN "Reached" ELSE "Faulted"

\* An event inside the input has one row, with its offset and classification;
\* an event outside it has none.
LEMMA TableAgrees ==
    ASSUME NEW bytes \in Seq(0 .. 255), NEW ran, GoodEvents(Len(bytes), ran),
           NEW shown, LaidOut(bytes, ran, shown), NEW k \in 1 .. Len(ran)
    PROVE  Tabled(Len(bytes), ran[k], k, shown)
<1> DEFINE n  == Inside(Len(bytes), ran)
           At == { i \in 1 .. Len(shown) : shown[i].event = k }
<1>1. n \in Nat /\ (k \in 1 .. n <=> ran[k].offset \in 0 .. Len(bytes) - 1) /\ k \in Nat \ {0}
  <2>1. Len(bytes) \in Nat /\ Len(ran) \in Nat
    BY DEF GoodEvents
  <2> QED
    BY <2>1, InsideEvents
<1> HIDE DEF n
<1>2. /\ Len(shown) \in Nat
      /\ \A i \in 1 .. Len(shown) : shown[i].event \in 0 .. n
      /\ \A i, j \in 1 .. Len(shown) :
            i < j /\ shown[i].event # 0 /\ shown[j].event # 0 => shown[i].event < shown[j].event
      /\ \A e \in 1 .. n : \E i \in 1 .. Len(shown) : shown[i].event = e
  BY DEF LaidOut, GoodRows, InOrder, n
<1>3. ASSUME k \notin 1 .. n PROVE At = {}
  BY <1>1, <1>2, <1>3
<1>4. ASSUME k \in 1 .. n
      PROVE  \E i \in At :
                /\ At = {i} /\ shown[i].offset = ran[k].offset
                /\ shown[i].kind = IF ran[k].kind = "Completed" THEN "Reached" ELSE "Faulted"
  <2>1. PICK i \in 1 .. Len(shown) : shown[i].event = k
    BY <1>2, <1>4
  <2>2. ASSUME NEW j \in At PROVE j = i
    <3>1. j \in 1 .. Len(shown) /\ shown[j].event = k
      OBVIOUS
    <3>2. k # 0 /\ ~(k < k)
      BY <1>1
    <3>3. ~(i < j) /\ ~(j < i)
      BY <1>2, <2>1, <3>1, <3>2, Zenon
    <3> QED
      BY <1>2, <3>1, <3>3
  <2>3. At = {i}
    BY <2>1, <2>2
  <2>4. /\ shown[i].offset = ran[k].offset
        /\ shown[i].kind = IF ran[k].kind = "Completed" THEN "Reached" ELSE "Faulted"
    BY <1>1, <2>1 DEF LaidOut
  <2> HIDE DEF At
  <2> QED
    BY <2>3, <2>4
<1> QED
  BY <1>1, <1>3, <1>4, Zenon DEF Tabled

\* What one line does to the registers of the reader.
ReadLine(l, state) ==
    IF l.label = "seed" THEN Apply(l.body, state)
    ELSE IF l.label = "row" /\ l.body.kind # "Faulted" THEN Apply(l.body.deltas, state)
    ELSE state

\* The reader goes from line to line.
LEMMA ReplayedLines ==
    ASSUME NEW lines, Len(lines) \in Nat
    PROVE  LET state == Replayed(lines)
           IN  /\ state[0] = DefaultRegisters
               /\ \A p \in 1 .. Len(lines) : state[p] = ReadLine(lines[p], state[p - 1])
<1> DEFINE Body(f, p) == IF p = 0 THEN DefaultRegisters ELSE ReadLine(lines[p], f[p - 1])
           S == { n \in Nat : \E f : f = [ p \in 0 .. n |-> Body(f, p) ] }
           State == CHOOSE f : f = [ p \in 0 .. Len(lines) |-> Body(f, p) ]
<1>1. 0 \in S
  <2> DEFINE f == [ k \in 0 .. 0 |-> DefaultRegisters ]
  <2>1. f = [ k \in 0 .. 0 |-> Body(f, k) ]
    OBVIOUS
  <2>2. \E h : h = [ k \in 0 .. 0 |-> Body(h, k) ]
    <3> HIDE DEF Body, f
    <3> QED
      BY <2>1
  <2> QED
    BY <2>2, Zenon
<1>2. ASSUME NEW n \in 1 .. Len(lines), n - 1 \in S PROVE n \in S
  <2>1. PICK f : f = [ k \in 0 .. n - 1 |-> Body(f, k) ]
    BY <1>2
  <2> DEFINE g == [ k \in 0 .. n |-> IF k < n THEN f[k] ELSE Body(f, k) ]
  <2>2. ASSUME NEW k \in 0 .. n PROVE g[k] = Body(g, k)
    <3>1. g[k] = Body(f, k)
      <4>1. CASE k < n
        <5>1. k \in 0 .. n - 1
          BY <4>1
        <5>2. f[k] = Body(f, k)
          BY <2>1, <5>1
        <5> QED
          BY <4>1, <5>2
      <4>2. CASE ~(k < n)
        BY <4>2
      <4> QED
        BY <4>1, <4>2
    <3>2. k # 0 => k - 1 \in 0 .. n /\ k - 1 < n /\ g[k - 1] = f[k - 1]
      OBVIOUS
    <3> HIDE DEF g
    <3> QED
      BY <3>1, <3>2
  <2>3. g = [ k \in 0 .. n |-> g[k] ]
    OBVIOUS
  <2> HIDE DEF g
  <2>4. g = [ k \in 0 .. n |-> Body(g, k) ]
    BY <2>2, <2>3
  <2>5. \E h : h = [ k \in 0 .. n |-> Body(h, k) ]
    <3> HIDE DEF Body
    <3> QED
      BY <2>4
  <2>6. n \in Nat
    OBVIOUS
  <2> QED
    BY <2>5, <2>6, Zenon
<1>3. Len(lines) \in S
  <2> HIDE DEF S
  <2>1. 0 .. Len(lines) \subseteq S
    BY <1>1, <1>2, UpTo, Zenon
  <2> QED
    BY <2>1
<1>4. State = [ k \in 0 .. Len(lines) |-> Body(State, k) ]
  BY <1>3
<1>5. Replayed(lines) = State
  BY DEF Replayed, ReadLine
<1> HIDE DEF State
<1>6. ASSUME NEW k \in 0 .. Len(lines) PROVE State[k] = Body(State, k)
  BY <1>4, Zenon
<1>7. 0 \in 0 .. Len(lines) /\ \A k \in 1 .. Len(lines) : k \in 0 .. Len(lines) /\ k # 0
  OBVIOUS
<1>8. State[0] = DefaultRegisters
  BY <1>6, <1>7
<1>9. \A k \in 1 .. Len(lines) : State[k] = ReadLine(lines[k], State[k - 1])
  BY <1>6, <1>7
<1> QED
  BY <1>5, <1>8, <1>9, Zenon

\* Two states that agree in the registers a reader follows.
SameIn(state, registers) == \A c \in Tracked : state[c] = registers[c]

\* A reader who has the "before" of printed deltas has their "after" when he
\* applies them.
LEMMA DeltasApply ==
    ASSUME NEW before, DOMAIN before = DOMAIN RegisterClass, NEW after,
           NEW state, DOMAIN state = DOMAIN RegisterClass, SameIn(state, before)
    PROVE  LET deltas == print_deltas(before, after)
           IN  /\ Agrees(deltas, state)
               /\ DOMAIN Apply(deltas, state) = DOMAIN RegisterClass
               /\ SameIn(Apply(deltas, state), after)
<1> DEFINE deltas == print_deltas(before, after)
           moved  == { c \in Tracked : before[c] # after[c] }
<1>1. deltas = { <<c, before[c], after[c]>> : c \in moved }
  BY DEF print_deltas
<1>2. \A d \in deltas : d[1] \in moved /\ d[2] = before[d[1]] /\ d[3] = after[d[1]]
  BY <1>1
<1>3. \A c \in moved : \E d \in deltas : d[1] = c
  <2> TAKE c \in moved
  <2>1. <<c, before[c], after[c]>> \in deltas /\ <<c, before[c], after[c]>>[1] = c
    BY <1>1
  <2> QED
    BY <2>1, Zenon
<1> HIDE DEF deltas
<1>4. Agrees(deltas, state)
  BY <1>2 DEF Agrees, SameIn
<1>5. ASSUME NEW c \in Tracked PROVE Apply(deltas, state)[c] = after[c]
  <2>1. c \in DOMAIN state /\ state[c] = before[c]
    BY DEF Tracked, SameIn
  <2>2. Apply(deltas, state)[c] = IF \E d \in deltas : d[1] = c
                                  THEN (CHOOSE d \in deltas : d[1] = c)[3] ELSE state[c]
    BY <2>1 DEF Apply
  <2>3. CASE c \in moved
    <3> DEFINE e == CHOOSE d \in deltas : d[1] = c
    <3>1. e \in deltas /\ e[1] = c
      BY <1>3, <2>3
    <3> HIDE DEF e
    <3>2. e[3] = after[c]
      BY <1>2, <3>1
    <3> QED
      BY <1>3, <2>2, <2>3, <3>2 DEF e
  <2>4. CASE c \notin moved
    BY <1>2, <2>1, <2>2, <2>4
  <2> QED
    BY <2>3, <2>4
<1>6. DOMAIN Apply(deltas, state) = DOMAIN RegisterClass
  BY DEF Apply
<1> QED
  BY <1>4, <1>5, <1>6 DEF SameIn, deltas

\* The registers the line of row i + 1 is compared with: those after the last
\* completed row up to row i.
Base(t, shown, i) ==
    LET above == { j \in 1 .. i : shown[j].kind = "Reached" }
    IN  IF above = {} THEN t.seed ELSE t.events[shown[Max(above)].event].registers

\* A completed row moves it, another row does not.
LEMMA BaseMoves ==
    ASSUME NEW t, NEW shown, NEW i \in Nat \ {0}
    PROVE  Base(t, shown, i) = IF shown[i].kind = "Reached"
                               THEN t.events[shown[i].event].registers
                               ELSE Base(t, shown, i - 1)
<1> DEFINE Above(k) == { j \in 1 .. k : shown[j].kind = "Reached" }
<1>1. CASE shown[i].kind = "Reached"
  <2>1. i \in Above(i) /\ \A y \in Above(i) : i >= y /\ y \in Int
    BY <1>1
  <2> HIDE DEF Above
  <2>2. \E x \in Above(i) : \A y \in Above(i) : x >= y
    BY <2>1
  <2> DEFINE x == Max(Above(i))
  <2>3. x \in Above(i) /\ \A y \in Above(i) : x >= y
    BY <2>2 DEF Max
  <2> HIDE DEF x
  <2>4. x = i
    BY <2>1, <2>3
  <2> QED
    BY <1>1, <2>1, <2>4 DEF Base, x, Above
<1>2. CASE shown[i].kind # "Reached"
  <2>1. Above(i) = Above(i - 1)
    BY <1>2
  <2> QED
    BY <1>2, <2>1, Zenon DEF Base
<1> QED
  BY <1>1, <1>2

\* What a line l says of a row r: static data, or the row's event with its changes d.
Says(l, r, d) ==
    /\ r.event = 0 => l.label = "static"
    /\ r.event # 0 => /\ l.label = "row"
                      /\ l.body.event = r.event /\ l.body.kind = r.kind
                      /\ l.body.deltas = d

\* The line of a row says that row, with the changes since the last completed row above it.
LEMMA LineOf ==
    ASSUME NEW t, NEW shown, NEW i
    PROVE  Says(line(t, shown, i), shown[i],
                print_deltas(Base(t, shown, i - 1), t.events[shown[i].event].registers))
<1> DEFINE base == Base(t, shown, i - 1)
           d == print_deltas(base, t.events[shown[i].event].registers)
<1>1. line(t, shown, i) =
         IF shown[i].event = 0 THEN Chunk("static", shown[i])
         ELSE Chunk("row", [ event |-> shown[i].event, kind |-> shown[i].kind, deltas |-> d ])
  BY Zenon DEF line, Base
<1> HIDE DEF d
<1>2. CASE shown[i].event = 0
  BY <1>1, <1>2 DEF Chunk, Says, d
<1>3. CASE shown[i].event # 0
  <2>1. line(t, shown, i) =
           Chunk("row", [ event |-> shown[i].event, kind |-> shown[i].kind, deltas |-> d ])
    BY <1>1, <1>3
  <2> QED
    BY <1>3, <2>1 DEF Chunk, Says, d
<1> QED
  BY <1>2, <1>3

\* The decoder that prints the text is one of those compiled in.
LEMMA BackendCompiled == ASSUME QuickInv PROVE args.backend \in Range(Backends)
  BY QuickAssumption DEF QuickInv, CommandLine

\* The lines of a run that is no error replay its trace.  By induction over the
\* rows, a reader's state after row i agrees, on the tracked registers, with the
\* registers run_quick itself compares the next row with.
LEMMA TextFaithful ==
    ASSUME QuickInv, code # <<>>, NEW t, GoodTrace(code, t), t.outcome # "Error"
    PROVE  /\ Len(TextLines(t)) \in Nat /\ Len(TextLines(t)) > 0
           /\ Replays(TextLines(t), Tracked, code, t)
<1> DEFINE lines == TextLines(t)
           shown == history(t, args.backend)
           n     == Len(shown)
           len   == Len(t.events)
           in    == Inside(Len(code), t.events)
           S     == Replayed(lines)
           Rows  == Labelled(lines, "row")
           Dm    == DOMAIN RegisterClass
           B(i)  == Base(t, shown, i)
           R(k)  == t.events[k].registers
<1>1. LaidOut(code, t.events, shown)
  <2>1. ~t.instrumentation
    BY DEF GoodTrace
  <2> QED
    BY <2>1, BackendCompiled, HistoryGood
<1>2. n \in Nat
  BY <1>1 DEF LaidOut, GoodRows
<1>3. /\ Len(lines) = n + 3
      /\ lines[1] = Chunk("cpu", <<>>)
      /\ lines[2] = Chunk("seed", print_deltas(DefaultRegisters, t.seed))
      /\ \A p \in 3 .. n + 2 : lines[p] = line(t, shown, p - 2)
      /\ lines[n + 3] = Chunk("message", t.outcome)
  BY <1>2, TextPlaces, Zenon
<1>4. \A r \in Registers : DOMAIN r = Dm
  BY QuickAssumption
<1>5. len \in Nat /\ t.seed \in Registers /\ DefaultRegisters \in Registers
      /\ \A k \in 1 .. len : R(k) \in Registers
  <2>1. t.events \in Seq(TracedEvent) /\ t.seed \in Registers
    BY DEF GoodTrace
  <2>2. len \in Nat /\ \A k \in 1 .. len : t.events[k] \in TracedEvent
    BY <2>1, SeqFacts, Zenon
  <2>3. \A e \in TracedEvent : e.registers \in Registers
    BY DEF TracedEvent
  <2> QED
    BY <2>1, <2>2, <2>3, QuickAssumption, Zenon
<1>6. /\ in \in 0 .. len
      /\ \A k \in 1 .. len : k \in 1 .. in <=> InBytes(code, t.events[k])
  <2>1. Len(code) \in Nat /\ GoodEvents(Len(code), t.events)
    BY DEF QuickInv, GoodTrace
  <2>2. in \in 0 .. len
    BY <2>1 DEF Inside, GoodEvents
  <2> QED
    BY <2>1, <2>2, InsideEvents, Zenon DEF InBytes
<1>7. /\ \A i \in 1 .. n : shown[i].event \in 0 .. in
      /\ \A i \in 1 .. n : shown[i].event = 0 => shown[i].kind # "Reached"
      /\ \A i \in 1 .. n : shown[i].event # 0 => shown[i].kind \in {"Reached", "Faulted"}
      /\ \A i, j \in 1 .. n :
            i < j /\ shown[i].event # 0 /\ shown[j].event # 0 => shown[i].event < shown[j].event
      /\ \A e \in 1 .. in : \E i \in 1 .. n : shown[i].event = e
  BY <1>1 DEF LaidOut, GoodRows, InOrder, Ran
<1> HIDE DEF lines, shown, n, len, in, R
<1>8. /\ lines[1].label = "cpu" /\ lines[n + 3].label = "message"
      /\ lines[2].label = "seed" /\ lines[2].body = print_deltas(DefaultRegisters, t.seed)
  BY <1>3 DEF Chunk
<1>9. ASSUME NEW i \in 1 .. n
      PROVE  /\ i + 2 \in 3 .. n + 2 /\ i \in Nat \ {0} /\ lines[i + 2] = line(t, shown, i)
             /\ shown[i].event = 0 => lines[i + 2].label = "static"
             /\ shown[i].event # 0 =>
                  /\ lines[i + 2].label = "row"
                  /\ lines[i + 2].body.event = shown[i].event
                  /\ lines[i + 2].body.kind = shown[i].kind
                  /\ lines[i + 2].body.deltas = print_deltas(B(i - 1), R(shown[i].event))
  <2>1. i + 2 \in 3 .. n + 2 /\ i + 2 - 2 = i /\ i \in Nat \ {0}
    BY <1>2
  <2>2. lines[i + 2] = line(t, shown, i)
    BY <1>3, <2>1
  <2>3. Says(lines[i + 2], shown[i], print_deltas(B(i - 1), R(shown[i].event)))
    BY <2>2, LineOf, Zenon DEF R
  <2> QED
    BY <2>1, <2>2, <2>3, Zenon DEF Says
<1>10. S[0] = DefaultRegisters /\ \A p \in 1 .. n + 3 : S[p] = ReadLine(lines[p], S[p - 1])
  BY <1>2, <1>3, ReplayedLines
<1> HIDE DEF S
<1> DEFINE Knows(i) == /\ DOMAIN S[i + 2] = Dm /\ SameIn(S[i + 2], B(i))
                       /\ DOMAIN B(i) = Dm
           K == { i \in Nat : Knows(i) }
<1>11. 0 \in K
  <2>1. S[1] = DefaultRegisters
    BY <1>2, <1>8, <1>10 DEF ReadLine
  <2>2. S[2] = Apply(print_deltas(DefaultRegisters, t.seed), DefaultRegisters)
    BY <1>2, <1>8, <1>10, <2>1 DEF ReadLine
  <2>3. DOMAIN S[2] = Dm /\ SameIn(S[2], t.seed)
    BY <1>4, <1>5, <2>2, DeltasApply DEF SameIn
  <2>4. B(0) = t.seed
    BY DEF Base
  <2> QED
    BY <1>4, <1>5, <2>3, <2>4
<1>12. ASSUME NEW i \in 1 .. n, Knows(i - 1), shown[i].event # 0
       PROVE  /\ shown[i].event \in 1 .. len /\ R(shown[i].event) \in Registers
              /\ Agrees(lines[i + 2].body.deltas, S[i + 1])
              /\ SameIn(Apply(lines[i + 2].body.deltas, S[i + 1]), R(shown[i].event))
              /\ DOMAIN Apply(lines[i + 2].body.deltas, S[i + 1]) = Dm
  <2>1. shown[i].event \in 1 .. len /\ R(shown[i].event) \in Registers
    BY <1>5, <1>6, <1>7, <1>12
  <2>2. /\ DOMAIN S[i + 1] = Dm /\ SameIn(S[i + 1], B(i - 1)) /\ DOMAIN B(i - 1) = Dm
    <3>1. i - 1 + 2 = i + 1
      BY <1>2
    <3> QED
      BY <1>12, <3>1
  <2>3. lines[i + 2].body.deltas = print_deltas(B(i - 1), R(shown[i].event))
    BY <1>9, <1>12
  <2> DEFINE d == print_deltas(B(i - 1), R(shown[i].event))
  <2>4. /\ Agrees(d, S[i + 1]) /\ DOMAIN Apply(d, S[i + 1]) = Dm
        /\ SameIn(Apply(d, S[i + 1]), R(shown[i].event))
    BY <2>2, DeltasApply, Zenon
  <2> HIDE DEF d
  <2> QED
    BY <2>1, <2>3, <2>4 DEF d
<1>13. ASSUME NEW i \in 1 .. n, i - 1 \in K PROVE i \in K
  <2>1. Knows(i - 1)
    BY <1>13
  <2>2. B(i) = IF shown[i].kind = "Reached" THEN R(shown[i].event) ELSE B(i - 1)
    <3>1. i \in Nat \ {0}
      BY <1>2
    <3> QED
      BY <3>1, BaseMoves, Zenon DEF R
  <2>3. S[i + 2] = ReadLine(lines[i + 2], S[i + 1])
    <3>1. i + 2 \in 1 .. n + 3 /\ i + 2 - 1 = i + 1
      BY <1>2
    <3> QED
      BY <1>10, <3>1
  <2>4. DOMAIN S[i + 1] = Dm /\ SameIn(S[i + 1], B(i - 1)) /\ DOMAIN B(i - 1) = Dm
    <3>1. i - 1 + 2 = i + 1
      BY <1>2
    <3> QED
      BY <2>1, <3>1
  <2>5. CASE shown[i].kind = "Reached"
    <3>1. shown[i].event # 0 /\ lines[i + 2].label = "row" /\ lines[i + 2].body.kind = "Reached"
      BY <1>7, <1>9, <2>5
    <3>2. S[i + 2] = Apply(lines[i + 2].body.deltas, S[i + 1])
      BY <2>3, <3>1 DEF ReadLine
    <3>3. DOMAIN S[i + 2] = Dm /\ SameIn(S[i + 2], R(shown[i].event))
          /\ R(shown[i].event) \in Registers
      BY <1>12, <2>1, <3>1, <3>2
    <3> QED
      BY <1>4, <1>9, <2>2, <2>5, <3>3
  <2>6. CASE shown[i].kind # "Reached"
    <3>1. S[i + 2] = S[i + 1]
      BY <1>7, <1>9, <2>3, <2>6 DEF ReadLine
    <3> QED
      BY <1>9, <2>2, <2>4, <2>6, <3>1
  <2> QED
    BY <2>5, <2>6
<1>14. \A i \in 0 .. n : Knows(i)
  <2>1. 0 .. n \subseteq K
    <3> HIDE DEF K
    <3> QED
      BY <1>2, <1>11, <1>13, UpTo, Zenon
  <2> HIDE DEF Knows
  <2> QED
    BY <2>1
<1> HIDE DEF Knows
<1>15. \A p \in Rows : p - 2 \in 1 .. n /\ shown[p - 2].event # 0 /\ p - 2 + 2 = p /\ p \in Int
  <2> TAKE p \in Rows
  <2>1. p \in 1 .. n + 3 /\ lines[p].label = "row" /\ p \in Int
    BY <1>3 DEF Labelled
  <2>2. p # 1 /\ p # 2 /\ p # n + 3
    BY <1>8, <2>1
  <2>3. p - 2 \in 1 .. n /\ p - 2 + 2 = p
    BY <1>2, <2>1, <2>2
  <2>4. shown[p - 2].event # 0
    BY <1>9, <2>1, <2>3
  <2> QED
    BY <2>1, <2>3, <2>4
<1>16. \A i \in 1 .. n : shown[i].event # 0 => i + 2 \in Rows
  BY <1>2, <1>3, <1>9 DEF Labelled
<1> HIDE DEF Rows
<1>17. \A p \in Rows : lines[p].body.event = shown[p - 2].event
  BY <1>9, <1>15
<1>18. \E p \in Labelled(lines, "seed") : SameIn(S[p], t.seed) /\ \A q \in Rows : p < q
  <2>1. 2 \in Labelled(lines, "seed")
    BY <1>2, <1>3, <1>8 DEF Labelled
  <2>2. \A q \in Rows : 2 < q
    BY <1>15
  <2>3. SameIn(S[2], t.seed)
    <3>1. Knows(0) /\ B(0) = t.seed
      BY <1>2, <1>14 DEF Base
    <3> QED
      BY <3>1 DEF Knows
  <2> QED
    BY <2>1, <2>2, <2>3
<1>seed. \A p \in Labelled(lines, "seed") : Agrees(lines[p].body, S[p - 1])
  <2> TAKE p \in Labelled(lines, "seed")
  <2>1. p \in 1 .. n + 3 /\ lines[p].label = "seed"
    BY <1>3 DEF Labelled
  <2>2. p # 1 /\ p # n + 3 /\ p - 2 \notin 1 .. n
    <3>1. p - 2 + 2 = p
      BY <1>2, <2>1
    <3> QED
      BY <1>8, <1>9, <2>1, <3>1
  <2>3. p = 2
    BY <1>2, <2>1, <2>2
  <2>4. S[1] = DefaultRegisters /\ DOMAIN DefaultRegisters = Dm
    BY <1>2, <1>4, <1>5, <1>8, <1>10 DEF ReadLine
  <2>5. Agrees(print_deltas(DefaultRegisters, t.seed), S[1])
    BY <2>4, DeltasApply DEF SameIn
  <2> QED
    BY <1>8, <2>3, <2>5
<1>19. ASSUME NEW p \in Rows
       PROVE  /\ lines[p].body.event \in 1 .. len
              /\ InBytes(code, t.events[lines[p].body.event])
              /\ Agrees(lines[p].body.deltas, S[p - 1])
              /\ SameIn(Apply(lines[p].body.deltas, S[p - 1]), R(lines[p].body.event))
  <2> DEFINE i == p - 2
  <2>1. i \in 1 .. n /\ shown[i].event # 0 /\ i + 2 = p /\ i + 1 = p - 1 /\ i - 1 \in 0 .. n
        /\ lines[p].body.event = shown[i].event
    BY <1>2, <1>15, <1>17
  <2> HIDE DEF i
  <2>2. Knows(i - 1)
    BY <1>14, <2>1
  <2>3. /\ shown[i].event \in 1 .. len
        /\ Agrees(lines[p].body.deltas, S[p - 1])
        /\ SameIn(Apply(lines[p].body.deltas, S[p - 1]), R(shown[i].event))
    BY <1>12, <2>1, <2>2
  <2>4. shown[i].event \in 1 .. in
    BY <1>6, <1>7, <2>1, <2>3
  <2>5. InBytes(code, t.events[shown[i].event])
    BY <1>6, <2>3, <2>4
  <2> QED
    BY <2>1, <2>3, <2>5
<1>20. \A p, q \in Rows : p < q => lines[p].body.event < lines[q].body.event
  <2> TAKE p, q \in Rows
  <2> HAVE p < q
  <2>1. /\ p - 2 \in 1 .. n /\ q - 2 \in 1 .. n /\ p - 2 < q - 2
        /\ shown[p - 2].event # 0 /\ shown[q - 2].event # 0
    BY <1>15
  <2> QED
    BY <1>7, <1>17, <2>1
<1>21. ASSUME NEW k \in 1 .. len, InBytes(code, t.events[k])
       PROVE  \E p \in Rows : lines[p].body.event = k
  <2>1. k \in 1 .. in /\ k # 0
    BY <1>5, <1>6, <1>21
  <2>2. PICK i \in 1 .. n : shown[i].event = k
    BY <1>7, <2>1
  <2>3. i + 2 \in Rows /\ lines[i + 2].body.event = k
    BY <1>9, <1>16, <2>1, <2>2
  <2> QED
    BY <2>3
<1>22. Replays(lines, Tracked, code, t)
  BY <1>18, <1>seed, <1>19, <1>20, <1>21, Zenon DEF Replays, SameIn, S, Rows, len, R
<1>23. Len(lines) \in Nat /\ Len(lines) > 0
  BY <1>2, <1>3
<1> QED
  BY <1>22, <1>23 DEF lines, Tracked

\* Every decoder's part of the document agrees with its events.
LEMMA DecoderFaithful ==
    ASSUME QuickInv, code # <<>>, NEW t, GoodTrace(code, t), NEW backend \in Range(Backends),
           NEW document,
           \A p \in Labelled(document, "event") :
               \E k \in 1 .. Len(t.events) : document[p].body = ExecutionEventDocument(t, k)
    PROVE  LET decoder == DecoderDocument(t, backend)
           IN  /\ DecoderConsistent(decoder, document)
               /\ ~t.instrumentation =>
                    \A o \in 0 .. Len(code) - 1 :
                        \E i \in 1 .. Len(decoder.rows) : Shows(decoder.rows[i], code, o)
<1> DEFINE shown == history(t, backend)
           total  == Len(code)
           decoder == DecoderDocument(t, backend)
           table == decoder.rows
           Rows(k) == { i \in 1 .. Len(table) : table[i].execution_event = k }
<1>1. /\ backend_supports(decoder.backend, decoder.effective_syntax)
      /\ table = [ i \in 1 .. Len(shown) |-> HistoryRowDocument(shown[i]) ]
  BY DEF DecoderDocument, effective_syntax, backend_supports
<1>2. total \in Nat /\ code \in Seq(0 .. 255) /\ GoodEvents(total, t.events)
  BY DEF QuickInv, GoodTrace
<1>3. CASE t.instrumentation
  <2>1. t.events = <<>> /\ shown = <<>>
    BY <1>3 DEF GoodTrace, history
  <2>2. Labelled(document, "event") = {}
    BY <2>1
  <2>3. \A i, j \in 1 .. Len(table) : FALSE
    BY <1>1, <2>1
  <2> HIDE DEF decoder
  <2>4. DecoderConsistent(decoder, document)
    BY <1>1, <2>2, <2>3, Zenon DEF DecoderConsistent
  <2> QED
    BY <1>3, <2>4 DEF decoder
<1>4. CASE ~t.instrumentation
  <2>1. LaidOut(code, t.events, shown)
    BY <1>4, HistoryGood
  <2> HIDE DEF decoder, shown
  <2>2. shown \in Seq(AnyRow(total)) /\ Len(shown) \in Nat
    BY <2>1 DEF LaidOut, GoodRows
  <2>3. Len(table) = Len(shown)
    BY <1>1, <2>2
  <2>4. \A i \in 1 .. Len(shown) :
           /\ table[i].execution_event = shown[i].event
           /\ table[i].offset = shown[i].offset
           /\ table[i].classification = shown[i].kind
           /\ table[i].bytes = SubSeq(code, shown[i].offset + 1, shown[i].offset + shown[i].length)
    BY <1>1 DEF HistoryRowDocument
  <2> HIDE DEF table
  <2>5. ASSUME NEW p \in Labelled(document, "event")
        PROVE  LET event == document[p].body
               IN  IF event.offset = <<>> THEN Rows(event.index) = {}
                   ELSE \E i \in Rows(event.index) :
                          /\ Rows(event.index) = {i} /\ event.offset = <<table[i].offset>>
                          /\ table[i].classification =
                               IF event.classification = "Completed" THEN "Reached"
                               ELSE "Faulted"
    <3>1. PICK k \in 1 .. Len(t.events) : document[p].body = ExecutionEventDocument(t, k)
      OBVIOUS
    <3> DEFINE event == document[p].body
               inside == t.events[k].offset \in 0 .. total - 1
               At == { i \in 1 .. Len(shown) : shown[i].event = k }
               Kind == IF t.events[k].kind = "Completed" THEN "Reached" ELSE "Faulted"
    <3>2. /\ event.index = k /\ event.classification = t.events[k].kind
          /\ event.offset = IF inside THEN <<t.events[k].offset>> ELSE <<>>
      BY <3>1 DEF ExecutionEventDocument, relative_offset
    <3>3. Rows(k) = At
      BY <2>3, <2>4
    <3>4. /\ ~inside => At = {}
          /\ inside => \E i \in At : /\ At = {i} /\ shown[i].offset = t.events[k].offset
                                     /\ shown[i].kind = Kind
      <4>1. Tabled(total, t.events[k], k, shown)
        BY <1>2, <2>1, TableAgrees, Zenon
      <4> QED
        BY <4>1, Zenon DEF Tabled
    <3>5. <<t.events[k].offset>> # <<>>
      OBVIOUS
    <3>6. \A i \in At : i \in 1 .. Len(shown)
      OBVIOUS
    <3> HIDE DEF event, Rows, At, inside
    <3>7. CASE ~inside
      BY <3>2, <3>3, <3>4, <3>7 DEF event
    <3>8. CASE inside
      <4>1. PICK i \in At : /\ At = {i} /\ shown[i].offset = t.events[k].offset
                            /\ shown[i].kind = Kind
        BY <3>4, <3>8
      <4>2. table[i].offset = t.events[k].offset /\ table[i].classification = Kind
        BY <2>4, <3>6, <4>1
      <4>3. event.offset = <<table[i].offset>> /\ event.offset # <<>> /\ event.index = k
        BY <3>2, <3>5, <3>8, <4>2
      <4>4. i \in Rows(k) /\ Rows(k) = {i}
        BY <3>3, <4>1
      <4>5. Kind = IF event.classification = "Completed" THEN "Reached" ELSE "Faulted"
        BY <3>2
      <4> QED
        BY <4>2, <4>3, <4>4, <4>5, Zenon DEF event
    <3> QED
      BY <3>7, <3>8
  <2>6. ASSUME NEW i \in 1 .. Len(table), NEW j \in 1 .. Len(table),
               i < j, i \notin Rows(0), j \notin Rows(0)
        PROVE  table[i].execution_event < table[j].execution_event
    BY <2>1, <2>3, <2>4, <2>6 DEF LaidOut, GoodRows, InOrder
  <2>7. ASSUME NEW o \in 0 .. total - 1
        PROVE  \E i \in 1 .. Len(table) : Shows(table[i], code, o)
    <3>1. PICK i \in 1 .. Len(shown) :
             o \in shown[i].offset .. shown[i].offset + shown[i].length - 1
      BY <2>1 DEF LaidOut, ShownIn
    <3>2. shown[i] \in AnyRow(total)
      BY <2>2
    <3> DEFINE a == shown[i].offset
               l == shown[i].length
               part == SubSeq(code, a + 1, a + l)
    <3>3. a \in Nat /\ l \in Nat /\ l > 0 /\ a + l <= total
      BY <3>2 DEF AnyRow
    <3>4. o \in a .. a + l - 1
      BY <3>1
    <3>5. table[i].bytes = part /\ table[i].offset = a
      BY <2>4
    <3> HIDE DEF a, l
    <3>6. Len(part) = l /\ \A x \in 1 .. l : part[x] = code[x + a]
      BY <1>2, <3>3
    <3>7. o - a + 1 \in 1 .. l /\ o - a + 1 + a = o + 1
      BY <3>3, <3>4
    <3> HIDE DEF part
    <3>8. part[o - a + 1] = code[o + 1]
      BY <3>6, <3>7
    <3>9. Shows(table[i], code, o)
      BY <3>4, <3>5, <3>6, <3>8 DEF Shows
    <3> QED
      BY <2>3, <3>9
  <2> QED
    BY <1>1, <2>5, <2>6, <2>7, Zenon DEF DecoderConsistent, table, total, decoder
<1> QED
  BY <1>3, <1>4

\* The sections of the document agree with each other, whatever the trace.
LEMMA DocumentFaithful ==
    ASSUME QuickInv, code # <<>>, NEW t, GoodTrace(code, t)
    PROVE  /\ Len(Sections(t)) \in Nat /\ Len(Sections(t)) > 0
           /\ Consistent(Sections(t), code, t)
<1> DEFINE all == Sections(t)
           n   == Len(t.events)
           m   == Len(Backends)
           E   == Labelled(all, "event")
           D   == Labelled(all, "decoder")
<1>1. n \in Nat
  BY DEF GoodTrace, GoodEvents
<1>2. /\ m \in Nat /\ Len(all) = n + m + 6
      /\ \A p \in 5 .. n + 4 :
            all[p] = Chunk("event", ExecutionEventDocument(t, p - 4))
      /\ \A p \in n + 6 .. n + m + 5 :
            all[p] = Chunk("decoder", DecoderDocument(t, Backends[p - n - 5]))
      /\ \A p \in 1 .. n + m + 6 :
            \/ p \in 5 .. n + 4 \/ p \in n + 6 .. n + m + 5
            \/ all[p].label \notin {"event", "decoder"}
  BY <1>1, SectionPlaces, Zenon
<1> HIDE DEF all, n, m
<1>3. /\ \A p \in 5 .. n + 4 : all[p].label = "event"
                               /\ all[p].body = ExecutionEventDocument(t, p - 4)
      /\ \A p \in n + 6 .. n + m + 5 :
            /\ all[p].label = "decoder"
            /\ all[p].body = DecoderDocument(t, Backends[p - n - 5])
  <2>1. ASSUME NEW p \in 5 .. n + 4
        PROVE  all[p].label = "event" /\ all[p].body = ExecutionEventDocument(t, p - 4)
    <3> DEFINE b == ExecutionEventDocument(t, p - 4)
    <3>1. all[p] = Chunk("event", b)
      BY <1>2, Zenon
    <3> HIDE DEF b
    <3>2. all[p].label = "event" /\ all[p].body = b
      BY <3>1 DEF Chunk
    <3> QED
      BY <3>2 DEF b
  <2>2. ASSUME NEW p \in n + 6 .. n + m + 5
        PROVE  /\ all[p].label = "decoder"
               /\ all[p].body = DecoderDocument(t, Backends[p - n - 5])
    <3> DEFINE b == DecoderDocument(t, Backends[p - n - 5])
    <3>1. all[p] = Chunk("decoder", b)
      BY <1>2, Zenon
    <3> HIDE DEF b
    <3>2. all[p].label = "decoder" /\ all[p].body = b
      BY <3>1 DEF Chunk
    <3> QED
      BY <3>2 DEF b
  <2> QED
    BY <2>1, <2>2, Zenon
<1>4. E = 5 .. n + 4
  BY <1>1, <1>2, <1>3 DEF Labelled
<1>5. D = n + 6 .. n + m + 5
  BY <1>1, <1>2, <1>3 DEF Labelled
<1>6. ASSUME NEW p \in E
      PROVE  all[p].body.index = Cardinality({ q \in E : q <= p })
  <2>1. { q \in E : q <= p } = 5 .. p /\ p \in Int /\ p >= 5
    BY <1>1, <1>4
  <2>2. Cardinality(5 .. p) = p - 4
    BY <2>1, FS_Interval
  <2>3. all[p].body.index = p - 4
    <3>1. \A k : ExecutionEventDocument(t, k).index = k
      BY DEF ExecutionEventDocument
    <3> QED
      BY <1>3, <1>4, <3>1, Zenon
  <2> QED
    BY <2>1, <2>2, <2>3
<1>7. Cardinality(D) = m
  <2> DEFINE lo == n + 6
             hi == n + m + 5
  <2>1. lo \in Int /\ hi \in Int /\ (IF lo > hi THEN 0 ELSE hi - lo + 1) = m /\ D = lo .. hi
    BY <1>1, <1>2, <1>5
  <2> HIDE DEF lo, hi, D
  <2> QED
    BY <2>1, FS_Interval
<1>8. \A p \in E : \E k \in 1 .. Len(t.events) : all[p].body = ExecutionEventDocument(t, k)
  <2>1. \A p \in E : p - 4 \in 1 .. n /\ all[p].body = ExecutionEventDocument(t, p - 4)
    BY <1>1, <1>3, <1>4
  <2> QED
    BY <2>1, Zenon DEF n
<1>9. ASSUME NEW p \in D
      PROVE  LET table == all[p].body.rows
             IN  /\ DecoderConsistent(all[p].body, all)
                 /\ ~t.instrumentation =>
                      \A o \in 0 .. Len(code) - 1 :
                        \E i \in 1 .. Len(table) : Shows(table[i], code, o)
  <2> DEFINE b == Backends[p - n - 5]
  <2>1. b \in Range(Backends) /\ all[p].body = DecoderDocument(t, b)
    <3>1. p - n - 5 \in 1 .. m
      BY <1>1, <1>2, <1>5
    <3>2. p - n - 5 \in DOMAIN Backends
      BY <3>1, QuickAssumption DEF m
    <3> QED
      BY <1>3, <1>5, <3>2 DEF Range
  <2> HIDE DEF b
  <2> QED
    BY <2>1, <1>8, DecoderFaithful, Zenon
<1>10. Consistent(all, code, t)
  <2> HIDE DEF E, D
  <2> QED
    BY <1>6, <1>7, <1>9, Zenon DEF Consistent, E, D, m
<1> QED
  BY <1>1, <1>2, <1>10 DEF all

\* The invariant holds before the command line has been read.
LEMMA QuickStart == QuickInit => QuickInv
<1> SUFFICES ASSUME QuickInit PROVE QuickInv
  OBVIOUS
<1>1. args \in CommandLines /\ args \in CommandLine
  BY QuickAssumption DEF QuickInit
<1>2. room \in Nat
  BY <1>1 DEF QuickInit, CommandLine
<1>3. TextOK
  <2>1. <<>> \in Seq(Chars) /\ (args.bytes # <<>> => args.bytes[1] \in Seq(Chars))
    <3>1. args.bytes \in Seq(Seq(Chars))
      BY <1>1 DEF CommandLine
    <3> QED
      BY <3>1
  <2>2. text \in Seq(Chars) /\ position = 0 /\ parsed = <<>>
    BY <2>1 DEF QuickInit, TextInit
  <2> QED
    BY <2>2 DEF TextOK, Size
<1>4. code \in Seq(0 .. 255) /\ Untouched /\ stage = "arguments" /\ diagnosed = FALSE
  BY DEF QuickInit, Untouched
<1> QED
  BY <1>1, <1>2, <1>3, <1>4 DEF QuickInit, QuickInv

\* The process ends before there is anything to print.
LEMMA LeaveEarly ==
    ASSUME QuickInv, Untouched, code = <<>>, Leave(1, TRUE),
           UNCHANGED <<textvars, args, code, trace, chunks, printed, room, stream>>
    PROVE  QuickInv'
<1>1. /\ stage' = "exited" /\ exit_code' = 1 /\ diagnosed' = TRUE /\ code' = <<>>
      /\ trace' = NoTrace /\ chunks' = <<>>
  BY DEF Leave, Untouched
<1>2. written' = 0
  BY DEF Leave, Least, Untouched, QuickInv
<1>3. ExitTruthful'
  BY <1>1, <1>2 DEF ExitTruthful, Exited, NoTrace
<1>4. TextOK'
  BY DEF QuickInv, TextOK, textvars, Size
<1> QED
  BY <1>1, <1>3, <1>4 DEF QuickInv

\* The output stays what it is when it is only handed on.
LEMMA ContentsStay ==
    ASSUME Contents, UNCHANGED <<args, code, trace, chunks>>
    PROVE  Contents'
<1>1. Tracked' = Tracked /\ Json' = Json
  BY DEF track, Tracked, Json
<1> QED
  BY <1>1 DEF Contents

\* Every step of the parser, of run_quick and of the stream preserves it.
LEMMA QuickStep == QuickInv /\ [QuickNext]_quickvars => QuickInv'
<1> SUFFICES ASSUME QuickInv, [QuickNext]_quickvars PROVE QuickInv'
  OBVIOUS
<1>1. ASSUME UNCHANGED textvars PROVE TextOK'
  BY <1>1 DEF QuickInv, TextOK, textvars, Size
<1>2. ASSUME UNCHANGED args PROVE Json' = Json /\ Tracked' = Tracked
  BY <1>2 DEF Json, track, Tracked
<1>3. ASSUME UNCHANGED quickvars PROVE QuickInv'
  <2>1. UNCHANGED <<textvars, args, stage, code, trace, chunks, printed, buffered, written,
                    room, stream, diagnosed, exit_code>>
    BY <1>3 DEF quickvars
  <2>2. TextOK' /\ Json' = Json /\ (Contents => Contents')
    BY <2>1, <1>1, <1>2, ContentsStay
  <2>3. Untouched => Untouched'
    BY <2>1 DEF Untouched
  <2>4. Counted => Counted'
    BY <2>1, <2>2 DEF Counted
  <2>5. ExitTruthful => ExitTruthful'
    BY <2>1, <2>2 DEF ExitTruthful, Exited, Whole
  <2> QED
    BY <2>1, <2>2, <2>3, <2>4, <2>5 DEF QuickInv
<1>4. CASE ParseArguments
  <2>1. Untouched /\ code = <<>> /\ stage = "arguments"
    BY <1>4 DEF ParseArguments, QuickInv
  <2>2. UNCHANGED <<textvars, args, code, trace, chunks, printed, room, stream>>
    BY <1>4 DEF ParseArguments
  <2>3. CASE Leave(1, TRUE)
    BY <2>1, <2>2, <2>3, LeaveEarly
  <2>4. CASE stage' \in {"tui", "input"} /\ UNCHANGED <<exit_code, diagnosed, written, buffered>>
    <3>1. Untouched' /\ code' = <<>> /\ TextOK'
      BY <2>1, <2>2, <2>4, <1>1 DEF Untouched
    <3> QED
      BY <2>2, <2>4, <3>1 DEF QuickInv
  <2> QED
    BY <1>4, <2>3, <2>4 DEF ParseArguments
<1>5. CASE ParseInput
  <2>1. TextOK'
    BY <1>5, ParseStepType DEF ParseInput, QuickInv
  <2>2. Untouched' /\ code' = <<>> /\ stage' = "input"
    BY <1>5 DEF ParseInput, QuickInv, Untouched, output
  <2> QED
    BY <1>5, <2>1, <2>2 DEF ParseInput, QuickInv, output
<1>6. CASE HaveInput
  <2>1. Untouched /\ code = <<>> /\ stage = "input"
    BY <1>6 DEF HaveInput, QuickInv
  <2>2. PICK bytes \in Seq(0 .. 255) : Run(bytes)
    <3>1. parsed \in Seq(0 .. 255) /\ <<>> \in Seq(0 .. 255)
      BY DEF QuickInv, TextOK
    <3>2. args.file # <<>> => read_binary_input(args.file[1]) \in Seq(0 .. 255)
      <4> DEFINE Files == [ state : STRING, size : Nat, bytes : Seq(0 .. 255) ]
      <4>1. args.file \in Seq(Files) /\ \A f \in Files : f.bytes \in Seq(0 .. 255)
        BY QuickAssumption DEF QuickInv, CommandLine
      <4> HIDE DEF Files
      <4>2. args.file # <<>> => args.file[1].bytes \in Seq(0 .. 255)
        <5>1. args.file # <<>> => args.file[1] \in Files
          BY <4>1
        <5> QED
          BY <4>1, <5>1
      <4> QED
        BY <3>1, <4>2 DEF read_binary_input
    <3> QED
      BY <1>6, <3>1, <3>2 DEF HaveInput
  <2>3. UNCHANGED <<textvars, args, trace, chunks, printed, room, stream>>
    BY <2>2 DEF Run
  <2>4. CASE bytes = <<>>
    BY <2>1, <2>2, <2>3, <2>4, LeaveEarly DEF Run
  <2>5. CASE bytes # <<>>
    <3>1. /\ code' = bytes /\ stage' = "run" /\ TextOK'
          /\ UNCHANGED <<exit_code, diagnosed, written, buffered>>
      BY <2>2, <2>3, <2>5, <1>1 DEF Run
    <3>2. Untouched'
      BY <2>1, <2>3, <3>1 DEF Untouched
    <3> QED
      BY <2>3, <2>5, <3>1, <3>2 DEF QuickInv
  <2> QED
    BY <2>4, <2>5
<1>7. CASE RunEngine
  <2>1. Untouched /\ code # <<>> /\ stage = "run"
    BY <1>7 DEF RunEngine, QuickInv
  <2>2. PICK t \in Traces(code, max_steps) :
            /\ trace' = t
            /\ chunks' = IF Json THEN Sections(t)
                         ELSE IF t.outcome = "Error" THEN <<>> ELSE TextLines(t)
    BY <1>7 DEF RunEngine
  <2>3. /\ UNCHANGED <<textvars, args, code, printed, buffered, written, room, stream,
                         diagnosed, exit_code>>
        /\ stage' = IF Json THEN "json" ELSE "text"
    BY <1>7 DEF RunEngine, output
  <2>4. GoodTrace(code, t)
    <3>1. max_steps \in Int
      BY MaxStepsType DEF QuickInv
    <3> QED
      BY <3>1, TracesGood DEF QuickInv
  <2>5. Json' = Json /\ Tracked' = Tracked /\ TextOK'
    BY <2>3, <1>1, <1>2
  <2>6. Contents'
    <3>1. CASE Json
      <4>1. /\ Len(chunks') \in Nat /\ Len(chunks') > 0
            /\ Consistent(chunks', code', trace')
        BY <3>1, <2>1, <2>2, <2>3, <2>4, DocumentFaithful
      <4> QED
        BY <3>1, <4>1, <2>1, <2>2, <2>3, <2>4, <2>5 DEF Contents
    <3>2. CASE ~Json /\ t.outcome # "Error"
      <4>1. /\ Len(chunks') \in Nat /\ Len(chunks') > 0
            /\ Replays(chunks', Tracked, code', trace')
        BY <3>2, <2>1, <2>2, <2>3, <2>4, TextFaithful
      <4> QED
        BY <3>2, <4>1, <2>1, <2>2, <2>3, <2>4, <2>5 DEF Contents
    <3>3. CASE ~Json /\ t.outcome = "Error"
      BY <3>3, <2>1, <2>2, <2>3, <2>4, <2>5 DEF Contents
    <3> QED
      BY <3>1, <3>2, <3>3
  <2>7. Counted'
    BY <2>1, <2>3, <2>5, <2>6 DEF Counted, Untouched, Contents
  <2> QED
    BY <2>3, <2>5, <2>6, <2>7 DEF QuickInv
<1>8. ASSUME Contents, Counted, Put, printed < Len(chunks),
             stage = "json" => printed + 1 < Len(chunks),
             stage = "text" => trace.outcome # "Error", stage \in {"text", "json"},
             UNCHANGED <<textvars, args, stage, code, trace, chunks, diagnosed, exit_code>>
      PROVE  QuickInv'
  <2>1. Json' = Json /\ TextOK' /\ Contents' /\ room' = room
    BY <1>1, <1>2, <1>8, ContentsStay DEF Put
  <2>2. printed' = printed + 1 /\ printed \in Nat
    BY <1>8 DEF Put, Counted
  <2>3. /\ buffered' \in Nat /\ written' \in Nat /\ stream' \in {"good", "bad"}
        /\ stream' = "good" => written' + buffered' = printed'
    BY <1>8 DEF Put, Counted, Least, QuickInv
  <2>4. Counted'
    <3>1. Len(chunks) \in Nat /\ stage' = stage /\ chunks' = chunks /\ trace' = trace
      BY <1>8 DEF Contents
    <3>2. stage' = "json" => Json' /\ printed' < Len(chunks')
      BY <1>8, <2>1, <2>2, <3>1 DEF Counted
    <3>3. stage' = "text" => ~Json' /\ printed' <= Len(chunks') /\ trace'.outcome # "Error"
      BY <1>8, <2>1, <2>2, <3>1 DEF Counted
    <3>4. printed' \in Nat
      BY <2>2
    <3> QED
      BY <2>3, <3>2, <3>3, <3>4, Zenon DEF Counted
  <2> QED
    BY <1>8, <2>1, <2>4 DEF QuickInv
<1>9. CASE PrintLine
  BY <1>9, <1>8 DEF PrintLine, QuickInv
<1>10. CASE SerializeMember
  <2>1. Contents /\ Counted /\ stage = "json" /\ printed + 1 < Len(chunks)
    BY <1>10 DEF SerializeMember, QuickInv, Contents, Counted
  <2> QED
    BY <1>10, <2>1, <1>8 DEF SerializeMember, Counted
<1>11. ASSUME Contents, stage \in {"text", "json"}, stage' = "exited", ExitTruthful',
              diagnosed' \in BOOLEAN, UNCHANGED <<textvars, args, code, trace, chunks, room>>
       PROVE  QuickInv'
  <2>1. TextOK' /\ Contents' /\ code' # <<>>
    BY <1>1, <1>11, ContentsStay DEF Contents
  <2> QED
    BY <1>11, <2>1 DEF QuickInv
<1>12. CASE FinishText
  <2>1. /\ Contents /\ Counted /\ ~Json /\ stage = "text" /\ stage' = "exited"
        /\ UNCHANGED <<textvars, args, code, trace, chunks, printed, room, stream>>
        /\ diagnosed' \in BOOLEAN
    BY <1>12 DEF FinishText, Leave, QuickInv, Counted
  <2>2. Json' = Json
    BY <2>1, <1>2
  <2>3. CASE trace.outcome = "Error" /\ Leave(1, TRUE)
    <3>1. exit_code' = 1 /\ diagnosed' = TRUE /\ written' = 0
      <4>1. written = 0 /\ buffered = 0 /\ room \in Nat
        BY <2>1, <2>3 DEF Counted, QuickInv
      <4>2. exit_code' = 1 /\ diagnosed' = TRUE /\ written' = Least(room, written + buffered)
        BY <2>3 DEF Leave
      <4> QED
        BY <4>1, <4>2 DEF Least
    <3> QED
      BY <1>11, <2>1, <2>2, <2>3, <3>1 DEF ExitTruthful, Contents
  <2>4. CASE trace.outcome # "Error" /\ stream = "bad" /\ Leave(Aborted, TRUE)
    <3>1. exit_code' = 134 /\ diagnosed' = TRUE
      BY <2>1, <2>4 DEF Leave, Aborted
    <3> QED
      BY <1>11, <2>1, <2>2, <2>4, <3>1 DEF ExitTruthful, Contents
  <2>5. CASE /\ trace.outcome # "Error" /\ stream = "good" /\ printed = Len(chunks)
             /\ Leave(0, FALSE)
    <3>1. exit_code' = 0 /\ trace.outcome \notin {"Idle", "Error"} /\ chunks # <<>>
      BY <2>1, <2>5 DEF Leave, Contents, GoodTrace
    <3> QED
      BY <1>11, <2>1, <2>2, <2>5, <3>1 DEF ExitTruthful, Contents
  <2> QED
    BY <1>12, <2>3, <2>4, <2>5 DEF FinishText
<1>13. CASE SerializeFails
  <2>1. /\ Contents /\ Json /\ stage = "json" /\ stage' = "exited"
        /\ UNCHANGED <<textvars, args, code, trace, chunks, room>>
        /\ diagnosed' = TRUE /\ exit_code' = 1
    BY <1>13 DEF SerializeFails, Leave, QuickInv, Counted
  <2>2. Json' = Json
    BY <2>1, <1>2
  <2> QED
    BY <1>11, <2>1, <2>2 DEF ExitTruthful, Contents
<1>14. CASE FinishJson
  <2>1. /\ Contents /\ Counted /\ Json /\ stage = "json" /\ stage' = "exited"
        /\ UNCHANGED <<textvars, args, code, trace, chunks, room>>
        /\ printed = Len(chunks) - 1 /\ Len(chunks) \in Nat
    BY <1>14 DEF FinishJson, Leave, QuickInv, Counted, Contents
  <2>2. Json' = Json
    BY <2>1, <1>2
  <2>3. CASE stream = "bad"
    <3>1. diagnosed' = TRUE /\ exit_code' = 1
      BY <1>14, <2>3 DEF FinishJson, Leave
    <3> QED
      BY <1>11, <2>1, <2>2, <3>1 DEF ExitTruthful, Contents
  <2>4. CASE stream = "good" /\ written + buffered + 1 <= room
    <3>1. /\ exit_code' = (IF trace.outcome # "Error" THEN 0 ELSE 1)
          /\ written' = Least(room, written + buffered + 1)
          /\ diagnosed' = diagnosed
      BY <1>14, <2>4 DEF FinishJson, QuickInv
    <3>2. written' = Len(chunks)
      BY <2>1, <2>4, <3>1 DEF Counted, Least, QuickInv
    <3>3. chunks # <<>> /\ trace.outcome # "Idle"
      BY <2>1 DEF Contents, GoodTrace
    <3> QED
      BY <1>11, <2>1, <2>2, <3>1, <3>2, <3>3 DEF ExitTruthful, Whole, Contents, QuickInv
  <2>5. CASE stream = "good" /\ ~(written + buffered + 1 <= room)
    <3>1. diagnosed' = TRUE /\ exit_code' = 1
      BY <1>14, <2>5 DEF FinishJson
    <3> QED
      BY <1>11, <2>1, <2>2, <3>1 DEF ExitTruthful, Contents
  <2> QED
    BY <1>14, <2>3, <2>4, <2>5 DEF FinishJson
<1>15. CASE Blocks
  <2>1. /\ stage = "run" /\ stage' = "blocked" /\ Untouched /\ code # <<>>
        /\ UNCHANGED <<textvars, args, code, trace, chunks, printed, buffered, written, room,
                       stream, diagnosed, exit_code>>
    BY <1>15 DEF Blocks, output, QuickInv
  <2>2. TextOK' /\ Untouched'
    BY <2>1, <1>1 DEF Untouched
  <2> QED
    BY <2>1, <2>2 DEF QuickInv
<1>16. CASE Ended
  BY <1>3, <1>16 DEF Ended
<1> QED
  BY <1>3, <1>4, <1>5, <1>6, <1>7, <1>9, <1>10, <1>12, <1>13, <1>14, <1>15, <1>16 DEF QuickNext

\* It holds in every state of every run.
LEMMA QuickAlways == QuickSpec => []QuickInv
  BY QuickStart, QuickStep, PTL DEF QuickSpec

\* The exit status tells the truth about the output, for every command line, trace
\* and device: whatever run_quick, the stream and the flush before the exit do.
THEOREM ExitAlwaysTruthful == QuickSpec => []ExitTruthful
<1>1. QuickInv => ExitTruthful
  BY DEF QuickInv, ExitTruthful, Exited
<1> QED
  BY <1>1, QuickAlways, PTL

\* For every trace, decoder length and set of tracked registers, the text of a run
\* that ends with status 0 replays that trace.
THEOREM TextAlwaysReplays == QuickSpec => []TextReplays
<1>1. QuickInv => TextReplays
  <2> SUFFICES ASSUME QuickInv, Exited, ~Json, exit_code = 0
               PROVE  Replays(chunks, Tracked, code, trace)
    BY DEF TextReplays
  <2>1. ExitTruthful /\ trace.outcome # "Error" /\ code # <<>>
    BY DEF QuickInv, Exited, ExitTruthful
  <2> QED
    BY <2>1 DEF QuickInv, Exited, Contents
<1> QED
  BY <1>1, QuickAlways, PTL

\* For every trace and every list of decoders, a whole JSON document is consistent.
THEOREM DocumentAlwaysConsistent == QuickSpec => []DocumentConsistent
<1>1. QuickInv => DocumentConsistent
  <2> SUFFICES ASSUME QuickInv, Exited, Json, Whole
               PROVE  Consistent(chunks, code, trace)
    BY DEF DocumentConsistent
  <2>1. code # <<>>
    BY DEF QuickInv, Exited, ExitTruthful, Whole
  <2> QED
    BY <2>1 DEF QuickInv, Exited, Contents
<1> QED
  BY <1>1, QuickAlways, PTL

-----------------------------------------------------------------------------
(* The places of a text.                                                   *)

\* The characters differ.
LEMMA Apart ==
    /\ \A c \in Digits \cup {"x"} :
         c # Space /\ c # Comma /\ c # OpenBrace /\ c # CloseBrace /\ c # Backslash
    /\ Space # Comma /\ Space # OpenBrace /\ Space # CloseBrace /\ Space # Backslash
    /\ Comma # OpenBrace /\ Comma # CloseBrace /\ OpenBrace # CloseBrace /\ OpenBrace # Backslash
    /\ CloseBrace # Backslash /\ "0" \in Digits
  BY Zenon DEF Space, Comma, OpenBrace, CloseBrace, Backslash, Digits

\* A place where a byte begins is counted with those before it.
LEMMA RankBounds ==
    ASSUME NEW bound \in Nat, NEW at, DOMAIN at \subseteq 1 .. bound, NEW p \in Int
    PROVE  /\ Rank(at, p) \in Nat
           /\ \A q \in Int : p <= q => Rank(at, p) <= Rank(at, q)
           /\ \A i \in DOMAIN at : i <= p => Rank(at, p) >= 1
           /\ Rank(at, p) = 0 => \A i \in DOMAIN at : ~(i <= p)
<1> DEFINE U(q) == { j \in DOMAIN at : j <= q }
<1>1. \A q \in Int : IsFiniteSet(U(q)) /\ Cardinality(U(q)) \in Nat
  <2> TAKE q \in Int
  <2>1. IsFiniteSet(1 .. bound) /\ U(q) \subseteq 1 .. bound
    BY FS_Interval
  <2>2. IsFiniteSet(U(q))
    <3> HIDE DEF U
    <3> QED
      BY <2>1, FS_Subset
  <2> QED
    BY <2>2, FS_CardinalityType
<1>2. \A q \in Int : Rank(at, q) = Cardinality(U(q))
  BY DEF Rank
<1>3. ASSUME NEW q \in Int, p <= q PROVE Cardinality(U(p)) <= Cardinality(U(q))
  <2>1. U(p) \subseteq U(q)
    BY <1>3
  <2> HIDE DEF U
  <2> QED
    BY <1>1, <2>1, FS_Subset
<1>4. ASSUME NEW i \in DOMAIN at, i <= p PROVE Cardinality(U(p)) # 0
  <2>1. i \in U(p)
    BY <1>4
  <2> HIDE DEF U
  <2> QED
    BY <1>1, <2>1, FS_EmptySet
<1>5. \A i \in DOMAIN at : i <= p => Cardinality(U(p)) >= 1
  <2> HIDE DEF U
  <2> QED
    BY <1>1, <1>4
<1> HIDE DEF U
<1> QED
  BY <1>1, <1>2, <1>3, <1>4, <1>5

\* Nothing begins between p and q.
LEMMA OrderKept ==
    ASSUME NEW bytes, NEW at, NEW bound \in Nat, DOMAIN at \subseteq 1 .. bound,
           NEW p \in Nat, NEW q \in Nat,
           p <= q, InOrderTo(bytes, at, p), \A i \in DOMAIN at : i <= p \/ q < i
    PROVE  InOrderTo(bytes, at, q)
<1>1. \A i \in DOMAIN at : i <= q <=> i <= p
  OBVIOUS
<1>2. { j \in DOMAIN at : j <= p } = { j \in DOMAIN at : j <= q }
  BY <1>1
<1>3. Rank(at, p) = Rank(at, q)
  BY <1>2, Zenon DEF Rank
<1> QED
  BY <1>1, <1>3, Zenon DEF InOrderTo

\* One byte begins between p and q.
LEMMA OrderGrows ==
    ASSUME NEW S, NEW bytes \in Seq(S), NEW at, NEW bound \in Nat, DOMAIN at \subseteq 1 .. bound,
           NEW p \in Nat, NEW q \in Nat, NEW x \in DOMAIN at, at[x] \in S,
           p < x, x <= q, InOrderTo(bytes, at, p),
           \A i \in DOMAIN at : i <= p \/ i = x \/ q < i
    PROVE  InOrderTo(Append(bytes, at[x]), at, q)
<1> DEFINE U == { j \in DOMAIN at : j <= p }
           more == Append(bytes, at[x])
<1>1. x \in Int /\ \A i \in DOMAIN at : i \in Int
  OBVIOUS
<1>2. { j \in DOMAIN at : j <= q } = U \cup {x} /\ { j \in DOMAIN at : j <= x } = U \cup {x}
      /\ x \notin U
  BY <1>1
<1>3. IsFiniteSet(U)
  <2>1. IsFiniteSet(1 .. bound) /\ U \subseteq 1 .. bound
    BY FS_Interval
  <2> HIDE DEF U
  <2> QED
    BY <2>1, FS_Subset
<1>4. Rank(at, p) = Cardinality(U)
  BY DEF Rank
<1> HIDE DEF U
<1>5. Cardinality(U \cup {x}) = Cardinality(U) + 1
  BY <1>2, <1>3, FS_AddElement
<1>6. Rank(at, q) = Rank(at, p) + 1 /\ Rank(at, x) = Rank(at, p) + 1
  BY <1>2, <1>4, <1>5 DEF Rank
<1>7. Len(bytes) = Rank(at, p) /\ Len(bytes) \in Nat
  BY DEF InOrderTo
<1>8. /\ Len(more) = Len(bytes) + 1 /\ more[Len(bytes) + 1] = at[x]
      /\ \A i \in 1 .. Len(bytes) : more[i] = bytes[i]
  OBVIOUS
<1> HIDE DEF more
<1>9. ASSUME NEW i \in DOMAIN at, i <= q PROVE more[Rank(at, i)] = at[i]
  <2>1. CASE i = x
    BY <1>6, <1>7, <1>8, <2>1
  <2>2. CASE i # x
    <3>1. i <= p /\ i \in Int
      BY <1>1, <1>9, <2>2
    <3>2. Rank(at, i) \in Nat /\ Rank(at, i) >= 1 /\ Rank(at, i) <= Rank(at, p)
      <4>1. i <= i /\ p \in Int
        BY <3>1
      <4> QED
        BY <3>1, <4>1, RankBounds, Zenon
    <3>3. bytes[Rank(at, i)] = at[i]
      BY <3>1 DEF InOrderTo
    <3> QED
      BY <1>7, <1>8, <3>2, <3>3
  <2> QED
    BY <2>1, <2>2
<1> QED
  BY <1>6, <1>7, <1>8, <1>9 DEF InOrderTo, more

\* A space ends a word; anything else continues it.
LEMMA WordMoves ==
    ASSUME NEW s \in Seq(Chars), NEW i \in 1 .. Len(s)
    PROVE  /\ WordStart(s, i) \in 1 .. i
           /\ s[i] = Space => WordStart(s, i + 1) = i + 1
           /\ s[i] # Space => WordStart(s, i + 1) = WordStart(s, i)
<1> DEFINE G(k) == {0} \cup { j \in 1 .. k - 1 : s[j] = Space }
<1>1. Len(s) \in Nat /\ i \in Nat \ {0}
  OBVIOUS
<1>2. \A k : WordStart(s, k) = Max(G(k)) + 1
  BY Zenon DEF WordStart
<1>3. G(i) # {} /\ G(i) \subseteq 0 .. i - 1
  BY <1>1
<1>4. s[i] # Space => G(i + 1) = G(i)
  BY <1>1
<1>5. s[i] = Space => i \in G(i + 1) /\ \A y \in G(i + 1) : i >= y /\ y \in Int
  BY <1>1
<1> HIDE DEF G
<1>6. Max(G(i)) \in 0 .. i - 1
  <2>1. i - 1 \in Nat
    BY <1>1
  <2>2. PICK x \in G(i) : \A y \in G(i) : y <= x
    BY <1>3, <2>1, GreatestOf, Zenon
  <2>3. \A y \in G(i) : x >= y
    BY <1>3, <2>2
  <2>4. Max(G(i)) \in G(i)
    BY <2>3 DEF Max
  <2> QED
    BY <1>3, <2>4
<1>7. ASSUME s[i] = Space PROVE Max(G(i + 1)) = i
  <2> DEFINE x == Max(G(i + 1))
  <2>1. x \in G(i + 1) /\ \A y \in G(i + 1) : x >= y
    BY <1>5, <1>7 DEF Max
  <2> HIDE DEF x
  <2>2. x = i
    BY <1>1, <1>5, <1>7, <2>1
  <2> QED
    BY <2>2 DEF x
<1> QED
  BY <1>1, <1>2, <1>4, <1>6, <1>7

\* Groups up to place p: the bytes so far are theirs, they are proper groups, and
\* what stands after p, if it is not whitespace, begins one.
Grouped(s, n, p, bytes) ==
    /\ InOrderTo(bytes, GroupBytes(s, n), p)
    /\ \A i \in GroupStarts(s, n) : i <= p => IsGroup(s, i, n)
    /\ p + 1 \in Ink(s) => p + 1 \in GroupStarts(s, n)

\* Where groups begin.
LEMMA GroupPlaces ==
    ASSUME NEW s \in Seq(Chars), NEW n
    PROVE  /\ DOMAIN GroupBytes(s, n) = GroupStarts(s, n)
           /\ GroupStarts(s, n) \subseteq 1 .. Len(s) /\ Len(s) \in Nat
           /\ \A i \in 1 .. Len(s) :
                 i \in GroupStarts(s, n) <=> s[i] # Space /\ WholeGroupsBefore(s, i, n)
  BY DEF GroupBytes, GroupStarts, Ink

\* Whitespace changes nothing, and what follows it begins a group.
LEMMA GroupedOn ==
    ASSUME NEW s \in Seq(Chars), NEW n \in {2, 4}, NEW p \in 0 .. Len(s), NEW q \in p .. Len(s),
           NEW bytes, Grouped(s, n, p, bytes), \A i \in p + 1 .. q : s[i] = Space
    PROVE  Grouped(s, n, q, bytes)
<1>1. Len(s) \in Nat /\ p \in Nat /\ q \in Nat /\ p <= q
  OBVIOUS
<1>2. \A i \in GroupStarts(s, n) : i \in Int /\ (i <= p \/ q < i)
  BY <1>1, GroupPlaces
<1>3. InOrderTo(bytes, GroupBytes(s, n), q)
  <2>1. DOMAIN GroupBytes(s, n) \subseteq 1 .. Len(s)
        /\ \A i \in DOMAIN GroupBytes(s, n) : i <= p \/ q < i
    BY <1>2, GroupPlaces
  <2>2. InOrderTo(bytes, GroupBytes(s, n), p)
    BY DEF Grouped
  <2> QED
    BY <1>1, <2>1, <2>2, OrderKept, Zenon
<1>4. \A i \in GroupStarts(s, n) : i <= q => IsGroup(s, i, n)
  BY <1>1, <1>2 DEF Grouped
<1>5. ASSUME q + 1 \in Ink(s) PROVE q + 1 \in GroupStarts(s, n)
  <2>1. CASE q = p
    BY <1>5, <2>1 DEF Grouped
  <2>2. CASE q # p
    <3>1. q \in 1 .. Len(s) /\ q \in p + 1 .. q
      BY <1>1, <2>2
    <3>2. WordStart(s, q + 1) = q + 1
      BY <3>1, WordMoves
    <3>3. WholeGroupsBefore(s, q + 1, n)
      BY <1>1, <3>2 DEF WholeGroupsBefore
    <3> QED
      BY <1>5, <3>3, Zenon DEF GroupStarts
  <2> QED
    BY <2>1, <2>2
<1> QED
  BY <1>3, <1>4, <1>5 DEF Grouped

\* Before the first group.
LEMMA GroupedFirst ==
    ASSUME NEW s \in Seq(Chars), NEW n \in {2, 4}, NEW p \in 0 .. Len(s),
           \A i \in 1 .. p : s[i] = Space
    PROVE  Grouped(s, n, p, <<>>)
<1> DEFINE at == GroupBytes(s, n)
<1>1. DOMAIN at = GroupStarts(s, n) /\ \A i \in GroupStarts(s, n) : i \in Int /\ ~(i <= 0)
  BY GroupPlaces
<1>2. { j \in DOMAIN at : j <= 0 } = {}
  BY <1>1
<1>3. Rank(at, 0) = 0
  BY <1>2, FS_EmptySet DEF Rank
<1>4. InOrderTo(<<>>, at, 0)
  BY <1>1, <1>3 DEF InOrderTo
<1>5. ASSUME 1 \in Ink(s) PROVE 1 \in GroupStarts(s, n)
  <2>1. 1 \in 1 .. Len(s)
    BY <1>5 DEF Ink
  <2>2. WordStart(s, 1) = 1
    BY <2>1, WordMoves
  <2>3. WholeGroupsBefore(s, 1, n)
    BY <2>2 DEF WholeGroupsBefore
  <2> QED
    BY <1>5, <2>3, Zenon DEF GroupStarts
<1>6. Grouped(s, n, 0, <<>>)
  BY <1>1, <1>4, <1>5 DEF Grouped
<1>7. 0 \in 0 .. Len(s) /\ p \in 0 .. Len(s) /\ \A i \in 0 + 1 .. p : s[i] = Space
  OBVIOUS
<1> QED
  BY <1>6, <1>7, GroupedOn, Zenon

\* Multiples of two and of four.
LEMMA Remainders ==
    /\ \A d \in Nat : d % 2 = 0 => (d + 1) % 2 # 0 /\ (d + 2) % 2 = 0
    /\ \A d \in Nat : d % 4 = 0 =>
          (d + 1) % 4 # 0 /\ (d + 2) % 4 # 0 /\ (d + 3) % 4 # 0 /\ (d + 4) % 4 = 0
<1>1. ASSUME NEW d \in Nat, d % 2 = 0 PROVE (d + 1) % 2 # 0 /\ (d + 2) % 2 = 0
  BY <1>1
<1>2. ASSUME NEW d \in Nat, d % 4 = 0
      PROVE  (d + 1) % 4 # 0 /\ (d + 2) % 4 # 0 /\ (d + 3) % 4 # 0 /\ (d + 4) % 4 = 0
  <2>1. (d + 1) % 4 # 0
    BY <1>2
  <2>2. (d + 2) % 4 # 0
    BY <1>2
  <2>3. (d + 3) % 4 # 0
    BY <1>2
  <2>4. (d + 4) % 4 = 0
    BY <1>2
  <2> QED
    BY <2>1, <2>2, <2>3, <2>4
<1> QED
  BY <1>1, <1>2

\* How far into its word a place is.
LEMMA WholeGroups ==
    ASSUME NEW s, NEW n \in {2, 4}, NEW i \in Int, NEW e \in Nat, i - WordStart(s, i) = e
    PROVE  WholeGroupsBefore(s, i, n) <=> e % n = 0
<1>1. CASE n = 2
  BY <1>1 DEF WholeGroupsBefore
<1>2. CASE n = 4
  BY <1>2 DEF WholeGroupsBefore
<1> QED
  BY <1>1, <1>2

\* A proper group is one more byte.
LEMMA GroupedMore ==
    ASSUME NEW s \in Seq(Chars), NEW n \in {2, 4}, NEW p \in 0 .. Len(s), p < Len(s),
           s[p + 1] # Space, NEW bytes \in Seq(0 .. 255), Grouped(s, n, p, bytes),
           IsGroup(s, p + 1, n)
    PROVE  /\ p + n \in 0 .. Len(s)
           /\ Grouped(s, n, p + n, Append(bytes, 16 * Value(s[p + n - 1]) + Value(s[p + n])))
<1> DEFINE S  == GroupStarts(s, n)
           at == GroupBytes(s, n)
           w  == WordStart(s, p + 1)
           d  == (p + 1) - w
<1>1. Len(s) \in Nat /\ p \in Nat /\ p + 1 \in 1 .. Len(s) /\ p + n <= Len(s)
      /\ p + n \in 1 .. Len(s)
  BY DEF IsGroup
<1>2. p + 1 \in S
  BY <1>1 DEF Grouped, Ink
<1>3. w \in 1 .. p + 1 /\ d \in Nat /\ d % n = 0
  <2>1. w \in 1 .. p + 1
    BY <1>1, WordMoves
  <2>2. WholeGroupsBefore(s, p + 1, n)
    BY <1>2, Zenon DEF GroupStarts
  <2>3. d \in Nat
    BY <1>1, <2>1
  <2>4. d % n = 0
    <3> DEFINE e == d
               k == p + 1
    <3>4. k \in Int
      BY <1>1
    <3>5. e \in Nat
      BY <2>3, Zenon
    <3>6. k - WordStart(s, k) = e
      BY Zenon
    <3>1. k \in Int /\ k - WordStart(s, k) = e /\ e \in Nat
      BY <3>4, <3>5, <3>6, Zenon
    <3>2. WholeGroupsBefore(s, k, n)
      BY <2>2
    <3> HIDE DEF e, k
    <3>3. e % n = 0
      BY <3>1, <3>2, WholeGroups, Zenon
    <3> QED
      BY <3>3, Zenon DEF e
  <2> QED
    BY <1>1, <2>1, <2>3, <2>4
<1> HIDE DEF w
<1>4. \A k \in p + 1 .. p + n : s[k] # Space
  <2>1. /\ \A c \in Digits : c # Space
        /\ Backslash # Space /\ "x" # Space
    BY Apart, Zenon
  <2>2. CASE n = 2
    BY <1>1, <2>1, <2>2 DEF IsGroup
  <2>3. CASE n = 4
    <3>1. s[p + 1] = Backslash /\ s[p + 2] = "x" /\ s[p + 3] \in Digits /\ s[p + 4] \in Digits
      BY <1>1, <2>3 DEF IsGroup
    <3>2. \A k \in p + 1 .. p + n : k = p + 1 \/ k = p + 2 \/ k = p + 3 \/ k = p + 4
      BY <1>1, <2>3
    <3> QED
      BY <2>1, <3>1, <3>2
  <2> QED
    BY <2>2, <2>3
<1>5. \A k \in p + 1 .. p + n : WordStart(s, k + 1) = WordStart(s, k)
  BY <1>1, <1>4, WordMoves
<1>6. /\ WordStart(s, p + 2) = w /\ WordStart(s, p + 3) = w
      /\ n = 4 => WordStart(s, p + 4) = w /\ WordStart(s, p + 5) = w
  <2>1. WordStart(s, p + 2) = w
    BY <1>1, <1>5 DEF w
  <2>2. WordStart(s, p + 3) = w
    BY <1>1, <1>5, <2>1
  <2>3. ASSUME n = 4 PROVE WordStart(s, p + 4) = w
    BY <1>1, <1>5, <2>2, <2>3
  <2>4. ASSUME n = 4 PROVE WordStart(s, p + 5) = w
    BY <1>1, <1>5, <2>3, <2>4
  <2> QED
    BY <2>1, <2>2, <2>3, <2>4
<1>7. \A k \in p + 2 .. p + n : k \notin S
  <2>1. CASE n = 2
    <3>1. ~WholeGroupsBefore(s, p + 2, n)
      BY <1>3, <1>6, <2>1, Remainders DEF WholeGroupsBefore
    <3>2. p + 2 \notin S
      BY <3>1, Zenon DEF GroupStarts
    <3> QED
      BY <1>1, <2>1, <3>2
  <2>2. CASE n = 4
    <3>1. /\ p + 2 - w = d + 1 /\ p + 3 - w = d + 2 /\ p + 4 - w = d + 3 /\ d % 4 = 0
      BY <1>1, <1>3, <2>2
    <3> HIDE DEF d
    <3>2. (d + 1) % 4 # 0 /\ (d + 2) % 4 # 0 /\ (d + 3) % 4 # 0
      BY <1>3, <3>1, Remainders
    <3>3. /\ ~WholeGroupsBefore(s, p + 2, n) /\ ~WholeGroupsBefore(s, p + 3, n)
          /\ ~WholeGroupsBefore(s, p + 4, n)
      BY <1>1, <1>3, <1>6, <2>2, <3>1, <3>2, WholeGroups, SMTT(30)
    <3>4. p + 2 \notin S /\ p + 3 \notin S /\ p + 4 \notin S
      BY <3>3, Zenon DEF GroupStarts
    <3>5. \A k \in p + 2 .. p + n : k = p + 2 \/ k = p + 3 \/ k = p + 4
      BY <1>1, <2>2
    <3> QED
      BY <3>4, <3>5, Zenon
  <2> QED
    BY <2>1, <2>2
<1>8. ASSUME p + n + 1 \in Ink(s) PROVE p + n + 1 \in S
  <2>1. WordStart(s, p + n + 1) = w
    BY <1>1, <1>6
  <2>2. p + n + 1 - w = d + n /\ d + n \in Nat /\ p + n + 1 \in Int
    BY <1>1, <1>3
  <2>3. (d + n) % n = 0
    BY <1>3, Remainders
  <2>4. WholeGroupsBefore(s, p + n + 1, n)
    <3> DEFINE e == d + n
               k == p + n + 1
    <3>4. k \in Int /\ e \in Nat
      BY <2>2
    <3>5. k - WordStart(s, k) = k - w
      BY <2>1, Zenon
    <3>6. k - w = e
      BY <1>1, <1>3
    <3>1. k \in Int /\ k - WordStart(s, k) = e /\ e \in Nat
      BY <3>4, <3>5, <3>6, Zenon
    <3>0. e % n = 0
      BY <2>3, Zenon
    <3> HIDE DEF e, k
    <3>2. WholeGroupsBefore(s, k, n)
      BY <3>0, <3>1, WholeGroups, Zenon
    <3> QED
      BY <3>2, Zenon DEF k
  <2> QED
    BY <1>8, <2>4, Zenon DEF GroupStarts
<1>9. S \subseteq 1 .. Len(s) /\ DOMAIN at = S
  BY GroupPlaces
<1>10. \A i \in S : i \in Int /\ (i <= p \/ i = p + 1 \/ p + n < i)
  <2> HIDE DEF S
  <2> QED
    BY <1>1, <1>7, <1>9
<1>11. /\ at[p + 1] = 16 * Value(s[p + n - 1]) + Value(s[p + n])
       /\ at[p + 1] \in 0 .. 255
  <2>1. s[p + 1 + n - 2] \in Digits /\ s[p + 1 + n - 1] \in Digits
    BY DEF IsGroup
  <2>2. p + 1 + n - 2 = p + n - 1 /\ p + 1 + n - 1 = p + n
    BY <1>1
  <2>3. at[p + 1] = 16 * Value(s[p + 1 + n - 2]) + Value(s[p + 1 + n - 1])
    BY <1>2 DEF GroupBytes
  <2> QED
    BY <2>1, <2>2, <2>3, DigitValue, ZenonT(40)
<1> HIDE DEF S, at
<1>12. InOrderTo(Append(bytes, at[p + 1]), at, p + n)
  <2>1. InOrderTo(bytes, at, p)
    BY DEF Grouped, at
  <2>2. /\ p \in Nat /\ p + n \in Nat /\ p < p + 1 /\ p + 1 <= p + n /\ Len(s) \in Nat
        /\ DOMAIN at \subseteq 1 .. Len(s) /\ p + 1 \in DOMAIN at
    BY <1>1, <1>2, <1>9
  <2>3. \A i \in DOMAIN at : i <= p \/ i = p + 1 \/ p + n < i
    BY <1>9, <1>10
  <2> QED
    BY <1>11, <2>1, <2>2, <2>3, OrderGrows, Zenon
<1>13. \A i \in S : i <= p + n => IsGroup(s, i, n)
  <2>1. \A i \in S : i <= p => IsGroup(s, i, n)
    BY DEF Grouped, S
  <2> QED
    BY <1>1, <1>10, <2>1
<1> QED
  BY <1>1, <1>8, <1>11, <1>12, <1>13 DEF Grouped, S, at

-----------------------------------------------------------------------------
(* The values of an array.                                                 *)

\* The first and the last place of what is written, and the place after another.
Leads(s, f)      == f \in Ink(s) /\ \A k \in Ink(s) : f <= k
Ends(s, l)       == l \in Ink(s) /\ \A k \in Ink(s) : k <= l
Follows(s, j, i) == j < i /\ \A k \in Ink(s) : k <= j \/ i <= k

\* A text that is not blank has a first and a last character.
LEMMA InkBounds ==
    ASSUME NEW s \in Seq(Chars)
    PROVE  /\ Ink(s) \subseteq 1 .. Len(s) /\ Len(s) \in Nat
           /\ Ink(s) # {} => Leads(s, Min(Ink(s))) /\ Ends(s, Max(Ink(s)))
           /\ \A f : Leads(s, f) => Ink(s) # {} /\ Min(Ink(s)) = f
           /\ \A l : Ends(s, l) => Max(Ink(s)) = l
<1> DEFINE I == Ink(s)
<1>1. I \subseteq 1 .. Len(s) /\ Len(s) \in Nat
  BY DEF Ink
<1>2. \A i \in I : i \in Int
  BY <1>1
<1>3. I \subseteq 0 .. Len(s)
  BY <1>1
<1> HIDE DEF I
<1>4. ASSUME NEW f \in I, \A k \in I : f <= k PROVE Min(I) \in I /\ \A k \in I : Min(I) <= k
  BY <1>4 DEF Min
<1>5. ASSUME NEW l \in I, \A k \in I : k <= l PROVE Max(I) \in I /\ \A k \in I : k <= Max(I)
  <2>1. \A k \in I : l >= k
    BY <1>2, <1>5
  <2>2. Max(I) \in I /\ \A k \in I : Max(I) >= k
    BY <2>1 DEF Max
  <2> QED
    BY <1>2, <2>2
<1>6. ASSUME I # {} PROVE Leads(s, Min(I)) /\ Ends(s, Max(I))
  <2>1. PICK f \in I : \A k \in I : f <= k
    BY <1>1, <1>3, <1>6, LeastOf, Zenon
  <2>2. PICK l \in I : \A k \in I : k <= l
    BY <1>1, <1>3, <1>6, GreatestOf, Zenon
  <2> QED
    BY <1>4, <1>5, <2>1, <2>2 DEF Leads, Ends, I
<1>7. ASSUME NEW f, Leads(s, f) PROVE I # {} /\ Min(I) = f
  <2>1. f \in I /\ \A k \in I : f <= k
    BY <1>7 DEF Leads, I
  <2>2. Min(I) \in I /\ \A k \in I : Min(I) <= k
    BY <1>4, <2>1
  <2> QED
    BY <1>2, <2>1, <2>2
<1>8. ASSUME NEW l, Ends(s, l) PROVE Max(I) = l
  <2>1. l \in I /\ \A k \in I : k <= l
    BY <1>8 DEF Ends, I
  <2>2. Max(I) \in I /\ \A k \in I : k <= Max(I)
    BY <1>5, <2>1
  <2> QED
    BY <1>2, <2>1, <2>2
<1> QED
  BY <1>1, <1>6, <1>7, <1>8 DEF I

\* What the first character says of a text.
LEMMA Readables ==
    ASSUME NEW s \in Seq(Chars), NEW f, Leads(s, f)
    PROVE  /\ s[f] = OpenBrace =>
                /\ Readable(s) <=> /\ \A l : Ends(s, l) => s[l] = CloseBrace
                                   /\ ItemStarts(s) # {}
                                   /\ \A i \in ItemStarts(s) : IsItem(s, i)
                /\ BytesAt(s) = ItemBytes(s)
           /\ s[f] = Backslash =>
                /\ Readable(s) <=> \A i \in GroupStarts(s, 4) : IsGroup(s, i, 4)
                /\ BytesAt(s) = GroupBytes(s, 4)
           /\ s[f] # OpenBrace /\ s[f] # Backslash =>
                /\ Readable(s) <=> \A i \in GroupStarts(s, 2) : IsGroup(s, i, 2)
                /\ BytesAt(s) = GroupBytes(s, 2)
<1>1. Ink(s) # {} /\ Min(Ink(s)) = f /\ Ends(s, Max(Ink(s)))
      /\ \A l : Ends(s, l) => Max(Ink(s)) = l
  BY InkBounds
<1>2. /\ s[f] = OpenBrace => Notation(s) = "braces"
      /\ s[f] = Backslash => Notation(s) = "escapes"
      /\ s[f] # OpenBrace /\ s[f] # Backslash => Notation(s) = "pairs"
  BY <1>1, Apart DEF Notation
<1>3. (\A l : Ends(s, l) => s[l] = CloseBrace) <=> s[Max(Ink(s))] = CloseBrace
  BY <1>1
<1>4. CASE s[f] = OpenBrace
  <2>1. Notation(s) = "braces"
    BY <1>2, <1>4
  <2>2. BytesAt(s) = ItemBytes(s)
    BY <2>1 DEF BytesAt
  <2>3. Readable(s) <=> /\ s[Max(Ink(s))] = CloseBrace
                        /\ ItemStarts(s) # {}
                        /\ \A i \in ItemStarts(s) : IsItem(s, i)
    BY <1>1, <2>1 DEF Readable
  <2> QED
    BY <1>3, <1>4, <2>2, <2>3, Apart, Zenon
<1>5. CASE s[f] = Backslash
  <2>1. Notation(s) = "escapes"
    BY <1>2, <1>5
  <2>2. BytesAt(s) = GroupBytes(s, 4)
    BY <2>1 DEF BytesAt
  <2>3. Readable(s) <=> \A i \in GroupStarts(s, 4) : IsGroup(s, i, 4)
    BY <1>1, <2>1 DEF Readable
  <2> QED
    BY <1>5, <2>2, <2>3, Apart
<1>6. CASE s[f] # OpenBrace /\ s[f] # Backslash
  <2>1. Notation(s) = "pairs"
    BY <1>2, <1>6
  <2>2. BytesAt(s) = GroupBytes(s, 2)
    BY <2>1 DEF BytesAt
  <2>3. Readable(s) <=> \A i \in GroupStarts(s, 2) : IsGroup(s, i, 2)
    BY <1>1, <2>1 DEF Readable
  <2> QED
    BY <1>6, <2>2, <2>3
<1> QED
  BY <1>4, <1>5, <1>6

\* Where values begin.
LEMMA ItemPlaces ==
    ASSUME NEW s \in Seq(Chars)
    PROVE  /\ DOMAIN ItemBytes(s) = ItemStarts(s) /\ ItemStarts(s) \subseteq Ink(s)
           /\ ItemStarts(s) \subseteq 1 .. Len(s) /\ Len(s) \in Nat
           /\ \A l \in ItemStarts(s) : ~Ends(s, l)
           /\ \A i \in Ink(s) : \A j \in Ink(s) :
                Follows(s, j, i) =>
                    (i \in ItemStarts(s) <=> ~Ends(s, i) /\ (s[j] = Comma \/ Leads(s, j)))
<1>1. DOMAIN ItemBytes(s) = ItemStarts(s)
  BY DEF ItemBytes
<1>2. ItemStarts(s) \subseteq Ink(s) /\ Ink(s) \subseteq 1 .. Len(s) /\ Len(s) \in Nat
  BY InkBounds, Zenon DEF ItemStarts
<1>3. \A i \in Ink(s) : i \in Int
  BY <1>2
<1>4. \A i \in Ink(s) : ~Ends(s, i) <=> \E j \in Ink(s) : i < j
  BY <1>3 DEF Ends
<1>5. \A i \in Ink(s) : i \in ItemStarts(s) <=>
         /\ ~Ends(s, i)
         /\ \E j \in Ink(s) : Follows(s, j, i) /\ (s[j] = Comma \/ Leads(s, j))
  BY <1>4, Zenon DEF ItemStarts, Follows, Leads
<1>6. ASSUME NEW i \in Ink(s), NEW j \in Ink(s), NEW k \in Ink(s),
             Follows(s, j, i), Follows(s, k, i)
      PROVE  j = k
  BY <1>3, <1>6 DEF Follows
<1>7. ASSUME NEW i \in Ink(s), NEW j \in Ink(s), Follows(s, j, i)
      PROVE  i \in ItemStarts(s) <=> ~Ends(s, i) /\ (s[j] = Comma \/ Leads(s, j))
  BY <1>5, <1>6, <1>7, Zenon
<1>8. \A l \in ItemStarts(s) : ~Ends(s, l)
  BY <1>2, <1>5, Zenon
<1> QED
  BY <1>1, <1>2, <1>7, <1>8

\* Values up to place p: the bytes so far are theirs, and either the next value or
\* the end comes after p, or the end stands right there - and if more follows that
\* end, a value was not proper.
Opened(s, p) ==
    \E m \in Ink(s) : m <= p /\ (\A k \in Ink(s) : k <= m \/ p < k) /\ (s[m] = Comma \/ Leads(s, m))
Closing(s, p, bytes) ==
    /\ p + 1 \in Ink(s) /\ s[p + 1] = CloseBrace /\ bytes # <<>>
    /\ Ends(s, p + 1) => \A i \in ItemStarts(s) : i <= p => IsItem(s, i)
    /\ ~Ends(s, p + 1) => \E i \in ItemStarts(s) : ~IsItem(s, i)
Itemed(s, p, bytes) ==
    /\ InOrderTo(bytes, ItemBytes(s), p)
    /\ \E f \in Ink(s) : f <= p /\ s[f] = OpenBrace /\ Leads(s, f)
    /\ \/ Opened(s, p) /\ \A i \in ItemStarts(s) : i <= p => IsItem(s, i)
       \/ Closing(s, p, bytes)

\* After the opening brace.
LEMMA ItemedFirst ==
    ASSUME NEW s \in Seq(Chars), NEW p \in 0 .. Len(s), p < Len(s),
           \A i \in 1 .. p : s[i] = Space, s[p + 1] = OpenBrace
    PROVE  Itemed(s, p + 1, <<>>)
<1> DEFINE at == ItemBytes(s)
           f  == p + 1
<1>1. Len(s) \in Nat /\ p \in Nat /\ f \in 1 .. Len(s) /\ f \in Int
  OBVIOUS
<1>2. s[f] # Space
  BY Apart
<1>3. f \in Ink(s) /\ \A k \in Ink(s) : f <= k /\ k \in Int
  BY <1>1, <1>2 DEF Ink
<1> HIDE DEF f
<1>4. Leads(s, f)
  BY <1>3 DEF Leads
<1>5. \A i \in ItemStarts(s) : i \in Int /\ ~(i <= f)
  <2>1. ASSUME NEW i \in ItemStarts(s) PROVE \E j \in Ink(s) : j < i
    BY <2>1, Zenon DEF ItemStarts
  <2>2. ItemStarts(s) \subseteq Ink(s)
    BY ItemPlaces
  <2>3. ASSUME NEW i \in ItemStarts(s) PROVE i \in Int /\ ~(i <= f)
    <3>1. PICK j \in Ink(s) : j < i
      BY <2>1
    <3>2. i \in Int /\ j \in Int /\ f <= j
      BY <1>3, <2>2, Zenon
    <3> QED
      BY <1>1, <3>1, <3>2
  <2> QED
    BY <2>3
<1>6. DOMAIN at = ItemStarts(s)
  BY ItemPlaces
<1> HIDE DEF at
<1>7. { j \in DOMAIN at : j <= f } = {}
  BY <1>5, <1>6
<1>8. Rank(at, f) = 0
  BY <1>7, FS_EmptySet DEF Rank
<1>9. InOrderTo(<<>>, at, f)
  BY <1>5, <1>6, <1>8 DEF InOrderTo
<1>10. Opened(s, f)
  <2>1. f <= f /\ \A k \in Ink(s) : k <= f \/ f < k
    BY <1>1, <1>3
  <2> QED
    BY <1>3, <1>4, <2>1, Zenon DEF Opened
<1>11. f <= f /\ s[f] = OpenBrace
  BY <1>1 DEF f
<1> QED
  BY <1>3, <1>4, <1>5, <1>9, <1>10, <1>11 DEF Itemed, at, f

\* What stands at q + 1, after p and whitespace, in an array that is open at p.
LEMMA NextItem ==
    ASSUME NEW s \in Seq(Chars), NEW p \in 0 .. Len(s), NEW q \in p .. Len(s), q < Len(s),
           \A i \in p + 1 .. q : s[i] = Space, s[q + 1] # Space, Opened(s, p)
    PROVE  /\ q + 1 \in Ink(s) /\ q + 1 \in 1 .. Len(s)
           /\ q + 1 \in ItemStarts(s) <=> ~Ends(s, q + 1)
           /\ \A k \in Ink(s) : k \in Int /\ (k <= p \/ q + 1 <= k)
<1> DEFINE x == q + 1
<1>1. Len(s) \in Nat /\ p \in Nat /\ q \in Nat /\ x \in 1 .. Len(s) /\ x \in Int /\ p < x
  OBVIOUS
<1>2. x \in Ink(s) /\ \A k \in Ink(s) : k \in Int /\ (k <= p \/ x <= k)
  BY <1>1 DEF Ink
<1> HIDE DEF x
<1>3. PICK m \in Ink(s) : /\ m <= p /\ (\A k \in Ink(s) : k <= m \/ p < k)
                          /\ s[m] = Comma \/ Leads(s, m)
  BY Zenon DEF Opened
<1>4. Follows(s, m, x)
  BY <1>1, <1>2, <1>3 DEF Follows
<1>5. x \in ItemStarts(s) <=> ~Ends(s, x)
  BY <1>2, <1>3, <1>4, ItemPlaces, Zenon
<1> QED
  BY <1>1, <1>2, <1>5 DEF x

\* What does not follow another place as a value does not begin one.
LEMMA NoItem ==
    ASSUME NEW s \in Seq(Chars), NEW f, Leads(s, f), NEW j \in Ink(s), f < j, NEW i \in Ink(s),
           Follows(s, j, i), s[j] # Comma
    PROVE  i \notin ItemStarts(s)
<1>1. f \in Int /\ j \in Int /\ f \in Ink(s)
  BY InkBounds DEF Leads
<1>2. ~Leads(s, j)
  BY <1>1 DEF Leads
<1> QED
  BY <1>2, ItemPlaces, Zenon

\* What a value is, by what follows its digits.
LEMMA ItemJudged ==
    ASSUME NEW s \in Seq(Chars), NEW i \in Nat, NEW j \in Ink(s), Follows(s, LastDigit(s, i), j)
    PROVE  IsItem(s, i) <=> /\ i + 2 <= Len(s) /\ s[i] = "0" /\ s[i + 1] = "x"
                            /\ s[i + 2] \in Digits
                            /\ s[j] = Comma \/ Ends(s, j)
<1> DEFINE a == LastDigit(s, i)
<1>1. a \in Int /\ \A k \in Ink(s) : k \in Int
  BY InkBounds DEF LastDigit
<1>2. IsItem(s, i) <=> /\ i + 2 <= Len(s) /\ s[i] = "0" /\ s[i + 1] = "x"
                       /\ s[i + 2] \in Digits
                       /\ \E k \in Ink(s) : Follows(s, a, k) /\ (s[k] = Comma \/ Ends(s, k))
  BY Zenon DEF IsItem, Follows, Ends
<1> HIDE DEF a
<1>3. ASSUME NEW k \in Ink(s), Follows(s, a, j), Follows(s, a, k) PROVE j = k
  BY <1>1, <1>3 DEF Follows
<1>4. Follows(s, a, j)
  BY DEF a
<1> QED
  BY <1>2, <1>3, <1>4, Zenon

\* The text ends in an array that is still open.
LEMMA ItemedToEnd ==
    ASSUME NEW s \in Seq(Chars), NEW p \in 0 .. Len(s), NEW bytes, Itemed(s, p, bytes),
           \A i \in p + 1 .. Len(s) : s[i] = Space
    PROVE  ~Readable(s)
<1>1. Len(s) \in Nat /\ p \in Nat /\ \A k \in Ink(s) : k \in Int /\ k <= p
  BY DEF Ink
<1>2. PICK f \in Ink(s) : s[f] = OpenBrace /\ Leads(s, f)
  BY Zenon DEF Itemed
<1>3. ~Closing(s, p, bytes)
  BY <1>1 DEF Closing
<1>4. Opened(s, p)
  BY <1>3, Zenon DEF Itemed
<1>5. PICK m \in Ink(s) : /\ \A k \in Ink(s) : k <= m \/ p < k
                          /\ s[m] = Comma \/ Leads(s, m)
  BY <1>4, Zenon DEF Opened
<1>6. Ends(s, m)
  BY <1>1, <1>5 DEF Ends
<1>7. s[m] # CloseBrace
  <2>1. Leads(s, m) => m = f
    BY <1>1, <1>2 DEF Leads
  <2> QED
    BY <1>2, <1>5, <2>1, Apart, Zenon
<1> QED
  BY <1>2, <1>6, <1>7, Readables, Zenon

\* No value begins between p and the end.
LEMMA ItemedWhole ==
    ASSUME NEW s \in Seq(Chars), NEW p \in 0 .. Len(s), NEW bytes, bytes # <<>>,
           NEW f \in Ink(s), s[f] = OpenBrace, Leads(s, f),
           NEW l \in Ink(s), s[l] = CloseBrace, Ends(s, l),
           InOrderTo(bytes, ItemBytes(s), p), bytes \in Seq(0 .. 255),
           \A i \in ItemStarts(s) : i <= p /\ IsItem(s, i)
    PROVE  Means(s, bytes)
<1>1. ItemStarts(s) # {}
  <2>1. Len(bytes) = Rank(ItemBytes(s), p) /\ Len(bytes) # 0
    BY DEF InOrderTo
  <2>2. DOMAIN ItemBytes(s) = ItemStarts(s) /\ ItemStarts(s) \subseteq 1 .. Len(s)
    BY ItemPlaces
  <2>3. ASSUME ItemStarts(s) = {} PROVE FALSE
    <3>1. { j \in DOMAIN ItemBytes(s) : j <= p } = {}
      BY <2>2, <2>3
    <3> QED
      BY <2>1, <3>1, FS_EmptySet DEF Rank
  <2> QED
    BY <2>3
<1>2. \A k : Ends(s, k) => s[k] = CloseBrace
  <2>1. \A k : Ends(s, k) => k = l
    BY InkBounds, Zenon
  <2> QED
    BY <2>1
<1>3. Readable(s) /\ BytesAt(s) = ItemBytes(s)
  BY <1>1, <1>2, Readables, Zenon
<1>4. InOrderTo(bytes, ItemBytes(s), Len(s))
  <2>1. DOMAIN ItemBytes(s) \subseteq 1 .. Len(s) /\ Len(s) \in Nat /\ p \in Nat /\ p <= Len(s)
        /\ \A i \in DOMAIN ItemBytes(s) : i <= p \/ Len(s) < i
    BY ItemPlaces
  <2> QED
    BY <2>1, OrderKept, Zenon
<1> QED
  BY <1>3, <1>4 DEF Means

\* A closing brace.
LEMMA ItemedClosed ==
    ASSUME NEW s \in Seq(Chars), NEW p \in 0 .. Len(s), NEW q \in p .. Len(s), q < Len(s),
           NEW bytes \in Seq(0 .. 255), Itemed(s, p, bytes),
           \A i \in p + 1 .. q : s[i] = Space, s[q + 1] = CloseBrace
    PROVE  /\ bytes # <<>> /\ (\A i \in q + 2 .. Len(s) : s[i] = Space) => Means(s, bytes)
           /\ bytes = <<>> \/ (\E i \in q + 2 .. Len(s) : s[i] # Space) => ~Readable(s)
<1> DEFINE x == q + 1
           blank == \A i \in q + 2 .. Len(s) : s[i] = Space
<1>1. /\ Len(s) \in Nat /\ p \in Nat /\ q \in Nat /\ x \in 1 .. Len(s) /\ x \in Int /\ s[x] # Space
      /\ p < x
  BY Apart
<1>2. x \in Ink(s) /\ \A k \in Ink(s) : k \in Int /\ (k <= p \/ x <= k)
  BY <1>1 DEF Ink
<1>3. blank <=> Ends(s, x)
  BY <1>1, <1>2 DEF Ends, Ink
<1>4. PICK f \in Ink(s) : s[f] = OpenBrace /\ Leads(s, f)
  BY Zenon DEF Itemed
<1>5. s[x] = CloseBrace /\ InOrderTo(bytes, ItemBytes(s), p)
  BY DEF Itemed
<1>6. ItemStarts(s) \subseteq Ink(s) /\ (x \in ItemStarts(s) => ~Ends(s, x))
  BY ItemPlaces, Zenon
<1> HIDE DEF x, blank
<1>7. ASSUME Ends(s, x), \A i \in ItemStarts(s) : i <= p => IsItem(s, i)
      PROVE  \A i \in ItemStarts(s) : i <= p /\ IsItem(s, i)
  BY <1>1, <1>2, <1>6, <1>7, ItemPlaces DEF Ends
<1>8. CASE Opened(s, p) /\ \A i \in ItemStarts(s) : i <= p => IsItem(s, i)
  <2>1. x \in ItemStarts(s) <=> ~Ends(s, x)
    BY <1>1, <1>8, NextItem, Zenon DEF x
  <2>2. ASSUME bytes # <<>>, blank PROVE Means(s, bytes)
    BY <1>2, <1>3, <1>4, <1>5, <1>7, <1>8, <2>2, ItemedWhole, Zenon
  <2>3. ASSUME ~blank PROVE ~Readable(s)
    <3>1. x \in ItemStarts(s) /\ ~IsItem(s, x)
      BY <1>3, <1>5, <2>1, <2>3, Apart, Zenon DEF IsItem
    <3> QED
      BY <1>4, <3>1, Readables, Zenon
  <2>4. ASSUME bytes = <<>>, blank PROVE ~Readable(s)
    <3>1. Rank(ItemBytes(s), p) = 0
      BY <1>5, <2>4 DEF InOrderTo
    <3>2. DOMAIN ItemBytes(s) = ItemStarts(s) /\ DOMAIN ItemBytes(s) \subseteq 1 .. Len(s) /\ p \in Int
      BY <1>1, ItemPlaces
    <3>3. \A i \in DOMAIN ItemBytes(s) : ~(i <= p)
      BY <1>1, <3>1, <3>2, RankBounds, Zenon
    <3>4. ItemStarts(s) = {}
      BY <1>3, <1>7, <1>8, <2>4, <3>2, <3>3, Zenon
    <3> QED
      BY <1>4, <3>4, Readables, Zenon
  <2> QED
    BY <2>2, <2>3, <2>4 DEF blank
<1>9. CASE Closing(s, p, bytes)
  <2>1. p + 1 \in Ink(s)
    BY <1>9 DEF Closing
  <2>2. x = p + 1
    BY <1>1, <1>2, <2>1
  <2>3. /\ bytes # <<>>
        /\ Ends(s, x) => \A i \in ItemStarts(s) : i <= p => IsItem(s, i)
        /\ ~Ends(s, x) => \E i \in ItemStarts(s) : ~IsItem(s, i)
    BY <1>9, <2>2, Zenon DEF Closing
  <2>4. ASSUME blank PROVE Means(s, bytes)
    BY <1>2, <1>3, <1>4, <1>5, <1>7, <2>3, <2>4, ItemedWhole, Zenon
  <2>5. ASSUME ~blank PROVE ~Readable(s)
    BY <1>3, <1>4, <2>3, <2>5, Readables, Zenon
  <2> QED
    BY <2>3, <2>4, <2>5 DEF blank
<1> QED
  BY <1>8, <1>9 DEF Itemed

\* What cannot be a value, where a value or the end should be.
LEMMA ItemedBadly ==
    ASSUME NEW s \in Seq(Chars), NEW p \in 0 .. Len(s), NEW q \in p .. Len(s), q < Len(s),
           NEW bytes, Itemed(s, p, bytes), \A i \in p + 1 .. q : s[i] = Space,
           s[q + 1] # Space, s[q + 1] # CloseBrace, ~IsItem(s, q + 1)
    PROVE  ~Readable(s)
<1> DEFINE x == q + 1
<1>1. PICK f \in Ink(s) : s[f] = OpenBrace /\ Leads(s, f)
  BY Zenon DEF Itemed
<1>2. Len(s) \in Nat /\ p \in Nat /\ q \in Nat
  OBVIOUS
<1>3. ~Closing(s, p, bytes)
  <2>1. ASSUME p + 1 \in Ink(s), s[p + 1] = CloseBrace PROVE FALSE
    <3>1. p + 1 \in 1 .. Len(s) /\ s[p + 1] # Space
      BY <2>1 DEF Ink
    <3>2. q = p
      BY <1>2, <3>1
    <3> QED
      BY <2>1, <3>2
  <2> QED
    BY <2>1, Zenon DEF Closing
<1>4. Opened(s, p)
  BY <1>3, Zenon DEF Itemed
<1>5. x \in ItemStarts(s) \/ Ends(s, x)
  BY <1>4, NextItem, Zenon
<1> QED
  BY <1>1, <1>5, Readables, Zenon

\* Two digits at most.
LEMMA ItemTooLong ==
    ASSUME NEW s \in Seq(Chars), NEW p \in 0 .. Len(s), NEW q \in p .. Len(s), q < Len(s),
           NEW bytes, Itemed(s, p, bytes), \A i \in p + 1 .. q : s[i] = Space,
           s[q + 1] # Space, s[q + 1] # CloseBrace, q + 5 <= Len(s),
           s[q + 4] \in Digits, s[q + 5] \in Digits
    PROVE  ~Readable(s)
<1> DEFINE x == q + 1
           j == q + 5
<1>1. /\ Len(s) \in Nat /\ q \in Nat /\ x \in Nat /\ x + 3 = q + 4 /\ x + 3 <= Len(s)
      /\ j \in 1 .. Len(s)
  OBVIOUS
<1>2. LastDigit(s, x) = q + 4
  BY <1>1 DEF LastDigit
<1>3. s[j] # Space /\ s[j] # Comma /\ s[j] # CloseBrace
  BY Apart
<1>4. j \in Ink(s)
  BY <1>1, <1>3 DEF Ink
<1>5. Follows(s, q + 4, j)
  BY <1>1 DEF Follows, Ink
<1>6. PICK f \in Ink(s) : s[f] = OpenBrace /\ Leads(s, f)
  BY Zenon DEF Itemed
<1> HIDE DEF j
<1>7. CASE Ends(s, j)
  BY <1>3, <1>6, <1>7, Readables, Zenon
<1>8. CASE ~Ends(s, j)
  <2>1. ~IsItem(s, x)
    BY <1>1, <1>2, <1>3, <1>4, <1>5, <1>8, ItemJudged, Zenon
  <2> QED
    BY <2>1, ItemedBadly, Zenon
<1> QED
  BY <1>7, <1>8

\* The value of the one digit, or of the two, that stand from q + 3 to e.
ItemValue(s, q, e) ==
    IF e = q + 3 THEN Value(s[q + 3]) ELSE 16 * Value(s[q + 3]) + Value(s[q + 4])

\* A value whose digits end at place e, and what stands at r + 1, after whitespace.
LEMMA ItemedMore ==
    ASSUME NEW s \in Seq(Chars), NEW p \in 0 .. Len(s), NEW q \in p .. Len(s), q < Len(s),
           NEW bytes \in Seq(0 .. 255), Itemed(s, p, bytes), \A i \in p + 1 .. q : s[i] = Space,
           s[q + 1] = "0", s[q + 2] = "x", s[q + 3] \in Digits, q + 3 <= Len(s),
           NEW e, e = LastDigit(s, q + 1), NEW r \in e .. Len(s), \A i \in e + 1 .. r : s[i] = Space,
           r < Len(s) => s[r + 1] # Space
    PROVE  /\ r = Len(s) => ~Readable(s)
           /\ r < Len(s) /\ s[r + 1] # CloseBrace /\ s[r + 1] # Comma => ~Readable(s)
           /\ r < Len(s) /\ s[r + 1] = CloseBrace
                => Itemed(s, r, Append(bytes, ItemValue(s, q, e)))
           /\ r < Len(s) /\ s[r + 1] = Comma
                => Itemed(s, r + 1, Append(bytes, ItemValue(s, q, e)))
<1> DEFINE byte == ItemValue(s, q, e)
           at == ItemBytes(s)
           x  == q + 1
           y  == r + 1
           more == Append(bytes, byte)
<1>1. /\ Len(s) \in Nat /\ p \in Nat /\ q \in Nat /\ x \in Nat /\ x \in 1 .. Len(s)
      /\ x + 1 = q + 2 /\ x + 2 = q + 3 /\ x + 3 = q + 4 /\ p < x
  OBVIOUS
<1>2. /\ e = q + 3 \/ (e = q + 4 /\ q + 4 <= Len(s) /\ s[q + 4] \in Digits)
      /\ e \in Nat /\ e <= Len(s) /\ r \in Nat /\ e <= r /\ y \in Nat /\ r < y
  <2>1. e = IF x + 3 <= Len(s) /\ s[x + 3] \in Digits THEN x + 3 ELSE x + 2
    BY Zenon DEF LastDigit
  <2>2. e = q + 3 \/ (e = q + 4 /\ q + 4 <= Len(s) /\ s[q + 4] \in Digits)
    BY <1>1, <2>1
  <2>3. e \in Nat /\ e <= Len(s)
    BY <1>1, <2>2
  <2> QED
    BY <1>1, <2>2, <2>3
<1>3. PICK f \in Ink(s) : f <= p /\ s[f] = OpenBrace /\ Leads(s, f)
  BY Zenon DEF Itemed
<1>4. \A k \in q + 1 .. e : s[k] # Space /\ s[k] # Comma /\ s[k] # CloseBrace /\ k \in Ink(s)
  <2>1. \A k \in q + 1 .. e : k \in 1 .. Len(s) /\ (k = q + 1 \/ k = q + 2 \/ k = q + 3 \/ k = q + 4)
    BY <1>1, <1>2
  <2>2. \A k \in q + 1 .. e : s[k] \in Digits \cup {"x"}
    BY <1>2, <2>1, Apart, SMTT(30)
  <2>3. \A k \in q + 1 .. e : s[k] # Space /\ s[k] # Comma /\ s[k] # CloseBrace
    BY <2>2, Apart, Zenon
  <2> QED
    BY <2>1, <2>3 DEF Ink
<1>5. q + 1 \in q + 1 .. e /\ q + 2 \in q + 1 .. e /\ e \in q + 1 .. e
  BY <1>1, <1>2
<1>6. \A k \in Ink(s) : k \in Int /\ k <= Len(s) /\ (k <= p \/ k \in q + 1 .. e \/ r < k)
  BY <1>1, <1>2, SMTT(30) DEF Ink
<1>7. ~Closing(s, p, bytes)
  <2>1. ASSUME p + 1 \in Ink(s), s[p + 1] = CloseBrace PROVE FALSE
    <3>1. p + 1 \in 1 .. Len(s) /\ s[p + 1] # Space
      BY <2>1 DEF Ink
    <3>2. q = p
      BY <1>1, <3>1
    <3> QED
      BY <1>4, <1>5, <2>1, <3>2
  <2> QED
    BY <2>1, Zenon DEF Closing
<1>8. Opened(s, p) /\ \A i \in ItemStarts(s) : i <= p => IsItem(s, i)
  BY <1>7, Zenon DEF Itemed
<1>9. x \in ItemStarts(s)
  <2>1. ~Ends(s, x)
    BY <1>1, <1>4, <1>5 DEF Ends
  <2>2. s[q + 1] # Space
    BY <1>4, <1>5
  <2> QED
    BY <1>8, <2>1, <2>2, NextItem, Zenon
<1>10. ASSUME NEW k \in q + 2 .. e PROVE k \notin ItemStarts(s)
  <2> DEFINE j == k - 1
  <2>1. j \in q + 1 .. e /\ k \in q + 1 .. e /\ f < j /\ j < k /\ j \in Int /\ k \in Int /\ k = j + 1
    BY <1>1, <1>2, <1>3, <1>6, <1>10
  <2> HIDE DEF j
  <2>2. Follows(s, j, k)
    BY <1>6, <2>1 DEF Follows
  <2> QED
    BY <1>3, <1>4, <2>1, <2>2, NoItem
<1>11. ASSUME r < Len(s)
       PROVE  /\ y \in Ink(s) /\ Follows(s, e, y) /\ y \notin ItemStarts(s)
              /\ IsItem(s, x) <=> s[y] = Comma \/ Ends(s, y)
  <2>1. y \in 1 .. Len(s) /\ s[y] # Space
    BY <1>2, <1>11
  <2>2. y \in Ink(s)
    BY <2>1 DEF Ink
  <2>3. Follows(s, e, y)
    BY <1>1, <1>2, <1>6, SMTT(30) DEF Follows
  <2>4. y \notin ItemStarts(s)
    <3>1. f < e
      BY <1>1, <1>2, <1>3, <1>6
    <3> QED
      BY <1>3, <1>4, <1>5, <2>2, <2>3, <3>1, NoItem, Zenon
  <2>5. x + 2 <= Len(s) /\ s[x] = "0" /\ s[x + 1] = "x" /\ s[x + 2] \in Digits
    BY <1>1
  <2>6. IsItem(s, x) <=> s[y] = Comma \/ Ends(s, y)
    BY <1>1, <2>2, <2>3, <2>5, ItemJudged, Zenon
  <2> QED
    BY <2>2, <2>3, <2>4, <2>6
<1>12. \A i \in ItemStarts(s) : i \in Int /\ (i <= p \/ i = x \/ r < i)
  <2>1. ItemStarts(s) \subseteq Ink(s)
    BY ItemPlaces
  <2> QED
    BY <1>1, <1>2, <1>6, <1>10, <2>1
<1>13. DOMAIN at = ItemStarts(s) /\ ItemStarts(s) \subseteq 1 .. Len(s)
  BY ItemPlaces
<1>14. at[x] = byte
  <2>1. at[x] = IF LastDigit(s, x) = x + 2 THEN Value(s[x + 2])
                ELSE 16 * Value(s[x + 2]) + Value(s[x + 3])
    BY <1>9 DEF ItemBytes
  <2> QED
    BY <1>1, <2>1 DEF ItemValue
<1>15. byte \in 0 .. 255
  <2>1. s[q + 3] \in Digits /\ (e = q + 4 => s[q + 4] \in Digits)
    BY <1>1, <1>2
  <2>2. Value(s[q + 3]) \in 0 .. 255
    <3>1. Value(s[q + 3]) \in 0 .. 15
      BY <2>1, DigitValue, Zenon
    <3> QED
      BY <3>1
  <2>3. e = q + 4 => 16 * Value(s[q + 3]) + Value(s[q + 4]) \in 0 .. 255
    BY <2>1, DigitValue, Zenon
  <2> QED
    BY <1>2, <2>2, <2>3 DEF ItemValue
<1> HIDE DEF at, byte
<1>16. InOrderTo(more, at, r)
  <2>1. /\ r \in Nat /\ p < x /\ x <= r /\ x \in DOMAIN at /\ at[x] \in 0 .. 255
        /\ DOMAIN at \subseteq 1 .. Len(s) /\ \A i \in DOMAIN at : i <= p \/ i = x \/ r < i
    BY <1>1, <1>2, <1>9, <1>12, <1>13, <1>14, <1>15
  <2>2. InOrderTo(bytes, at, p)
    BY DEF Itemed, at
  <2>3. InOrderTo(Append(bytes, at[x]), at, r)
    BY <1>1, <2>1, <2>2, OrderGrows, Zenon
  <2> QED
    BY <1>14, <2>3, Zenon
<1>17. more # <<>>
  <2>1. Len(more) = Len(bytes) + 1 /\ Len(bytes) \in Nat
    BY <1>15
  <2>2. Len(<<>>) = 0
    OBVIOUS
  <2> HIDE DEF more
  <2> QED
    BY <2>1, <2>2
<1> HIDE DEF more
<1>18. \E g \in Ink(s) : g <= r /\ g <= y /\ s[g] = OpenBrace /\ Leads(s, g)
  <2>1. f <= r /\ f <= y
    BY <1>1, <1>2, <1>3, <1>6
  <2> QED
    BY <1>3, <2>1
<1>19. ASSUME IsItem(s, x) PROVE \A i \in ItemStarts(s) : i <= r => IsItem(s, i)
  BY <1>2, <1>8, <1>12, <1>19
<1>20. ASSUME r = Len(s) PROVE ~Readable(s)
  <2>1. Ends(s, e)
    BY <1>1, <1>2, <1>4, <1>5, <1>6, <1>20 DEF Ends
  <2>2. s[e] # CloseBrace
    BY <1>4, <1>5
  <2> QED
    BY <1>3, <2>1, <2>2, Readables, Zenon
<1>21. ASSUME r < Len(s), s[y] # CloseBrace, s[y] # Comma PROVE ~Readable(s)
  <2>1. CASE Ends(s, y)
    BY <1>3, <1>21, <2>1, Readables, Zenon
  <2>2. CASE ~Ends(s, y)
    BY <1>3, <1>9, <1>11, <1>21, <2>2, Readables, Zenon
  <2> QED
    BY <2>1, <2>2
<1>22. ASSUME r < Len(s), s[y] = CloseBrace PROVE Itemed(s, r, more)
  <2>1. s[y] # Comma
    BY <1>22, Apart
  <2>2. /\ Ends(s, y) => \A i \in ItemStarts(s) : i <= r => IsItem(s, i)
        /\ ~Ends(s, y) => \E i \in ItemStarts(s) : ~IsItem(s, i)
    BY <1>9, <1>11, <1>19, <1>22, <2>1, Zenon
  <2>3. Closing(s, r, more)
    BY <1>11, <1>17, <1>22, <2>2, Zenon DEF Closing
  <2> QED
    BY <1>16, <1>18, <2>3, Zenon DEF Itemed, at
<1>23. ASSUME r < Len(s), s[y] = Comma PROVE Itemed(s, y, more)
  <2>1. Opened(s, y)
    <3>1. y <= y /\ \A k \in Ink(s) : k <= y \/ y < k
      BY <1>2, <1>6
    <3> QED
      BY <1>11, <1>23, <3>1, Zenon DEF Opened
  <2>2. \A i \in ItemStarts(s) : i <= y => i <= r
    BY <1>2, <1>11, <1>12, <1>23
  <2>3. \A i \in ItemStarts(s) : i <= y => IsItem(s, i)
    BY <1>11, <1>19, <1>23, <2>2, Zenon
  <2>4. InOrderTo(more, at, y)
    <3>1. /\ y \in Nat /\ r \in Nat /\ r <= y /\ DOMAIN at \subseteq 1 .. Len(s)
          /\ \A i \in DOMAIN at : i <= r \/ y < i
      BY <1>2, <1>12, <1>13, <2>2
    <3> QED
      BY <1>1, <1>16, <3>1, OrderKept, Zenon
  <2> QED
    BY <1>18, <2>1, <2>3, <2>4, Zenon DEF Itemed, at
<1> HIDE DEF y
<1>24. /\ r = Len(s) => ~Readable(s)
       /\ r < Len(s) /\ s[y] # CloseBrace /\ s[y] # Comma => ~Readable(s)
       /\ r < Len(s) /\ s[y] = CloseBrace => Itemed(s, r, more)
       /\ r < Len(s) /\ s[y] = Comma => Itemed(s, y, more)
  BY <1>20, <1>21, <1>22, <1>23
<1> QED
  BY <1>24 DEF y, more, byte

\* The groups reach the end of the text.
LEMMA GroupedWhole ==
    ASSUME NEW s \in Seq(Chars), NEW f, Leads(s, f), NEW n \in {2, 4}, NEW bytes \in Seq(0 .. 255),
           Grouped(s, n, Len(s), bytes),
           (\A i \in GroupStarts(s, n) : IsGroup(s, i, n)) => Readable(s),
           BytesAt(s) = GroupBytes(s, n)
    PROVE  Means(s, bytes) /\ bytes # <<>>
<1> DEFINE at == GroupBytes(s, n)
<1>1. DOMAIN at = GroupStarts(s, n) /\ GroupStarts(s, n) \subseteq 1 .. Len(s) /\ Len(s) \in Nat
  BY GroupPlaces
<1>2. InOrderTo(bytes, at, Len(s)) /\ \A i \in GroupStarts(s, n) : IsGroup(s, i, n)
  BY <1>1 DEF Grouped
<1>3. Means(s, bytes)
  BY <1>2, Zenon DEF Means
<1>4. f \in GroupStarts(s, n)
  <2> DEFINE p == f - 1
  <2>1. f \in Ink(s) /\ f \in 1 .. Len(s) /\ p \in 0 .. Len(s) /\ p + 1 = f
        /\ \A i \in 1 .. p : s[i] = Space
    BY <1>1 DEF Leads, Ink
  <2> HIDE DEF p
  <2>2. Grouped(s, n, p, <<>>)
    BY <2>1, GroupedFirst, Zenon
  <2> QED
    BY <2>1, <2>2 DEF Grouped
<1> HIDE DEF at
<1>5. Rank(at, Len(s)) >= 1
  <2>1. f \in DOMAIN at /\ f <= Len(s) /\ Len(s) \in Int
    BY <1>1, <1>4
  <2> QED
    BY <1>1, <2>1, RankBounds, Zenon
<1>6. Len(bytes) >= 1
  BY <1>2, <1>5 DEF InOrderTo
<1> QED
  BY <1>3, <1>6

\* What stands after p is not a group.
LEMMA GroupedBadly ==
    ASSUME NEW s \in Seq(Chars), NEW n \in {2, 4}, NEW p \in 0 .. Len(s), p < Len(s),
           NEW bytes, Grouped(s, n, p, bytes), s[p + 1] # Space, ~IsGroup(s, p + 1, n),
           Readable(s) => \A i \in GroupStarts(s, n) : IsGroup(s, i, n)
    PROVE  ~Readable(s)
<1>1. p + 1 \in Ink(s)
  BY DEF Ink
<1> QED
  BY <1>1, Zenon DEF Grouped

-----------------------------------------------------------------------------
(* What format_code_text writes.                                           *)

\* The bytes of the digits.
DigitBytes == { 16 * Value(d) + Value(e) : d \in Digits, e \in Digits }

\* Two digits, or one, are such a byte.
LEMMA DigitsByte ==
    /\ \A d, e \in Digits : 16 * Value(d) + Value(e) \in DigitBytes
    /\ \A d \in Digits : Value(d) \in DigitBytes
<1>1. ASSUME NEW d \in Digits, NEW e \in Digits PROVE 16 * Value(d) + Value(e) \in DigitBytes
  BY DEF DigitBytes
<1>2. ASSUME NEW d \in Digits PROVE Value(d) \in DigitBytes
  <2>1. "0" \in Digits /\ Value("0") = 0
    BY DEF Digits, Value
  <2>2. Value(d) \in 0 .. 15
    BY DigitValue
  <2>3. 16 * Value("0") + Value(d) = Value(d)
    BY <2>1, <2>2
  <2> QED
    BY <1>1, <2>1, <2>3
<1> QED
  BY <1>1, <1>2

\* The digits of a byte are those of its halves.
LEMMA ByteDigits ==
    ASSUME NEW x \in DigitBytes
    PROVE  LET Digit(v) == CHOOSE d \in Digits : Value(d) = v
           IN  /\ Digit(x \div 16) \in Digits /\ Digit(x % 16) \in Digits
               /\ 16 * Value(Digit(x \div 16)) + Value(Digit(x % 16)) = x
               /\ x \in 0 .. 255
<1> DEFINE Digit(v) == CHOOSE d \in Digits : Value(d) = v
<1>1. PICK d \in Digits, e \in Digits : x = 16 * Value(d) + Value(e)
  BY DEF DigitBytes
<1>2. Value(d) \in 0 .. 15 /\ Value(e) \in 0 .. 15
  BY DigitValue, Zenon
<1>3. x \div 16 = Value(d) /\ x % 16 = Value(e) /\ x \in 0 .. 255
  <2> DEFINE v == Value(d)
             w == Value(e)
  <2>1. v \in 0 .. 15 /\ w \in 0 .. 15 /\ x = 16 * v + w
    BY <1>1, <1>2
  <2> HIDE DEF v, w
  <2>2. x \div 16 = v /\ x % 16 = w /\ x \in 0 .. 255
    BY <2>1
  <2> QED
    BY <2>2 DEF v, w
<1>4. \A v : (\E c \in Digits : Value(c) = v) => Digit(v) \in Digits /\ Value(Digit(v)) = v
  BY Zenon
<1>5. Digit(x \div 16) \in Digits /\ Value(Digit(x \div 16)) = Value(d)
  BY <1>3, <1>4, Zenon
<1>6. Digit(x % 16) \in Digits /\ Value(Digit(x % 16)) = Value(e)
  BY <1>3, <1>4, Zenon
<1> HIDE DEF Digit
<1>7. 16 * Value(Digit(x \div 16)) + Value(Digit(x % 16)) = x
  BY <1>1, <1>5, <1>6, Zenon
<1>8. /\ Digit(x \div 16) \in Digits /\ Digit(x % 16) \in Digits
      /\ 16 * Value(Digit(x \div 16)) + Value(Digit(x % 16)) = x
      /\ x \in 0 .. 255
  BY <1>3, <1>5, <1>6, <1>7, Zenon
<1> QED
  BY <1>8, Zenon DEF Digit

\* Where the digits and the spaces are.
LEMMA FormatPlaces ==
    ASSUME NEW bytes \in Seq(DigitBytes), bytes # <<>>
    PROVE  LET s == format_code_text(bytes)
           IN  /\ s \in Seq(Chars) /\ Len(s) = 3 * Len(bytes) - 1 /\ Len(bytes) \in Nat \ {0}
               /\ \A k \in 1 .. Len(bytes) :
                    /\ s[3 * k - 2] \in Digits /\ s[3 * k - 1] \in Digits
                    /\ 16 * Value(s[3 * k - 2]) + Value(s[3 * k - 1]) = bytes[k]
                    /\ k < Len(bytes) => s[3 * k] = Space
<1> DEFINE Digit(v) == CHOOSE d \in Digits : Value(d) = v
           N == Len(bytes)
           high(k) == Digit(bytes[k] \div 16)
           low(k)  == Digit(bytes[k] % 16)
           s == format_code_text(bytes)
<1>1. N \in Nat \ {0} /\ \A k \in 1 .. N : bytes[k] \in DigitBytes
  OBVIOUS
<1>2. \A k \in 1 .. N : high(k) \in Digits /\ low(k) \in Digits
                        /\ 16 * Value(high(k)) + Value(low(k)) = bytes[k]
  BY <1>1, ByteDigits, Zenon
<1>3. s = [ i \in 1 .. 3 * N - 1 |->
              CASE i % 3 = 1 -> high((i + 2) \div 3)
                [] i % 3 = 2 -> low((i + 2) \div 3)
                [] i % 3 = 0 -> Space ]
  BY Zenon DEF format_code_text
<1> HIDE DEF high, low, s, N
<1>4. ASSUME NEW i \in 1 .. 3 * N - 1
      PROVE  s[i] = CASE i % 3 = 1 -> high((i + 2) \div 3)
                      [] i % 3 = 2 -> low((i + 2) \div 3)
                      [] i % 3 = 0 -> Space
  BY <1>3, <1>4
<1>5. ASSUME NEW k \in 1 .. N
      PROVE  /\ s[3 * k - 2] = high(k) /\ s[3 * k - 1] = low(k)
             /\ k < N => s[3 * k] = Space
  <2>1. /\ 3 * k - 2 \in 1 .. 3 * N - 1 /\ (3 * k - 2) % 3 = 1 /\ ((3 * k - 2) + 2) \div 3 = k
        /\ 3 * k - 1 \in 1 .. 3 * N - 1 /\ (3 * k - 1) % 3 = 2 /\ ((3 * k - 1) + 2) \div 3 = k
        /\ k < N => 3 * k \in 1 .. 3 * N - 1 /\ (3 * k) % 3 = 0
    BY <1>1, <1>5
  <2> DEFINE i1 == 3 * k - 2
             i2 == 3 * k - 1
             i3 == 3 * k
  <2> HIDE DEF i1, i2, i3
  <2>2. i1 \in 1 .. 3 * N - 1 /\ i1 % 3 = 1 /\ (i1 + 2) \div 3 = k
    BY <2>1, Zenon DEF i1
  <2>3. i2 \in 1 .. 3 * N - 1 /\ i2 % 3 = 2 /\ (i2 + 2) \div 3 = k
    BY <2>1, Zenon DEF i2
  <2>4. k < N => i3 \in 1 .. 3 * N - 1 /\ i3 % 3 = 0
    BY <2>1, Zenon DEF i3
  <2>5. s[i1] = high(k)
    BY <1>4, <2>2
  <2>6. s[i2] = low(k)
    BY <1>4, <2>3
  <2>7. k < N => s[i3] = Space
    BY <1>4, <2>4
  <2> QED
    BY <2>5, <2>6, <2>7 DEF i1, i2, i3
<1>6. ASSUME NEW i \in 1 .. 3 * N - 1 PROVE s[i] \in Chars
  <2> DEFINE k == (i + 2) \div 3
  <2>1. k \in 1 .. N /\ (i % 3 = 0 \/ i % 3 = 1 \/ i % 3 = 2)
    BY <1>1, <1>6
  <2> HIDE DEF k
  <2>2. s[i] = high(k) \/ s[i] = low(k) \/ s[i] = Space
    BY <1>4, <2>1 DEF k
  <2>3. Digits \subseteq Chars /\ Space \in Chars
    BY Zenon DEF Chars
  <2> QED
    BY <1>2, <2>1, <2>2, <2>3, Zenon
<1>7. s \in Seq(Chars) /\ Len(s) = 3 * N - 1
  <2>1. 3 * N - 1 \in Nat
    BY <1>1
  <2>2. s \in [1 .. 3 * N - 1 -> Chars]
    BY <1>3, <1>6
  <2> QED
    BY <2>1, <2>2
<1>8. ASSUME NEW k \in 1 .. N
      PROVE  /\ s[3 * k - 2] \in Digits /\ s[3 * k - 1] \in Digits
             /\ 16 * Value(s[3 * k - 2]) + Value(s[3 * k - 1]) = bytes[k]
             /\ k < N => s[3 * k] = Space
  BY <1>2, <1>5, Zenon
<1> QED
  BY <1>1, <1>7, <1>8 DEF s, N

\* format_code_text writes a text that means its bytes.
LEMMA FormatMeans ==
    ASSUME NEW bytes \in Seq(DigitBytes), bytes # <<>>
    PROVE  Means(format_code_text(bytes), bytes)
<1> DEFINE s == format_code_text(bytes)
           N == Len(bytes)
           Pre(k) == [ i \in 1 .. k |-> bytes[i] ]
           Place(k) == IF k = N THEN 3 * N - 1 ELSE 3 * k
           S == { k \in 0 .. N : Grouped(s, 2, Place(k), Pre(k)) }
<1>1. s \in Seq(Chars) /\ Len(s) = 3 * N - 1 /\ N \in Nat \ {0}
  BY FormatPlaces
<1>2. \A k \in 1 .. N : /\ s[3 * k - 2] \in Digits /\ s[3 * k - 1] \in Digits
                        /\ 16 * Value(s[3 * k - 2]) + Value(s[3 * k - 1]) = bytes[k]
                        /\ k < N => s[3 * k] = Space
  BY FormatPlaces
<1>3. bytes \in Seq(0 .. 255) /\ \A k \in 1 .. N : bytes[k] \in 0 .. 255
  <2>1. \A x \in DigitBytes : x \in 0 .. 255
    BY ByteDigits
  <2>2. N \in Nat /\ bytes \in [1 .. N -> DigitBytes]
    OBVIOUS
  <2>3. bytes \in [1 .. N -> 0 .. 255]
    BY <2>1, <2>2
  <2> HIDE DEF N
  <2> QED
    BY <2>2, <2>3, SMTT(30)
<1> HIDE DEF s
<1>4. \A k \in 0 .. N : Pre(k) \in Seq(0 .. 255) /\ Len(Pre(k)) = k
  BY <1>1, <1>3
<1>5. 0 \in S
  <2>1. Pre(0) = <<>>
    BY <1>4
  <2>2. 0 \in 0 .. Len(s) /\ \A i \in 1 .. 0 : s[i] = Space
    BY <1>1
  <2>3. Grouped(s, 2, 0, <<>>)
    BY <1>1, <2>2, GroupedFirst
  <2>4. Place(0) = 0 /\ 0 \in 0 .. N
    BY <1>1
  <2> QED
    BY <2>1, <2>3, <2>4
<1>6. ASSUME NEW k \in 1 .. N, k - 1 \in S PROVE k \in S
  <2> DEFINE p == 3 * k - 3
  <2>1. /\ k \in Nat /\ k - 1 \in 0 .. N /\ p \in 0 .. Len(s) /\ p < Len(s) /\ p + 1 = 3 * k - 2
        /\ p + 2 = 3 * k - 1 /\ p + 3 = 3 * k /\ p + 2 - 1 = 3 * k - 2 /\ Place(k - 1) = p
        /\ p + 1 + 2 - 1 <= Len(s) /\ p + 1 + 2 - 2 = 3 * k - 2 /\ p + 1 + 2 - 1 = 3 * k - 1
    BY <1>1, <1>6
  <2>2. Grouped(s, 2, p, Pre(k - 1))
    BY <1>6, <2>1
  <2> HIDE DEF p
  <2>3. IsGroup(s, p + 1, 2)
    BY <1>2, <2>1, SMTT(30) DEF IsGroup
  <2>4. s[p + 1] # Space
    BY <1>2, <2>1, Apart
  <2>5. /\ p + 2 \in 0 .. Len(s)
        /\ Grouped(s, 2, p + 2, Append(Pre(k - 1), 16 * Value(s[p + 2 - 1]) + Value(s[p + 2])))
    <3>1. 2 \in {2, 4} /\ Pre(k - 1) \in Seq(0 .. 255)
      BY <1>4, <2>1
    <3> HIDE DEF Pre
    <3> QED
      BY <1>1, <2>1, <2>2, <2>3, <2>4, <3>1, GroupedMore, Zenon
  <2>6. 16 * Value(s[p + 2 - 1]) + Value(s[p + 2]) = bytes[k]
    BY <1>2, <2>1
  <2>7. Append(Pre(k - 1), bytes[k]) = Pre(k)
    <3> DEFINE a == Append(Pre(k - 1), bytes[k])
    <3>1. a \in Seq(0 .. 255) /\ Len(a) = k /\ \A i \in 1 .. k : a[i] = bytes[i]
      BY <1>3, <1>4, <2>1
    <3>2. Pre(k) \in Seq(0 .. 255) /\ Len(Pre(k)) = k /\ \A i \in 1 .. k : Pre(k)[i] = bytes[i]
      BY <1>4, <2>1
    <3> HIDE DEF a, Pre
    <3>3. a = Pre(k)
      BY <3>1, <3>2
    <3> QED
      BY <3>3 DEF a
  <2>8. Grouped(s, 2, 3 * k - 1, Pre(k))
    BY <2>1, <2>5, <2>6, <2>7
  <2> HIDE DEF Pre
  <2>9. CASE k = N
    BY <1>1, <2>8, <2>9
  <2>10. CASE k # N
    <3>1. /\ 3 * k - 1 \in 0 .. Len(s) /\ 3 * k \in 3 * k - 1 .. Len(s) /\ Place(k) = 3 * k
          /\ k < N /\ \A i \in (3 * k - 1) + 1 .. 3 * k : i = 3 * k
      BY <1>1, <2>1, <2>10
    <3>2. \A i \in (3 * k - 1) + 1 .. 3 * k : s[i] = Space
      BY <1>2, <3>1
    <3>3. Grouped(s, 2, 3 * k, Pre(k))
      <4>1. 2 \in {2, 4}
        OBVIOUS
      <4> QED
        BY <1>1, <2>8, <3>1, <3>2, <4>1, GroupedOn, Zenon
    <3> QED
      BY <2>1, <3>1, <3>3
  <2> QED
    BY <2>9, <2>10
<1>7. N \in S
  <2>1. 0 .. N \subseteq S
    <3> HIDE DEF S
    <3> QED
      BY <1>1, <1>5, <1>6, UpTo, Zenon
  <2>2. N \in 0 .. N
    BY <1>1
  <2> QED
    BY <2>1, <2>2, Zenon
<1>8. Grouped(s, 2, Len(s), bytes)
  <2>1. Pre(N) = bytes
    BY <1>3, <1>4
  <2> QED
    BY <1>1, <1>7, <2>1
<1>9. Leads(s, 1) /\ s[1] # OpenBrace /\ s[1] # Backslash
  <2>1. s[1] \in Digits /\ 1 \in 1 .. Len(s)
    BY <1>1, <1>2
  <2>2. s[1] # Space /\ s[1] # OpenBrace /\ s[1] # Backslash
    BY <2>1, Apart
  <2> QED
    BY <2>1, <2>2 DEF Leads, Ink
<1> HIDE DEF S, Pre, Place
<1>10. Means(s, bytes)
  <2>1. 2 \in {2, 4}
    OBVIOUS
  <2>2. /\ (\A i \in GroupStarts(s, 2) : IsGroup(s, i, 2)) => Readable(s)
        /\ BytesAt(s) = GroupBytes(s, 2)
    BY <1>1, <1>9, Readables, Zenon
  <2> QED
    BY <1>1, <1>3, <1>8, <1>9, <2>1, <2>2, GroupedWhole, Zenon
<1> QED
  BY <1>10 DEF s

-----------------------------------------------------------------------------
(* The parser.                                                             *)

\* What the loop of a notation has found up to its position, and what the parser
\* has decided.
Judged(s, loop, p, bytes) ==
    /\ loop = "pairs" => /\ Grouped(s, 2, p, bytes)
                         /\ \E f : Leads(s, f) /\ s[f] # OpenBrace /\ s[f] # Backslash
    /\ loop = "escapes" => Grouped(s, 4, p, bytes) /\ \E f : Leads(s, f) /\ s[f] = Backslash
    /\ loop = "braces" => Itemed(s, p, bytes)
    /\ loop = "parsed" => Means(s, bytes) /\ bytes # <<>>
    /\ loop = "invalid" => ~Readable(s)
ParseInv == Judged(text, notation, position, parsed) /\ parsed \in Seq(DigitBytes)

\* Whitespace is passed.
LEMMA SkipPlaces ==
    ASSUME text \in Seq(Chars), NEW p \in 0 .. Len(text), NEW q, q = skip_whitespace(p)
    PROVE  /\ q \in p .. Len(text) /\ q \in 0 .. Len(text) /\ Len(text) \in Nat
           /\ \A i \in p + 1 .. q : text[i] = Space
           /\ q < Len(text) => text[q + 1] # Space
<1>1. /\ q \in p .. Len(text)
      /\ \A r \in p .. q - 1 : text[r + 1] \in {Space}
      /\ q = Len(text) \/ text[q + 1] \notin {Space}
  <2>1. p \in 0 .. Size
    BY DEF Size
  <2> QED
    BY <2>1, SkipStops, Zenon DEF skip_whitespace, Size, Char
<1>2. ASSUME NEW i \in p + 1 .. q PROVE text[i] = Space
  <2> DEFINE r == i - 1
  <2>1. r \in p .. q - 1 /\ r + 1 = i
    BY <1>1, <1>2
  <2> HIDE DEF r
  <2> QED
    BY <1>1, <2>1
<1> QED
  BY <1>1, <1>2

\* The outcomes of a step, on the invariant.
LEMMA Outcomes ==
    ASSUME ParseInv
    PROVE  /\ Invalid /\ ~Readable(text) => ParseInv'
           /\ Parsed(parsed) /\ Means(text, parsed) /\ parsed # <<>> => ParseInv'
           /\ \A loop, p, bytes : /\ Continue(loop, p, bytes) /\ Judged(text, loop, p, bytes)
                                 /\ bytes \in Seq(DigitBytes)
                                => ParseInv'
<1>1. ASSUME Invalid, ~Readable(text) PROVE ParseInv'
  BY <1>1 DEF Invalid, ParseInv, Judged
<1>2. ASSUME Parsed(parsed), Means(text, parsed), parsed # <<>> PROVE ParseInv'
  BY <1>2 DEF Parsed, ParseInv, Judged
<1>3. ASSUME NEW loop, NEW p, NEW bytes, Continue(loop, p, bytes), Judged(text, loop, p, bytes),
             bytes \in Seq(DigitBytes)
      PROVE  ParseInv'
  BY <1>3 DEF Continue, ParseInv
<1> QED
  BY <1>1, <1>2, <1>3

\* The first character chooses the notation.
LEMMA StartAgrees == ASSUME TextOK, ParseInv, StartParse PROVE ParseInv'
<1> DEFINE p == skip_whitespace(0)
<1>1. text \in Seq(Chars) /\ 0 \in 0 .. Len(text)
  BY DEF TextOK
<1>2. /\ p \in 0 .. Len(text) /\ Len(text) \in Nat
      /\ \A i \in 1 .. p : text[i] = Space
      /\ p < Len(text) => text[p + 1] # Space
  BY <1>1, SkipPlaces
<1>3. /\ p = Len(text) => Invalid
      /\ p < Len(text) /\ text[p + 1] = OpenBrace => Continue("braces", p + 1, <<>>)
      /\ p < Len(text) /\ text[p + 1] = Backslash => Continue("escapes", p, <<>>)
      /\ p < Len(text) /\ text[p + 1] # OpenBrace /\ text[p + 1] # Backslash
            => Continue("pairs", p, <<>>)
  <2> HIDE DEF p
  <2>1. CASE p = Len(text)
    BY <1>2, <2>1 DEF StartParse, Size, Char, p
  <2>2. CASE p < Len(text)
    BY <1>2, <2>2, Apart DEF StartParse, Size, Char, p
  <2> QED
    BY <1>2, <2>1, <2>2
<1> HIDE DEF p
<1>4. <<>> \in Seq(DigitBytes)
  OBVIOUS
<1>5. CASE p = Len(text)
  <2>1. Ink(text) = {}
    BY <1>2, <1>5 DEF Ink
  <2>2. ~Readable(text)
    BY <2>1, Zenon DEF Readable
  <2> QED
    BY <1>3, <1>5, <2>2, Outcomes
<1>6. CASE p < Len(text)
  <2>1. Leads(text, p + 1)
    BY <1>2, <1>6 DEF Leads, Ink
  <2>2. CASE text[p + 1] = OpenBrace
    <3>1. Itemed(text, p + 1, <<>>)
      BY <1>1, <1>2, <1>6, <2>2, ItemedFirst, Zenon
    <3>2. Judged(text, "braces", p + 1, <<>>)
      BY <3>1 DEF Judged
    <3> QED
      BY <1>3, <1>4, <1>6, <2>2, <3>2, Outcomes, Zenon
  <2>3. CASE text[p + 1] = Backslash
    <3>1. 4 \in {2, 4}
      OBVIOUS
    <3>2. Grouped(text, 4, p, <<>>)
      BY <1>1, <1>2, <3>1, GroupedFirst, Zenon
    <3>3. Judged(text, "escapes", p, <<>>)
      BY <2>1, <2>3, <3>2 DEF Judged
    <3> QED
      BY <1>3, <1>4, <1>6, <2>3, <3>3, Outcomes, Zenon
  <2>4. CASE text[p + 1] # OpenBrace /\ text[p + 1] # Backslash
    <3>1. 2 \in {2, 4}
      OBVIOUS
    <3>2. Grouped(text, 2, p, <<>>)
      BY <1>1, <1>2, <3>1, GroupedFirst, Zenon
    <3>3. Judged(text, "pairs", p, <<>>)
      BY <2>1, <2>4, <3>2 DEF Judged
    <3> QED
      BY <1>3, <1>4, <1>6, <2>4, <3>3, Outcomes, Zenon
  <2> QED
    BY <2>2, <2>3, <2>4
<1> QED
  BY <1>2, <1>5, <1>6

\* Hex pairs.
LEMMA PairsAgree == ASSUME TextOK, ParseInv, ParsePairs PROVE ParseInv'
<1> DEFINE p == position
           byte == 16 * Value(text[p + 1]) + Value(text[p + 2])
<1>1. /\ text \in Seq(Chars) /\ Len(text) \in Nat /\ p \in 0 .. Len(text) /\ parsed \in Seq(0 .. 255)
      /\ 2 \in {2, 4}
  BY DEF TextOK, Size
<1>2. Grouped(text, 2, p, parsed)
  BY DEF ParseInv, Judged, ParsePairs
<1>3. PICK f : Leads(text, f) /\ text[f] # OpenBrace /\ text[f] # Backslash
  BY Zenon DEF ParseInv, Judged, ParsePairs
<1>4. /\ Readable(text) <=> \A i \in GroupStarts(text, 2) : IsGroup(text, i, 2)
      /\ BytesAt(text) = GroupBytes(text, 2)
  BY <1>1, <1>3, Readables, Zenon
<1>5. parsed \in Seq(DigitBytes)
  BY DEF ParseInv
<1>6. CASE p = Len(text)
  <2>1. Parsed(parsed)
    BY <1>6 DEF ParsePairs, Size
  <2>2. Means(text, parsed) /\ parsed # <<>>
    BY <1>1, <1>2, <1>3, <1>4, <1>6, GroupedWhole, Zenon
  <2> QED
    BY <2>1, <2>2, Outcomes, Zenon
<1>7. CASE p # Len(text) /\ text[p + 1] = Space
  <2>1. Continue("pairs", p + 1, parsed)
    BY <1>7 DEF ParsePairs, Size, Char
  <2>2. p + 1 \in p .. Len(text) /\ \A i \in p + 1 .. p + 1 : text[i] = Space
    BY <1>1, <1>7
  <2>3. Grouped(text, 2, p + 1, parsed)
    BY <1>1, <1>2, <2>2, GroupedOn, Zenon
  <2>4. Judged(text, "pairs", p + 1, parsed)
    BY <1>3, <2>3 DEF Judged
  <2> QED
    BY <1>5, <2>1, <2>4, Outcomes, Zenon
<1>8. CASE p # Len(text) /\ text[p + 1] # Space
  <2>1. p < Len(text) /\ p + 2 - 1 = p + 1 /\ p \in Nat
    BY <1>1, <1>8
  <2>2. parse_byte_ok(p) <=> IsGroup(text, p + 1, 2)
    BY <1>1, <2>1 DEF parse_byte_ok, IsGroup, Size, Char
  <2>3. CASE parse_byte_ok(p)
    <3>1. Continue("pairs", p + 2, Append(parsed, byte))
      <4>1. Continue("pairs", p + 2, Append(parsed, parse_byte(p)))
        BY <1>8, <2>3 DEF ParsePairs, Size, Char
      <4>2. (p + 1) + 1 = p + 2
        BY <2>1
      <4>3. parse_byte(p) = byte
        BY <4>2, Zenon DEF parse_byte, Char
      <4> QED
        BY <4>1, <4>3, Zenon
    <3>2. Grouped(text, 2, p + 2, Append(parsed, 16 * Value(text[p + 2 - 1]) + Value(text[p + 2])))
      BY <1>1, <1>2, <1>8, <2>1, <2>2, <2>3, GroupedMore, Zenon
    <3>3. Grouped(text, 2, p + 2, Append(parsed, byte))
      BY <2>1, <3>2, Zenon
    <3>4. Judged(text, "pairs", p + 2, Append(parsed, byte))
      BY <1>3, <3>3 DEF Judged
    <3>5. text[p + 1] \in Digits /\ text[p + 2] \in Digits
      BY <2>1, <2>3 DEF parse_byte_ok, Char
    <3>6. byte \in DigitBytes
      BY <3>5, DigitsByte, Zenon
    <3> HIDE DEF byte
    <3>7. Append(parsed, byte) \in Seq(DigitBytes)
      BY <1>5, <3>6
    <3> QED
      BY <3>1, <3>4, <3>7, Outcomes, Zenon
  <2>4. CASE ~parse_byte_ok(p)
    <3>1. Invalid
      BY <1>8, <2>4 DEF ParsePairs, Size, Char
    <3>2. ~Readable(text)
      BY <1>1, <1>2, <1>4, <1>8, <2>1, <2>2, <2>4, GroupedBadly, Zenon
    <3> QED
      BY <3>1, <3>2, Outcomes, Zenon
  <2> QED
    BY <2>3, <2>4
<1> QED
  BY <1>6, <1>7, <1>8

\* Escapes.
LEMMA EscapesAgree == ASSUME TextOK, ParseInv, ParseEscapes PROVE ParseInv'
<1> DEFINE p == skip_whitespace(position)
           byte == 16 * Value(text[p + 3]) + Value(text[p + 4])
<1>1. /\ text \in Seq(Chars) /\ Len(text) \in Nat /\ position \in 0 .. Len(text)
      /\ parsed \in Seq(0 .. 255) /\ 4 \in {2, 4}
  BY DEF TextOK, Size
<1>2. /\ p \in position .. Len(text) /\ p \in 0 .. Len(text)
      /\ \A i \in position + 1 .. p : text[i] = Space
      /\ p < Len(text) => text[p + 1] # Space
  BY <1>1, SkipPlaces
<1>3. Grouped(text, 4, position, parsed)
  BY DEF ParseInv, Judged, ParseEscapes
<1>4. PICK f : Leads(text, f) /\ text[f] = Backslash
  BY Zenon DEF ParseInv, Judged, ParseEscapes
<1>5. /\ Readable(text) <=> \A i \in GroupStarts(text, 4) : IsGroup(text, i, 4)
      /\ BytesAt(text) = GroupBytes(text, 4)
  BY <1>1, <1>4, Readables, Zenon
<1>6. parsed \in Seq(DigitBytes)
  BY DEF ParseInv
<1>7. /\ p = Len(text) => Parsed(parsed)
      /\ p # Len(text) /\ (Len(text) - p < 4 \/ text[p + 1] # Backslash \/ text[p + 2] # "x")
            => Invalid
      /\ p # Len(text) /\ ~(Len(text) - p < 4) /\ text[p + 1] = Backslash /\ text[p + 2] = "x"
            => IF ~(text[p + 3] \in Digits /\ text[p + 4] \in Digits) THEN Invalid
               ELSE Continue("escapes", p + 4, Append(parsed, byte))
  <2>1. IF p = Len(text) THEN Parsed(parsed)
        ELSE IF Len(text) - p < 4 \/ text[p + 1] # Backslash \/ text[(p + 1) + 1] # "x" THEN Invalid
        ELSE IF ~(/\ (p + 2) + 1 < Len(text) /\ text[(p + 2) + 1] \in Digits
                  /\ text[((p + 2) + 1) + 1] \in Digits) THEN Invalid
        ELSE Continue("escapes", p + 4,
                      Append(parsed, 16 * Value(text[(p + 2) + 1]) + Value(text[((p + 2) + 1) + 1])))
    BY Zenon DEF ParseEscapes, Size, Char, parse_byte_ok, parse_byte
  <2> HIDE DEF p
  <2>2. /\ (p + 1) + 1 = p + 2 /\ (p + 2) + 1 = p + 3 /\ ((p + 2) + 1) + 1 = p + 4
        /\ ~(Len(text) - p < 4) => (p + 2) + 1 < Len(text)
    BY <1>1, <1>2
  <2> HIDE DEF byte
  <2>3. ASSUME p # Len(text), ~(Len(text) - p < 4), text[p + 1] = Backslash, text[p + 2] = "x"
        PROVE  IF ~(text[p + 3] \in Digits /\ text[p + 4] \in Digits) THEN Invalid
               ELSE Continue("escapes", p + 4, Append(parsed, byte))
    BY <2>1, <2>2, <2>3, Zenon DEF byte
  <2>4. ASSUME p # Len(text), Len(text) - p < 4 \/ text[p + 1] # Backslash \/ text[p + 2] # "x"
        PROVE  Invalid
    BY <2>1, <2>2, <2>4, Zenon
  <2>5. ASSUME p = Len(text) PROVE Parsed(parsed)
    BY <2>1, <2>5
  <2> QED
    BY <2>3, <2>4, <2>5
<1> HIDE DEF p
<1>8. Grouped(text, 4, p, parsed)
  BY <1>1, <1>2, <1>3, GroupedOn, Zenon
<1>9. CASE p = Len(text)
  <2>1. Means(text, parsed) /\ parsed # <<>>
    BY <1>1, <1>4, <1>5, <1>8, <1>9, GroupedWhole, Zenon
  <2> QED
    BY <1>7, <1>9, <2>1, Outcomes, Zenon
<1>10. CASE p # Len(text)
  <2>1. /\ p < Len(text) /\ p + 4 - 1 = p + 3 /\ p \in Nat /\ (p + 1) + 4 - 1 = p + 4
        /\ (p + 1) + 1 = p + 2 /\ (p + 1) + 4 - 2 = p + 3
        /\ ~(Len(text) - p < 4) <=> p + 4 <= Len(text)
    BY <1>1, <1>2, <1>10
  <2>2. IsGroup(text, p + 1, 4) <=>
            /\ ~(Len(text) - p < 4) /\ text[p + 1] = Backslash /\ text[p + 2] = "x"
            /\ text[p + 3] \in Digits /\ text[p + 4] \in Digits
    BY <2>1 DEF IsGroup
  <2>3. CASE IsGroup(text, p + 1, 4)
    <3>1. Continue("escapes", p + 4, Append(parsed, byte))
      BY <1>7, <1>10, <2>2, <2>3, Zenon
    <3>2. Grouped(text, 4, p + 4, Append(parsed, 16 * Value(text[p + 4 - 1]) + Value(text[p + 4])))
      BY <1>1, <1>2, <1>8, <2>1, <2>3, GroupedMore, Zenon
    <3>3. Grouped(text, 4, p + 4, Append(parsed, byte))
      BY <2>1, <3>2, Zenon
    <3>4. Judged(text, "escapes", p + 4, Append(parsed, byte))
      BY <1>4, <3>3 DEF Judged
    <3>5. byte \in DigitBytes
      BY <2>2, <2>3, DigitsByte, Zenon
    <3> HIDE DEF byte
    <3>6. Append(parsed, byte) \in Seq(DigitBytes)
      BY <1>6, <3>5
    <3> QED
      BY <3>1, <3>4, <3>6, Outcomes, Zenon
  <2>4. CASE ~IsGroup(text, p + 1, 4)
    <3>1. Invalid
      BY <1>7, <1>10, <2>2, <2>4, Zenon
    <3>2. ~Readable(text)
      BY <1>1, <1>2, <1>5, <1>8, <2>1, <2>4, GroupedBadly, Zenon
    <3> QED
      BY <3>1, <3>2, Outcomes, Zenon
  <2> QED
    BY <2>3, <2>4
<1> QED
  BY <1>9, <1>10

\* What one iteration of the array's loop does, by the characters it looks at.
LEMMA BracesStep ==
    ASSUME TextOK, ParseBraces, NEW p, p = skip_whitespace(position),
           NEW end, end = SkipWhile(Digits, p + 2), NEW next, next = skip_whitespace(end)
    PROVE  LET byte == Value(text[(end - 1) + 1])
                       + (IF end - (p + 2) = 2 THEN 16 * Value(text[(p + 2) + 1]) ELSE 0)
           IN  /\ p = Len(text) => Invalid
               /\ p < Len(text) /\ text[p + 1] = CloseBrace =>
                    IF skip_whitespace(p + 1) = Len(text) /\ parsed # <<>> THEN Parsed(parsed)
                    ELSE Invalid
               /\ p < Len(text) /\ text[p + 1] # CloseBrace =>
                    IF Len(text) - p < 3 \/ text[p + 1] # "0" \/ text[(p + 1) + 1] # "x" THEN Invalid
                    ELSE IF end = p + 2 \/ end - (p + 2) > 2 THEN Invalid
                    ELSE IF next < Len(text) /\ text[next + 1] = CloseBrace
                         THEN Continue("braces", next, Append(parsed, byte))
                    ELSE IF next < Len(text) /\ text[next + 1] = Comma
                         THEN Continue("braces", next + 1, Append(parsed, byte))
                    ELSE Invalid
<1> DEFINE byte == Value(text[(end - 1) + 1])
                   + (IF end - (p + 2) = 2 THEN 16 * Value(text[(p + 2) + 1]) ELSE 0)
           Closed == IF skip_whitespace(p + 1) = Len(text) /\ parsed # <<>> THEN Parsed(parsed)
                     ELSE Invalid
           Item == IF Len(text) - p < 3 \/ text[p + 1] # "0" \/ text[(p + 1) + 1] # "x" THEN Invalid
                   ELSE IF end = p + 2 \/ end - (p + 2) > 2 THEN Invalid
                   ELSE IF next < Len(text) /\ text[next + 1] = CloseBrace
                        THEN Continue("braces", next, Append(parsed, byte))
                   ELSE IF next < Len(text) /\ text[next + 1] = Comma
                        THEN Continue("braces", next + 1, Append(parsed, byte))
                   ELSE Invalid
           Turn == CASE p = Len(text) -> Invalid
                     [] p < Len(text) /\ text[p + 1] = CloseBrace -> Closed
                     [] p < Len(text) /\ text[p + 1] # CloseBrace -> Item
<1>1. Turn
  BY Zenon DEF ParseBraces, Size, Char
<1>2. Len(text) \in Nat /\ p \in Int
  <2>1. text \in Seq(Chars) /\ position \in 0 .. Len(text)
    BY DEF TextOK, Size
  <2>2. p \in 0 .. Len(text) /\ Len(text) \in Nat
    BY <2>1, SkipPlaces, Zenon
  <2> QED
    BY <2>2
<1> HIDE DEF Closed, Item
<1>3. /\ p = Len(text) => Invalid
      /\ p < Len(text) /\ text[p + 1] = CloseBrace => Closed
      /\ p < Len(text) /\ text[p + 1] # CloseBrace => Item
  <2>1. CASE p = Len(text)
    <3>1. ~(p < Len(text))
      BY <1>2, <2>1
    <3> QED
      BY <1>1, <2>1, <3>1, Zenon
  <2>2. CASE p # Len(text)
    BY <1>1, <2>2, Zenon
  <2> QED
    BY <2>1, <2>2
<1> QED
  BY <1>3, Zenon DEF Closed, Item

\* An array.
LEMMA BracesAgree == ASSUME TextOK, ParseInv, ParseBraces PROVE ParseInv'
<1> DEFINE p    == skip_whitespace(position)
           end  == SkipWhile(Digits, p + 2)
           next == skip_whitespace(end)
           byte == Value(text[(end - 1) + 1])
                   + (IF end - (p + 2) = 2 THEN 16 * Value(text[(p + 2) + 1]) ELSE 0)
           s == text
<1>1. /\ s \in Seq(Chars) /\ Len(s) \in Nat /\ position \in 0 .. Len(s)
      /\ parsed \in Seq(0 .. 255) /\ parsed \in Seq(DigitBytes)
  BY DEF TextOK, Size, ParseInv
<1>2. /\ p \in position .. Len(s) /\ p \in 0 .. Len(s)
      /\ \A i \in position + 1 .. p : s[i] = Space
      /\ p < Len(s) => s[p + 1] # Space
  BY <1>1, SkipPlaces
<1>3. Itemed(s, position, parsed)
  BY DEF ParseInv, Judged, ParseBraces
<1>4. /\ p = Len(s) => Invalid
      /\ p < Len(s) /\ s[p + 1] = CloseBrace =>
           IF skip_whitespace(p + 1) = Len(s) /\ parsed # <<>> THEN Parsed(parsed) ELSE Invalid
      /\ p < Len(s) /\ s[p + 1] # CloseBrace =>
           IF Len(s) - p < 3 \/ s[p + 1] # "0" \/ s[(p + 1) + 1] # "x" THEN Invalid
           ELSE IF end = p + 2 \/ end - (p + 2) > 2 THEN Invalid
           ELSE IF next < Len(s) /\ s[next + 1] = CloseBrace
                THEN Continue("braces", next, Append(parsed, byte))
           ELSE IF next < Len(s) /\ s[next + 1] = Comma
                THEN Continue("braces", next + 1, Append(parsed, byte))
           ELSE Invalid
  BY BracesStep, Zenon
<1>5. CASE p = Len(s)
  <2> HIDE DEF p
  <2>1. ~Readable(s)
    BY <1>1, <1>2, <1>3, <1>5, ItemedToEnd, Zenon
  <2> QED
    BY <1>4, <1>5, <2>1, Outcomes, Zenon
<1>6. CASE p < Len(s) /\ s[p + 1] = CloseBrace
  <2> DEFINE w == skip_whitespace(p + 1)
  <2> HIDE DEF p
  <2>1. p + 1 \in 0 .. Len(s)
    BY <1>1, <1>2, <1>6
  <2>2. /\ w \in p + 1 .. Len(s) /\ \A i \in (p + 1) + 1 .. w : s[i] = Space
        /\ w < Len(s) => s[w + 1] # Space
    BY <1>1, <2>1, SkipPlaces, Zenon
  <2> HIDE DEF w
  <2>3. /\ w = Len(s) => \A i \in p + 2 .. Len(s) : s[i] = Space
        /\ w # Len(s) => \E i \in p + 2 .. Len(s) : s[i] # Space
    <3>1. (p + 1) + 1 = p + 2 /\ (w # Len(s) => w < Len(s) /\ w + 1 \in p + 2 .. Len(s))
      BY <1>1, <1>2, <2>2
    <3> QED
      BY <2>2, <3>1
  <2>4. /\ w = Len(s) /\ parsed # <<>> => Means(s, parsed)
        /\ w # Len(s) \/ parsed = <<>> => ~Readable(s)
    BY <1>1, <1>2, <1>3, <1>6, <2>3, ItemedClosed, Zenon
  <2>5. IF w = Len(s) /\ parsed # <<>> THEN Parsed(parsed) ELSE Invalid
    BY <1>4, <1>6, Zenon DEF w
  <2>6. CASE w = Len(s) /\ parsed # <<>>
    BY <2>4, <2>5, <2>6, Outcomes, Zenon
  <2>7. CASE ~(w = Len(s) /\ parsed # <<>>)
    BY <2>4, <2>5, <2>7, Outcomes, Zenon
  <2> QED
    BY <2>6, <2>7
<1>7. CASE p < Len(s) /\ s[p + 1] # CloseBrace
  <2>1. ASSUME ~IsItem(s, p + 1) PROVE ~Readable(s)
    <3> HIDE DEF p
    <3> QED
      BY <1>1, <1>2, <1>3, <1>7, <2>1, ItemedBadly, Zenon
  <2>2. CASE Len(s) - p < 3 \/ s[p + 1] # "0" \/ s[(p + 1) + 1] # "x"
    <3>1. Invalid
      BY <1>4, <1>7, <2>2, Zenon
    <3> HIDE DEF p
    <3>2. ~IsItem(s, p + 1)
      <4>1. Len(s) - p < 3 => ~((p + 1) + 2 <= Len(s))
        BY <1>1, <1>2
      <4> QED
        BY <2>2, <4>1, Zenon DEF IsItem
    <3> QED
      BY <2>1, <3>1, <3>2, Outcomes, Zenon
  <2>3. CASE ~(Len(s) - p < 3 \/ s[p + 1] # "0" \/ s[(p + 1) + 1] # "x")
    <3> HIDE DEF p
    <3>1. /\ p \in Nat /\ p + 3 <= Len(s) /\ p + 2 \in 0 .. Len(s) /\ (p + 1) + 1 = p + 2
          /\ (p + 2) + 1 = p + 3 /\ (p + 1) + 2 = p + 3 /\ (p + 1) + 3 = p + 4 /\ p + 2 \in Int
      BY <1>1, <1>2, <2>3
    <3>2. /\ end \in p + 2 .. Len(s)
          /\ \A r \in p + 2 .. end - 1 : s[r + 1] \in Digits
          /\ end = Len(s) \/ s[end + 1] \notin Digits
      <4>1. p + 2 \in 0 .. Size
        BY <3>1 DEF Size
      <4> QED
        BY <1>1, <4>1, SkipStops, Zenon DEF Size, Char
    <3>3. IF end = p + 2 \/ end - (p + 2) > 2 THEN Invalid
          ELSE IF next < Len(s) /\ s[next + 1] = CloseBrace
               THEN Continue("braces", next, Append(parsed, byte))
          ELSE IF next < Len(s) /\ s[next + 1] = Comma
               THEN Continue("braces", next + 1, Append(parsed, byte))
          ELSE Invalid
      BY <1>4, <1>7, <2>3, Zenon
    <3>4. end \in 0 .. Len(s)
      BY <3>1, <3>2
    <3>5. /\ next \in end .. Len(s) /\ \A i \in end + 1 .. next : s[i] = Space
          /\ next < Len(s) => s[next + 1] # Space
      BY <1>1, <3>4, SkipPlaces, Zenon
    <3> HIDE DEF end, next
    <3>6. CASE end = p + 2
      <4>1. s[p + 3] \notin Digits
        BY <3>1, <3>2, <3>6
      <4>2. ~IsItem(s, p + 1)
        BY <3>1, <4>1 DEF IsItem
      <4>3. Invalid
        BY <3>3, <3>6
      <4> QED
        BY <2>1, <4>2, <4>3, Outcomes, Zenon
    <3>7. CASE end - (p + 2) > 2
      <4>1. /\ p + 5 <= Len(s) /\ p + 3 \in p + 2 .. end - 1 /\ p + 4 \in p + 2 .. end - 1
            /\ (p + 3) + 1 = p + 4 /\ (p + 4) + 1 = p + 5
        BY <3>1, <3>2, <3>7
      <4>2. s[p + 4] \in Digits /\ s[p + 5] \in Digits
        BY <3>2, <4>1
      <4>3. ~Readable(s)
        BY <1>1, <1>2, <1>3, <1>7, <4>1, <4>2, ItemTooLong, Zenon
      <4>4. Invalid
        BY <3>3, <3>7
      <4> QED
        BY <4>3, <4>4, Outcomes, Zenon
    <3>8. CASE ~(end = p + 2 \/ end - (p + 2) > 2)
      <4> DEFINE value == ItemValue(s, p, end)
      <4>1. (end = p + 3 \/ end = p + 4) /\ (end - 1) + 1 = end /\ end \in Nat /\ p + 2 \in p + 2 .. end - 1
        BY <3>1, <3>2, <3>8
      <4>2. s[p + 3] \in Digits
        BY <3>1, <3>2, <4>1
      <4>3. end = p + 4 => s[p + 4] \in Digits /\ p + 4 <= Len(s)
        <5>1. end = p + 4 => p + 3 \in p + 2 .. end - 1 /\ (p + 3) + 1 = p + 4
          BY <3>1
        <5> QED
          BY <3>1, <3>2, <5>1
      <4>4. end = LastDigit(s, p + 1)
        <5>1. LastDigit(s, p + 1) = IF p + 4 <= Len(s) /\ s[p + 4] \in Digits THEN p + 4 ELSE p + 3
          BY <3>1, Zenon DEF LastDigit
        <5>2. CASE end = p + 4
          BY <4>3, <5>1, <5>2
        <5>3. CASE end = p + 3
          <6>1. ~(p + 4 <= Len(s) /\ s[p + 4] \in Digits)
            <7>1. end + 1 = p + 4 /\ (p + 4 <= Len(s) => end # Len(s))
              BY <1>1, <3>1, <5>3
            <7> QED
              BY <3>2, <7>1, Zenon
          <6> QED
            BY <5>1, <5>3, <6>1
        <5> QED
          BY <4>1, <5>2, <5>3
      <4>5. value \in DigitBytes
        BY <4>1, <4>2, <4>3, DigitsByte, Zenon DEF ItemValue
      <4>6. byte = value
        <5> DEFINE v == Value(s[p + 3])
                   u == Value(s[p + 4])
        <5>1. v \in 0 .. 15
          BY <4>2, DigitValue, Zenon
        <5>2. CASE end = p + 3
          <6>1. end - (p + 2) # 2
            BY <3>1, <5>2
          <6>2. byte = v + 0
            BY <4>1, <5>2, <6>1, Zenon
          <6> HIDE DEF v
          <6>3. byte = v
            BY <5>1, <6>2
          <6> QED
            BY <5>2, <6>3 DEF v, ItemValue
        <5>3. CASE end = p + 4
          <6>1. end - (p + 2) = 2 /\ end # p + 3
            BY <3>1, <5>3
          <6>2. byte = u + 16 * v
            BY <3>1, <4>1, <5>3, <6>1, Zenon
          <6>3. u \in 0 .. 15
            BY <4>3, <5>3, DigitValue, Zenon
          <6> HIDE DEF v, u
          <6>4. byte = 16 * v + u
            BY <5>1, <6>2, <6>3
          <6> QED
            BY <6>1, <6>4 DEF v, u, ItemValue
        <5> QED
          BY <4>1, <5>2, <5>3
      <4> HIDE DEF byte
      <4>7. Append(parsed, byte) \in Seq(DigitBytes)
        BY <1>1, <4>5, <4>6
      <4>8. /\ next = Len(s) => ~Readable(s)
            /\ next < Len(s) /\ s[next + 1] # CloseBrace /\ s[next + 1] # Comma => ~Readable(s)
            /\ next < Len(s) /\ s[next + 1] = CloseBrace => Itemed(s, next, Append(parsed, byte))
            /\ next < Len(s) /\ s[next + 1] = Comma => Itemed(s, next + 1, Append(parsed, byte))
        <5>1. s[p + 1] = "0" /\ s[p + 2] = "x"
          BY <2>3, <3>1, Zenon
        <5>2. /\ next = Len(s) => ~Readable(s)
              /\ next < Len(s) /\ s[next + 1] # CloseBrace /\ s[next + 1] # Comma => ~Readable(s)
              /\ next < Len(s) /\ s[next + 1] = CloseBrace => Itemed(s, next, Append(parsed, value))
              /\ next < Len(s) /\ s[next + 1] = Comma => Itemed(s, next + 1, Append(parsed, value))
          BY <1>1, <1>2, <1>3, <1>7, <3>1, <3>5, <4>2, <4>4, <5>1, ItemedMore, ZenonT(40)
        <5> QED
          BY <4>6, <5>2, Zenon
      <4>9. next < Len(s) \/ next = Len(s)
        BY <1>1, <3>4, <3>5
      <4>10. CASE next < Len(s) /\ s[next + 1] = CloseBrace
        <5>1. Continue("braces", next, Append(parsed, byte))
          BY <3>3, <3>8, <4>10
        <5>2. Judged(s, "braces", next, Append(parsed, byte))
          BY <4>8, <4>10 DEF Judged
        <5> QED
          BY <4>7, <5>1, <5>2, Outcomes, Zenon
      <4>11. CASE next < Len(s) /\ s[next + 1] = Comma
        <5>1. Continue("braces", next + 1, Append(parsed, byte))
          BY <3>3, <3>8, <4>11, Apart
        <5>2. Judged(s, "braces", next + 1, Append(parsed, byte))
          BY <4>8, <4>11 DEF Judged
        <5> QED
          BY <4>7, <5>1, <5>2, Outcomes, Zenon
      <4>12. CASE ~(next < Len(s) /\ (s[next + 1] = CloseBrace \/ s[next + 1] = Comma))
        <5>1. Invalid
          BY <3>3, <3>8, <4>12, Zenon
        <5>2. ~Readable(s)
          BY <4>8, <4>9, <4>12, Zenon
        <5> QED
          BY <5>1, <5>2, Outcomes, Zenon
      <4> QED
        BY <4>10, <4>11, <4>12
    <3> QED
      BY <3>6, <3>7, <3>8
  <2> QED
    BY <2>2, <2>3
<1>8. p = Len(s) \/ p < Len(s)
  BY <1>1, <1>2
<1> QED
  BY <1>5, <1>6, <1>7, <1>8, Zenon

\* The parser's step.
LEMMA ParseStepAgrees == ASSUME TextOK, ParseInv, ParseStep PROVE ParseInv'
  BY StartAgrees, BracesAgree, EscapesAgree, PairsAgree, Zenon DEF ParseStep

\* No other step touches the parser.
LEMMA ParserAlone == QuickNext => ParseStep \/ UNCHANGED textvars
  BY DEF QuickNext, ParseArguments, ParseInput, HaveInput, Run, RunEngine, Blocks, PrintLine,
         FinishText, SerializeMember, SerializeFails, FinishJson, Ended, quickvars

\* What the parser accepts is what the notations mean.
THEOREM ParseAlwaysAgrees == QuickSpec => []ParseAgrees
<1>1. QuickInit => ParseInv
  BY DEF QuickInit, TextInit, ParseInv, Judged
<1>2. QuickInv /\ ParseInv /\ [QuickNext]_quickvars => ParseInv'
  <2> SUFFICES ASSUME QuickInv, ParseInv, [QuickNext]_quickvars PROVE ParseInv'
    OBVIOUS
  <2>1. ASSUME UNCHANGED textvars PROVE ParseInv'
    BY <2>1 DEF textvars, ParseInv
  <2>2. ASSUME UNCHANGED quickvars PROVE UNCHANGED textvars
    BY <2>2 DEF quickvars
  <2>3. TextOK
    BY DEF QuickInv
  <2> QED
    BY <2>1, <2>2, <2>3, ParserAlone, ParseStepAgrees, Zenon
<1>3. ParseInv => ParseAgrees
  <2> SUFFICES ASSUME ParseInv PROVE ParseAgrees
    OBVIOUS
  <2>1. /\ notation = "parsed" => Means(text, parsed) /\ parsed # <<>>
        /\ notation = "invalid" => ~Readable(text)
        /\ parsed \in Seq(DigitBytes)
    BY DEF ParseInv, Judged
  <2> QED
    BY <2>1, FormatMeans, Zenon DEF ParseAgrees
<1>4. QuickSpec => []ParseInv
  BY <1>1, <1>2, QuickAlways, PTL DEF QuickSpec
<1> QED
  BY <1>3, <1>4, PTL
===============================================================================
