--------------------------------- MODULE Panels ---------------------------------
(***************************************************************************)
(* The register panels of run_tui: three tabs whose rows unfold, scroll    *)
(* and can be clicked.  A handler finds out what was clicked from boxes    *)
(* that the last drawing left behind in vectors (gpr_hits, xmm_hits,       *)
(* st_hits, copy_hits); FTXUI draws after a batch of events, so handlers   *)
(* may run on boxes of a picture that is no longer true, and each element  *)
(* holds a reference into its vector until the picture is complete.        *)
(*                                                                         *)
(* Register contents are one value for all registers and the set of        *)
(* occupied x87 slots; which trace and row they come from is Tui's.        *)
(* Colours, the seed texts (Seeds) and the flags are left out.             *)
(***************************************************************************)
EXTENDS Integers, Sequences, SequencesExt

CONSTANTS Gprs,       \* the registers with a seed field, in display order
          Legacy,     \* those with a high byte
          XmmCount, StCount,
          States,     \* register contents explored: a value and the occupied slots
          Pointers,   \* values that point into the sandbox
          Height,     \* rows of the viewport
          DecodeRows, \* lines of the decoded control words below a table
          MaxBatch    \* events between two drawings

ASSUME PanelsAssumption ==
    /\ Gprs \in Seq(Range(Gprs)) \ {<<>>} /\ Legacy \subseteq Range(Gprs)
    /\ {XmmCount, StCount, Height, MaxBatch} \subseteq Nat \ {0}
    /\ DecodeRows \in Nat
    /\ States \subseteq [ value : Nat \ {0}, occupied : SUBSET (1 .. StCount) ]

GPR == 0
SSE == 1
X87 == 2
Tabs == {GPR, SSE, X87}
GPR_COUNT == Len(Gprs) + 1   \* and RSP

NoState == [ value |-> 0, occupied |-> {} ]

VARIABLES
    has_trace, state,          \* what history_state_at gives
    register_tab,
    gpr_depth, xmm_expand, st_expand,
    register_scroll,           \* per tab
    real_focus,                \* per tab: a seed field, not the FocusSink, is active
    copy_hits,                 \* boxes of the value cells drawn last
    name_hits,                 \* gpr_hits, xmm_hits or st_hits of the tab drawn last
    screen,                    \* the picture: tab, offset and the cells in sight
    batch,                     \* events since it was drawn
    copied                     \* what the last event copied

vars == <<has_trace, state, register_tab, gpr_depth, xmm_expand, st_expand, register_scroll,
          real_focus, copy_hits, name_hits, screen, batch, copied>>
unfolded == <<gpr_depth, xmm_expand, st_expand>>
drawing  == <<copy_hits, name_hits, screen>>

Nothing == [ place |-> <<>>, text |-> <<>> ]
Blank   == [ tab |-> -1, offset |-> 0, cells |-> {} ]

Init ==
    /\ has_trace = FALSE
    /\ state = NoState
    /\ register_tab = GPR
    /\ gpr_depth = [ g \in Range(Gprs) |-> 0 ]
    /\ xmm_expand = [ i \in 1 .. XmmCount |-> FALSE ]
    /\ st_expand = [ i \in 1 .. StCount |-> FALSE ]
    /\ register_scroll = [ t \in Tabs |-> 0 ]
    /\ real_focus = [ t \in Tabs |-> FALSE ]
    /\ copy_hits = <<>>
    /\ name_hits = <<>>
    /\ screen = Blank
    /\ batch = <<>>
    /\ copied = Nothing

-----------------------------------------------------------------------------
(* The rows of each panel: the name cell that can be clicked, if any, and  *)
(* the value cells, which can be copied once there is a trace.             *)

Row(names, cells) == [ names |-> names, cells |-> IF has_trace THEN cells ELSE <<>> ]

\* A value cell; the full registers have a normalized form if they point into the sandbox.
Cell(what, address) ==
    [ what |-> what, text |-> <<what, state.value>>, normalized |-> address /\ state.value \in Pointers ]

\* render_registers: flat registers, and trees down to the depth of each register.
GprTree(g) ==
    LET Node(level, part) ==
            Row(IF level < 3 THEN <<[ reg |-> g, level |-> level ]>> ELSE <<>>,
                <<Cell(<<g, part>>, level = 0)>>)
        depth == gpr_depth[g]
    IN  <<Node(0, "full")>>
        \o (IF depth >= 1 THEN <<Node(1, "dword")>> ELSE <<>>)
        \o (IF depth >= 2 THEN <<Node(2, "word")>> ELSE <<>>)
        \o (IF depth >= 3 /\ g \in Legacy THEN <<Node(3, "byte_high")>> ELSE <<>>)
        \o (IF depth >= 3 THEN <<Node(3, "byte_low")>> ELSE <<>>)

Flat(r) == Row(<<>>, <<Cell(<<r, "full">>, r # "RFLAGS")>>)

render_registers ==
    <<Flat("RIP")>> \o FlattenSeq([ i \in 1 .. Len(Gprs) |-> GprTree(Gprs[i]) ])
    \o <<Flat("RSP"), Flat("RFLAGS")>>

Lanes(register, kind, n) == [ k \in 1 .. n |-> Cell(<<register, kind, k>>, FALSE) ]

\* render_xmm: the register, its two doubles and, unfolded, its four floats.
XmmRows(i) ==
    <<Row(<<[ reg |-> i, level |-> 0 ]>>, <<Cell(<<i, "hex">>, FALSE)>>)>>
    \o (IF has_trace THEN <<Row(<<>>, Lanes(i, "f64x2", 2))>> ELSE <<>>)
    \o (IF has_trace /\ xmm_expand[i] THEN <<Row(<<>>, Lanes(i, "f32x4", 4))>> ELSE <<>>)

Decoded(n) == [ k \in 1 .. IF has_trace THEN n ELSE 0 |-> Row(<<>>, <<>>) ]

render_xmm ==
    FlattenSeq([ i \in 1 .. XmmCount |-> XmmRows(i) ])
    \o <<Row(<<>>, <<Cell(<<"MXCSR">>, FALSE)>>)>> \o Decoded(DecodeRows)

\* render_x87: the value of an occupied slot, the raw bytes of any, and the
\* narrowed value of an unfolded occupied one.
StRows(i) ==
    LET occupied == has_trace /\ i \in state.occupied
    IN  <<Row(<<[ reg |-> i, level |-> 0 ]>>,
              (IF occupied THEN <<Cell(<<i, "value">>, FALSE)>> ELSE <<>>) \o <<Cell(<<i, "raw">>, FALSE)>>)>>
        \o (IF occupied /\ st_expand[i] THEN <<Row(<<>>, <<Cell(<<i, "f32">>, FALSE)>>)>> ELSE <<>>)

render_x87 ==
    FlattenSeq([ i \in 1 .. StCount |-> StRows(i) ])
    \o <<Row(<<>>, <<Cell(<<"control word">>, FALSE)>>)>> \o Decoded(DecodeRows)

\* The rows of a panel below its heading.
Rows(tab) == CASE tab = GPR -> render_registers [] tab = SSE -> render_xmm [] tab = X87 -> render_x87

-----------------------------------------------------------------------------
(* Drawing.                                                                *)

Larger(a, b)  == IF a > b THEN a ELSE b
Smaller(a, b) == IF a < b THEN a ELSE b

\* Wrong: the row of MXCSR and of the control word is not counted.
CopyReserve_registers_only(tab) ==
    CASE tab = GPR -> GPR_COUNT * 5 [] tab = SSE -> XmmCount * 7 [] tab = X87 -> StCount * 3

\* What the renderers reserve before they put the first box into a vector.
CopyReserve(tab) ==
    CASE tab = GPR -> GPR_COUNT * 5 [] tab = SSE -> XmmCount * 7 + 1 [] tab = X87 -> StCount * 3 + 1

NameReserve(tab) == CASE tab = GPR -> (GPR_COUNT - 1) * 3 [] tab = SSE -> XmmCount [] tab = X87 -> StCount

\* ScrollViewport::SetBox: the first row in sight, given the wanted one.
SetBox(rows, offset) ==
    LET external_dimy == Height - 1
        internal_dimy == Larger(rows, external_dimy)
    IN  Larger(0, Smaller(internal_dimy - external_dimy - 1, offset))

\* Wrong: the clamped offset is used and forgotten.
WriteBack_missing(offset, dy) == offset

\* m_offset = dy
WriteBack(offset, dy) == dy

\* The boxes of the rows: where each lies in the picture.  reflect() clips them to
\* the viewport.
Boxes(rows, dy, parts) ==
    FlattenSeq([ i \in 1 .. Len(rows) |->
        [ k \in 1 .. Len(rows[i][parts]) |->
            [ place |-> <<i - dy, k>>, in_sight |-> i - dy \in 0 .. Height - 1, part |-> rows[i][parts][k] ] ] ])

InSight(boxes) == { boxes[k] : k \in { j \in 1 .. Len(boxes) : boxes[j].in_sight } }

\* One drawing: the tab in front is rendered, which clears and fills its vectors and
\* copy_hits, and laid out - from the wheel's offset, or following the cursor of
\* the seed field that has the focus.  The heading is row 0.
Draw ==
    LET tab   == register_tab
        rows  == Rows(tab)
        total == Len(rows) + 1
    IN  /\ batch # <<>> \/ screen = Blank
        /\ \E dy \in IF real_focus[tab] THEN 0 .. Larger(0, total - Height)
                     ELSE {SetBox(total, register_scroll[tab])} :
             LET copies == Boxes(rows, dy, "cells")
                 names  == Boxes(rows, dy, "names")
             IN  /\ copy_hits' = copies
                 /\ name_hits' = names
                 /\ screen' = [ tab |-> tab, offset |-> dy, cells |-> InSight(copies) ]
                 /\ register_scroll' =
                        IF real_focus[tab] THEN register_scroll
                        ELSE [ register_scroll EXCEPT ![tab] = WriteBack(@, dy) ]
        /\ batch' = <<>>
        /\ copied' = Nothing
        /\ UNCHANGED <<has_trace, state, register_tab, unfolded, real_focus>>

-----------------------------------------------------------------------------
(* Events.  A click first goes to the layout's handler, which looks for a  *)
(* value cell; if there is none the panel drops the seed focus and passes  *)
(* it on to the boxes of the tab in front.                                 *)

Event(name) ==
    /\ screen # Blank
    /\ Len(batch) < MaxBatch
    /\ batch' = Append(batch, name)
    /\ UNCHANGED drawing

Defocus == real_focus' = [ real_focus EXCEPT ![register_tab] = FALSE ]

\* Wrong: the value is looked up again when the cell is clicked.
CopiedText_live(hit) == <<hit.part.what, state.value>>

CopiedText(hit) == hit.part.text

\* The first box of copy_hits that contains the mouse; Ctrl asks for the normalized form.
ClickValue(place, control) ==
    LET found == { k \in 1 .. Len(copy_hits) : copy_hits[k].in_sight /\ copy_hits[k].place = place }
    IN  /\ Event("click")
        /\ found # {}
        /\ LET hit == copy_hits[Min(found)]
           IN  copied' = [ place |-> place,
                           text  |-> CopiedText(hit)
                                     \o (IF control /\ hit.part.normalized THEN <<"normalized">> ELSE <<>>) ]
        /\ UNCHANGED <<has_trace, state, register_tab, unfolded, register_scroll, real_focus>>

\* A name cell: fold up to it, or unfold one level more; or fold and unfold lanes.
Toggle(reg, level) ==
    \/ /\ register_tab = GPR
       /\ gpr_depth' = [ gpr_depth EXCEPT ![reg] = IF @ > level THEN level ELSE level + 1 ]
       /\ UNCHANGED <<xmm_expand, st_expand>>
    \/ /\ register_tab = SSE
       /\ xmm_expand' = [ xmm_expand EXCEPT ![reg] = ~@ ]
       /\ UNCHANGED <<gpr_depth, st_expand>>
    \/ /\ register_tab = X87
       /\ st_expand' = [ st_expand EXCEPT ![reg] = ~@ ]
       /\ UNCHANGED <<gpr_depth, xmm_expand>>

\* The name cells a click can meet.  If another tab has come to the front since the
\* picture was drawn, its boxes are those of some earlier picture.
NamesHit ==
    IF screen.tab = register_tab THEN { box.part : box \in InSight(name_hits) }
    ELSE IF register_tab = GPR THEN [ reg : Range(Gprs), level : 0 .. 2 ]
    ELSE [ reg : 1 .. IF register_tab = SSE THEN XmmCount ELSE StCount, level : {0} ]

ClickName ==
    /\ Event("click")
    /\ \E name \in NamesHit : Toggle(name.reg, name.level)
    /\ Defocus
    /\ copied' = Nothing
    /\ UNCHANGED <<has_trace, state, register_tab, register_scroll>>

\* Escape, Enter in a field, and a click on nothing.
LeaveField ==
    /\ Event("other")
    /\ Defocus
    /\ copied' = Nothing
    /\ UNCHANGED <<has_trace, state, register_tab, unfolded, register_scroll>>

\* A click on a seed field, or the arrow keys.
EnterField ==
    /\ Event("other")
    /\ real_focus' = [ real_focus EXCEPT ![register_tab] = TRUE ]
    /\ copied' = Nothing
    /\ UNCHANGED <<has_trace, state, register_tab, unfolded, register_scroll>>

\* The wheel is swallowed while a field has the focus.
Wheel(by) ==
    /\ Event(IF by < 0 THEN "up" ELSE "down")
    /\ register_scroll' = IF real_focus[register_tab] THEN register_scroll
                          ELSE [ register_scroll EXCEPT ![register_tab] = Larger(0, @ + by) ]
    /\ copied' = Nothing
    /\ UNCHANGED <<has_trace, state, register_tab, unfolded, real_focus>>

ChangeRegisterTab ==
    /\ Event("other")
    /\ register_tab' \in Tabs \ {register_tab}
    /\ copied' = Nothing
    /\ UNCHANGED <<has_trace, state, unfolded, register_scroll, real_focus>>

\* A run, or another row of the history (Tui), puts other contents on show.
ShowState ==
    /\ Event("other")
    /\ has_trace' = TRUE
    /\ state' \in States \ {state}
    /\ copied' = Nothing
    /\ UNCHANGED <<register_tab, unfolded, register_scroll, real_focus>>

\* reset: everything but the focus.
ResetPanels ==
    /\ Event("other")
    /\ has_trace' = FALSE
    /\ state' = NoState
    /\ register_tab' = GPR
    /\ gpr_depth' = [ g \in Range(Gprs) |-> 0 ]
    /\ xmm_expand' = [ i \in 1 .. XmmCount |-> FALSE ]
    /\ st_expand' = [ i \in 1 .. StCount |-> FALSE ]
    /\ register_scroll' = [ t \in Tabs |-> 0 ]
    /\ copied' = Nothing
    /\ UNCHANGED real_focus

Next ==
    \/ Draw
    \/ \E place \in { c.place : c \in screen.cells }, control \in BOOLEAN : ClickValue(place, control)
    \/ ClickName \/ LeaveField \/ EnterField
    \/ Wheel(-1) \/ Wheel(1)
    \/ ChangeRegisterTab \/ ShowState \/ ResetPanels

Spec == Init /\ [][Next]_vars

-----------------------------------------------------------------------------
(* Properties.                                                             *)

\* reflect() keeps a reference to a box inside the vector until the picture is
\* done: no renderer puts more boxes into a vector than it has reserved, whatever
\* is unfolded and occupied, and however stale the boxes that led there.
BoxesFit ==
    screen # Blank => /\ Len(copy_hits) <= CopyReserve(screen.tab)
                      /\ Len(name_hits) <= NameReserve(screen.tab)

\* What a click copies is what the picture on the screen shows at that place, also
\* if the registers, the tab or the unfolding have changed since it was drawn.
CopiesWhatIsShown ==
    [][ copied' # Nothing =>
          \E cell \in screen.cells :
             /\ cell.place = copied'.place
             /\ copied'.text \in {cell.part.text, Append(cell.part.text, "normalized")} ]_vars

\* One notch of the wheel moves the view by one row at once unless it is at an end
\* or a field has the focus, however far the wheel was turned and whatever was
\* folded up before: the offset never stands where the view cannot.
WheelMovesView ==
    [][ batch # <<>> /\ batch' = <<>> /\ ~real_focus[register_tab] /\ register_tab = screen.tab =>
          /\ batch = <<"up">>   => screen'.offset = Larger(0, screen.offset - 1)
          /\ batch = <<"down">> =>
               screen'.offset = Smaller(screen.offset + 1, Larger(0, Len(Rows(register_tab)) + 1 - Height)) ]_vars
===============================================================================
