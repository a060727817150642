-------------------------------- MODULE Layout --------------------------------
(***************************************************************************)
(* build_history of bme_core.cpp as a function: the rows it returns for an *)
(* input of "size" bytes, the offsets and kinds of its execution events    *)
(* and the lengths a decoder reports (0 where it cannot decode).  History  *)
(* is the same code step by step; the two definitions are compared there.  *)
(* The user interface is built on this one.                                *)
(***************************************************************************)
EXTENDS Integers, Sequences

\* The length of the row at an offset; "(bad)" takes one byte.
RowLength(size, lengths, offset) ==
    IF lengths[offset] # 0 /\ lengths[offset] <= size - offset THEN lengths[offset] ELSE 1

StartsEvent(events, offset) == \E i \in 1 .. Len(events) : events[i].offset = offset

\* fill_gap: the static rows of the bytes from .. to-1.
Gap(size, events, lengths, first, to) ==
    LET End(from)  == from + RowLength(size, lengths, from)
        Cut(from)  == CHOOSE b \in from + 1 .. to :
                          /\ b <= End(from)
                          /\ b = to \/ b = End(from) \/ StartsEvent(events, b)
                          /\ \A c \in from + 1 .. b - 1 : ~StartsEvent(events, c)
        Row(from)  == [ offset |-> from, length |-> Cut(from) - from, event |-> 0,
                        kind   |-> IF Cut(from) = End(from) THEN "NotReached" ELSE "Data" ]
        After[from \in 0 .. to] ==
            IF from = to THEN <<>>
            ELSE (IF StartsEvent(events, from) THEN <<>> ELSE <<Row(from)>>)
                 \o After[Cut(from)]
    IN  IF first < to THEN After[first] ELSE <<>>

\* The rows laid out by the first k events, and the first offset beyond them.
Layout(size, events, lengths) ==
    LET EventRow(k) ==
            [ offset |-> events[k].offset, event |-> k,
              length |-> RowLength(size, lengths, events[k].offset),
              kind   |-> IF events[k].kind = "Completed" THEN "Reached" ELSE "Faulted" ]
        Laid[k \in 0 .. Len(events)] ==
            IF k = 0 THEN [ rows |-> <<>>, linear |-> 0 ]
            ELSE IF events[k].offset \notin 0 .. size - 1 THEN Laid[k - 1]
            ELSE LET so_far == Laid[k - 1]
                     row    == EventRow(k)
                     end    == row.offset + row.length
                 IN  [ rows   |-> so_far.rows
                                  \o Gap(size, events, lengths, so_far.linear, row.offset)
                                  \o <<row>>,
                       linear |-> IF end > so_far.linear THEN end ELSE so_far.linear ]
        whole == Laid[Len(events)]
    IN  whole.rows \o Gap(size, events, lengths, whole.linear, size)
===============================================================================
