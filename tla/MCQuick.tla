-------------------------------- MODULE MCQuick --------------------------------
(***************************************************************************)
(* Command lines for Quick: every dimension is varied against the plainest *)
(* of the others.                                                          *)
(***************************************************************************)
EXTENDS Quick

MCBackends    == <<"zydis", "xed">>
MCAttBackends == {"zydis"}

\* Byte 1 is two bytes long for one decoder and undecodable for the other.
MCLength ==
    [ zydis |-> [ b \in 0 .. 255 |-> IF b = 1 THEN 2 ELSE 1 ],
      xed   |-> [ b \in 0 .. 255 |-> IF b = 1 THEN 0 ELSE 1 ] ]

\* The defaults, and others in which a register of every class differs from them.
MCRegisters ==
    { DefaultRegisters, [ DefaultRegisters EXCEPT !.gpr = 1, !.rip = 1, !.st = 1 ],
      [ DefaultRegisters EXCEPT !.rflags = 2, !.xmm = 1, !.mxcsr = 0,
                                !.fpu_control_word = 639 ] }

Plenty == 12

Plain ==
    [ bytes |-> << <<"0", "1", "F", "F">> >>, file |-> <<>>, quick |-> TRUE, format |-> "absent",
      pretty |-> FALSE, track |-> <<>>, max_steps |-> <<>>, seed_valid |-> TRUE,
      syntax |-> "intel", backend |-> "zydis", rooms |-> {Plenty} ]

With(t) == [ Plain EXCEPT !.bytes = <<t>> ]

\* Texts of the three notations and everything one edit away.
Spellings == { <<"0", "1", " ", "F", "1">>,
               <<" ", "\\", "x", "F", "1", "\\", "x", "0", "1">>,
               <<"{", "0", "x", "1", ",", " ", "0", "x", "1", "F", "}">>,
               <<"{", "}">> }

Edits(t) ==
    { RemoveAt(t, i) : i \in 1 .. Len(t) }
    \cup { InsertAt(t, i, c) : i \in 1 .. Len(t) + 1, c \in Chars }
    \cup { [ t EXCEPT ![i] = c ] : i \in 1 .. Len(t), c \in Chars }
    \cup { SubSeq(t, 1, i) : i \in 0 .. Len(t) }

TextLinesGiven == { [ With(t) EXCEPT !.max_steps = <<1>>, !.track = <<{"none"}>> ]
                    : t \in Spellings \cup UNION { Edits(s) : s \in Spellings } }

Options ==
    { [ Plain EXCEPT !.bytes = b, !.quick = q, !.format = f, !.pretty = p, !.max_steps = <<1>>,
                     !.track = t, !.seed_valid = v ]
      : b \in { << <<"F", "F">> >>, << <<"F">> >>, <<>> }, q \in BOOLEAN, f \in {"absent", "text", "json"},
        p \in BOOLEAN, t \in { <<>>, <<{"gpr", "bad"}>> }, v \in BOOLEAN }

File(state, size, bytes) == <<[ state |-> state, size |-> size, bytes |-> bytes ]>>

Files ==
    { [ Plain EXCEPT !.bytes = b, !.file = f, !.max_steps = <<1>> ]
      : b \in { <<>>, << <<"F", "F">> >> },
        f \in { File("unopened", 0, <<>>), File("unsized", 0, <<>>), File("ok", 0, <<>>),
                File("ok", MAX_RAW_FILE_BYTES, <<1>>), File("ok", MAX_RAW_FILE_BYTES + 1, <<1>>),
                File("short", 2, <<>>) } }

Caps == { [ Plain EXCEPT !.bytes = << <<"F", "F">> >>, !.format = "json", !.max_steps = <<m>> ]
          : m \in { 0, -1, MAX_STEPS_LIMIT + 1 } }

Outputs ==
    { [ Plain EXCEPT !.format = "json", !.pretty = TRUE, !.syntax = s, !.backend = b,
                     !.rooms = {0, 3, 7, Plenty} ]
      : s \in {"intel", "att"}, b \in {"zydis", "xed"} }
    \cup { [ Plain EXCEPT !.format = "text", !.backend = b, !.rooms = {0, 2, Plenty} ]
           : b \in {"zydis", "xed"} }

Tracks ==
    { [ Plain EXCEPT !.track = t ]
      : t \in { <<{"xmm"}>>, <<{"x87"}>>, <<{"all"}>>, <<{"none", "xmm"}>>, <<{"none"}>> } }

MCCommandLines == TextLinesGiven \cup Options \cup Files \cup Caps \cup Outputs \cup Tracks
===============================================================================
