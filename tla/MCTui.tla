--------------------------------- MODULE MCTui ---------------------------------
(* An instance of Tui for TLC: two inputs of different lengths and two      *)
(* decoders that disagree about them, one of them without AT&T syntax.      *)
EXTENDS Tui

CONSTANTS long, short

TwoCodes == {long, short}
Sizes    == [ code \in TwoCodes |-> IF code = long THEN 3 ELSE 1 ]

\* Decoder 0 sees a long instruction where decoder 1 sees a byte it cannot decode,
\* and the other way round.
Lengths ==
    [ code \in TwoCodes |-> [ decoder \in 0 .. 1 |-> [ offset \in 0 .. Sizes[code] - 1 |->
        IF decoder = 0 THEN <<1, 2, 1>>[offset + 1] ELSE <<2, 0, 1>>[offset + 1] ] ] ]
===============================================================================
