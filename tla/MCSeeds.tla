-------------------------------- MODULE MCSeeds --------------------------------
(* An instance of Seeds for TLC: every slice of a legacy register, two      *)
(* slices of RDI, one field of each other kind, and texts at the edges of   *)
(* the widths.                                                              *)
EXTENDS Seeds

Hex(bytes) == [ kind |-> "hex", bytes |-> bytes, extended |-> <<>> ]

Nil     == Hex(<<0>>)
Short   == Hex(<<200>>)
Full    == Hex(<<1, 2, 3, 4, 5, 6, 7, 8>>)
Wide    == Hex(<<0, 0, 0, 0, 0, 0, 0, 0, 9>>)            \* more than 64 bits
Padded  == Hex(<<17, 18, 0, 0, 0, 0, 0, 0, 0, 0, 0>>)    \* leading zeros past 80 bits
Decimal == [ kind |-> "single", bytes |-> <<0, 0, 128, 63>>,
             extended |-> <<0, 0, 0, 0, 0, 0, 0, 128, 255, 63>> ]
Bad     == [ kind |-> "bad", bytes |-> <<>>, extended |-> <<>> ]

At(targets, texts) == { [target |-> t, text |-> x] : t \in targets, x \in texts }
Slice(r, slices)   == { <<"gpr", r, s>> : s \in slices }

SomeEntries ==
    At(Slice("RAX", Slices), {Full, Bad})
    \cup At(Slice("RAX", {"byte_high", "byte_low"}), {Short})
    \cup At(Slice("RAX", {"full", "word"}), {Padded, Empty})
    \cup At(Slice("RDI", {"full", "dword"}), {Nil})
    \cup At(EnvTargets, {Full})
    \cup At(XmmTargets \cup StTargets, {Wide, Padded})
    \cup At(StTargets, {Decimal})
    \cup At(FlagTargets, {Nil, Short})
    \cup At({<<"gpr", "RSP", "full">>}, {Short})

Base == <<0, 16, 0, 0, 0, 0, 0, 0>>
Top  == <<248, 255, 0, 0, 0, 0, 0, 0>>
===============================================================================
