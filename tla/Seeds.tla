--------------------------------- MODULE Seeds ---------------------------------
(***************************************************************************)
(* The registers a run starts with: the --seed argument fills text fields  *)
(* one entry at a time, the user interface edits them, a run composes them *)
(* (compose_seed of bme_core.cpp) and the platform installs the result     *)
(* with its own RSP and its default for RDI and RSI.                       *)
(*                                                                         *)
(* Every mask and shift of the code is a whole number of bytes, so a       *)
(* register is a sequence of bytes, least significant first, at its full   *)
(* width.  A text is what it spells: nothing, garbage, hexadecimal digits  *)
(* (as bytes) or a decimal with its IEEE and its 80-bit encoding.          *)
(***************************************************************************)
EXTENDS Integers, FiniteSets, SequencesExt

CONSTANTS Regs,        \* the general registers explored, "RSP" among them
          LegacyRegs,  \* those with a high-byte name
          XMMs, STs,   \* register numbers
          StatusFlags, \* the flags that can be seeded
          Entries,     \* assignments explored, [target, text] records
          DataBase,    \* address of the scratch data, 8 bytes
          InitialRSP,  \* top of the scratch stack, 8 bytes
          MaxWrites    \* bound on assignments and flag clicks

Byte == 0 .. 255
Text == [ kind : {"empty", "bad", "hex", "single", "double"},
          bytes : Seq(Byte), extended : Seq(Byte) ]
Empty == [ kind |-> "empty", bytes |-> <<>>, extended |-> <<>> ]

Pad(bytes, width)    == [ i \in 1 .. width |-> IF i <= Len(bytes) THEN bytes[i] ELSE 0 ]
Zero(width)          == Pad(<<>>, width)
FitsIn(bytes, width) == \A i \in width + 1 .. Len(bytes) : bytes[i] = 0

\* GPRSeed: where each slice lies in its register.
Slices == {"full", "dword", "word", "byte_high", "byte_low"}
Low    == [ s \in Slices |-> IF s = "byte_high" THEN 1 ELSE 0 ]
Width  == [ full |-> 8, dword |-> 4, word |-> 2, byte_high |-> 1, byte_low |-> 1 ]
Covers(s) == Low[s] + 1 .. Low[s] + Width[s]

SlicesOf(r) == IF r \in LegacyRegs THEN Slices ELSE Slices \ {"byte_high"}

GprTargets  == { <<"gpr", r, s>> : r \in Regs, s \in Slices }
EnvTargets  == { <<"env", "mxcsr", "">>, <<"env", "control_word", "">> }
XmmTargets  == { <<"xmm", i, "">> : i \in XMMs }
StTargets   == { <<"st", i, "">> : i \in STs }
FlagTargets == { <<"flag", f, "">> : f \in StatusFlags }
\* The fields; RSP has none.
Fields == { t \in GprTargets : t[2] # "RSP" /\ t[3] \in SlicesOf(t[2]) }
          \cup EnvTargets \cup XmmTargets \cup StTargets

ASSUME SeedsAssumption ==
    /\ "RSP" \in Regs \ LegacyRegs
    /\ \A e \in Entries : e.text \in Text
    /\ Len(DataBase) = 8 /\ Len(InitialRSP) = 8
    /\ MaxWrites \in Nat

-----------------------------------------------------------------------------
(* Parsing.  Invalid stands for a returned Error.                          *)

Invalid == <<>>

parse_seed(text) ==
    CASE text.kind = "empty" -> Zero(8)
      [] text.kind = "hex" /\ FitsIn(text.bytes, 8) -> Pad(text.bytes, 8)
      [] OTHER -> Invalid

\* parse_mxcsr_seed and parse_fpu_control_word_seed: sixteen bits.
parse_word_seed(text) ==
    LET value == parse_seed(text)
    IN  IF value # Invalid /\ FitsIn(value, 2) THEN Pad(value, 2) ELSE Invalid

\* Hexadecimal digits are counted here, leading zeros included.
compose_xmm_seed(text) ==
    CASE text.kind \in {"empty", "single", "double"} -> Pad(text.bytes, 16)
      [] text.kind = "hex" /\ Len(text.bytes) <= 16 -> Pad(text.bytes, 16)
      [] OTHER -> Invalid

compose_st_seed(text) ==
    CASE text.kind \in {"empty", "single", "double"} -> Pad(text.extended, 10)
      [] text.kind = "hex" /\ Len(text.bytes) <= 10 -> Pad(text.bytes, 10)
      [] OTHER -> Invalid

Parsed(target, text) ==
    CASE target[1] \in {"gpr", "flag"} -> parse_seed(text)
      [] target[1] = "env" -> parse_word_seed(text)
      [] target[1] = "xmm" -> compose_xmm_seed(text)
      [] target[1] = "st"  -> compose_st_seed(text)

-----------------------------------------------------------------------------

VARIABLES
    quick,       \* --quick: run once from the command line's fields
    pc,          \* "cli", then "edit" or "compose"; "done", "rejected", "failed"
    field,       \* the text fields of CLI and UI
    seed_flags,
    seed_data_pointers,
    requested,   \* the Registers compose_seed returned for the last run
    errors,      \* the fields it reported
    actual,      \* Trace::seed: what the platform installed
    written,     \* history: assignments and flag clicks, in order
    configured   \* history: what was written when the last run started

seedvars == <<quick, pc, field, seed_flags, seed_data_pointers, requested, errors, actual,
              written, configured>>
runVars == <<requested, errors, actual, configured>>

\* Wrong: the narrow slices first.
OverlayOrder_narrow_first == <<"byte_low", "byte_high", "word", "dword", "full">>

\* The order of the overlays in compose_gpr_seed.
OverlayOrder == <<"full", "dword", "word", "byte_high", "byte_low">>

\* One overlay: an empty or malformed text leaves the wider bits alone.
overlay(result, text, s) ==
    LET value == parse_seed(text)
    IN  IF text.kind = "empty" \/ value = Invalid THEN result
        ELSE [ i \in 1 .. 8 |-> IF i \in Covers(s) THEN value[i - Low[s]] ELSE result[i] ]

TextOf(target) == IF target \in Fields THEN field[target] ELSE Empty

compose_gpr_seed(r) ==
    LET Overlay(result, n) ==
            overlay(result, TextOf(<<"gpr", r, OverlayOrder[n]>>), OverlayOrder[n])
    IN  Overlay(Overlay(Overlay(Overlay(Overlay(Zero(8), 1), 2), 3), 4), 5)

\* A field that parses and is not empty, or the default.
Composed(target, default) ==
    LET value == Parsed(target, TextOf(target))
    IN  IF TextOf(target).kind = "empty" \/ value = Invalid THEN default ELSE value

compose_seed ==
    [ gpr   |-> [ r \in Regs |-> compose_gpr_seed(r) ],
      flags |-> seed_flags,
      mxcsr |-> Composed(<<"env", "mxcsr", "">>, <<128, 31>>),
      control_word |-> Composed(<<"env", "control_word", "">>, <<127, 3>>),
      xmm   |-> [ i \in XMMs |-> Composed(<<"xmm", i, "">>, Zero(16)) ],
      st    |-> [ i \in STs |-> Composed(<<"st", i, "">>, Zero(10)) ],
      tags  |-> { i \in STs : LET text == TextOf(<<"st", i, "">>)
                              IN  text.kind # "empty" /\ compose_st_seed(text) # Invalid } ]

compose_errors == { t \in Fields : Parsed(t, field[t]) = Invalid }

\* What run_platform_steps installs for a requested seed.
Installed(seed, pointers) ==
    [ seed EXCEPT !.gpr = [ r \in Regs |->
        CASE r = "RSP" -> InitialRSP
          [] r \in {"RDI", "RSI"} /\ pointers /\ seed.gpr[r] = Zero(8) -> DataBase
          [] OTHER -> seed.gpr[r] ] ]

SeedsInit ==
    /\ quick \in BOOLEAN
    /\ pc = "cli"
    /\ field = [ t \in Fields |-> Empty ]
    /\ seed_flags = {}
    /\ seed_data_pointers = TRUE
    /\ requested = compose_seed
    /\ errors = {}
    /\ actual = Installed(requested, TRUE)
    /\ written = <<>>
    /\ configured = <<>>

-----------------------------------------------------------------------------
(* parse_cli_seed_argument.                                                *)

Write(target, text) ==
    /\ Len(written) < MaxWrites
    /\ written' = Append(written, [target |-> target, text |-> text])

Accepted(e) ==
    /\ e.target \in Fields \cup FlagTargets
    /\ e.text.kind # "empty"
    /\ Parsed(e.target, e.text) # Invalid

\* One name=value entry: a later one replaces an earlier one of the same name;
\* a flag is set by any value but zero.
AcceptEntry(e) ==
    /\ pc = "cli"
    /\ Accepted(e)
    /\ Write(e.target, e.text)
    /\ IF e.target \in Fields
       THEN /\ field' = [field EXCEPT ![e.target] = e.text]
            /\ UNCHANGED seed_flags
       ELSE /\ seed_flags' = IF parse_seed(e.text) # Zero(8) THEN seed_flags \cup {e.target[2]}
                             ELSE seed_flags \ {e.target[2]}
            /\ UNCHANGED field
    /\ UNCHANGED <<quick, pc, seed_data_pointers, runVars>>

\* A slice of RSP, an unknown name, an empty or a malformed value: no run.
RejectEntry(e) ==
    /\ pc = "cli"
    /\ ~Accepted(e)
    /\ pc' = "rejected"
    /\ UNCHANGED <<quick, field, seed_flags, seed_data_pointers, written, runVars>>

EndOfArgument ==
    /\ pc = "cli"
    /\ pc' = IF quick THEN "compose" ELSE "edit"
    /\ UNCHANGED <<quick, field, seed_flags, seed_data_pointers, written, runVars>>

-----------------------------------------------------------------------------
(* The user interface and the run.                                         *)

\* Any text can be typed, and stays whether or not it parses.
EditField(e) ==
    /\ pc = "edit"
    /\ e.target \in Fields
    /\ Write(e.target, e.text)
    /\ field' = [field EXCEPT ![e.target] = e.text]
    /\ UNCHANGED <<quick, pc, seed_flags, seed_data_pointers, runVars>>

ClickFlag(f) ==
    /\ pc = "edit"
    /\ Write(<<"click", f, "">>, Empty)
    /\ seed_flags' = IF f \in seed_flags THEN seed_flags \ {f} ELSE seed_flags \cup {f}
    /\ UNCHANGED <<quick, pc, field, seed_data_pointers, runVars>>

ToggleDataPointers ==
    /\ pc = "edit"
    /\ seed_data_pointers' = ~seed_data_pointers
    /\ UNCHANGED <<quick, pc, field, seed_flags, written, runVars>>

\* execute and run_quick: compose, then run; --quick gives up on an error.
RunSeed ==
    /\ pc \in {"edit", "compose"}
    /\ requested' = compose_seed
    /\ errors' = compose_errors
    /\ configured' = written
    /\ IF quick /\ errors' # {}
       THEN UNCHANGED actual
       ELSE actual' = Installed(requested', seed_data_pointers)
    /\ pc' = IF ~quick THEN "edit" ELSE IF errors' # {} THEN "failed" ELSE "done"
    /\ UNCHANGED <<quick, field, seed_flags, seed_data_pointers, written>>

Ended ==
    /\ pc \in {"done", "rejected", "failed"}
    /\ UNCHANGED seedvars

SeedsNext ==
    \/ \E e \in Entries : AcceptEntry(e) \/ RejectEntry(e) \/ EditField(e)
    \/ EndOfArgument
    \/ \E f \in StatusFlags : ClickFlag(f)
    \/ ToggleDataPointers
    \/ RunSeed
    \/ Ended

SeedsSpec == SeedsInit /\ [][SeedsNext]_seedvars

-----------------------------------------------------------------------------
(* Properties.                                                             *)

\* The text written last to a target, in a history of what was written.
LastText(log, target) ==
    LET at == { i \in 1 .. Len(log) : log[i].target = target }
    IN  IF at = {} THEN Empty ELSE log[Max(at)].text

Seeded(log, target) ==
    LET text == LastText(log, target)
    IN  text.kind # "empty" /\ Parsed(target, text) # Invalid

\* The byte of a register that the narrowest seeded slice over it gives.
ReferenceByte(log, r, i) ==
    LET over == { s \in SlicesOf(r) : i \in Covers(s) /\ Seeded(log, <<"gpr", r, s>>) }
        s    == CHOOSE s \in over : \A t \in over : Width[s] <= Width[t]
    IN  IF over = {} THEN 0
        ELSE Parsed(<<"gpr", r, s>>, LastText(log, <<"gpr", r, s>>))[i - Low[s]]

Clicks(log, f) == { i \in 1 .. Len(log) : log[i].target = <<"click", f, "">> }

ReferenceFlag(log, f) ==
    LET flag == <<"flag", f, "">>
    IN  (Seeded(log, flag) /\ ~FitsIn(LastText(log, flag).bytes, 0))
            # (Cardinality(Clicks(log, f)) % 2 = 1)

\* A run starts with what was written, in whatever order it was written: each byte
\* of a register comes from the narrowest well-formed slice over it, a malformed
\* field gives way to the wider ones and is the only thing reported, an x87 register
\* is marked in use exactly when it was seeded, and what the command line accepted
\* never fails to compose (run_quick calls that unreachable).
SeedsAsWritten ==
    /\ \A r \in Regs, i \in 1 .. 8 :
         requested.gpr[r][i] = IF r = "RSP" THEN 0 ELSE ReferenceByte(configured, r, i)
    /\ \A r \in Regs \ {"RSP", "RDI", "RSI"} : pc # "failed" => actual.gpr[r] = requested.gpr[r]
    /\ requested.flags = { f \in StatusFlags : ReferenceFlag(configured, f) }
    /\ requested.tags = { i \in STs : Seeded(configured, <<"st", i, "">>) }
    /\ errors = { t \in Fields : Parsed(t, LastText(configured, t)) = Invalid }
    /\ pc # "failed"

\* RDI and RSI point at the scratch data only when they were left unseeded (the
\* comments at UI::seed_data_pointers and in run_quick).
DefaultOnlyIfUnseeded ==
    \A r \in Regs \cap {"RDI", "RSI"} :
        actual.gpr[r] # requested.gpr[r] =>
            \A s \in SlicesOf(r) : ~Seeded(configured, <<"gpr", r, s>>)
===============================================================================
