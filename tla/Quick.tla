---------------------------------- MODULE Quick ----------------------------------
(***************************************************************************)
(* One run of the program from its command line: CLI::parse, main and,     *)
(* with --quick, run_quick - the input is read, the engine runs, and the   *)
(* trace goes to standard output as text or as one JSON document.  The     *)
(* program is sequential; what surrounds it is not: the engine may return  *)
(* any trace it can produce, a device may fill up in the middle of the     *)
(* output, and serialization may fail.                                     *)
(*                                                                         *)
(* A text line or a section of the document is one chunk.  Wording and     *)
(* number formats are left out; the registers of one kind are one value.   *)
(***************************************************************************)
EXTENDS ByteText, Layout

CONSTANTS CommandLines,  \* the command lines explored
          Backends,      \* the compiled decoders, in SERIALIZED_BACKENDS' order
          AttBackends,   \* those that can print AT&T syntax
          Length,        \* Length[backend][byte]: decoded length, 0 if undecodable
          Registers,     \* register values explored
          MaxTrace,      \* longest trace explored
          DEFAULT_MAX_STEPS,
          MAX_STEPS_LIMIT,
          MAX_RAW_FILE_BYTES

\* Registers: its members, and the class of --track each belongs to.
RegisterClass ==
    [ gpr |-> "gpr", rip |-> "rip", rflags |-> "rflags", xmm |-> "xmm", mxcsr |-> "xmm",
      st |-> "x87", fpu_control_word |-> "x87", fpu_status_word |-> "x87",
      fpu_tag_word_abridged |-> "x87" ]

DEFAULT_MXCSR            == 8064  \* 0x1F80
DEFAULT_FPU_CONTROL_WORD == 895   \* 0x037F

\* Registers{}: two of its members are not zero.
DefaultRegisters ==
    [ r \in DOMAIN RegisterClass |->
        CASE r = "mxcsr"            -> DEFAULT_MXCSR
          [] r = "fpu_control_word" -> DEFAULT_FPU_CONTROL_WORD
          [] OTHER                  -> 0 ]

\* CLI and the file it names; "rooms" is what the device may take.  Options that
\* may be absent are sequences.
CommandLine ==
    [ bytes : Seq(Seq(Chars)),
      file : Seq([ state : STRING, size : Nat, bytes : Seq(0 .. 255) ]),
      quick : BOOLEAN, format : {"absent", "text", "json"}, pretty : BOOLEAN,
      track : Seq(SUBSET STRING), max_steps : Seq(Int), seed_valid : BOOLEAN,
      syntax : {"intel", "att"}, backend : Range(Backends), rooms : SUBSET Nat ]

ASSUME QuickAssumption ==
    /\ Backends \in Seq(STRING)
    /\ AttBackends \subseteq Range(Backends)
    /\ \A b \in Range(Backends) : Length[b] \in [0 .. 255 -> Nat]
    /\ Registers \subseteq [DOMAIN RegisterClass -> Int]
    /\ DefaultRegisters \in Registers
    /\ MaxTrace \in Nat
    /\ DEFAULT_MAX_STEPS \in Nat \ {0}
    /\ MAX_STEPS_LIMIT \in Nat /\ DEFAULT_MAX_STEPS <= MAX_STEPS_LIMIT
    /\ CommandLines \subseteq CommandLine
    /\ \A a \in CommandLines :
         a.file # <<>> => a.file[1].bytes # <<>> \/ a.file[1].state # "ok" \/ a.file[1].size = 0

TrackClasses == {"gpr", "rip", "rflags", "xmm", "x87"}

NoTrace ==
    [ outcome |-> "Idle", instrumentation |-> FALSE, seed |-> DefaultRegisters,
      events |-> <<>>, effective_max_steps |-> 0 ]

VARIABLES
    args,       \* the command line
    stage,
    code,       \* decoded: the bytes to run
    trace,
    chunks,     \* what the output consists of
    printed,    \* how many of them were handed to the stream
    buffered,   \* how many of those are still in its buffer
    written,    \* how many the device took
    room,       \* how many it can take
    stream,     \* "good" or "bad"
    diagnosed,  \* something was written to stderr
    exit_code

quickvars == <<textvars, args, stage, code, trace, chunks, printed, buffered, written, room, stream,
               diagnosed, exit_code>>
output == <<printed, buffered, written, room, stream>>

NotExited == -1
Aborted   == 134

QuickInit ==
    /\ args \in CommandLines
    /\ TextInit(IF args.bytes = <<>> THEN <<>> ELSE args.bytes[1])
    /\ stage = "arguments"
    /\ code = <<>>
    /\ trace = NoTrace
    /\ chunks = <<>>
    /\ printed = 0
    /\ buffered = 0
    /\ written = 0
    /\ room \in args.rooms
    /\ stream = "good"
    /\ diagnosed = FALSE
    /\ exit_code = NotExited

Least(a, b) == IF a < b THEN a ELSE b

-----------------------------------------------------------------------------
(* The command line.                                                       *)

backend_supports(backend, syntax) == syntax = "intel" \/ backend \in AttBackends

\* What CLI::parse rejects, in its order; the first is argparse's own.  A bad
\* --max-steps is one that is not a positive number (0, or -1 for a text).
Rejected(a) ==
    \/ a.bytes # <<>> /\ a.file # <<>>
    \/ a.format # "absent" /\ ~a.quick
    \/ a.pretty /\ (~a.quick \/ a.format # "json")
    \/ a.format = "json" /\ a.track # <<>>
    \/ a.max_steps # <<>> /\ a.max_steps[1] <= 0
    \/ a.track # <<>> /\ ~(a.track[1] \subseteq TrackClasses \cup {"all", "none"})
    \/ ~a.seed_valid
    \/ ~backend_supports(a.backend, a.syntax)

Json  == args.format = "json"

\* The mask of --track.
track ==
    IF args.track = <<>> THEN {"gpr", "rip", "rflags"}
    ELSE IF "all" \in args.track[1] THEN TrackClasses ELSE args.track[1] \cap TrackClasses

\* The registers whose deltas are printed.
Tracked == { r \in DOMAIN RegisterClass : RegisterClass[r] \in track }

max_steps ==
    IF args.max_steps = <<>> THEN DEFAULT_MAX_STEPS ELSE Least(args.max_steps[1], MAX_STEPS_LIMIT)

\* The process ends; the C library then flushes what is still buffered and
\* nobody looks at whether that worked.
Leave(status, message) ==
    /\ stage' = "exited"
    /\ exit_code' = status
    /\ diagnosed' = (diagnosed \/ message)
    /\ written' = Least(room, written + buffered)
    /\ buffered' = 0

\* main: a rejected command line, the UI, or run_quick.
ParseArguments ==
    /\ stage = "arguments"
    /\ \/ /\ Rejected(args)
          /\ Leave(1, TRUE)
       \/ /\ ~Rejected(args)
          /\ ~args.quick
          /\ stage' = "tui"
          /\ UNCHANGED <<exit_code, diagnosed, written, buffered>>
       \/ /\ ~Rejected(args)
          /\ args.quick
          /\ stage' = "input"
          /\ UNCHANGED <<exit_code, diagnosed, written, buffered>>
    /\ UNCHANGED <<textvars, args, code, trace, chunks, printed, room, stream>>

-----------------------------------------------------------------------------
(* The input.                                                              *)

\* read_binary_input: a file that cannot be opened, measured or read, is longer
\* than the limit or empty, gives no bytes.
read_binary_input(file) ==
    IF file.state = "ok" /\ file.size \in 1 .. MAX_RAW_FILE_BYTES THEN file.bytes ELSE <<>>

ParseInput ==
    /\ stage = "input"
    /\ args.bytes # <<>>
    /\ ParseStep
    /\ UNCHANGED <<args, stage, code, trace, chunks, output, diagnosed, exit_code>>

\* The input is there, or run_quick gives up.  The seed was checked by CLI::parse,
\* so compose_seed cannot fail (Seeds).
Run(bytes) ==
    /\ IF bytes = <<>>
       THEN /\ Leave(1, TRUE)
            /\ UNCHANGED code
       ELSE /\ code' = bytes
            /\ stage' = "run"
            /\ UNCHANGED <<exit_code, diagnosed, written, buffered>>
    /\ UNCHANGED <<textvars, args, trace, chunks, printed, room, stream>>

HaveInput ==
    /\ stage = "input"
    /\ \/ args.bytes # <<>> /\ notation = "parsed" /\ Run(parsed)
       \/ args.bytes # <<>> /\ notation = "invalid" /\ Run(<<>>)
       \/ args.bytes = <<>> /\ args.file # <<>> /\ Run(read_binary_input(args.file[1]))
       \/ args.bytes = <<>> /\ args.file = <<>> /\ Run(<<>>)

\* run_engine (Engine): it was refused or failed without events, or it ran n
\* instructions of the input, the cap at most, and may have faulted after them,
\* at an instruction or at an address it jumped to.  A run that failed may have
\* installed its seed or not.  Stopped and AbortedCap are not told apart from
\* Finished here.
Traces(bytes, cap) ==
    LET inside  == 0 .. Len(bytes) - 1
        most    == Least(MaxTrace, cap)
        Events(kind, offsets) == [ offset : offsets, kind : {kind}, registers : Registers ]
        runs    == UNION { { e \in [1 .. n -> Events("Completed", inside)]
                             : n > 0 => e[1].offset = 0 } : n \in 0 .. most }
        faulted == { Append(e, f) : e \in { r \in runs : Len(r) < most },
                                    f \in Events("Faulted", inside \cup {-1, Len(bytes)}) }
        Trace(outcomes, instrumentations, seeds, events) ==
            [ outcome : outcomes, instrumentation : instrumentations, seed : seeds,
              events : events, effective_max_steps : {cap} ]
    IN  Trace({"Error"}, {TRUE}, {DefaultRegisters}, {<<>>})
        \cup Trace({"Error"}, {FALSE}, Registers, {<<>>})
        \cup Trace({"Finished"}, {FALSE}, Registers, runs)
        \cup Trace({"Faulted"}, {FALSE}, Registers,
                   { f \in faulted : Len(f) = 1 => f[1].offset = 0 })

-----------------------------------------------------------------------------
(* Standard output.                                                        *)

Chunk(label, body) == [ label |-> label, body |-> body ]

\* The next chunk goes to the stream's buffer, which the library empties when it wants.
\* A device without room makes the stream bad; what is put then is lost.
Put ==
    /\ printed' = printed + 1
    /\ UNCHANGED room
    /\ IF stream = "bad" THEN UNCHANGED <<buffered, written, stream>>
       ELSE \/ /\ buffered' = buffered + 1
               /\ UNCHANGED <<written, stream>>
            \/ /\ written' = Least(room, written + buffered + 1)
               /\ buffered' = 0
               /\ stream' = IF written + buffered + 1 <= room THEN "good" ELSE "bad"

\* build_history (History) for a trace.
history(t, backend) ==
    IF t.instrumentation THEN <<>>
    ELSE Layout(Len(code), t.events, [ o \in 0 .. Len(code) - 1 |-> Length[backend][code[o + 1]] ])

\* print_deltas: the tracked registers that differ.
print_deltas(before, after) ==
    { <<r, before[r], after[r]>> : r \in { c \in Tracked : before[c] # after[c] } }

\* Wrong: every row is compared with the seed.
line_from_seed(t, shown, i) ==
    LET row == shown[i]
    IN  IF row.event = 0 THEN Chunk("static", row)
        ELSE Chunk("row", [ event |-> row.event, kind |-> row.kind,
                            deltas |-> print_deltas(t.seed, t.events[row.event].registers) ])

\* The line of a row.  "previous" is the state after the last completed row above.
line(t, shown, i) ==
    LET row      == shown[i]
        above    == { j \in 1 .. i - 1 : shown[j].kind = "Reached" }
        previous == IF above = {} THEN t.seed ELSE t.events[shown[Max(above)].event].registers
    IN  IF row.event = 0 THEN Chunk("static", row)
        ELSE Chunk("row", [ event |-> row.event, kind |-> row.kind,
                            deltas |-> print_deltas(previous, t.events[row.event].registers) ])

TextLines(t) ==
    LET shown == history(t, args.backend)
    IN  <<Chunk("cpu", <<>>), Chunk("seed", print_deltas(DefaultRegisters, t.seed))>>
        \o [ i \in 1 .. Len(shown) |-> line(t, shown, i) ]
        \o <<Chunk("message", t.outcome)>>

\* println throws when the stream fails, and nobody catches it.
PrintLine ==
    /\ stage = "text"
    /\ trace.outcome # "Error"
    /\ stream = "good"
    /\ printed < Len(chunks)
    /\ Put
    /\ UNCHANGED <<textvars, args, stage, code, trace, chunks, diagnosed, exit_code>>

FinishText ==
    /\ stage = "text"
    /\ \/ trace.outcome = "Error" /\ Leave(1, TRUE)
       \/ trace.outcome # "Error" /\ stream = "bad" /\ Leave(Aborted, TRUE)
       \/ /\ trace.outcome # "Error" /\ stream = "good" /\ printed = Len(chunks)
          /\ Leave(0, FALSE)
    /\ UNCHANGED <<textvars, args, code, trace, chunks, printed, room, stream>>

-----------------------------------------------------------------------------
(* JSON, write_trace_json.                                                 *)

effective_syntax(backend) ==
    IF backend_supports(backend, args.syntax) THEN args.syntax ELSE "intel"

\* Wrong: the end of the input counts as inside it.
relative_offset_inclusive(event) ==
    IF event.offset \in 0 .. Len(code) THEN <<event.offset>> ELSE <<>>

\* The offset of an event, none outside the input.
relative_offset(event) == IF event.offset \in 0 .. Len(code) - 1 THEN <<event.offset>> ELSE <<>>

ExecutionEventDocument(t, index) ==
    [ index |-> index, classification |-> t.events[index].kind,
      offset |-> relative_offset(t.events[index]), registers |-> t.events[index].registers ]

HistoryRowDocument(row) ==
    [ offset |-> row.offset, bytes |-> SubSeq(code, row.offset + 1, row.offset + row.length),
      classification |-> row.kind, execution_event |-> row.event ]

DecoderDocument(t, backend) ==
    LET shown == history(t, backend)
    IN  [ backend |-> backend, effective_syntax |-> effective_syntax(backend),
          rows |-> [ i \in 1 .. Len(shown) |-> HistoryRowDocument(shown[i]) ] ]

RequestDocument(t) ==
    Chunk("request", [ input_bytes |-> code, effective_max_steps |-> t.effective_max_steps ])

\* The seed, each event as a chunk of its own, and how the run ended.
ExecutionView(t) ==
    <<Chunk("seed", t.seed)>>
    \o [ i \in 1 .. Len(t.events) |-> Chunk("event", ExecutionEventDocument(t, i)) ]
    \o <<Chunk("outcome", t.outcome)>>

\* TraceDocumentView: the members of the document in the order in which they are
\* streamed, one chunk for each decoder, and the newline.
Sections(t) ==
    <<Chunk("producer", <<>>), Chunk("host", <<>>), RequestDocument(t)>>
    \o ExecutionView(t)
    \o [ d \in 1 .. Len(Backends) |-> Chunk("decoder", DecoderDocument(t, Backends[d])) ]
    \o <<Chunk("newline", <<>>)>>

SerializeMember ==
    /\ stage = "json"
    /\ printed < Len(chunks) - 1
    /\ Put
    /\ UNCHANGED <<textvars, args, stage, code, trace, chunks, diagnosed, exit_code>>

\* The serializer reports an error, or throws.
SerializeFails ==
    /\ stage = "json"
    /\ printed < Len(chunks) - 1
    /\ Leave(1, TRUE)
    /\ UNCHANGED <<textvars, args, code, trace, chunks, printed, room, stream>>

\* Wrong: the stream is asked before it has been flushed.
FinishJson_unflushed ==
    /\ stage = "json"
    /\ printed = Len(chunks) - 1
    /\ \/ stream = "bad" /\ Leave(1, TRUE) /\ UNCHANGED <<printed, stream>>
       \/ /\ stream = "good"
          /\ printed' = printed + 1
          /\ stream' = stream
          /\ stage' = "exited"
          /\ exit_code' = IF trace.outcome = "Error" THEN 1 ELSE 0
          /\ written' = Least(room, written + buffered + 1)
          /\ buffered' = 0
          /\ diagnosed' = diagnosed
    /\ UNCHANGED <<textvars, args, code, trace, chunks, room>>

\* buffer.good(), the newline, the flush and output.good(); a trace that failed
\* is still a whole document and then a nonzero status.
FinishJson ==
    /\ stage = "json"
    /\ printed = Len(chunks) - 1
    /\ \/ stream = "bad" /\ Leave(1, TRUE) /\ UNCHANGED <<printed, stream>>
       \/ /\ stream = "good"
          /\ LET fits == written + buffered + 1 <= room
             IN  /\ printed' = printed + 1
                 /\ stream' = IF fits THEN "good" ELSE "bad"
                 /\ stage' = "exited"
                 /\ exit_code' = IF fits /\ trace.outcome # "Error" THEN 0 ELSE 1
                 /\ written' = Least(room, written + buffered + 1)
                 /\ buffered' = 0
                 /\ diagnosed' = (diagnosed \/ ~fits)
    /\ UNCHANGED <<textvars, args, code, trace, chunks, room>>

\* What will be printed is a function of the trace; that it gets there is not.
RunEngine ==
    /\ stage = "run"
    /\ \E t \in Traces(code, max_steps) :
         /\ trace' = t
         /\ chunks' = IF Json THEN Sections(t) ELSE IF t.outcome = "Error" THEN <<>> ELSE TextLines(t)
    /\ stage' = IF Json THEN "json" ELSE "text"
    /\ UNCHANGED <<textvars, args, code, output, diagnosed, exit_code>>

\* The input blocks in a system call, and run_engine does not return.
Blocks ==
    /\ stage = "run"
    /\ stage' = "blocked"
    /\ UNCHANGED <<textvars, args, code, trace, chunks, output, diagnosed, exit_code>>

Ended ==
    /\ stage \in {"exited", "tui", "blocked"}
    /\ UNCHANGED quickvars

QuickNext ==
    \/ ParseArguments \/ ParseInput \/ HaveInput \/ RunEngine \/ Blocks \/ PrintLine \/ FinishText
    \/ SerializeMember \/ SerializeFails \/ FinishJson \/ Ended

QuickSpec == QuickInit /\ [][QuickNext]_quickvars

\* The program runs on; that run_engine returns or blocks is Engine's Returns.
QuickFairSpec == QuickSpec /\ WF_quickvars(QuickNext)

-----------------------------------------------------------------------------
(* Properties.                                                             *)

Exited == stage = "exited"
Whole  == written = Len(chunks) /\ chunks # <<>>

\* The contract of README.md "JSON output".  Status 0 under --format json: the whole
\* document and its newline are on the device and the run was not an error.  Any
\* other status: stderr says why, or the whole document does, with outcome error.
\* Rejected arguments or input leave standard output empty, and an engine error is
\* never hidden behind status 0 in either format.  Text output that ends with 0
\* has been handed over line by line to a stream that was good each time.
ExitTruthful ==
    Exited =>
        /\ exit_code = 0 =>
             /\ trace.outcome \notin {"Idle", "Error"}
             /\ Json => Whole
             /\ ~Json => chunks # <<>> /\ printed = Len(chunks)
        /\ exit_code # 0 => diagnosed \/ (Json /\ Whole /\ trace.outcome = "Error")
        /\ code = <<>> => exit_code = 1 /\ written = 0 /\ diagnosed
        /\ ~Json /\ trace.outcome = "Error" => exit_code = 1 /\ written = 0

\* A reader of the printed deltas: whether a delta starts from what he has, and
\* what he has after applying it.
Agrees(deltas, state) == \A d \in deltas : state[d[1]] = d[2]

Apply(deltas, state) ==
    [ c \in DOMAIN state |->
        IF \E d \in deltas : d[1] = c THEN (CHOOSE d \in deltas : d[1] = c)[3] ELSE state[c] ]

\* His registers after each line: those of Registers{}, then moved by the seed and by
\* every row that is not a look ahead.
Replayed(lines) ==
    LET State[p \in 0 .. Len(lines)] ==
            IF p = 0 THEN DefaultRegisters
            ELSE IF lines[p].label = "seed" THEN Apply(lines[p].body, State[p - 1])
            ELSE IF lines[p].label = "row" /\ lines[p].body.kind # "Faulted"
                 THEN Apply(lines[p].body.deltas, State[p - 1])
            ELSE State[p - 1]
    IN  State

Labelled(lines, label) == { p \in 1 .. Len(lines) : lines[p].label = label }

InBytes(bytes, event) == event.offset \in 0 .. Len(bytes) - 1

\* For the registers given, the lines tell the seed and the events of a trace.
Replays(lines, names, bytes, t) ==
    LET State    == Replayed(lines)
        Rows     == Labelled(lines, "row")
        Event(p) == lines[p].body.event
        Same(state, registers) == \A c \in names : state[c] = registers[c]
    IN  /\ \E p \in Labelled(lines, "seed") : Same(State[p], t.seed) /\ \A q \in Rows : p < q
        /\ \A p \in Labelled(lines, "seed") : Agrees(lines[p].body, State[p - 1])
        /\ \A p \in Rows :
             /\ Event(p) \in 1 .. Len(t.events) /\ InBytes(bytes, t.events[Event(p)])
             /\ Agrees(lines[p].body.deltas, State[p - 1])
             /\ Same(Apply(lines[p].body.deltas, State[p - 1]), t.events[Event(p)].registers)
        /\ \A p, q \in Rows : p < q => Event(p) < Event(q)
        /\ \A k \in 1 .. Len(t.events) :
             InBytes(bytes, t.events[k]) => \E p \in Rows : Event(p) = k

\* A reader who starts from Registers{} and applies the deltas run_quick prints - Reached
\* rows move on, a Faulted row is only a look ahead - gets, for the tracked registers,
\* the trace's seed and then each event's; the "before" of every delta, the seed's too,
\* is the value he has.  Every event inside the input has one row, in execution order.
\* From registers that are all zero, as the comment in run_quick has it, he would get a
\* wrong MXCSR and x87 control word.
TextReplays ==
    Exited /\ ~Json /\ exit_code = 0 => Replays(chunks, Tracked, code, trace)

\* One decoder's rows against the bytes and the events of the document.
DecoderConsistent(decoder, document) ==
    LET table   == decoder.rows
        Rows(k) == { i \in 1 .. Len(table) : table[i].execution_event = k }
        Named(row, event) ==
            /\ event.offset = <<row.offset>>
            /\ row.classification =
                 IF event.classification = "Completed" THEN "Reached" ELSE "Faulted"
    IN  /\ backend_supports(decoder.backend, decoder.effective_syntax)
        /\ \A p \in Labelled(document, "event") :
             LET event == document[p].body
             IN  IF event.offset = <<>> THEN Rows(event.index) = {}
                 ELSE \E i \in Rows(event.index) :
                        Rows(event.index) = {i} /\ Named(table[i], event)
        /\ \A i, j \in 1 .. Len(table) :
             i < j /\ i \notin Rows(0) /\ j \notin Rows(0)
                 => table[i].execution_event < table[j].execution_event

\* A byte of the input is in a row, as it is there.
Shows(row, bytes, o) ==
    /\ o \in row.offset .. row.offset + Len(row.bytes) - 1
    /\ row.bytes[o - row.offset + 1] = bytes[o + 1]

Consistent(document, bytes, t) ==
    LET Decoders == Labelled(document, "decoder")
    IN  /\ \A p \in Labelled(document, "event") :
             document[p].body.index = Cardinality({ q \in Labelled(document, "event") : q <= p })
        /\ Cardinality(Decoders) = Len(Backends)
        /\ \A p \in Decoders :
             LET table == document[p].body.rows
             IN  /\ DecoderConsistent(document[p].body, document)
                 /\ ~t.instrumentation =>
                      \A o \in 0 .. Len(bytes) - 1 :
                        \E i \in 1 .. Len(table) : Shows(table[i], bytes, o)

\* The parts of a whole JSON document agree, although every decoder's history is
\* built anew: the events are numbered in order; for every decoder, an event has
\* an offset exactly if one row carries its number, and that row has its offset
\* and classification; the rows with events come in execution order; every byte
\* of input_bytes is in some row, as it is there; and the syntax a decoder is
\* said to have used is one it has.
DocumentConsistent == Exited /\ Json /\ Whole => Consistent(chunks, code, trace)

\* The program ends, or hands over to the user interface, whatever it is given, unless
\* the bytes it runs block in a system call (README.md: "a blocking system call can
\* stall a run").  In particular every loop of parse_code_text comes to an end.
Exits == <>(stage \in {"exited", "tui", "blocked"})
===============================================================================
