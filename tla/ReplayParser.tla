----------------------------- MODULE ReplayParser -----------------------------
(***************************************************************************)
(* process_jsonl_file of src/core/replay.c: from the lines of a recording  *)
(* to the calls of aggregator_update.  The code does not parse JSON, it    *)
(* searches text for keys; a line is here the sequence of its members,     *)
(* tokens [key, val], and the buffers hold so many tokens.                 *)
(***************************************************************************)
EXTENDS Integers, Sequences, FiniteSetsExt, Lists, PdTypes

CONSTANTS
    Recordings,  \* sequences of lines [tokens, sent, complete]
    LineMax,     \* tokens that fit in line[4096]
    SliceMax,    \* tokens that fit in slice[1024]
    Cut(_)       \* what may be found in the first part of a token

ASSUME ReplayParserAssumption ==
    /\ LineMax \in Nat \ {0} /\ SliceMax \in Nat \ {0}
    /\ \A r \in Recordings : \A k \in DOMAIN r : DOMAIN r[k] = {"tokens", "sent", "complete"}

VARIABLES
    recording,
    running,    \* feeder->running
    replayPc,   \* the next search
    lines,      \* lines begun
    rest,       \* what fgets has left of the current line
    line,       \* the buffer
    cursor,     \* position in it
    ingested    \* the calls of aggregator_update

replayVars == <<recording, running, replayPc, lines, rest, line, cursor, ingested>>

ReplayInit ==
    /\ recording \in Recordings
    /\ running = TRUE /\ replayPc = "read"
    /\ lines = 0 /\ rest = <<>> /\ line = <<>> /\ cursor = 0
    /\ ingested = <<>>

\* replay_feeder_stop, at any time.
StopFeeder ==
    /\ running /\ replayPc # "done"
    /\ running' = FALSE
    /\ UNCHANGED <<recording, replayPc, lines, rest, line, cursor, ingested>>

\* What a buffer for max tokens gets of these: the one it ends in is cut.
Buffered(tokens, max) ==
    IF Len(tokens) <= max THEN {tokens}
    ELSE LET whole == SubSeq(tokens, 1, max)
         IN {whole} \cup {Append(whole, t) : t \in Cut(tokens[max + 1])}

Positions(tokens, key) == {k \in DOMAIN tokens : tokens[k].key = key}

\* fgets: the next line or more of the one before.
ReadLine ==
    /\ replayPc = "read" /\ running
    /\ rest # <<>> \/ lines < Len(recording)
    /\ LET more == IF rest = <<>> THEN recording[lines + 1].tokens ELSE rest
       IN \E chunk \in Buffered(more, LineMax) :
             /\ line' = chunk
             /\ rest' = SubSeq(more, Len(chunk) + 1, Len(more))
    /\ lines' = IF rest = <<>> THEN lines + 1 ELSE lines
    /\ replayPc' = "devices" /\ cursor' = 0
    /\ UNCHANGED <<recording, running, ingested>>

EndOfFile ==
    /\ replayPc = "read"
    /\ ~running \/ (rest = <<>> /\ lines = Len(recording))
    /\ replayPc' = "done"
    /\ UNCHANGED <<recording, running, lines, rest, line, cursor, ingested>>

FindDevices ==
    /\ replayPc = "devices"
    /\ LET at == Positions(line, "devices")
       IN IF at = {} THEN replayPc' = "read" /\ UNCHANGED cursor
                     ELSE replayPc' = "scan" /\ cursor' = Min(at)
    /\ UNCHANGED <<recording, running, lines, rest, line, ingested>>

\* The first value for a key in a slice: parse_protocol, parse_device_field_int.
FirstValue(slice, key, default) ==
    LET at == Positions(slice, key)
    IN IF at = {} THEN default ELSE slice[Min(at)].val

\* ingest_json_line.  The slice begins with an address; one that cannot be
\* parsed makes no sighting.
Ingested(slice) ==
    IF slice[1].val = "bad" THEN <<>>
    ELSE <<[mac |-> slice[1].val,
            protocol |-> IF FirstValue(slice, "protocol", "ble") = "wifi"
                         THEN "wifi" ELSE "ble",
            rssi |-> Int8(FirstValue(slice, "rssi", DefaultRssiCutoff + 10)),
            tx_power |-> Int8(FirstValue(slice, "tx_power", DefaultTxPower))]>>

NextMacs == {k \in Positions(line, "mac") : k > cursor}

\* Mutant: the slice begins where the devices do.
IngestDeviceFromFirst ==
    /\ replayPc = "scan" /\ NextMacs # {}
    /\ cursor' = Min(NextMacs)
    /\ \E slice \in Buffered(SubSeq(line, Min(Positions(line, "mac")), Len(line)), SliceMax) :
          ingested' = ingested \o Ingested(slice)
    /\ UNCHANGED <<recording, running, replayPc, lines, rest, line>>

IngestDevice ==
    /\ replayPc = "scan" /\ NextMacs # {}
    /\ cursor' = Min(NextMacs)
    /\ \E slice \in Buffered(SubSeq(line, Min(NextMacs), Len(line)), SliceMax) :
          ingested' = ingested \o Ingested(slice)
    /\ UNCHANGED <<recording, running, replayPc, lines, rest, line>>

\* No further device; the thread sleeps for 200 ms.
EndOfLine ==
    /\ replayPc = "scan" /\ NextMacs = {}
    /\ replayPc' = "read"
    /\ UNCHANGED <<recording, running, lines, rest, line, cursor, ingested>>

FeederDone == replayPc = "done" /\ UNCHANGED replayVars

ReplayNext ==
    \/ ReadLine \/ EndOfFile \/ FindDevices \/ IngestDevice \/ EndOfLine
    \/ StopFeeder \/ FeederDone

ReplaySpec == ReplayInit /\ [][ReplayNext]_replayVars

-------------------------------------------------------------------------------
(* Properties *)

Sent(n) == Joined([k \in DOMAIN recording |-> recording[k].sent])[n]

Macs(sightings) == [k \in DOMAIN sightings |-> sightings[k].mac]

BetweenLines == replayPc \in {"read", "done"} /\ rest = <<>>

LinesFit == \A k \in DOMAIN recording : Len(recording[k].tokens) <= LineMax

\* If each line fits in the buffer, every address of the recording is passed on
\* exactly once and in order, whatever members the devices have and in which
\* order, and a stop falls between two lines, never within one.  If moreover
\* every device begins with its address and lacks nothing, each is passed on with
\* its own protocol, signal and Tx power, though the text that is searched for
\* them runs on over the devices behind it.
LinesAsSent ==
    BetweenLines /\ LinesFit =>
        /\ Macs(ingested) = Macs(Sent(lines))
        /\ (\A k \in DOMAIN recording : recording[k].complete) => ingested = Sent(lines)

\* At the end of a recording that was not stopped, every sighting in it has
\* been passed on, however long its line.
RecordingIngested ==
    replayPc = "done" /\ running => Macs(ingested) = Macs(Sent(Len(recording)))
==============================================================================
