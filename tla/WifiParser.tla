------------------------------ MODULE WifiParser ------------------------------
(***************************************************************************)
(* process_wifi_frame of src/wifi/wifi_scanner.c: where in a captured      *)
(* frame the signal strength and the sender's address are read.            *)
(*                                                                         *)
(* A frame is its length, the radiotap length it declares, the presence    *)
(* words (sets of bits) and the type of the 802.11 frame.  What is heard   *)
(* is a pair of offsets; a step is one test with the reads it allows.      *)
(***************************************************************************)
EXTENDS Integers, Sequences

CONSTANTS Frames  \* what read() may return, with the sightings it stands for

Ext == 31
DbmAntSignal == 5
HeaderSize == 8

Reading == [mac: Nat, rssi: Nat]
FrameType == [ftype: 0 .. 3, stype: 0 .. 15]

\* The presence words of a header: each but the last is continued, and so is
\* the last if the header has no room for another.
AllWords(f) ==
    LET last == Len(f.words)
    IN /\ last > 0 /\ \A k \in 1 .. last - 1 : Ext \in f.words[k]
       /\ Ext \in f.words[last] => f.rlen < HeaderSize + 4 * last

ASSUME WifiParserAssumption ==
    /\ Frames \subseteq [len: Nat, rlen: Nat, words: Seq(SUBSET (0 .. Ext)),
                         type: FrameType, sent: Seq(Reading)]
    /\ \A f \in Frames : AllWords(f)

\* Alignment and size of field "bit"; 18 has neither, there are none from 23 on.
radiotap_fields ==
    LET F(align, size) == [align |-> align, size |-> size]
    IN [n \in 0 .. 22 |->
            CASE n = 0 -> F(8, 8)
              [] n = 3 -> F(2, 4)
              [] n \in {4, 7, 8, 9, 14, 15} -> F(2, 2)
              [] n = 18 -> F(0, 0)
              [] n = 19 -> F(1, 3)
              [] n = 20 -> F(4, 8)
              [] n = 21 -> F(2, 12)
              [] n = 22 -> F(8, 12)
              [] OTHER -> F(1, 1)]

VARIABLES
    frame,
    wifiPc,      \* the next test
    chain,       \* number of the presence word looked at
    bit,         \* of the first presence word
    wifiOffset,  \* in the frame
    signalAt,    \* where the signal strength was read
    wifiHeard    \* the calls of aggregator_update

wifiVars == <<frame, wifiPc, chain, bit, wifiOffset, signalAt, wifiHeard>>

WifiInit ==
    /\ frame \in Frames
    /\ wifiPc = "header" /\ chain = 1 /\ bit = 0 /\ wifiOffset = HeaderSize
    /\ signalAt = 0 /\ wifiHeard = <<>>

Present == frame.words[1]
Chained == chain <= Len(frame.words) /\ Ext \in frame.words[chain]

RadiotapHeader ==
    /\ wifiPc = "header"
    /\ wifiPc' = IF frame.len >= HeaderSize /\ frame.rlen \in HeaderSize .. frame.len
             THEN "chain" ELSE "done"
    /\ UNCHANGED <<frame, chain, bit, wifiOffset, signalAt, wifiHeard>>

NextWord ==
    /\ wifiPc = "chain" /\ Chained /\ wifiOffset + 4 <= frame.rlen
    /\ chain' = chain + 1 /\ wifiOffset' = wifiOffset + 4
    /\ UNCHANGED <<frame, wifiPc, bit, signalAt, wifiHeard>>

\* Either the words are at their end or the header is.
LastWord ==
    /\ wifiPc = "chain" /\ ~(Chained /\ wifiOffset + 4 <= frame.rlen)
    /\ wifiPc' = IF Chained THEN "done" ELSE "fields"
    /\ UNCHANGED <<frame, chain, bit, wifiOffset, signalAt, wifiHeard>>

Known == bit \in DOMAIN radiotap_fields /\ radiotap_fields[bit].align # 0

\* Mutant: a field starts where the one before it ends.
AlignedPacked == wifiOffset

Aligned ==
    LET align == radiotap_fields[bit].align
    IN wifiOffset + ((align - (wifiOffset % align)) % align)

\* Mutant: only the start of a field is compared with the length.
FitsInPart == Aligned <= frame.rlen

Fits == Aligned + radiotap_fields[bit].size <= frame.rlen

AbsentField ==
    /\ wifiPc = "fields" /\ bit < Ext /\ bit \notin Present
    /\ bit' = bit + 1
    /\ UNCHANGED <<frame, wifiPc, chain, wifiOffset, signalAt, wifiHeard>>

\* No signal strength: a field that cannot be skipped or does not fit, or the
\* end of the presence word.
NoSignal ==
    /\ wifiPc = "fields"
    /\ bit = Ext \/ (bit \in Present /\ ~(Known /\ Fits))
    /\ wifiPc' = "done"
    /\ UNCHANGED <<frame, chain, bit, wifiOffset, signalAt, wifiHeard>>

SkipField ==
    /\ wifiPc = "fields" /\ bit < Ext /\ bit \in Present /\ Known /\ Fits
    /\ bit # DbmAntSignal
    /\ wifiOffset' = Aligned + radiotap_fields[bit].size
    /\ bit' = bit + 1
    /\ UNCHANGED <<frame, wifiPc, chain, signalAt, wifiHeard>>

ReadSignal ==
    /\ wifiPc = "fields" /\ bit = DbmAntSignal /\ bit \in Present /\ Fits
    /\ signalAt' = Aligned /\ wifiOffset' = Aligned
    /\ wifiPc' = "frame"
    /\ UNCHANGED <<frame, chain, bit, wifiHeard>>

\* is_probe_request
IsProbeRequest ==
    /\ frame.len - frame.rlen >= 24
    /\ frame.type = [ftype |-> 0, stype |-> 4]

ProcessFrame ==
    /\ wifiPc = "frame"
    /\ wifiHeard' = IF IsProbeRequest
                THEN Append(wifiHeard, [mac |-> frame.rlen + 10, rssi |-> signalAt])
                ELSE wifiHeard
    /\ wifiPc' = "done"
    /\ UNCHANGED <<frame, chain, bit, wifiOffset, signalAt>>

FrameDone == wifiPc = "done" /\ UNCHANGED wifiVars

WifiNext ==
    \/ RadiotapHeader \/ NextWord \/ LastWord
    \/ AbsentField \/ NoSignal \/ SkipField \/ ReadSignal
    \/ ProcessFrame \/ FrameDone

WifiSpec == WifiInit /\ [][WifiNext]_wifiVars

-------------------------------------------------------------------------------
(* Properties *)

\* parse_radiotap_rssi never reads behind the radiotap header it was given,
\* however many presence words there are and whatever they say; a signal
\* strength that was read lies in the header and the fields behind the words.
SignalInsideHeader ==
    /\ wifiPc \in {"chain", "fields", "frame"} => frame.rlen <= frame.len
    /\ wifiPc \in {"chain", "fields"} => wifiOffset <= frame.rlen
    /\ wifiPc = "frame" => signalAt \in HeaderSize + 4 * (chain - 1) .. frame.rlen - 1

\* A frame is passed on exactly if it is a probe request with a signal
\* strength, and that is read where the driver has put it: alignment, skipped
\* fields and chained presence words included.
ProbesHeard == wifiPc = "done" => wifiHeard = frame.sent
==============================================================================
