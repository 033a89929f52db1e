------------------------------- MODULE MCParts ---------------------------------
(***************************************************************************)
(* The parts below the threads of Detector, each by itself: the three      *)
(* parsers, the logger and the hash chains.  They share no state, so no    *)
(* interleaving is lost by letting one of them run from each initial state *)
(* and leaving the others idle.                                            *)
(***************************************************************************)
EXTENDS BleParser, WifiParser, ReplayParser, Logger, HashChains

-------------------------------------------------------------------------------
(* HCI events: up to two reports *)

Hci == INSTANCE HciFormat

Address(k) == <<k, 2, 3, 4, 5, 6>>
Field(type, value) == [type |-> type, value |-> value]
Power(x) == Field(10, <<x>>)

\* Payloads: none, Tx power alone, first, last and twice, an empty one, one in
\* the value of another field, an empty field before it.
Payloads ==
    {<<>>, <<Power(4)>>, <<Field(1, <<6>>), Power(4)>>, <<Power(7), Field(9, <<65, 66>>)>>,
     <<Power(236), Power(4)>>, <<Field(10, <<>>), Power(4)>>,
     <<Field(255, <<2, 10, 9>>)>>, <<Field(1, <<>>), Field(9, <<10>>)>>}

Report(k, fields, cut, rssiValue) ==
    [mac |-> Address(k), fields |-> fields, cut |-> cut, rssi |-> rssiValue]

FullReports == {Report(1, p, 0, -70) : p \in Payloads}
Reports ==
    FullReports \cup {Report(2, p, 1, 20) : p \in Payloads \ {<<>>}}
                \cup {Report(3, <<Field(1, <<6>>), Power(4)>>, 2, -128)}

ReportLists == {<<>>} \cup {<<x>> : x \in Reports}
                      \cup {<<x, y>> : x \in FullReports, y \in Reports}

Advertising == <<4, 62, 2>>

McEvents ==
    {Hci!EventOf(Advertising, l, Len(l) + more, 0, 0) : l \in ReportLists, more \in {0, 1}}
    \cup {Hci!EventOf(Advertising, l, Len(l), short, 0) :
              l \in ReportLists \ {<<>>}, short \in 1 .. 12}
    \cup {Hci!EventOf(Advertising, l, 0, 0, 0) : l \in ReportLists}
    \cup {Hci!EventOf(Advertising, l, Len(l), 0, lost) :
              l \in {<<x>> : x \in FullReports}, lost \in 1 .. 13}
    \cup {Hci!EventOf(kind, l, Len(l), 0, 0) :
              kind \in {<<2, 62, 2>>, <<4, 14, 2>>, <<4, 62, 1>>},
              l \in {<<x>> : x \in FullReports}}

\* What earlier events may have left in the buffer.
McLeftovers == {[k \in 0 .. 79 |-> 0], [k \in 0 .. 79 |-> 2]}

-------------------------------------------------------------------------------
(* Radiotap headers: every choice of the fields up to the signal strength *)

Radiotap == INSTANCE RadiotapFormat

Chains(first) ==
    {<<first>>, <<first \cup {31}, {}>>, <<first \cup {31}, {5, 31}, {5}>>}

Words ==
    UNION {Chains(first) : first \in SUBSET (0 .. 5)}
    \cup UNION {Chains(first) : first \in {{5, 6, 18, 22}, {0, 3, 18}, {3, 22}, {1, 23}, {29}}}

Types == [ftype : {0, 2}, stype : {4, 5}]

ProbeRequest == [ftype |-> 0, stype |-> 4]

\* A header that ends about where its signal strength does, and has some bytes
\* more or less; a body with and without room for an address.
WholeFrames ==
    {Radiotap!FrameOf(w, Radiotap!SignalPlace(w) + more, 24, ProbeRequest) :
         w \in Words, more \in {-1, 0, 1, 2, 20}}
    \cup {Radiotap!FrameOf(w, 4 + 4 * Len(w) - short, 24, ProbeRequest) :
              w \in {x \in Words : Len(x) > 1}, short \in 0 .. 4}
    \cup {Radiotap!FrameOf(<<{5, 31}>>, rlen, 24, ProbeRequest) : rlen \in 8 .. 11}
    \cup {Radiotap!FrameOf(<<{5}>>, rlen, body, type) :
              rlen \in {0, 7, 8, 9, 12}, body \in {0, 23, 24, 30}, type \in Types}

McFrames ==
    WholeFrames \cup {Radiotap!Truncated(Radiotap!FrameOf(<<{0, 5}>>, 20, 24, ProbeRequest), lost) :
                          lost \in 1 .. 40}

Json == INSTANCE RecordingFormat

Member(key, val) == Json!Token(key, val)

Whole(m) == <<Member("mac", m), Member("protocol", "wifi"), Member("rssi", -40),
              Member("tx_power", 4)>>
Other == <<Member("mac", "m3"), Member("tx_power", -7), Member("rssi", -90),
           Member("protocol", "ble"), Member("name", "x")>>
Bare == <<Member("mac", "m4")>>
AddressLast == <<Member("rssi", -50), Member("protocol", "wifi"), Member("mac", "m5")>>
Unreadable == <<Member("mac", "bad"), Member("rssi", -60)>>
Nameless == <<Member("rssi", -61)>>

Devices == {Whole("m1"), Whole("m2"), Other, Bare, AddressLast, Unreadable, Nameless}

OtherLines == {Json!OtherLine(<<>>), Json!OtherLine(<<Member("mac", "m9"), Member("rssi", 0)>>),
               Json!LineOf(<<>>)}

McLines == OtherLines \cup {Json!LineOf(d) : d \in {<<x>> : x \in Devices} \cup (Devices \X Devices)}

Shorter == {Json!LineOf(d) : d \in {<<x>> : x \in Devices}} \cup OtherLines

McRecordings ==
    {<<x>> : x \in McLines} \cup {<<x, y>> : x \in Shorter, y \in Shorter}
    \cup {<<Json!LineOf(<<x, y, Whole("m1")>>)>> : x \in Devices, y \in Devices}

McCut(token) == Json!CutToken(token)

\* Two digests share a bucket.
McBucketOf == <<1, 1, 2>>

-------------------------------------------------------------------------------
(* Composition *)

BleIdle ==
    /\ event = [bytes |-> <<>>, sent |-> <<>>, addresses |-> <<>>] /\ leftover = <<>> /\ blePc = "done"
    /\ report = 0 /\ bleOffset = 1 /\ adLen = 0 /\ adOff = 0 /\ mac = <<>> /\ tx = 0
    /\ bleHeard = <<>>

WifiIdle ==
    /\ frame = [len |-> 0, rlen |-> 0, words |-> <<>>, sent |-> <<>>] /\ wifiPc = "done"
    /\ chain = 1 /\ bit = 0 /\ wifiOffset = 8 /\ signalAt = 0 /\ wifiHeard = <<>>

ReplayIdle ==
    /\ recording = <<>> /\ running = FALSE /\ replayPc = "done"
    /\ lines = 0 /\ rest = <<>> /\ line = <<>> /\ cursor = 0 /\ ingested = <<>>

LoggerIdle ==
    /\ g_min_level = 0 /\ g_log_fp = "NULL" /\ g_log_mutex = "nobody"
    /\ logPc = [t \in Loggers |-> "returned"] /\ due = [t \in Loggers |-> 0] /\ out = <<>>

ChainsIdle ==
    /\ heap = {} /\ buckets = [k \in Buckets |-> NULL] /\ next = <<>> /\ hashOf = <<>>
    /\ old = {} /\ task = "idle" /\ hash = 1 /\ b = 0 /\ node = NULL
    /\ place = InBucket(1) /\ copied = <<>>

Init ==
    \/ BleInit /\ WifiIdle /\ ReplayIdle /\ LoggerIdle /\ ChainsIdle
    \/ BleIdle /\ WifiInit /\ ReplayIdle /\ LoggerIdle /\ ChainsIdle
    \/ BleIdle /\ WifiIdle /\ ReplayInit /\ LoggerIdle /\ ChainsIdle
    \/ BleIdle /\ WifiIdle /\ ReplayIdle /\ LoggerInit /\ ChainsIdle
    \/ BleIdle /\ WifiIdle /\ ReplayIdle /\ LoggerIdle /\ ChainsInit

LoggerRuns == g_log_fp = "stderr" \/ \E t \in Loggers : logPc[t] # "returned"

Next ==
    \/ BleNext /\ UNCHANGED <<wifiVars, replayVars, loggerVars, chainVars>>
    \/ WifiNext /\ UNCHANGED <<bleVars, replayVars, loggerVars, chainVars>>
    \/ ReplayNext /\ UNCHANGED <<bleVars, wifiVars, loggerVars, chainVars>>
    \/ LoggerRuns /\ LoggerNext /\ UNCHANGED <<bleVars, wifiVars, replayVars, chainVars>>
    \/ b # 0 /\ ChainsNext /\ UNCHANGED <<bleVars, wifiVars, replayVars, loggerVars>>

vars == <<bleVars, wifiVars, replayVars, loggerVars, chainVars>>

ParserFairness == WF_bleVars(BleNext) /\ WF_wifiVars(WifiNext) /\ WF_replayVars(ReplayNext)

Spec == Init /\ [][Next]_vars /\ ParserFairness /\ LoggerFairness

\* Every input is read to an end: none of the three loops over lengths and
\* positions that come from outside can go round for ever.
ParsingEnds == <>(blePc = "done" /\ wifiPc = "done" /\ replayPc = "done")
===============================================================================
