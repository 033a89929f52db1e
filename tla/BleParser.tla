------------------------------ MODULE BleParser ------------------------------
(***************************************************************************)
(* process_hci_event of src/ble/ble_scanner.c: from the bytes of one HCI   *)
(* event to the calls of aggregator_update.                                *)
(*                                                                         *)
(* A step is one test of lengths, or the reads that a test allows.  Behind *)
(* the bytes of the event the buffer holds what earlier events left there, *)
(* so that a read too far finds bytes and not the end of the model.        *)
(***************************************************************************)
EXTENDS Integers, Sequences, PdTypes

CONSTANTS
    Events,     \* what read() may return, with the sightings it stands for and
                \* the addresses of the devices, first octet first
    Leftovers,  \* contents of the buffer before the read
    BufSize     \* HCI_MAX_EVENT_SIZE

Byte == 0 .. 255

Sighting == [mac: Seq(Byte), rssi: Int, tx_power: Int]

ASSUME BleParserAssumption ==
    /\ BufSize \in Nat
    /\ Leftovers \subseteq [0 .. BufSize - 1 -> Byte]
    /\ Events \subseteq [bytes: Seq(Byte), sent: Seq(Sighting), addresses: Seq(Seq(Byte))]
    /\ \A e \in Events : Len(e.bytes) <= BufSize

HciEventPkt == 4
EvtLeMetaEvent == 62
EvtLeAdvertisingReport == 2
TxPowerLevel == 10

VARIABLES
    event,      \* the event that was read
    leftover,   \* the bytes it did not overwrite
    blePc,      \* the next test or read
    report,     \* reports parsed
    bleOffset,  \* into the list of reports
    adLen,      \* data_len of this report
    adOff,      \* offset in its AD payload
    mac,        \* its address
    tx,         \* its Tx power
    bleHeard    \* the calls of aggregator_update

reportVars == <<adLen, adOff, mac, tx>>
bleVars == <<event, leftover, blePc, report, bleOffset, reportVars, bleHeard>>

Received == Len(event.bytes)

Buf(k) == IF k < Received THEN event.bytes[k + 1] ELSE leftover[k]

\* The list of reports, &params[1], and its length.
Data(k) == Buf(4 + k)
ParamsLen == Buf(2) - 1

BleInit ==
    /\ event \in Events /\ leftover \in Leftovers
    /\ blePc = "event" /\ report = 0 /\ bleOffset = 1
    /\ adLen = 0 /\ adOff = 0 /\ mac = <<>> /\ tx = DefaultTxPower
    /\ bleHeard = <<>>

BleGoto(label) == blePc' = label

\* Mutant: the length the event declares is not compared with what was read.
IsAdvertisingTrusting ==
    /\ Received >= 3
    /\ Buf(0) = HciEventPkt
    /\ Buf(1) = EvtLeMetaEvent /\ Buf(2) >= 2
    /\ Buf(3) = EvtLeAdvertisingReport

\* A whole event with a list of reports.
IsAdvertising ==
    /\ Received >= 3
    /\ Buf(0) = HciEventPkt
    /\ 3 + Buf(2) <= Received
    /\ Buf(1) = EvtLeMetaEvent /\ Buf(2) >= 2
    /\ Buf(3) = EvtLeAdvertisingReport

EventHeader ==
    /\ blePc = "event"
    /\ BleGoto(IF IsAdvertising THEN "report" ELSE "done")
    /\ UNCHANGED <<event, leftover, report, bleOffset, reportVars, bleHeard>>

\* Another report, and room for its header and RSSI.
NextReport ==
    /\ blePc = "report"
    /\ BleGoto(IF report < Data(0) /\ bleOffset + 10 <= ParamsLen THEN "header" ELSE "done")
    /\ UNCHANGED <<event, leftover, report, bleOffset, reportVars, bleHeard>>

ReadHeader ==
    /\ blePc = "header"
    /\ mac' = [k \in 1 .. 6 |-> Data(bleOffset + 1 + k)]
    /\ adLen' = Data(bleOffset + 8)
    /\ bleOffset' = bleOffset + 9
    /\ BleGoto("payload")
    /\ UNCHANGED <<event, leftover, report, adOff, tx, bleHeard>>

\* Mutant: the RSSI behind the payload is forgotten.
TestPayloadShort ==
    /\ blePc = "payload"
    /\ BleGoto(IF bleOffset + adLen > ParamsLen THEN "done" ELSE "ad")
    /\ adOff' = 0 /\ tx' = DefaultTxPower
    /\ UNCHANGED <<event, leftover, report, bleOffset, adLen, mac, bleHeard>>

TestPayload ==
    /\ blePc = "payload"
    /\ BleGoto(IF bleOffset + adLen + 1 > ParamsLen THEN "done" ELSE "ad")
    /\ adOff' = 0 /\ tx' = DefaultTxPower
    /\ UNCHANGED <<event, leftover, report, bleOffset, adLen, mac, bleHeard>>

-------------------------------------------------------------------------------
(* parse_tx_power_from_ad *)

NextField ==
    /\ blePc = "ad"
    /\ BleGoto(IF adOff + 1 < adLen THEN "field" ELSE "rssi")
    /\ UNCHANGED <<event, leftover, report, bleOffset, reportVars, bleHeard>>

FieldLen == Data(bleOffset + adOff)

\* A field that is empty or reaches past the payload ends the search.
FieldFits == FieldLen # 0 /\ adOff + FieldLen < adLen

IsTxPower == Data(bleOffset + adOff + 1) = TxPowerLevel /\ FieldLen >= 2

BadField ==
    /\ blePc = "field" /\ ~FieldFits
    /\ BleGoto("rssi")
    /\ UNCHANGED <<event, leftover, report, bleOffset, reportVars, bleHeard>>

TxPowerField ==
    /\ blePc = "field" /\ FieldFits /\ IsTxPower
    /\ BleGoto("power")
    /\ UNCHANGED <<event, leftover, report, bleOffset, reportVars, bleHeard>>

\* Mutant: the search does not move on.
OtherFieldAgain ==
    /\ blePc = "field" /\ FieldFits /\ ~IsTxPower
    /\ BleGoto("ad")
    /\ UNCHANGED <<event, leftover, report, bleOffset, reportVars, bleHeard>>

OtherField ==
    /\ blePc = "field" /\ FieldFits /\ ~IsTxPower
    /\ adOff' = adOff + FieldLen + 1
    /\ BleGoto("ad")
    /\ UNCHANGED <<event, leftover, report, bleOffset, adLen, mac, tx, bleHeard>>

ReadPower ==
    /\ blePc = "power"
    /\ tx' = Int8(Data(bleOffset + adOff + 2))
    /\ BleGoto("rssi")
    /\ UNCHANGED <<event, leftover, report, bleOffset, adLen, adOff, mac, bleHeard>>

-------------------------------------------------------------------------------
ReadRssi ==
    /\ blePc = "rssi"
    /\ bleHeard' = Append(bleHeard, [mac |-> mac, rssi |-> Int8(Data(bleOffset + adLen)),
                               tx_power |-> tx])
    /\ bleOffset' = bleOffset + adLen + 1
    /\ report' = report + 1
    /\ BleGoto("report")
    /\ UNCHANGED <<event, leftover, reportVars>>

EventDone == blePc = "done" /\ UNCHANGED bleVars

BleNext ==
    \/ EventHeader \/ NextReport \/ ReadHeader \/ TestPayload
    \/ NextField \/ BadField \/ TxPowerField \/ OtherField \/ ReadPower
    \/ ReadRssi \/ EventDone

BleSpec == BleInit /\ [][BleNext]_bleVars

-------------------------------------------------------------------------------
(* Properties *)

\* The offset in the list of reports of the last byte the next step reads.
Reach ==
    CASE blePc = "report" -> 0
      [] blePc = "header" -> bleOffset + 8
      [] blePc = "field" -> bleOffset + adOff + 1
      [] blePc = "power" -> bleOffset + adOff + 2
      [] blePc = "rssi" -> bleOffset + adLen

\* Every byte that is read was received with this event and lies within the
\* length it declares; AD fields are read from the payload of their report only.
ReadsInsideEvent ==
    /\ blePc \in {"report", "header", "field", "power", "rssi"} =>
          4 + Reach < Received /\ Reach < ParamsLen
    /\ blePc \in {"field", "power"} => Reach < bleOffset + adLen

\* The reports that lie wholly within the event are passed on, in their order,
\* with their own RSSI and Tx power and with the bytes of their address in the
\* order of the wire, all of them by the end, and nothing else at any time.
HeardAsSent ==
    /\ \E k \in 0 .. Len(event.sent) : bleHeard = SubSeq(event.sent, 1, k)
    /\ blePc = "done" => bleHeard = event.sent

\* estimator_is_locally_administered, which aggregator_update calls: bit 1 of bytes[0].
LocallyAdministered(address) == (address[1] \div 2) % 2 = 1

\* A device is taken for randomized when "the locally administered bit (bit 1 of
\* the first octet)" of its own address is set (docs/TECHNICAL_DOCUMENTATION.md, 3.2).
RandomizationDetected ==
    \A k \in DOMAIN bleHeard :
        LocallyAdministered(bleHeard[k].mac) <=> LocallyAdministered(event.addresses[k])
==============================================================================
