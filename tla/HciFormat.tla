------------------------------ MODULE HciFormat ------------------------------
(***************************************************************************)
(* How a Bluetooth controller writes an LE Advertising Report event, as    *)
(* the comments of src/ble/ble_scanner.c describe it, and which sightings  *)
(* such an event stands for when it has lost some of its bytes.  The       *)
(* reference that BleParser is compared with; it goes from structures to   *)
(* bytes, the parser from bytes to structures.                             *)
(***************************************************************************)
EXTENDS Integers, Sequences, SequencesExt, Lists

\* A report is [mac, fields, cut, rssi]: mac is the address, its first octet first,
\* the AD fields are [type, value], and cut bytes are missing at the end of the
\* payload they make.
FieldBytes(f) == <<Len(f.value) + 1, f.type>> \o f.value

Fields(report) == Joined([k \in DOMAIN report.fields |-> FieldBytes(report.fields[k])])

Payload(report) ==
    LET all == Fields(report)[Len(report.fields)]
    IN SubSeq(all, 1, Len(all) - report.cut)

\* The byte for a signed number and the number of a byte.
Unsigned(x) == IF x < 0 THEN x + 256 ELSE x

Signed(y) == IF y > 127 THEN y - 256 ELSE y

\* A controller sends an address, as every field of several octets, last octet first.
OnWire(report) == Reverse(report.mac)

ReportBytes(report) ==
    <<0, 1>> \o OnWire(report) \o <<Len(Payload(report))>> \o Payload(report)
             \o <<Unsigned(report.rssi)>>

\* The fields for the Tx power of a report that have a value and are not touched
\* by the cut; the first of them is its Tx power.
Powers(report) ==
    {k \in DOMAIN report.fields :
         /\ report.fields[k].type = 10 /\ report.fields[k].value # <<>>
         /\ Len(Fields(report)[k]) <= Len(Payload(report))}

TxPower(report) ==
    IF Powers(report) = {} THEN -59
    ELSE Signed(report.fields[Min(Powers(report))].value[1])

SightingOf(report) ==
    [mac |-> OnWire(report), rssi |-> report.rssi, tx_power |-> TxPower(report)]

\* An event with these reports: "claimed" is its number of reports, "short"
\* the bytes its length leaves out, "lost" the bytes that were not received. It
\* stands for the reports "heard", sent by devices with these addresses.
List(reports) == Joined([k \in DOMAIN reports |-> ReportBytes(reports[k])])

Declared(reports, short) == Len(List(reports)[Len(reports)]) + 2 - short

EventOf(kind, reports, claimed, short, lost) ==
    LET declared == Declared(reports, short)
        bytes == <<kind[1], kind[2], declared, kind[3], claimed>> \o List(reports)[Len(reports)]
        Whole == {0} \cup {k \in 1 .. Len(reports) :
                              k <= claimed /\ 2 + Len(List(reports)[k]) <= declared}
        heard == IF kind = <<4, 62, 2>> /\ 3 + declared <= Len(bytes) - lost
                 THEN Max(Whole)
                 ELSE 0
    IN [bytes |-> SubSeq(bytes, 1, Len(bytes) - lost),
        sent |-> [k \in 1 .. heard |-> SightingOf(reports[k])],
        addresses |-> [k \in 1 .. heard |-> reports[k].mac]]
==============================================================================
