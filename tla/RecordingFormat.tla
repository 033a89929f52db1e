---------------------------- MODULE RecordingFormat ----------------------------
(***************************************************************************)
(* A line of a recording as scripts/simulate_traffic.py writes it, and the *)
(* devices it names as /api/sample of web/main.py reads it with a JSON     *)
(* parser.  The reference that ReplayParser is compared with.              *)
(***************************************************************************)
EXTENDS Integers, Sequences, FiniteSetsExt, Lists

Token(key, val) == [key |-> key, val |-> val]

\* A device is a sequence of tokens, its members in the order of the file.
ValueOf(device, key, default) ==
    LET at == {k \in DOMAIN device : device[k].key = key}
    IN IF at = {} THEN default ELSE device[Max(at)].val

SightingOf(device) ==
    [mac |-> ValueOf(device, "mac", "bad"),
     protocol |-> ValueOf(device, "protocol", "ble"),
     rssi |-> ValueOf(device, "rssi", -75),
     tx_power |-> ValueOf(device, "tx_power", -59)]

\* Every device begins with its address and has all its members.
Complete(device) ==
    /\ device[1].key = "mac"
    /\ {"protocol", "rssi", "tx_power"} \subseteq {device[k].key : k \in DOMAIN device}

\* What a device stands for: a sighting, if its address is readable.
Sightings(device) == IF SightingOf(device).mac = "bad" THEN <<>> ELSE <<SightingOf(device)>>

LineOf(devices) ==
    [tokens |-> <<Token("timestamp", 0), Token("devices", 0)>> \o Joined(devices)[Len(devices)],
     sent |-> Joined([k \in DOMAIN devices |-> Sightings(devices[k])])[Len(devices)],
     complete |-> \A k \in DOMAIN devices : Complete(devices[k])]

\* The comment lines and the totals a file may hold beside them.
OtherLine(tokens) == [tokens |-> tokens, sent |-> <<>>, complete |-> TRUE]

\* What may be found in the first part of a member that is cut: not its key, or
\* the key and a part of the value; of an address too little for it to be one,
\* or all but a digit.
CutToken(token) ==
    {Token("cut", 0)} \cup
    (CASE token.key = "mac" -> {Token("mac", "bad"), Token("mac", "other")}
       [] token.key \in {"rssi", "tx_power"} -> {Token(token.key, 0), Token(token.key, -4)}
       [] OTHER -> {})
================================================================================
