----------------------------- MODULE ParserProofs -----------------------------
(* The parsers of HCI events and radiotap frames read only what they have   *)
(* received, for every event and frame and whatever lies behind it, and     *)
(* pass on exactly what the sender laid out and was not lost.               *)
EXTENDS BleParser, HciFormat, WifiParser, RadiotapFormat, Recursion, SequenceTheorems,
        TLAPS

\* What the tests that have been passed guarantee of the lengths.
BleInv ==
    /\ event \in Events
    /\ blePc \in {"event", "report", "header", "payload", "ad", "field", "power", "rssi", "done"}
    /\ bleOffset \in Nat /\ adLen \in Nat /\ adOff \in Nat
    /\ blePc \notin {"event", "done"} => Received >= 3 /\ 3 + Buf(2) <= Received /\ Buf(2) >= 2
    /\ blePc = "header" => bleOffset + 10 <= ParamsLen
    /\ blePc \in {"ad", "field", "power", "rssi"} => bleOffset + adLen + 1 <= ParamsLen
    /\ blePc = "field" => adOff + 1 < adLen
    /\ blePc = "power" => adOff + 2 < adLen

\* A byte that has been received is a byte.
LEMMA ReceivedByte ==
    ASSUME event \in Events, NEW k \in Nat, k < Received
    PROVE  Buf(k) \in Byte
  <1>1. event.bytes \in Seq(Byte)
    BY BleParserAssumption
  <1> QED
    BY <1>1 DEF Buf, Received

\* Every test and every read keeps the lengths right.
LEMMA BleStep == ASSUME BleInv, [BleNext]_bleVars PROVE BleInv'
  <1> USE DEF BleGoto, reportVars
  <1>1. Received \in Nat
    BY BleParserAssumption DEF BleInv, Received
  <1>2. blePc \notin {"event", "done"} => Buf(2) \in Byte
    BY <1>1, ReceivedByte DEF BleInv
  <1>3. UNCHANGED <<event, leftover>> => UNCHANGED <<Received, Buf(2), ParamsLen>>
    BY DEF Received, Buf, ParamsLen
  <1>4. CASE EventHeader
    BY <1>3, <1>4 DEF EventHeader, IsAdvertising, BleInv
  <1>5. CASE NextReport
    BY <1>3, <1>5 DEF NextReport, BleInv
  <1>6. CASE ReadHeader
    <2>1. 4 + (bleOffset + 8) < Received
      BY <1>1, <1>2, <1>6 DEF ReadHeader, BleInv, ParamsLen, Byte
    <2>2. adLen' \in Nat /\ bleOffset' \in Nat
      BY <1>6, <2>1, ReceivedByte DEF ReadHeader, BleInv, Data, Byte
    <2> QED
      BY <1>3, <1>6, <2>2 DEF ReadHeader, BleInv
  <1>7. CASE TestPayload
    BY <1>2, <1>3, <1>7 DEF TestPayload, BleInv, ParamsLen, Byte
  <1>8. CASE NextField
    BY <1>3, <1>8 DEF NextField, BleInv
  <1>9. blePc = "field" => FieldLen \in Byte
    <2> SUFFICES ASSUME blePc = "field" PROVE FieldLen \in Byte
      OBVIOUS
    <2>1. 4 + (bleOffset + adOff) < Received
      BY <1>1, <1>2 DEF BleInv, ParamsLen, Byte
    <2> QED
      BY <2>1, ReceivedByte DEF FieldLen, Data, BleInv
  <1>10. CASE BadField
    BY <1>3, <1>10 DEF BadField, BleInv
  <1>11. CASE TxPowerField
    BY <1>3, <1>9, <1>11 DEF TxPowerField, FieldFits, IsTxPower, BleInv, Byte
  <1>12. CASE OtherField
    BY <1>3, <1>9, <1>12 DEF OtherField, BleInv, Byte
  <1>13. CASE ReadPower
    BY <1>3, <1>13 DEF ReadPower, BleInv
  <1>14. CASE ReadRssi
    BY <1>3, <1>14 DEF ReadRssi, BleInv
  <1>15. CASE UNCHANGED bleVars
    BY <1>3, <1>15 DEF bleVars, BleInv
  <1> QED
    BY <1>4, <1>5, <1>6, <1>7, <1>8, <1>10, <1>11, <1>12, <1>13, <1>14, <1>15
    DEF BleNext, EventDone

\* handle_le_advertising_report and parse_tx_power_from_ad never read behind
\* the event that was received or behind what it declares, and no AD field is
\* read behind its report: no byte of an earlier event is ever looked at.
THEOREM ParserStaysInside == BleSpec => []ReadsInsideEvent
  <1>1. BleInit => BleInv
    BY DEF BleInit, BleInv
  <1>2. BleInv /\ [BleNext]_bleVars => BleInv'
    BY BleStep
  <1>3. BleInv => ReadsInsideEvent
    <2> SUFFICES ASSUME BleInv PROVE ReadsInsideEvent
      OBVIOUS
    <2>1. Received \in Nat
      BY BleParserAssumption DEF BleInv, Received
    <2>2. blePc \notin {"event", "done"} => Buf(2) \in Byte
      BY <2>1, ReceivedByte DEF BleInv
    <2> QED
      BY <2>1, <2>2 DEF BleInv, ReadsInsideEvent, Reach, ParamsLen, Byte
  <1> QED
    BY <1>1, <1>2, <1>3, PTL DEF BleSpec

-------------------------------------------------------------------------------
(* Which reports of an event are heard *)

\* Named, so that the provers take them as units.
ByteStrings == Seq(Byte)

PartLists == Seq(ByteStrings)

\* One string behind another.
LEMMA BehindIs ==
    ASSUME NEW a \in ByteStrings, NEW z \in ByteStrings
    PROVE  /\ a \o z \in ByteStrings /\ Len(a) \in Nat /\ Len(z) \in Nat
           /\ Len(a \o z) = Len(a) + Len(z)
           /\ \A m \in 1 .. Len(a) : (a \o z)[m] = a[m]
           /\ \A m \in 1 .. Len(z) : (a \o z)[Len(a) + m] = z[m]
  BY DEF ByteStrings

\* The elements of a list of parts.
LEMMA PartIs ==
    ASSUME NEW parts \in PartLists
    PROVE  Len(parts) \in Nat /\ \A k \in 1 .. Len(parts) : parts[k] \in ByteStrings
  BY DEF PartLists

\* The first parts in one are the recursion they are written as.
LEMMA JoinedIs ==
    ASSUME NEW parts \in PartLists
    PROVE  /\ \A k \in 0 .. Len(parts) : Joined(parts)[k] \in ByteStrings
           /\ Joined(parts)[0] = <<>>
           /\ \A k \in 1 .. Len(parts) : Joined(parts)[k] = Joined(parts)[k - 1] \o parts[k]
  <1>1. ByteStrings = Strings(Byte) /\ PartLists = ListsOf(Byte)
    BY DEF ByteStrings, PartLists, Strings, ListsOf
  <1> QED BY <1>1, ListJoined

\* Where a part is, and that the ends of the parts rise.
LEMMA PartAt ==
    ASSUME NEW parts \in PartLists, NEW k \in 1 .. Len(parts), NEW n \in k .. Len(parts)
    PROVE  /\ Len(Joined(parts)[k - 1]) \in Nat
           /\ Len(Joined(parts)[k]) = Len(Joined(parts)[k - 1]) + Len(parts[k])
           /\ Len(Joined(parts)[k]) <= Len(Joined(parts)[n])
           /\ \A m \in 1 .. Len(parts[k]) :
                 Joined(parts)[n][Len(Joined(parts)[k - 1]) + m] = parts[k][m]
  <1>1. PartLists = ListsOf(Byte)
    BY DEF ByteStrings, PartLists, Strings, ListsOf
  <1> QED BY <1>1, PartInList

-------------------------------------------------------------------------------
(* Reports and events *)

\* What a controller can write: lengths fit in their bytes.
AdField == {f \in [type : Byte, value : ByteStrings] : Len(f.value) <= 254}

AdReport ==
    {r \in [mac : ByteStrings, fields : Seq(AdField), cut : Nat, rssi : -128 .. 127] :
         /\ Len(r.mac) = 6 /\ r.cut <= Len(Fields(r)[Len(r.fields)])
         /\ Len(Payload(r)) <= 255}

FieldParts(r) == [k \in DOMAIN r.fields |-> FieldBytes(r.fields[k])]

\* The bytes of a field.
LEMMA FieldBytesAre ==
    ASSUME NEW v \in ByteStrings, Len(v) <= 254, NEW t \in Byte
    PROVE  LET bytes == <<Len(v) + 1, t>> \o v
           IN /\ Len(v) \in 0 .. 254 /\ bytes \in ByteStrings /\ Len(bytes) = Len(v) + 2
              /\ bytes[1] = Len(v) + 1 /\ bytes[2] = t
              /\ v # <<>> => 3 \in 1 .. Len(bytes) /\ bytes[3] = v[1] /\ v[1] \in Byte
  <1> DEFINE n == Len(v)
             head == <<n + 1, t>>
  <1>1. n \in 0 .. 254 /\ (v # <<>> => 1 \in 1 .. n /\ v[1] \in Byte)
    <2>1. v \in Seq(Byte)
      BY DEF ByteStrings
    <2>2. n \in Nat /\ \A m \in 1 .. n : v[m] \in Byte
      BY <2>1
    <2>3. v # <<>> => n # 0
      BY <2>1, EmptySeq
    <2>4. n <= 254
      OBVIOUS
    <2> HIDE DEF n
    <2>5. n \in 0 .. 254 /\ (v # <<>> => 1 \in 1 .. n)
      BY <2>2, <2>3, <2>4
    <2> QED BY <2>2, <2>5
  <1> HIDE DEF n
  <1>2. head \in ByteStrings /\ Len(head) = 2 /\ head[1] = n + 1 /\ head[2] = t
    <2>1. n + 1 \in Byte
      BY <1>1 DEF Byte
    <2> QED BY <2>1 DEF ByteStrings
  <1> HIDE DEF head
  <1>3. /\ head \o v \in ByteStrings /\ Len(head \o v) = Len(head) + n
        /\ \A m \in 1 .. Len(head) : (head \o v)[m] = head[m]
        /\ \A m \in 1 .. n : (head \o v)[Len(head) + m] = v[m]
    BY <1>2, BehindIs DEF n
  <1> DEFINE bytes == head \o v
  <1> HIDE DEF bytes
  <1>4. /\ bytes \in ByteStrings /\ Len(bytes) = 2 + n /\ bytes[1] = n + 1
        /\ bytes[2] = t /\ (1 \in 1 .. n => bytes[3] = v[1])
    <2>1. /\ bytes \in ByteStrings /\ Len(bytes) = 2 + n
          /\ \A m \in 1 .. 2 : bytes[m] = head[m]
          /\ \A m \in 1 .. n : bytes[2 + m] = v[m]
      BY <1>2, <1>3 DEF bytes
    <2>2. 1 \in 1 .. 2 /\ 2 \in 1 .. 2 /\ 2 + 1 = 3
      OBVIOUS
    <2>3. bytes[1] = head[1] /\ bytes[2] = head[2]
      BY <2>1, <2>2
    <2>4. 1 \in 1 .. n => bytes[2 + 1] = v[1]
      BY <2>1
    <2> QED BY <1>2, <2>1, <2>2, <2>3, <2>4
  <1>5. v # <<>> => 3 \in 1 .. Len(bytes) /\ bytes[3] = v[1]
    BY <1>1, <1>4
  <1> QED BY SMTT(30), <1>1, <1>4, <1>5 DEF bytes, head, n

\* The fields of a report are lists of bytes.
LEMMA FieldPart ==
    ASSUME NEW r \in AdReport
    PROVE  /\ FieldParts(r) \in PartLists /\ Len(FieldParts(r)) = Len(r.fields)
           /\ Len(r.fields) \in Nat /\ DOMAIN r.fields = 1 .. Len(r.fields)
           /\ \A k \in 1 .. Len(r.fields) :
                 /\ r.fields[k].type \in Byte /\ r.fields[k].value \in ByteStrings
                 /\ Len(r.fields[k].value) \in 0 .. 254
                 /\ Len(FieldParts(r)[k]) = Len(r.fields[k].value) + 2
                 /\ FieldParts(r)[k][1] = Len(r.fields[k].value) + 1
                 /\ FieldParts(r)[k][2] = r.fields[k].type
                 /\ r.fields[k].value # <<>> =>
                       /\ 3 \in 1 .. Len(FieldParts(r)[k])
                       /\ FieldParts(r)[k][3] = r.fields[k].value[1]
                       /\ r.fields[k].value[1] \in Byte
  <1> DEFINE N == Len(r.fields)
  <1>1. N \in Nat /\ DOMAIN r.fields = 1 .. N
        /\ \A k \in 1 .. N : r.fields[k] \in AdField
    <2>1. r.fields \in Seq(AdField)
      BY DEF AdReport
    <2> DEFINE fields == r.fields
    <2> HIDE DEF fields
    <2>2. Len(fields) \in Nat /\ DOMAIN fields = 1 .. Len(fields)
          /\ \A k \in 1 .. Len(fields) : fields[k] \in AdField
      BY <2>1 DEF fields
    <2> QED BY <2>2 DEF fields
  <1> HIDE DEF N
  <1>2. ASSUME NEW k \in 1 .. N
        PROVE  /\ r.fields[k].type \in Byte /\ r.fields[k].value \in ByteStrings
               /\ Len(r.fields[k].value) \in 0 .. 254
               /\ FieldParts(r)[k] \in ByteStrings
               /\ Len(FieldParts(r)[k]) = Len(r.fields[k].value) + 2
               /\ FieldParts(r)[k][1] = Len(r.fields[k].value) + 1
               /\ FieldParts(r)[k][2] = r.fields[k].type
               /\ r.fields[k].value # <<>> =>
                     /\ 3 \in 1 .. Len(FieldParts(r)[k])
                     /\ FieldParts(r)[k][3] = r.fields[k].value[1]
                     /\ r.fields[k].value[1] \in Byte
    <2> DEFINE v == r.fields[k].value
               t == r.fields[k].type
    <2>1. t \in Byte /\ v \in ByteStrings /\ Len(v) <= 254
      BY <1>1 DEF AdField
    <2>2. FieldParts(r)[k] = <<Len(v) + 1, t>> \o v
      BY <1>1 DEF FieldParts, FieldBytes
    <2> DEFINE bytes == FieldParts(r)[k]
    <2> HIDE DEF v, t, bytes
    <2>3. /\ Len(v) \in 0 .. 254 /\ bytes \in ByteStrings /\ Len(bytes) = Len(v) + 2
          /\ bytes[1] = Len(v) + 1 /\ bytes[2] = t
          /\ v # <<>> => 3 \in 1 .. Len(bytes) /\ bytes[3] = v[1] /\ v[1] \in Byte
      BY SMTT(60), <2>1, <2>2, FieldBytesAre DEF bytes
    <2> QED BY <2>1, <2>3 DEF v, t, bytes
  <1>3. FieldParts(r) \in PartLists /\ Len(FieldParts(r)) = N
    <2> DEFINE F == FieldParts(r)
    <2>1. F = [k \in 1 .. N |-> FieldBytes(r.fields[k])]
      BY <1>1 DEF FieldParts
    <2>2. \A k \in 1 .. N : F[k] \in ByteStrings
      BY <1>2
    <2> HIDE DEF F
    <2>3. DOMAIN F = 1 .. N /\ F = [k \in 1 .. N |-> F[k]]
      BY <2>1
    <2>4. F \in Seq(ByteStrings) /\ Len(F) = N
      BY <1>1, <2>2, <2>3
    <2> QED BY <2>4 DEF F, PartLists
  <1> QED BY <1>1, <1>2, <1>3 DEF N

\* The bytes of a report are its payload with a header and the RSSI around it.
LEMMA ReportIs ==
    ASSUME NEW m \in ByteStrings, Len(m) = 6, NEW p \in ByteStrings, Len(p) <= 255, NEW x \in Byte
    PROVE  LET bytes == <<0, 1>> \o m \o <<Len(p)>> \o p \o <<x>>
           IN /\ bytes \in ByteStrings /\ Len(bytes) = Len(p) + 10 /\ Len(p) \in 0 .. 255
              /\ \A k \in 1 .. 6 : bytes[k + 2] = m[k]
              /\ bytes[9] = Len(p)
              /\ \A k \in 1 .. Len(p) : bytes[k + 9] = p[k]
              /\ bytes[Len(p) + 10] = x
  <1> DEFINE n == Len(p)
             a == <<0, 1>>
             b == a \o m
             c == b \o <<n>>
             d == c \o p
             e == d \o <<x>>
  <1>1. n \in 0 .. 255 /\ n \in Byte
    <2>1. n \in Nat /\ n <= 255
      BY DEF ByteStrings
    <2> HIDE DEF n
    <2> QED BY <2>1 DEF Byte
  <1> HIDE DEF n
  <1>2. /\ a \in ByteStrings /\ Len(a) = 2
        /\ <<n>> \in ByteStrings /\ Len(<<n>>) = 1 /\ <<n>>[1] = n
        /\ <<x>> \in ByteStrings /\ Len(<<x>>) = 1 /\ <<x>>[1] = x
    BY <1>1 DEF ByteStrings, Byte
  <1> DEFINE ln == <<n>>
             lx == <<x>>
  <1> HIDE DEF a, ln, lx
  <1>3. /\ b \in ByteStrings /\ Len(b) = 8 /\ \A k \in 1 .. 6 : b[2 + k] = m[k]
    <2>1. /\ a \o m \in ByteStrings /\ Len(a \o m) = Len(a) + Len(m)
          /\ \A k \in 1 .. Len(m) : (a \o m)[Len(a) + k] = m[k]
      BY <1>2, BehindIs
    <2>2. Len(a) = 2 /\ Len(m) = 6 /\ 2 + 6 = 8
      BY <1>2
    <2> HIDE DEF b
    <2>3. b = a \o m
      BY DEF b
    <2> QED BY <2>1, <2>2, <2>3
  <1> HIDE DEF b
  <1>4. /\ c \in ByteStrings /\ Len(c) = 9 /\ c[9] = n
        /\ \A k \in 1 .. 8 : c[k] = b[k]
    <2>1. ln \in ByteStrings /\ Len(ln) = 1 /\ ln[1] = n
      BY <1>2 DEF ln
    <2>2. /\ b \o ln \in ByteStrings /\ Len(b \o ln) = Len(b) + Len(ln)
          /\ \A k \in 1 .. Len(b) : (b \o ln)[k] = b[k]
          /\ \A k \in 1 .. Len(ln) : (b \o ln)[Len(b) + k] = ln[k]
      BY <1>3, <2>1, BehindIs
    <2>3. Len(b) = 8 /\ Len(ln) = 1 /\ 1 \in 1 .. 1 /\ 8 + 1 = 9
      BY <1>3, <2>1
    <2> HIDE DEF c
    <2>4. c = b \o ln
      BY DEF c, ln
    <2> QED BY <2>1, <2>2, <2>3, <2>4
  <1> HIDE DEF c
  <1>5. /\ d \in ByteStrings /\ Len(d) = 9 + n
        /\ \A k \in 1 .. 9 : d[k] = c[k]
        /\ \A k \in 1 .. n : d[9 + k] = p[k]
    <2>1. /\ c \o p \in ByteStrings /\ Len(c \o p) = Len(c) + Len(p)
          /\ \A k \in 1 .. Len(c) : (c \o p)[k] = c[k]
          /\ \A k \in 1 .. Len(p) : (c \o p)[Len(c) + k] = p[k]
      BY <1>4, BehindIs
    <2>2. Len(c) = 9 /\ Len(p) = n
      BY <1>4 DEF n
    <2> HIDE DEF d
    <2>3. d = c \o p
      BY DEF d
    <2> QED BY <2>1, <2>2, <2>3
  <1> HIDE DEF d
  <1>6. /\ e \in ByteStrings /\ Len(e) = (9 + n) + 1
        /\ \A k \in 1 .. 9 + n : e[k] = d[k]
        /\ e[(9 + n) + 1] = x
    <2>1. lx \in ByteStrings /\ Len(lx) = 1 /\ lx[1] = x
      BY <1>2 DEF lx
    <2>2. /\ d \o lx \in ByteStrings /\ Len(d \o lx) = Len(d) + Len(lx)
          /\ \A k \in 1 .. Len(d) : (d \o lx)[k] = d[k]
          /\ \A k \in 1 .. Len(lx) : (d \o lx)[Len(d) + k] = lx[k]
      BY <1>5, <2>1, BehindIs
    <2>3. Len(d) = 9 + n /\ Len(lx) = 1 /\ 1 \in 1 .. 1
      BY <1>5, <2>1
    <2> HIDE DEF e
    <2>4. e = d \o lx
      BY DEF e, lx
    <2> QED BY <2>1, <2>2, <2>3, <2>4
  <1> HIDE DEF e
  <1>7. \A k \in 1 .. 6 : e[k + 2] = m[k]
    <2> TAKE k \in 1 .. 6
    <2>1. k + 2 \in 1 .. 9 + n /\ k + 2 \in 1 .. 9 /\ k + 2 \in 1 .. 8 /\ k + 2 = 2 + k
      BY <1>1
    <2> QED BY <1>3, <1>4, <1>5, <1>6, <2>1
  <1>8. e[9] = n
    <2>1. 9 \in 1 .. 9 + n /\ 9 \in 1 .. 9
      BY <1>1
    <2> QED BY <1>4, <1>5, <1>6, <2>1
  <1>9. \A k \in 1 .. n : e[k + 9] = p[k]
    <2> TAKE k \in 1 .. n
    <2>1. k + 9 \in 1 .. 9 + n /\ k + 9 = 9 + k
      BY <1>1
    <2> QED BY <1>5, <1>6, <2>1
  <1>10. (9 + n) + 1 = n + 10
    BY <1>1
  <1> QED BY <1>1, <1>6, <1>7, <1>8, <1>9, <1>10 DEF a, b, c, d, e, n, ln, lx

\* The beginning of a string.
LEMMA PrefixIs ==
    ASSUME NEW s \in ByteStrings, NEW n \in 0 .. Len(s)
    PROVE  /\ SubSeq(s, 1, n) \in ByteStrings /\ Len(SubSeq(s, 1, n)) = n /\ n <= Len(s)
           /\ \A k \in 1 .. n : SubSeq(s, 1, n)[k] = s[k]
  <1>1. s \in Seq(Byte) /\ Len(s) \in Nat
    BY DEF ByteStrings
  <1>2. n \in Nat /\ n <= Len(s) /\ 1 \in Int /\ n \in Int
    BY <1>1
  <1>3. \A k \in 1 .. n : s[k] \in Byte
    BY <1>1, <1>2
  <1>4. /\ SubSeq(s, 1, n) \in Seq(Byte)
        /\ Len(SubSeq(s, 1, n)) = IF 1 <= n THEN n - 1 + 1 ELSE 0
        /\ \A k \in 1 .. n - 1 + 1 : SubSeq(s, 1, n)[k] = s[1 + k - 1]
    BY <1>2, <1>3, SubSeqProperties
  <1>5. n - 1 + 1 = n /\ \A k \in 1 .. n : 1 + k - 1 = k
    BY <1>2
  <1> QED BY <1>2, <1>4, <1>5 DEF ByteStrings

\* The payload of a report is the beginning of its fields.
LEMMA PayloadIs ==
    ASSUME NEW r \in AdReport
    PROVE  LET all == Fields(r)[Len(r.fields)]
           IN /\ Payload(r) \in ByteStrings /\ Len(Payload(r)) \in 0 .. 255
              /\ Len(all) \in Nat /\ Len(Payload(r)) <= Len(all)
              /\ \A k \in 1 .. Len(Payload(r)) : Payload(r)[k] = all[k]
  <1> DEFINE N == Len(r.fields)
             all == Fields(r)[N]
             n == Len(all) - r.cut
  <1>1. Fields(r) = Joined(FieldParts(r)) /\ N \in 0 .. N
    <2>1. N \in Nat
      BY FieldPart
    <2>2. Fields(r) = Joined(FieldParts(r))
      BY DEF Fields, FieldParts
    <2> HIDE DEF N
    <2> QED BY <2>1, <2>2
  <1>2. all \in ByteStrings
    BY <1>1, FieldPart, JoinedIs
  <1>3. Len(all) \in Nat /\ r.cut \in 0 .. Len(all)
    BY <1>2 DEF ByteStrings, AdReport
  <1>4. n \in 0 .. Len(all)
    BY <1>3
  <1>5. Payload(r) = SubSeq(all, 1, n)
    BY DEF Payload
  <1>6. Len(Payload(r)) <= 255
    BY DEF AdReport
  <1> HIDE DEF all, n
  <1>7. /\ Payload(r) \in ByteStrings /\ Len(Payload(r)) = n /\ n <= Len(all)
        /\ \A k \in 1 .. n : Payload(r)[k] = all[k]
    BY <1>2, <1>4, <1>5, PrefixIs
  <1>8. n \in 0 .. 255
    <2>1. n <= 255
      BY <1>6, <1>7
    <2> QED BY <1>3, <1>4, <2>1
  <1> QED BY <1>3, <1>7, <1>8 DEF all

\* The byte for a signed number is cast back to it, and Int8 is the number of a byte.
LEMMA CastBack ==
    /\ \A x \in -128 .. 127 : Unsigned(x) \in Byte /\ Int8(Unsigned(x)) = x
    /\ \A y \in Byte : Int8(y) = Signed(y)
  BY DEF Unsigned, Signed, Int8, Byte

\* An address on the wire has the same octets.
LEMMA OnWireIs ==
    ASSUME NEW r \in AdReport
    PROVE  OnWire(r) \in ByteStrings /\ Len(OnWire(r)) = 6
  <1>1. r.mac \in Seq(Byte) /\ Len(r.mac) = 6
    BY DEF AdReport, ByteStrings
  <1>2. OnWire(r) = [k \in 1 .. 6 |-> r.mac[6 - k + 1]]
    BY <1>1 DEF OnWire, Reverse
  <1>3. \A k \in 1 .. 6 : 6 - k + 1 \in 1 .. 6 /\ r.mac[6 - k + 1] \in Byte
    BY <1>1
  <1> QED BY <1>2, <1>3 DEF ByteStrings

\* The bytes of a report.
LEMMA ReportBytesAre ==
    ASSUME NEW r \in AdReport
    PROVE  LET bytes == ReportBytes(r)
               p == Payload(r)
           IN /\ bytes \in ByteStrings /\ Len(p) \in 0 .. 255 /\ Len(bytes) = Len(p) + 10
              /\ \A k \in 1 .. 6 : bytes[k + 2] = OnWire(r)[k]
              /\ bytes[9] = Len(p)
              /\ \A k \in 1 .. Len(p) : bytes[k + 9] = p[k]
              /\ Int8(bytes[Len(p) + 10]) = r.rssi
              /\ OnWire(r) = [k \in 1 .. 6 |-> OnWire(r)[k]]
  <1> DEFINE p == Payload(r)
             m == OnWire(r)
             x == Unsigned(r.rssi)
             bytes == <<0, 1>> \o m \o <<Len(p)>> \o p \o <<x>>
  <1>0. m \in ByteStrings /\ Len(m) = 6
    BY OnWireIs
  <1>1. m \in ByteStrings /\ Len(m) = 6 /\ x \in Byte /\ Int8(x) = r.rssi /\ Len(p) <= 255
    BY <1>0, CastBack DEF AdReport
  <1>2. p \in ByteStrings
    BY PayloadIs
  <1>3. ReportBytes(r) = bytes
    BY DEF ReportBytes
  <1>4. m = [k \in 1 .. 6 |-> m[k]]
    <2>1. m \in Seq(Byte)
      BY <1>1 DEF ByteStrings
    <2>2. m = [k \in 1 .. Len(m) |-> m[k]]
      BY <2>1
    <2> HIDE DEF m
    <2> QED BY <1>1, <2>2
  <1> HIDE DEF m, p, x
  <1>5. /\ bytes \in ByteStrings /\ Len(bytes) = Len(p) + 10 /\ Len(p) \in 0 .. 255
        /\ \A k \in 1 .. 6 : bytes[k + 2] = m[k]
        /\ bytes[9] = Len(p)
        /\ \A k \in 1 .. Len(p) : bytes[k + 9] = p[k]
        /\ bytes[Len(p) + 10] = x
    BY ZenonT(30), <1>1, <1>2, ReportIs
  <1> HIDE DEF bytes
  <1>6. Int8(bytes[Len(p) + 10]) = r.rssi
    BY <1>1, <1>5
  <1> QED BY <1>3, <1>4, <1>5, <1>6 DEF m, p

FieldsEnd(r, k) == Len(Fields(r)[k])

\* The j-th field is where the first i = j - 1 end, in the payload of its report.
FieldLies(r, i, j) ==
    LET p == Payload(r)
        v == r.fields[j].value
    IN /\ FieldsEnd(r, i) \in Nat /\ Len(v) \in 0 .. 254
       /\ FieldsEnd(r, j) = FieldsEnd(r, i) + Len(v) + 2
       /\ FieldsEnd(r, i) + 2 <= Len(p) => /\ p[FieldsEnd(r, i) + 1] = Len(v) + 1
                                           /\ p[FieldsEnd(r, i) + 2] = r.fields[j].type
       /\ FieldsEnd(r, j) <= Len(p) /\ v # <<>> =>
             /\ FieldsEnd(r, i) + 3 <= Len(p) /\ v[1] \in Byte
             /\ p[FieldsEnd(r, i) + 3] = v[1]
       /\ \A k \in j .. Len(r.fields) : FieldsEnd(r, j) <= FieldsEnd(r, k)

\* That is where it is.
LEMMA FieldAt ==
    ASSUME NEW r \in AdReport, NEW j \in 1 .. Len(r.fields), NEW i, i = j - 1
    PROVE  FieldLies(r, i, j)
  <1> DEFINE N == Len(r.fields)
             parts == FieldParts(r)
             J == Joined(parts)
             v == r.fields[j].value
             p == Payload(r)
             a == Len(J[j - 1])
  <1>1. parts \in PartLists /\ Len(parts) = N /\ N \in Nat
    BY FieldPart
  <1>2. /\ v \in ByteStrings /\ Len(v) \in 0 .. 254 /\ Len(parts[j]) = Len(v) + 2
        /\ parts[j][1] = Len(v) + 1 /\ parts[j][2] = r.fields[j].type
        /\ v # <<>> => 3 \in 1 .. Len(parts[j]) /\ parts[j][3] = v[1] /\ v[1] \in Byte
    BY ZenonT(30), FieldPart
  <1>3. Fields(r) = J
    BY DEF Fields, FieldParts
  <1>4. /\ Len(p) \in 0 .. 255 /\ Len(J[N]) \in Nat /\ Len(p) <= Len(J[N])
        /\ \A k \in 1 .. Len(p) : p[k] = J[N][k]
    BY <1>3, PayloadIs
  <1> HIDE DEF parts, N
  <1>5. j \in 1 .. N /\ j - 1 \in 0 .. N /\ j \in 0 .. N /\ N \in j .. N
    BY <1>1 DEF N
  <1>6. ASSUME NEW n \in j .. N
        PROVE  /\ a \in Nat /\ Len(J[j]) = a + Len(parts[j]) /\ Len(J[j]) <= Len(J[n])
               /\ \A m \in 1 .. Len(parts[j]) : J[n][a + m] = parts[j][m]
    BY <1>1, <1>5, PartAt
  <1>7. \A k \in j .. N : k \in 0 .. N /\ Len(J[j]) <= Len(J[k])
    BY <1>1, <1>5, <1>6
  <1>8. /\ a \in Nat /\ Len(J[j]) = a + Len(parts[j])
        /\ \A m \in 1 .. Len(parts[j]) : J[N][a + m] = parts[j][m]
    BY <1>5, <1>6
  <1> HIDE DEF J, v, p, a
  <1>9. Len(J[j]) = a + Len(v) + 2
    BY <1>2, <1>8
  <1>10. ASSUME a + 2 <= Len(p)
         PROVE  p[a + 1] = Len(v) + 1 /\ p[a + 2] = r.fields[j].type
    <2>1. a + 1 \in 1 .. Len(p) /\ a + 2 \in 1 .. Len(p)
      BY <1>4, <1>8, <1>10
    <2>2. 1 \in 1 .. Len(parts[j]) /\ 2 \in 1 .. Len(parts[j])
      BY <1>2
    <2> QED BY <1>2, <1>4, <1>8, <2>1, <2>2
  <1>11. ASSUME Len(J[j]) <= Len(p), v # <<>>
         PROVE  a + 3 <= Len(p) /\ p[a + 3] = v[1] /\ v[1] \in Byte
    <2>1. 3 \in 1 .. Len(parts[j]) /\ parts[j][3] = v[1] /\ v[1] \in Byte
      BY <1>2, <1>11
    <2>2. a + 3 \in 1 .. Len(p)
      BY <1>2, <1>4, <1>8, <1>11, <2>1
    <2> QED BY <1>4, <1>8, <2>1, <2>2
  <1>12. FieldsEnd(r, i) = a /\ \A k \in j .. N : FieldsEnd(r, k) = Len(J[k])
    BY <1>3 DEF a, FieldsEnd
  <1>13. /\ FieldsEnd(r, i) \in Nat /\ Len(v) \in 0 .. 254
         /\ Len(J[j]) = FieldsEnd(r, i) + Len(v) + 2
         /\ FieldsEnd(r, i) + 2 <= Len(p) => /\ p[FieldsEnd(r, i) + 1] = Len(v) + 1
                                             /\ p[FieldsEnd(r, i) + 2] = r.fields[j].type
         /\ Len(J[j]) <= Len(p) /\ v # <<>> =>
               FieldsEnd(r, i) + 3 <= Len(p) /\ p[FieldsEnd(r, i) + 3] = v[1] /\ v[1] \in Byte
    BY <1>2, <1>8, <1>9, <1>10, <1>11, <1>12
  <1>14. Len(J[j]) = FieldsEnd(r, j)
    BY <1>3 DEF FieldsEnd
  <1>15. \A k \in j .. N : FieldsEnd(r, j) <= FieldsEnd(r, k)
    BY <1>7, <1>12, <1>14
  <1> QED BY <1>13, <1>14, <1>15 DEF v, p, N, FieldLies

\* An event as a controller lays it out, or what was received of it.
EventLayout ==
    {l \in [kind : Byte \X Byte \X Byte, reports : Seq(AdReport), claimed : Byte,
            short : Nat, lost : Nat] :
         /\ Declared(l.reports, l.short) \in Byte
         /\ l.lost <= 5 + Len(List(l.reports)[Len(l.reports)])}

Written(l) == EventOf(l.kind, l.reports, l.claimed, l.short, l.lost)

ReportParts(l) == [k \in DOMAIN l.reports |-> ReportBytes(l.reports[k])]

\* The bytes of the reports, and where each report ends.
Bytes(l) == List(l.reports)[Len(l.reports)]
EndOfReport(l, k) == Len(List(l.reports)[k])

\* The reports of an event are lists of bytes.
LEMMA ReportPart ==
    ASSUME NEW l \in EventLayout
    PROVE  /\ ReportParts(l) \in PartLists /\ Len(ReportParts(l)) = Len(l.reports)
           /\ Len(l.reports) \in Nat /\ DOMAIN l.reports = 1 .. Len(l.reports)
           /\ \A k \in 1 .. Len(l.reports) :
                 l.reports[k] \in AdReport /\ ReportParts(l)[k] = ReportBytes(l.reports[k])
           /\ List(l.reports) = Joined(ReportParts(l))
  <1> DEFINE reports == l.reports
             N == Len(reports)
  <1>1. N \in Nat /\ DOMAIN reports = 1 .. N /\ \A k \in 1 .. N : reports[k] \in AdReport
    <2>1. reports \in Seq(AdReport)
      BY DEF EventLayout
    <2> HIDE DEF reports
    <2> QED BY <2>1
  <1> HIDE DEF reports
  <1>2. ReportParts(l) = [k \in 1 .. N |-> ReportBytes(reports[k])]
    BY <1>1 DEF ReportParts, reports
  <1> HIDE DEF N
  <1>3. \A k \in 1 .. N : ReportBytes(reports[k]) \in ByteStrings
    BY <1>1, ReportBytesAre
  <1>4. ReportParts(l) \in Seq(ByteStrings) /\ Len(ReportParts(l)) = N
        /\ \A k \in 1 .. N : ReportParts(l)[k] = ReportBytes(reports[k])
    BY <1>1, <1>2, <1>3
  <1>5. List(reports) = Joined(ReportParts(l))
    BY DEF List, ReportParts, reports
  <1> QED BY <1>1, <1>4, <1>5 DEF reports, N, PartLists

\* Where a report is among the bytes of all.
LEMMA ReportAt ==
    ASSUME NEW l \in EventLayout, NEW k \in 1 .. Len(l.reports)
    PROVE  LET r == l.reports[k]
               from == EndOfReport(l, k - 1)
               p == Payload(r)
           IN /\ r \in AdReport /\ from \in Nat /\ Len(p) \in 0 .. 255
              /\ EndOfReport(l, k) = from + 10 + Len(p)
              /\ Len(Bytes(l)) \in Nat
              /\ \A n \in k .. Len(l.reports) : EndOfReport(l, k) <= EndOfReport(l, n)
              /\ EndOfReport(l, k) <= Len(Bytes(l))
              /\ OnWire(r) = [m \in 1 .. 6 |-> Bytes(l)[from + m + 2]]
              /\ Bytes(l)[from + 9] = Len(p)
              /\ \A m \in 1 .. Len(p) : Bytes(l)[from + 9 + m] = p[m]
              /\ Int8(Bytes(l)[from + Len(p) + 10]) = r.rssi
  <1> DEFINE N == Len(l.reports)
             parts == ReportParts(l)
             J == Joined(parts)
             r == l.reports[k]
             p == Payload(r)
             part == parts[k]
             from == Len(J[k - 1])
             n == Len(p)
             octets == OnWire(r)
  <1>1. parts \in PartLists /\ Len(parts) = N /\ N \in Nat /\ r \in AdReport
        /\ part = ReportBytes(r) /\ List(l.reports) = J
    BY ReportPart
  <1>2. /\ n \in 0 .. 255 /\ Len(part) = n + 10
        /\ \A m \in 1 .. 6 : part[m + 2] = octets[m]
        /\ part[9] = n
        /\ \A m \in 1 .. n : part[m + 9] = p[m]
        /\ Int8(part[n + 10]) = r.rssi
        /\ octets = [m \in 1 .. 6 |-> octets[m]]
    <2> HIDE DEF r, part
    <2> QED BY <1>1, ReportBytesAre
  <1> HIDE DEF parts, N
  <1>3. k \in 1 .. N /\ N \in k .. N
    BY <1>1 DEF N
  <1>4. ASSUME NEW o \in k .. N
        PROVE  /\ from \in Nat /\ Len(J[k]) = from + Len(part) /\ Len(J[k]) <= Len(J[o])
               /\ \A m \in 1 .. Len(part) : J[o][from + m] = part[m]
    BY <1>1, <1>3, PartAt
  <1>5. /\ from \in Nat /\ Len(J[k]) = from + Len(part) /\ Len(J[k]) <= Len(J[N])
        /\ \A m \in 1 .. Len(part) : J[N][from + m] = part[m]
        /\ \A o \in k .. N : Len(J[k]) <= Len(J[o])
    BY <1>3, <1>4
  <1>6. Len(J[N]) \in Nat
    <2>1. N \in 0 .. Len(parts)
      BY <1>1
    <2>2. J[N] \in ByteStrings
      BY <1>1, <2>1, JoinedIs
    <2> QED BY <2>2 DEF ByteStrings
  <1> DEFINE bytes == J[N]
  <1> HIDE DEF J, part, from, n, octets, p, r, bytes
  <1>15. n \in 0 .. 255 /\ Len(part) = n + 10
    BY Zenon, <1>2
  <1>16. from \in Nat /\ Len(J[k]) = from + Len(part)
    BY Zenon, <1>5
  <1>7. Len(J[k]) = from + 10 + n
    BY ONLY <1>15, <1>16
  <1>8. \A m \in 1 .. 6 : bytes[from + m + 2] = octets[m]
    <2> TAKE m \in 1 .. 6
    <2>1. m + 2 \in 1 .. Len(part) /\ from + m + 2 = from + (m + 2)
      BY <1>15, <1>16
    <2> QED BY ZenonT(30), <1>2, <1>5, <2>1 DEF bytes
  <1>9. bytes[from + 9] = n
    <2>1. 9 \in 1 .. Len(part)
      BY <1>15
    <2> QED BY Zenon, <1>2, <1>5, <2>1 DEF bytes
  <1>10. \A m \in 1 .. n : bytes[from + 9 + m] = p[m]
    <2> TAKE m \in 1 .. n
    <2>1. m + 9 \in 1 .. Len(part) /\ from + 9 + m = from + (m + 9)
      BY <1>15, <1>16
    <2> QED BY Zenon, <1>2, <1>5, <2>1 DEF bytes
  <1>11. Int8(bytes[from + n + 10]) = r.rssi
    <2>1. n + 10 \in 1 .. Len(part) /\ from + n + 10 = from + (n + 10)
      BY <1>15, <1>16
    <2> QED BY Zenon, <1>2, <1>5, <2>1 DEF bytes
  <1>12. octets = [m \in 1 .. 6 |-> bytes[from + m + 2]]
    BY <1>2, <1>8
  <1>13. Bytes(l) = bytes /\ EndOfReport(l, k) = Len(J[k]) /\ EndOfReport(l, k - 1) = from
         /\ \A o \in k .. N : EndOfReport(l, o) = Len(J[o])
    BY <1>1 DEF Bytes, EndOfReport, bytes, from, N
  <1>14. /\ r \in AdReport /\ from \in Nat /\ n \in 0 .. 255
         /\ Len(J[k]) = from + 10 + n
         /\ Len(bytes) \in Nat /\ Len(J[k]) <= Len(bytes)
         /\ \A o \in k .. N : EndOfReport(l, k) <= EndOfReport(l, o)
    BY <1>1, <1>2, <1>5, <1>6, <1>7, <1>13 DEF bytes
  <1> QED BY <1>9, <1>10, <1>11, <1>12, <1>13, <1>14 DEF octets, r, p, n, N

\* A bounded set of numbers that is not empty has a greatest element.
LEMMA GreatestNumber ==
    ASSUME NEW N \in Nat, NEW W \in SUBSET (0 .. N), W # {}
    PROVE  Max(W) \in W /\ \A k \in W : k <= Max(W)
  <1> DEFINE T == {m \in 0 .. N : N - m \in W}
  <1>1. PICK w \in W : TRUE
    OBVIOUS
  <1>2. w \in 0 .. N /\ N - w \in 0 .. N /\ N - (N - w) = w
    OBVIOUS
  <1>3. T \in SUBSET Nat /\ T # {}
    BY <1>1, <1>2
  <1>4. PICK m \in T : \A k \in T : m <= k
    <2> HIDE DEF T
    <2> QED BY <1>3, LeastNumber
  <1>5. N - m \in W /\ m \in 0 .. N
    OBVIOUS
  <1>6. \A k \in W : N - k \in T /\ k \in 0 .. N
    <2> TAKE k \in W
    <2>1. k \in 0 .. N /\ N - k \in 0 .. N /\ N - (N - k) = k
      OBVIOUS
    <2> QED BY <2>1
  <1>7. \A k \in W : N - m >= k
    BY <1>4, <1>5, <1>6
  <1>8. \E x \in W : \A k \in W : x >= k
    BY <1>5, <1>7
  <1>9. Max(W) \in W /\ \A k \in W : Max(W) >= k
    BY <1>8 DEF Max
  <1> QED BY <1>6, <1>9

\* What the buffer holds of an event.
LEMMA EventBytes ==
    ASSUME NEW l \in EventLayout, event = Written(l)
    PROVE  /\ Received \in Nat /\ Received <= 5 + Len(Bytes(l)) /\ Len(Bytes(l)) \in Nat
           /\ Received >= 3 => /\ Buf(0) = l.kind[1] /\ Buf(1) = l.kind[2]
                               /\ Buf(2) = Declared(l.reports, l.short)
           /\ Received >= 5 => Buf(3) = l.kind[3] /\ Data(0) = l.claimed
           /\ \A k \in 1 .. Len(Bytes(l)) : 4 + k < Received => Data(k) = Bytes(l)[k]
  <1> DEFINE list == Bytes(l)
             declared == Declared(l.reports, l.short)
             head == <<l.kind[1], l.kind[2], declared, l.kind[3], l.claimed>>
             all == head \o list
             n == Len(all) - l.lost
  <1>1. list \in ByteStrings
    <2>1. Len(l.reports) \in 0 .. Len(ReportParts(l))
      BY ReportPart
    <2> QED BY <2>1, ReportPart, JoinedIs DEF Bytes
  <1>2. /\ l.kind[1] \in Byte /\ l.kind[2] \in Byte /\ l.kind[3] \in Byte /\ l.claimed \in Byte
        /\ declared \in Byte /\ l.lost \in Nat /\ l.lost <= 5 + Len(list)
    BY DEF EventLayout, Bytes
  <1>3. event.bytes = SubSeq(all, 1, n)
    BY DEF Written, EventOf, Bytes
  <1> HIDE DEF list, declared
  <1>4. /\ head \in ByteStrings /\ Len(head) = 5
        /\ head[1] = l.kind[1] /\ head[2] = l.kind[2] /\ head[3] = declared
        /\ head[4] = l.kind[3] /\ head[5] = l.claimed
    BY <1>2 DEF ByteStrings
  <1> HIDE DEF head
  <1>5. /\ all \in ByteStrings /\ Len(all) = Len(head) + Len(list) /\ Len(list) \in Nat
        /\ \A k \in 1 .. Len(head) : all[k] = head[k]
        /\ \A k \in 1 .. Len(list) : all[Len(head) + k] = list[k]
    BY <1>1, <1>4, BehindIs
  <1> HIDE DEF all
  <1>6. /\ all \in ByteStrings /\ Len(all) = 5 + Len(list) /\ Len(list) \in Nat
        /\ \A k \in 1 .. 5 : all[k] = head[k]
        /\ \A k \in 1 .. Len(list) : all[5 + k] = list[k]
    BY <1>4, <1>5
  <1>7. n \in 0 .. Len(all)
    BY <1>2, <1>6
  <1> HIDE DEF n
  <1>8. Received = n /\ n <= Len(all) /\ \A k \in 1 .. n : event.bytes[k] = all[k]
    BY <1>3, <1>6, <1>7, PrefixIs DEF Received
  <1>9. n \in Nat /\ n <= 5 + Len(list)
    BY <1>6, <1>7
  <1>10. \A k \in Nat : k < n => Buf(k) = all[k + 1]
    <2> SUFFICES ASSUME NEW k \in Nat, k < n PROVE Buf(k) = all[k + 1]
      OBVIOUS
    <2>1. k + 1 \in 1 .. n
      BY <1>9
    <2> QED BY <1>8, <2>1 DEF Buf
  <1>11. n >= 3 => Buf(0) = all[1] /\ Buf(1) = all[2] /\ Buf(2) = all[3]
    <2> SUFFICES ASSUME n >= 3 PROVE Buf(0) = all[1] /\ Buf(1) = all[2] /\ Buf(2) = all[3]
      OBVIOUS
    <2>1. 0 < n /\ 1 < n /\ 2 < n /\ 0 + 1 = 1 /\ 1 + 1 = 2 /\ 2 + 1 = 3
      BY <1>9
    <2> QED BY <1>10, <2>1
  <1>12. n >= 5 => Buf(3) = all[4] /\ Buf(4) = all[5]
    <2> SUFFICES ASSUME n >= 5 PROVE Buf(3) = all[4] /\ Buf(4) = all[5]
      OBVIOUS
    <2>1. 3 < n /\ 4 < n /\ 3 + 1 = 4 /\ 4 + 1 = 5
      BY <1>9
    <2> QED BY <1>10, <2>1
  <1>13. Data(0) = Buf(4)
    <2>1. 4 + 0 = 4
      OBVIOUS
    <2> QED BY <2>1 DEF Data
  <1>14. \A k \in 1 .. 5 : all[k] = head[k]
    BY <1>6
  <1>15. /\ all[1] = l.kind[1] /\ all[2] = l.kind[2] /\ all[3] = declared
         /\ all[4] = l.kind[3] /\ all[5] = l.claimed
    <2>1. 1 \in 1 .. 5 /\ 2 \in 1 .. 5 /\ 3 \in 1 .. 5 /\ 4 \in 1 .. 5 /\ 5 \in 1 .. 5
      OBVIOUS
    <2> QED BY <1>4, <1>14, <2>1
  <1>16. ASSUME NEW k \in 1 .. Len(list), 4 + k < n PROVE Data(k) = list[k]
    <2>1. 4 + k \in Nat /\ (4 + k) + 1 = 5 + k
      BY <1>6
    <2> QED BY <1>6, <1>10, <1>16, <2>1 DEF Data
  <1> QED BY <1>6, <1>8, <1>9, <1>11, <1>12, <1>13, <1>15, <1>16 DEF list, declared

\* Whether the k-th report of an event is there, and the lengths admit it.
IsWhole(l, k) ==
    /\ l.kind = <<4, 62, 2>> /\ 3 + Declared(l.reports, l.short) <= Received
    /\ k <= l.claimed /\ 2 + EndOfReport(l, k) <= Declared(l.reports, l.short)

\* What an event stands for are its first reports, those that are whole.
LEMMA EventSent ==
    ASSUME NEW l \in EventLayout, event = Written(l)
    PROVE  LET N == Len(l.reports)
               heard == Len(event.sent)
           IN /\ N \in Nat /\ heard \in 0 .. N
              /\ event.sent \in Seq({SightingOf(l.reports[k]) : k \in 1 .. N})
              /\ \A k \in 1 .. heard : event.sent[k] = SightingOf(l.reports[k])
              /\ \A k \in 1 .. N : k <= heard <=> IsWhole(l, k)
  <1> DEFINE N == Len(l.reports)
             declared == Declared(l.reports, l.short)
             end(k) == EndOfReport(l, k)
             W == {0} \cup {k \in 1 .. N : k <= l.claimed /\ 2 + end(k) <= declared}
             fits == l.kind = <<4, 62, 2>> /\ 3 + declared <= Received
             heard == IF fits THEN Max(W) ELSE 0
  <1>1. N \in Nat /\ declared \in Byte /\ l.claimed \in Byte
    BY ReportPart DEF EventLayout
  <1>2. event.sent = [k \in 1 .. heard |-> SightingOf(l.reports[k])]
    <2> DEFINE bytes == <<l.kind[1], l.kind[2], declared, l.kind[3], l.claimed>>
                          \o List(l.reports)[Len(l.reports)]
               part == SubSeq(bytes, 1, Len(bytes) - l.lost)
    <2> HIDE DEF bytes
    <2>0. /\ event.bytes = part
          /\ event.sent =
                [k \in 1 .. IF l.kind = <<4, 62, 2>> /\ 3 + declared <= Len(bytes) - l.lost
                            THEN Max(W) ELSE 0 |-> SightingOf(l.reports[k])]
      BY DEF Written, EventOf, EndOfReport, bytes
    <2>1. Received = Len(bytes) - l.lost
      <3>1. /\ l.kind[1] \in Byte /\ l.kind[2] \in Byte /\ l.kind[3] \in Byte
            /\ l.lost \in Nat /\ l.lost <= 5 + Len(Bytes(l))
        BY DEF EventLayout, Bytes
      <3>2. Bytes(l) \in ByteStrings
        <4>1. Len(l.reports) \in 0 .. Len(ReportParts(l))
          BY ReportPart
        <4> QED BY <4>1, ReportPart, JoinedIs DEF Bytes
      <3> DEFINE head == <<l.kind[1], l.kind[2], declared, l.kind[3], l.claimed>>
      <3>3. head \in ByteStrings /\ Len(head) = 5
        BY <1>1, <3>1 DEF ByteStrings
      <3>4. bytes = head \o Bytes(l)
        BY DEF bytes, Bytes
      <3> HIDE DEF head
      <3>5. bytes \in ByteStrings /\ Len(bytes) = Len(head) + Len(Bytes(l)) /\ Len(Bytes(l)) \in Nat
        BY <3>2, <3>3, <3>4, BehindIs
      <3> DEFINE n == Len(bytes) - l.lost
      <3>6. n \in 0 .. Len(bytes)
        BY <3>1, <3>3, <3>5
      <3> HIDE DEF n
      <3>7. Len(SubSeq(bytes, 1, n)) = n
        BY <3>5, <3>6, PrefixIs
      <3> QED BY <2>0, <3>7 DEF Received, n
    <2> QED BY <2>0, <2>1
  <1>3. \A k \in 1 .. N : end(k) \in Nat /\ \A n \in k .. N : end(k) <= end(n)
    <2> TAKE k \in 1 .. N
    <2>1. /\ EndOfReport(l, k - 1) \in Nat /\ Len(Payload(l.reports[k])) \in 0 .. 255
          /\ EndOfReport(l, k) = EndOfReport(l, k - 1) + 10 + Len(Payload(l.reports[k]))
          /\ \A n \in k .. N : end(k) <= end(n)
      BY ReportAt
    <2>2. EndOfReport(l, k) \in Nat
      <3> DEFINE from == EndOfReport(l, k - 1)
                 len == Len(Payload(l.reports[k]))
      <3>1. from \in Nat /\ len \in 0 .. 255 /\ EndOfReport(l, k) = from + 10 + len
        BY <2>1
      <3> HIDE DEF from, len
      <3> QED BY <3>1
    <2> QED BY <2>1, <2>2
  <1> HIDE DEF N, declared, end
  <1>4. W \in SUBSET (0 .. N) /\ 0 \in W /\ W # {}
    BY <1>1
  <1>5. Max(W) \in W /\ \A k \in W : k <= Max(W)
    <2> HIDE DEF W
    <2> QED BY <1>1, <1>4, GreatestNumber
  <1>6. heard \in 0 .. N
    BY <1>1, <1>5
  <1>7. \A k \in 1 .. N : k <= heard <=> fits /\ k <= l.claimed /\ 2 + end(k) <= declared
    <2> TAKE k \in 1 .. N
    <2>1. ASSUME k <= heard PROVE fits /\ k <= l.claimed /\ 2 + end(k) <= declared
      <3>1. fits /\ heard = Max(W)
        BY <1>1, <2>1
      <3>2. heard \in 1 .. N /\ heard <= l.claimed /\ 2 + end(heard) <= declared
        BY <1>1, <1>5, <2>1, <3>1
      <3> HIDE DEF heard, fits
      <3>3. heard \in k .. N
        BY <2>1, <3>2
      <3>4. end(k) <= end(heard) /\ end(k) \in Nat /\ end(heard) \in Nat
        BY <1>3, <3>2, <3>3
      <3>5. k <= l.claimed /\ 2 + end(k) <= declared
        BY <1>1, <2>1, <3>2, <3>4 DEF Byte
      <3> QED BY <3>1, <3>5
    <2>2. ASSUME fits, k <= l.claimed, 2 + end(k) <= declared PROVE k <= heard
      <3>1. k \in W
        BY <2>2
      <3> QED BY <1>5, <2>2, <3>1
    <2> QED BY <2>1, <2>2
  <1> HIDE DEF heard
  <1>8. /\ event.sent \in Seq({SightingOf(l.reports[k]) : k \in 1 .. N})
        /\ Len(event.sent) = heard
        /\ \A k \in 1 .. heard : event.sent[k] = SightingOf(l.reports[k])
    BY <1>1, <1>2, <1>6
  <1> QED BY <1>1, <1>6, <1>7, <1>8 DEF N, declared, end, IsWhole, EndOfReport

\* The bytes of a payload: the k-th field that lies within it, and what they are
\* worth for the Tx power.
LEMMA PowersAre ==
    ASSUME NEW r \in AdReport
    PROVE  /\ Powers(r) \in SUBSET (1 .. Len(r.fields)) /\ Len(r.fields) \in Nat
           /\ \A k \in 1 .. Len(r.fields) :
                 k \in Powers(r) <=> /\ r.fields[k].type = 10 /\ r.fields[k].value # <<>>
                                     /\ Len(Fields(r)[k]) <= Len(Payload(r))
           /\ Powers(r) = {} => TxPower(r) = -59
           /\ \A k \in Powers(r) :
                 (\A m \in Powers(r) : k <= m) => /\ k = Min(Powers(r))
                                                  /\ TxPower(r) = Signed(r.fields[k].value[1])
  <1>1. Len(r.fields) \in Nat /\ DOMAIN r.fields = 1 .. Len(r.fields)
    BY FieldPart
  <1>2. Powers(r) \in SUBSET (1 .. Len(r.fields))
    BY <1>1 DEF Powers
  <1>3. \A k \in 1 .. Len(r.fields) :
           k \in Powers(r) <=> /\ r.fields[k].type = 10 /\ r.fields[k].value # <<>>
                               /\ Len(Fields(r)[k]) <= Len(Payload(r))
    BY <1>1 DEF Powers
  <1>4. ASSUME NEW k \in Powers(r), \A m \in Powers(r) : k <= m
        PROVE  k = Min(Powers(r)) /\ TxPower(r) = Signed(r.fields[k].value[1])
    <2> DEFINE M == Min(Powers(r))
    <2>1. M \in Powers(r) /\ \A m \in Powers(r) : M <= m
      BY <1>4 DEF Min
    <2> HIDE DEF M
    <2>2. M <= k /\ k <= M /\ M \in Nat /\ k \in Nat
      BY <1>2, <1>4, <2>1
    <2>3. k = M
      BY <2>2
    <2>4. Powers(r) # {}
      OBVIOUS
    <2> QED BY <2>3, <2>4 DEF M, TxPower
  <1>5. Powers(r) = {} => TxPower(r) = -59
    BY DEF TxPower
  <1> QED BY <1>1, <1>2, <1>3, <1>4, <1>5

\* The report that is being parsed.
Current(l) == l.reports[report + 1]

\* What the parser knows of an event of this layout.
HearInv(l) ==
    /\ report \in Nat /\ report <= Len(event.sent)
    /\ bleHeard = [k \in 1 .. report |-> event.sent[k]]
    /\ blePc = "event" => report = 0 /\ bleOffset = 1
    /\ blePc \notin {"event", "done"} =>
          l.kind = <<4, 62, 2>> /\ 3 + Declared(l.reports, l.short) <= Received
    /\ blePc \in {"report", "header"} => bleOffset = 1 + EndOfReport(l, report)
    /\ blePc \in {"header", "payload"} => report < l.claimed
    /\ blePc \in {"header", "payload", "ad", "field", "power", "rssi"} => report < Len(l.reports)
    /\ blePc \in {"payload", "ad", "field", "power", "rssi"} =>
          /\ bleOffset = 10 + EndOfReport(l, report)
          /\ adLen = Len(Payload(Current(l))) /\ mac = OnWire(Current(l))
    /\ blePc \in {"ad", "field", "power", "rssi"} => report < Len(event.sent)
    /\ blePc \in {"ad", "field"} =>
          /\ tx = -59
          /\ \E j \in 0 .. Len(Current(l).fields) :
                adOff = FieldsEnd(Current(l), j) /\ \A k \in Powers(Current(l)) : j < k
    /\ blePc = "power" =>
          \E j \in Powers(Current(l)) :
              adOff = FieldsEnd(Current(l), j - 1) /\ \A k \in Powers(Current(l)) : j <= k
    /\ blePc = "rssi" => tx = TxPower(Current(l))
    /\ blePc = "done" => report = Len(event.sent)

\* No report and no field lie before the first.
LEMMA NothingBefore ==
    /\ \A l \in EventLayout : EndOfReport(l, 0) = 0
    /\ \A r \in AdReport : FieldsEnd(r, 0) = 0
  <1>1. ASSUME NEW l \in EventLayout PROVE EndOfReport(l, 0) = 0
    <2>1. Joined(ReportParts(l))[0] = <<>> /\ List(l.reports) = Joined(ReportParts(l))
      BY ReportPart, JoinedIs
    <2> QED BY <2>1 DEF EndOfReport
  <1>2. ASSUME NEW r \in AdReport PROVE FieldsEnd(r, 0) = 0
    <2>1. Joined(FieldParts(r))[0] = <<>> /\ Fields(r) = Joined(FieldParts(r))
      BY FieldPart, JoinedIs DEF Fields, FieldParts
    <2> QED BY <2>1 DEF FieldsEnd
  <1> QED BY <1>1, <1>2

\* The lengths while an event with a list of reports is parsed.
LEMMA ListIs ==
    ASSUME BleInv, NEW l \in EventLayout, event = Written(l), blePc \notin {"event", "done"}
    PROVE  LET declared == Declared(l.reports, l.short)
           IN /\ declared \in Nat /\ ParamsLen = declared - 1 /\ Data(0) = l.claimed
              /\ Received \in Nat /\ 3 + declared <= Received /\ declared <= Len(Bytes(l)) + 2
              /\ Len(Bytes(l)) \in Nat
              /\ \A k \in 1 .. Len(Bytes(l)) : 4 + k < Received => Data(k) = Bytes(l)[k]
  <1> DEFINE declared == Declared(l.reports, l.short)
  <1>1. declared \in Nat
    <2>1. declared \in Byte
      BY DEF EventLayout
    <2> QED BY <2>1 DEF Byte
  <1> HIDE DEF declared
  <1>2. Received \in Nat /\ Received <= 5 + Len(Bytes(l)) /\ Len(Bytes(l)) \in Nat
        /\ \A k \in 1 .. Len(Bytes(l)) : 4 + k < Received => Data(k) = Bytes(l)[k]
    BY EventBytes
  <1>3. Received >= 3 /\ 3 + Buf(2) <= Received /\ Buf(2) >= 2
    BY DEF BleInv
  <1>4. Buf(2) = declared
    BY <1>3, EventBytes DEF declared
  <1>5. Received >= 5
    BY <1>1, <1>2, <1>3, <1>4
  <1>6. Data(0) = l.claimed
    BY <1>5, EventBytes
  <1>7. declared <= Len(Bytes(l)) + 2
    BY <1>1, <1>2, <1>3, <1>4
  <1> QED BY <1>1, <1>2, <1>3, <1>4, <1>6, <1>7 DEF ParamsLen, declared

\* The header of an event.
LEMMA HearEvent ==
    ASSUME BleInv, NEW l \in EventLayout, event = Written(l), HearInv(l), EventHeader
    PROVE  HearInv(l)'
  <1> DEFINE declared == Declared(l.reports, l.short)
             N == Len(l.reports)
             heard == Len(event.sent)
  <1>1. /\ blePc = "event" /\ report = 0 /\ bleOffset = 1
        /\ bleHeard = [k \in 1 .. report |-> event.sent[k]]
        /\ UNCHANGED <<event, leftover, report, bleOffset, reportVars, bleHeard>>
        /\ blePc' = IF IsAdvertising THEN "report" ELSE "done"
    BY DEF EventHeader, HearInv, BleGoto
  <1>2. N \in Nat /\ heard \in 0 .. N /\ \A k \in 1 .. N : k <= heard <=> IsWhole(l, k)
    BY EventSent
  <1>3. Received' = Received
    BY <1>1 DEF Received
  <1>4. EndOfReport(l, 0) = 0
    BY NothingBefore
  <1>5. Received >= 3 => Buf(0) = l.kind[1] /\ Buf(1) = l.kind[2] /\ Buf(2) = declared
    BY EventBytes
  <1>6. Received \in Nat /\ declared \in Nat
    <2>1. declared \in Byte
      BY DEF EventLayout
    <2> HIDE DEF declared
    <2> QED BY <2>1, EventBytes DEF Byte
  <1>7. Received >= 5 => Buf(3) = l.kind[3]
    BY EventBytes
  <1>8. l.kind = <<l.kind[1], l.kind[2], l.kind[3]>>
    BY DEF EventLayout
  <1> HIDE DEF declared, heard, N
  <1>9. CASE IsAdvertising
    <2>1. Received >= 3 /\ Buf(0) = 4 /\ 3 + Buf(2) <= Received /\ Buf(1) = 62 /\ Buf(2) >= 2
          /\ Buf(3) = 2
      BY <1>9 DEF IsAdvertising, HciEventPkt, EvtLeMetaEvent, EvtLeAdvertisingReport
    <2>2. Received >= 5 /\ 3 + declared <= Received
      BY <1>5, <1>6, <2>1
    <2>3. l.kind = <<4, 62, 2>>
      BY <1>5, <1>7, <1>8, <2>1, <2>2
    <2>4. blePc' = "report" /\ report' = 0 /\ bleOffset' = 1
      BY <1>1, <1>9
    <2>5. report' \in Nat /\ report' <= Len(event'.sent)
      BY <1>1, <1>2, <2>4 DEF heard
    <2> QED BY <1>1, <1>3, <1>4, <2>2, <2>3, <2>4, <2>5 DEF HearInv, declared
  <1>10. CASE ~IsAdvertising
    <2>1. heard = 0
      <3> SUFFICES ASSUME heard # 0 PROVE FALSE
        OBVIOUS
      <3>1. 1 \in 1 .. N /\ 1 <= heard
        BY <1>2
      <3>2. IsWhole(l, 1)
        BY <1>2, <3>1
      <3>3. EndOfReport(l, 1) >= 10 /\ EndOfReport(l, 1) \in Nat
        <4>1. LET p == Payload(l.reports[1])
              IN Len(p) \in 0 .. 255 /\ EndOfReport(l, 1) = EndOfReport(l, 1 - 1) + 10 + Len(p)
          BY ZenonT(30), <3>1, ReportAt DEF N
        <4>2. 1 - 1 = 0
          OBVIOUS
        <4> DEFINE from == EndOfReport(l, 0)
                   len == Len(Payload(l.reports[1]))
                   end == EndOfReport(l, 1)
        <4>3. from = 0 /\ len \in 0 .. 255 /\ end = from + 10 + len
          BY <1>4, <4>1, <4>2
        <4> HIDE DEF from, len, end
        <4>4. end >= 10 /\ end \in Nat
          BY <4>3
        <4> QED BY <4>4 DEF end
      <3>4. l.kind = <<4, 62, 2>> /\ 3 + declared <= Received /\ 2 + EndOfReport(l, 1) <= declared
        BY <3>2 DEF IsWhole, declared
      <3>5. l.kind[1] = 4 /\ l.kind[2] = 62 /\ l.kind[3] = 2
        BY <3>4
      <3>6. declared >= 12 /\ Received >= 5 /\ Received >= 3
        BY <1>6, <3>3, <3>4
      <3>7. Buf(0) = 4 /\ Buf(1) = 62 /\ Buf(3) = 2 /\ Buf(2) = declared
        BY <1>5, <1>7, <3>5, <3>6
      <3>8. 3 + Buf(2) <= Received /\ Buf(2) >= 2
        BY <1>6, <3>4, <3>6, <3>7
      <3> QED BY <1>10, <3>6, <3>7, <3>8
              DEF IsAdvertising, HciEventPkt, EvtLeMetaEvent, EvtLeAdvertisingReport
    <2>2. blePc' = "done" /\ report' = 0
      BY <1>1, <1>10
    <2>3. report' \in Nat /\ report' = Len(event'.sent) /\ report' <= Len(event'.sent)
      BY <1>1, <2>1, <2>2 DEF heard
    <2> QED BY <1>1, <2>2, <2>3 DEF HearInv
  <1> QED BY <1>9, <1>10

\* Where the report that is parsed is among the bytes of all.
LEMMA CurrentAt ==
    ASSUME NEW l \in EventLayout, report \in Nat, report < Len(l.reports)
    PROVE  LET r == Current(l)
               e == EndOfReport(l, report)
               n == Len(Payload(r))
           IN /\ report + 1 \in 1 .. Len(l.reports)
              /\ r \in AdReport /\ e \in Nat /\ n \in 0 .. 255
              /\ EndOfReport(l, report + 1) = e + 10 + n
              /\ EndOfReport(l, report + 1) <= Len(Bytes(l)) /\ Len(Bytes(l)) \in Nat
              /\ OnWire(r) = [m \in 1 .. 6 |-> Bytes(l)[e + m + 2]]
              /\ Bytes(l)[e + 9] = n
              /\ \A m \in 1 .. n : Bytes(l)[e + 9 + m] = Payload(r)[m]
              /\ Int8(Bytes(l)[e + n + 10]) = r.rssi
  <1> DEFINE k == report + 1
             N == Len(l.reports)
  <1>1. k \in 1 .. N /\ k - 1 = report
    <2>1. N \in Nat
      BY ReportPart
    <2>2. report \in Nat /\ report < N
      OBVIOUS
    <2> HIDE DEF N
    <2> QED BY <2>1, <2>2
  <1> HIDE DEF k
  <1>2. LET r == l.reports[k]
            from == EndOfReport(l, k - 1)
            p == Payload(r)
        IN /\ r \in AdReport /\ from \in Nat /\ Len(p) \in 0 .. 255
           /\ EndOfReport(l, k) = from + 10 + Len(p)
           /\ Len(Bytes(l)) \in Nat
           /\ EndOfReport(l, k) <= Len(Bytes(l))
           /\ OnWire(r) = [m \in 1 .. 6 |-> Bytes(l)[from + m + 2]]
           /\ Bytes(l)[from + 9] = Len(p)
           /\ \A m \in 1 .. Len(p) : Bytes(l)[from + 9 + m] = p[m]
           /\ Int8(Bytes(l)[from + Len(p) + 10]) = r.rssi
    BY ZenonT(30), <1>1, ReportAt
  <1> DEFINE from == EndOfReport(l, k - 1)
  <1>3. from = EndOfReport(l, report)
    BY <1>1
  <1> HIDE DEF from
  <1>4. LET r == l.reports[k]
            p == Payload(r)
        IN /\ r \in AdReport /\ from \in Nat /\ Len(p) \in 0 .. 255
           /\ EndOfReport(l, k) = from + 10 + Len(p)
           /\ Len(Bytes(l)) \in Nat
           /\ EndOfReport(l, k) <= Len(Bytes(l))
           /\ OnWire(r) = [m \in 1 .. 6 |-> Bytes(l)[from + m + 2]]
           /\ Bytes(l)[from + 9] = Len(p)
           /\ \A m \in 1 .. Len(p) : Bytes(l)[from + 9 + m] = p[m]
           /\ Int8(Bytes(l)[from + Len(p) + 10]) = r.rssi
    BY <1>2 DEF from
  <1> QED BY Zenon, <1>1, <1>3, <1>4 DEF Current, k

\* The test for another report.
LEMMA HearNext ==
    ASSUME BleInv, NEW l \in EventLayout, event = Written(l), HearInv(l), NextReport
    PROVE  HearInv(l)'
  <1> DEFINE declared == Declared(l.reports, l.short)
             N == Len(l.reports)
             heard == Len(event.sent)
             e == EndOfReport(l, report)
             size == Len(Bytes(l))
             more == report < Data(0) /\ bleOffset + 10 <= ParamsLen
  <1>1. /\ blePc = "report" /\ blePc' = IF more THEN "header" ELSE "done"
        /\ UNCHANGED <<event, leftover, report, bleOffset, reportVars, bleHeard>>
    BY DEF NextReport, BleGoto
  <1>2. /\ report \in Nat /\ report <= heard /\ bleOffset = 1 + e
        /\ bleHeard = [k \in 1 .. report |-> event.sent[k]]
        /\ l.kind = <<4, 62, 2>> /\ 3 + declared <= Received
    BY <1>1 DEF HearInv
  <1>3. /\ declared \in Nat /\ ParamsLen = declared - 1 /\ Data(0) = l.claimed
        /\ Received \in Nat /\ declared <= size + 2 /\ size \in Nat
    BY <1>1, ListIs
  <1>4. N \in Nat /\ heard \in 0 .. N /\ \A k \in 1 .. N : k <= heard <=> IsWhole(l, k)
    BY EventSent
  <1>5. l.claimed \in Nat
    <2>1. l.claimed \in Byte
      BY DEF EventLayout
    <2> QED BY <2>1 DEF Byte
  <1>6. Received' = Received
    BY <1>1 DEF Received
  <1>7. EndOfReport(l, N) = size
    BY DEF EndOfReport, Bytes
  <1> HIDE DEF declared, heard, N, size
  <1>8. CASE more
    <2>1. bleOffset + 10 <= declared - 1 /\ report < l.claimed
      BY <1>3, <1>8
    <2>2. report # N
      <3> SUFFICES ASSUME report = N PROVE FALSE
        OBVIOUS
      <3>1. e = size
        BY <1>7
      <3> HIDE DEF e
      <3> QED BY <1>2, <1>3, <2>1, <3>1
    <2>3. report < N
      BY <1>2, <1>4, <2>2
    <2>4. blePc' = "header"
      BY <1>1, <1>8
    <2> QED BY <1>1, <1>2, <1>6, <2>1, <2>3, <2>4 DEF HearInv, declared, heard, N
  <1>9. CASE ~more
    <2>1. report = heard
      <3> SUFFICES ASSUME report # heard PROVE FALSE
        OBVIOUS
      <3>1. report + 1 \in 1 .. N /\ report + 1 <= heard /\ (report + 1) - 1 = report
        BY <1>2, <1>4
      <3>2. report + 1 <= l.claimed /\ 2 + EndOfReport(l, report + 1) <= declared
        BY <1>4, <3>1 DEF IsWhole, declared
      <3> DEFINE n == Len(Payload(l.reports[report + 1]))
      <3>0. report < N
        BY <1>2, <1>4, <3>1
      <3>3. n \in 0 .. 255 /\ EndOfReport(l, report + 1) = e + 10 + n /\ e \in Nat
        BY <1>2, <3>0, CurrentAt DEF N, Current
      <3> HIDE DEF e, n
      <3>4. report < l.claimed /\ bleOffset + 10 <= declared - 1
        <4>1. report \in Nat /\ bleOffset = 1 + e /\ declared \in Nat /\ e \in Nat /\ n \in 0 .. 255
              /\ l.claimed \in Nat /\ report + 1 <= l.claimed /\ 2 + (e + 10 + n) <= declared
          BY <1>2, <1>3, <1>5, <3>2, <3>3
        <4> DEFINE c == l.claimed
        <4> HIDE DEF c
        <4>2. report < c
          BY <4>1 DEF c
        <4>3. bleOffset + 10 <= declared - 1
          BY <4>1
        <4> QED BY <4>2, <4>3 DEF c
      <3> QED BY <1>3, <1>9, <3>4
    <2>2. blePc' = "done"
      BY <1>1, <1>9
    <2> QED BY <1>1, <1>2, <1>6, <2>1, <2>2 DEF HearInv, declared, heard
  <1> QED BY <1>8, <1>9

\* The header of a report.
LEMMA HearHeader ==
    ASSUME BleInv, NEW l \in EventLayout, event = Written(l), HearInv(l), ReadHeader
    PROVE  HearInv(l)'
  <1> DEFINE declared == Declared(l.reports, l.short)
             N == Len(l.reports)
             e == EndOfReport(l, report)
             r == Current(l)
             n == Len(Payload(r))
             size == Len(Bytes(l))
  <1>1. /\ blePc = "header" /\ blePc' = "payload" /\ bleOffset' = bleOffset + 9
        /\ mac' = [k \in 1 .. 6 |-> Data(bleOffset + 1 + k)] /\ adLen' = Data(bleOffset + 8)
        /\ UNCHANGED <<event, leftover, report, adOff, tx, bleHeard>>
    BY DEF ReadHeader, BleGoto
  <1>2. /\ report \in Nat /\ report <= Len(event.sent) /\ report < N /\ report < l.claimed
        /\ bleOffset = 1 + e
        /\ bleHeard = [k \in 1 .. report |-> event.sent[k]]
        /\ l.kind = <<4, 62, 2>> /\ 3 + declared <= Received
    BY <1>1 DEF HearInv
  <1>3. /\ declared \in Nat /\ ParamsLen = declared - 1 /\ Received \in Nat /\ size \in Nat
        /\ \A k \in 1 .. size : 4 + k < Received => Data(k) = Bytes(l)[k]
    BY <1>1, ListIs
  <1>4. bleOffset + 10 <= ParamsLen
    BY <1>1 DEF BleInv
  <1>6. /\ e \in Nat /\ n \in 0 .. 255 /\ EndOfReport(l, report + 1) = e + 10 + n
        /\ EndOfReport(l, report + 1) <= size
        /\ OnWire(r) = [m \in 1 .. 6 |-> Bytes(l)[e + m + 2]]
        /\ Bytes(l)[e + 9] = n
    BY <1>2, CurrentAt
  <1>7. Received' = Received
    BY <1>1 DEF Received
  <1> HIDE DEF declared, e, r, n, size
  <1>8. \A k \in 1 .. 9 : e + k \in 1 .. size /\ 4 + (e + k) < Received
    <2>1. /\ e \in Nat /\ n \in 0 .. 255 /\ e + 10 + n <= size /\ size \in Nat
          /\ declared \in Nat /\ (1 + e) + 10 <= declared - 1
          /\ Received \in Nat /\ 3 + declared <= Received
      BY <1>2, <1>3, <1>4, <1>6
    <2> QED BY <2>1
  <1>9. \A k \in 1 .. 6 : Data(bleOffset + 1 + k) = Bytes(l)[e + k + 2]
    <2> TAKE k \in 1 .. 6
    <2>1. e \in Nat /\ bleOffset = 1 + e
      BY <1>2, <1>6
    <2>2. bleOffset + 1 + k = e + (k + 2) /\ e + k + 2 = e + (k + 2) /\ k + 2 \in 1 .. 9
      BY <2>1
    <2> QED BY <1>3, <1>8, <2>2
  <1>10. mac' = OnWire(r)
    BY <1>1, <1>6, <1>9
  <1>11. adLen' = n
    <2>1. bleOffset + 8 = e + 9 /\ 9 \in 1 .. 9
      BY <1>2, <1>6
    <2> QED BY <1>1, <1>3, <1>6, <1>8, <2>1
  <1>12. bleOffset' = 10 + e
    BY <1>1, <1>2, <1>6
  <1>13. Current(l)' = Current(l) /\ report' = report
    BY <1>1 DEF Current
  <1> QED BY <1>1, <1>2, <1>7, <1>10, <1>11, <1>12, <1>13 DEF HearInv, declared, e, r, n

\* The test for room for the payload and the RSSI.
LEMMA HearPayload ==
    ASSUME BleInv, NEW l \in EventLayout, event = Written(l), HearInv(l), TestPayload
    PROVE  HearInv(l)'
  <1> DEFINE declared == Declared(l.reports, l.short)
             N == Len(l.reports)
             e == EndOfReport(l, report)
             r == Current(l)
             n == Len(Payload(r))
             heard == Len(event.sent)
  <1>1. /\ blePc = "payload"
        /\ blePc' = IF bleOffset + adLen + 1 > ParamsLen THEN "done" ELSE "ad"
        /\ adOff' = 0 /\ tx' = -59
        /\ UNCHANGED <<event, leftover, report, bleOffset, adLen, mac, bleHeard>>
    BY DEF TestPayload, BleGoto, DefaultTxPower
  <1>2. /\ report \in Nat /\ report <= heard /\ report < N /\ report < l.claimed
        /\ bleOffset = 10 + e /\ adLen = n /\ mac = OnWire(r)
        /\ bleHeard = [k \in 1 .. report |-> event.sent[k]]
        /\ l.kind = <<4, 62, 2>> /\ 3 + declared <= Received
    BY <1>1 DEF HearInv
  <1>3. declared \in Nat /\ ParamsLen = declared - 1
    BY <1>1, ListIs
  <1>4. N \in Nat /\ heard \in 0 .. N /\ \A k \in 1 .. N : k <= heard <=> IsWhole(l, k)
    BY EventSent
  <1>5. report + 1 \in 1 .. N
    BY <1>2, CurrentAt
  <1>6. e \in Nat /\ n \in 0 .. 255 /\ EndOfReport(l, report + 1) = e + 10 + n /\ r \in AdReport
    BY <1>2, CurrentAt
  <1>7. l.claimed \in Nat
    <2>1. l.claimed \in Byte
      BY DEF EventLayout
    <2> QED BY <2>1 DEF Byte
  <1>8. Received' = Received /\ Current(l)' = Current(l) /\ report' = report /\ event' = event
    BY <1>1 DEF Received, Current
  <1>9. FieldsEnd(r, 0) = 0 /\ 0 \in 0 .. Len(r.fields)
        /\ \A k \in Powers(r) : 0 < k
    <2> DEFINE fields == Len(r.fields)
               powers == Powers(r)
    <2>1. r \in AdReport
      BY <1>6
    <2> HIDE DEF r
    <2>2. FieldsEnd(r, 0) = 0
      BY <2>1, NothingBefore
    <2>3. powers \in SUBSET (1 .. fields) /\ fields \in Nat
      BY <2>1, PowersAre
    <2> HIDE DEF fields, powers
    <2>4. 0 \in 0 .. fields /\ \A k \in powers : 0 < k
      BY <2>3
    <2> QED BY <2>2, <2>4 DEF fields, powers
  <1> HIDE DEF declared, e, r, n, heard, N
  <1>16. bleOffset = 10 + e /\ adLen = n /\ e \in Nat /\ n \in 0 .. 255
    BY Zenon, <1>2, <1>6
  <1>10. report + 1 <= heard <=> bleOffset + adLen + 1 <= ParamsLen
    <2>1. report + 1 <= heard <=>
             report + 1 <= l.claimed /\ 2 + (e + 10 + n) <= declared
      BY <1>2, <1>4, <1>5, <1>6 DEF IsWhole, declared
    <2>2. report + 1 <= l.claimed
      BY <1>2, <1>7
    <2>3. bleOffset + adLen + 1 <= ParamsLen <=> 2 + (e + 10 + n) <= declared
      BY <1>3, <1>16
    <2> QED BY <2>1, <2>2, <2>3
  <1>11. bleOffset + adLen + 1 \in Int /\ ParamsLen \in Int
    BY <1>3, <1>16
  <1>12. CASE bleOffset + adLen + 1 > ParamsLen
    <2>1. blePc' = "done"
      BY <1>1, <1>12
    <2>2. report = heard
      BY <1>2, <1>4, <1>10, <1>11, <1>12
    <2> QED BY <1>1, <1>2, <1>8, <2>1, <2>2 DEF HearInv, declared, heard
  <1>13. CASE ~(bleOffset + adLen + 1 > ParamsLen)
    <2>1. blePc' = "ad"
      BY <1>1, <1>13
    <2>2. report < heard
      BY <1>2, <1>4, <1>10, <1>11, <1>13
    <2>3. \E j \in 0 .. Len(r.fields) : adOff' = FieldsEnd(r, j) /\ \A k \in Powers(r) : j < k
      BY <1>1, <1>9
    <2> QED BY <1>1, <1>2, <1>8, <2>1, <2>2, <2>3 DEF HearInv, declared, heard, r, N, e, n
  <1> QED BY <1>12, <1>13

\* What is read of a payload, and of the RSSI behind it.
LEMMA PayloadRead ==
    ASSUME BleInv, NEW l \in EventLayout, event = Written(l), HearInv(l),
           blePc \in {"ad", "field", "power", "rssi"}
    PROVE  LET r == Current(l)
               p == Payload(r)
           IN /\ r \in AdReport /\ Len(p) \in 0 .. 255 /\ adLen = Len(p) /\ bleOffset \in Nat
              /\ \A k \in 0 .. Len(p) - 1 : Data(bleOffset + k) = p[k + 1]
              /\ Int8(Data(bleOffset + adLen)) = r.rssi
  <1> DEFINE declared == Declared(l.reports, l.short)
             e == EndOfReport(l, report)
             r == Current(l)
             p == Payload(r)
             n == Len(p)
             bytes == Bytes(l)
             size == Len(bytes)
  <1>1. /\ report \in Nat /\ report < Len(l.reports) /\ bleOffset = 10 + e /\ adLen = n
    BY DEF HearInv
  <1>2. /\ declared \in Nat /\ ParamsLen = declared - 1 /\ Received \in Nat
        /\ 3 + declared <= Received
        /\ \A k \in 1 .. size : 4 + k < Received => Data(k) = bytes[k]
    BY ListIs
  <1>3. bleOffset + adLen + 1 <= ParamsLen
    BY DEF BleInv
  <1>4. /\ r \in AdReport /\ e \in Nat /\ n \in 0 .. 255
        /\ EndOfReport(l, report + 1) = e + 10 + n
        /\ EndOfReport(l, report + 1) <= size /\ size \in Nat
        /\ \A m \in 1 .. n : bytes[e + 9 + m] = p[m]
        /\ Int8(bytes[e + n + 10]) = r.rssi
    BY <1>1, CurrentAt
  <1> HIDE DEF declared, e, r, p, n, bytes, size
  <1>5. /\ e \in Nat /\ n \in 0 .. 255 /\ e + 10 + n <= size /\ size \in Nat /\ declared \in Nat
        /\ (10 + e) + n + 1 <= declared - 1 /\ Received \in Nat /\ 3 + declared <= Received
    BY <1>1, <1>2, <1>3, <1>4
  <1>6. \A k \in 0 .. n :
           /\ e + 10 + k \in 1 .. size /\ 4 + (e + 10 + k) < Received
           /\ (10 + e) + k = e + 10 + k
    BY <1>5
  <1>7. \A k \in 0 .. n : Data(bleOffset + k) = bytes[e + 10 + k]
    BY <1>1, <1>2, <1>6
  <1>8. \A k \in 0 .. n - 1 : Data(bleOffset + k) = p[k + 1]
    <2> TAKE k \in 0 .. n - 1
    <2>1. k \in 0 .. n /\ k + 1 \in 1 .. n /\ e + 10 + k = e + 9 + (k + 1)
      BY <1>5
    <2> QED BY <1>4, <1>7, <2>1
  <1>9. Int8(Data(bleOffset + adLen)) = r.rssi
    <2>1. n \in 0 .. n /\ e + 10 + n = e + n + 10
      BY <1>5
    <2> QED BY <1>1, <1>4, <1>7, <2>1
  <1>10. bleOffset \in Nat
    BY DEF BleInv
  <1> QED BY <1>1, <1>4, <1>8, <1>9, <1>10 DEF r, p, n

\* The field the search has reached.
LEMMA FieldHere ==
    ASSUME BleInv, NEW l \in EventLayout, event = Written(l), HearInv(l), blePc = "field",
           NEW j \in 0 .. Len(Current(l).fields), adOff = FieldsEnd(Current(l), j)
    PROVE  LET r == Current(l)
               v == r.fields[j + 1].value
           IN /\ j + 1 \in 1 .. Len(r.fields)
              /\ Len(v) \in 0 .. 254 /\ FieldLen = Len(v) + 1 /\ adOff \in Nat
              /\ Data(bleOffset + adOff + 1) = r.fields[j + 1].type
              /\ FieldsEnd(r, j + 1) = adOff + Len(v) + 2
              /\ v # <<>> <=> Len(v) # 0
              /\ \A k \in j + 1 .. Len(r.fields) : FieldsEnd(r, j + 1) <= FieldsEnd(r, k)
  <1> DEFINE r == Current(l)
             N == Len(r.fields)
             p == Payload(r)
             n == Len(p)
             v == r.fields[j + 1].value
  <1>1. /\ r \in AdReport /\ n \in 0 .. 255 /\ adLen = n /\ bleOffset \in Nat
        /\ \A k \in 0 .. n - 1 : Data(bleOffset + k) = p[k + 1]
    BY PayloadRead
  <1>2. adOff + 1 < adLen /\ adOff \in Nat
    BY DEF BleInv
  <1>3. N \in Nat
    BY <1>1, FieldPart
  <1>4. n <= FieldsEnd(r, N) /\ FieldsEnd(r, N) \in Nat
    BY <1>1, PayloadIs DEF FieldsEnd
  <1>5. j # N
    <2> SUFFICES ASSUME j = N PROVE FALSE
      OBVIOUS
    <2>1. adOff = FieldsEnd(r, N)
      OBVIOUS
    <2> HIDE DEF N, n, r
    <2> QED BY <1>1, <1>2, <1>4, <2>1
  <1>6. j + 1 \in 1 .. N /\ (j + 1) - 1 = j
    <2>1. j \in 0 .. N
      OBVIOUS
    <2> HIDE DEF N
    <2> QED BY <1>3, <1>5, <2>1
  <1>7. /\ FieldsEnd(r, j) \in Nat /\ Len(v) \in 0 .. 254
        /\ FieldsEnd(r, j + 1) = FieldsEnd(r, j) + Len(v) + 2
        /\ FieldsEnd(r, j) + 2 <= n => /\ p[FieldsEnd(r, j) + 1] = Len(v) + 1
                                       /\ p[FieldsEnd(r, j) + 2] = r.fields[j + 1].type
        /\ \A k \in j + 1 .. N : FieldsEnd(r, j + 1) <= FieldsEnd(r, k)
    <2> DEFINE i == j + 1
    <2>1. i \in 1 .. N /\ j = i - 1
      BY <1>6
    <2> HIDE DEF i
    <2>2. LET w == r.fields[i].value
          IN /\ FieldsEnd(r, j) \in Nat /\ Len(w) \in 0 .. 254
             /\ FieldsEnd(r, i) = FieldsEnd(r, j) + Len(w) + 2
             /\ FieldsEnd(r, j) + 2 <= n => /\ p[FieldsEnd(r, j) + 1] = Len(w) + 1
                                             /\ p[FieldsEnd(r, j) + 2] = r.fields[i].type
             /\ \A k \in i .. N : FieldsEnd(r, i) <= FieldsEnd(r, k)
      <3>1. FieldLies(r, j, i)
        BY <1>1, <2>1, FieldAt
      <3> QED BY <3>1 DEF FieldLies
    <2> QED BY <2>2 DEF i
  <1> HIDE DEF N, n, p, r
  <1>8. adOff + 2 <= n /\ adOff \in 0 .. n - 1 /\ adOff + 1 \in 0 .. n - 1
    BY <1>1, <1>2
  <1>9. FieldLen = p[adOff + 1]
    BY <1>1, <1>8 DEF FieldLen
  <1>10. Data(bleOffset + adOff + 1) = p[adOff + 2]
    <2>1. bleOffset + adOff + 1 = bleOffset + (adOff + 1) /\ (adOff + 1) + 1 = adOff + 2
      BY <1>1, <1>2
    <2> QED BY <1>1, <1>8, <2>1
  <1>11. adOff = FieldsEnd(r, j)
    BY DEF r
  <1>12. v # <<>> <=> Len(v) # 0
    <2>1. v \in ByteStrings
      BY <1>1, <1>6, FieldPart DEF N
    <2> HIDE DEF v
    <2>2. v \in Seq(Byte)
      BY <2>1 DEF ByteStrings
    <2> QED BY <2>2, EmptySeq
  <1> QED BY <1>2, <1>6, <1>7, <1>8, <1>9, <1>10, <1>11, <1>12 DEF N, r

\* The ends of the fields are numbers.
LEMMA FieldEndIs ==
    ASSUME NEW r \in AdReport, NEW k \in 1 .. Len(r.fields)
    PROVE  FieldsEnd(r, k) \in Nat
  <1>1. Len(r.fields) \in Nat /\ FieldParts(r) \in PartLists /\ Len(FieldParts(r)) = Len(r.fields)
        /\ Fields(r) = Joined(FieldParts(r))
    BY FieldPart DEF Fields, FieldParts
  <1>2. k \in 0 .. Len(FieldParts(r))
    BY <1>1
  <1>3. Fields(r)[k] \in ByteStrings
    BY <1>1, <1>2, JoinedIs
  <1> QED BY <1>3 DEF ByteStrings, FieldsEnd

\* What a step of the search for the Tx power leaves as it is.
LEMMA SearchKeeps ==
    ASSUME NEW l \in EventLayout, HearInv(l), blePc \in {"ad", "field", "power"},
           UNCHANGED <<event, leftover, report, bleOffset, adLen, mac, bleHeard>>
    PROVE  /\ report \in Nat /\ report <= Len(event.sent) /\ report < Len(event.sent)
           /\ report < Len(l.reports) /\ bleHeard = [k \in 1 .. report |-> event.sent[k]]
           /\ l.kind = <<4, 62, 2>> /\ 3 + Declared(l.reports, l.short) <= Received
           /\ bleOffset = 10 + EndOfReport(l, report)
           /\ adLen = Len(Payload(Current(l))) /\ mac = OnWire(Current(l))
           /\ Current(l)' = Current(l) /\ Received' = Received /\ event' = event
  BY DEF HearInv, Current, Received

\* Another field, or the end of the payload.
LEMMA HearNextField ==
    ASSUME BleInv, NEW l \in EventLayout, event = Written(l), HearInv(l), NextField
    PROVE  HearInv(l)'
  <1> DEFINE r == Current(l)
             n == Len(Payload(r))
  <1>1. /\ blePc = "ad" /\ blePc' = IF adOff + 1 < adLen THEN "field" ELSE "rssi"
        /\ UNCHANGED <<event, leftover, report, bleOffset, adLen, mac, bleHeard>>
        /\ UNCHANGED <<adOff, tx>>
    BY DEF NextField, BleGoto, reportVars
  <1>2. PICK j \in 0 .. Len(r.fields) : adOff = FieldsEnd(r, j) /\ \A k \in Powers(r) : j < k
    BY <1>1 DEF HearInv
  <1>3. tx = -59 /\ adLen = n
    BY <1>1 DEF HearInv
  <1>4. CASE adOff + 1 < adLen
    <2>1. blePc' = "field"
      BY <1>1, <1>4
    <2> QED BY <1>1, <1>2, <1>3, <2>1, SearchKeeps DEF HearInv
  <1>5. CASE ~(adOff + 1 < adLen)
    <2>1. blePc' = "rssi"
      BY <1>1, <1>5
    <2>2. r \in AdReport /\ n \in 0 .. 255
      BY <1>1, PayloadRead
    <2>3. Powers(r) = {}
      <3> SUFFICES ASSUME NEW k \in Powers(r) PROVE FALSE
        OBVIOUS
      <3>1. k \in 1 .. Len(r.fields) /\ FieldsEnd(r, k) <= n /\ Len(r.fields) \in Nat
        BY <2>2, PowersAre DEF FieldsEnd
      <3>2. j < k
        BY <1>2
      <3> DEFINE i == j + 1
      <3>3. i \in 1 .. Len(r.fields) /\ j = i - 1 /\ k \in i .. Len(r.fields)
        <4> HIDE DEF r
        <4> QED BY <3>1, <3>2
      <3> HIDE DEF i
      <3> DEFINE len == Len(r.fields[i].value)
      <3>4. /\ adOff \in Nat /\ len \in 0 .. 254 /\ FieldsEnd(r, i) = adOff + len + 2
            /\ FieldsEnd(r, i) <= FieldsEnd(r, k)
        <4>1. FieldLies(r, j, i)
          BY <2>2, <3>3, FieldAt
        <4> QED BY <1>2, <3>3, <4>1 DEF FieldLies
      <3>5. FieldsEnd(r, k) \in Nat
        BY <2>2, <3>1, FieldEndIs
      <3> HIDE DEF len, n, r
      <3>6. adOff + 2 <= n
        BY SMTT(30), <2>2, <3>1, <3>4, <3>5
      <3> QED BY <1>3, <1>5, <2>2, <3>4, <3>6
    <2>4. tx' = TxPower(r)
      BY <1>1, <1>3, <2>2, <2>3, PowersAre
    <2> QED BY <1>1, <2>1, <2>4, SearchKeeps DEF HearInv
  <1> QED BY <1>4, <1>5

\* A field that is cut ends the search: neither it nor one behind it counts.
LEMMA HearBadField ==
    ASSUME BleInv, NEW l \in EventLayout, event = Written(l), HearInv(l), BadField
    PROVE  HearInv(l)'
  <1> DEFINE r == Current(l)
             n == Len(Payload(r))
  <1>1. /\ blePc = "field" /\ blePc' = "rssi" /\ ~FieldFits
        /\ UNCHANGED <<event, leftover, report, bleOffset, adLen, mac, bleHeard>>
        /\ UNCHANGED <<adOff, tx>>
    BY DEF BadField, BleGoto, reportVars
  <1>2. PICK j \in 0 .. Len(r.fields) : adOff = FieldsEnd(r, j) /\ \A k \in Powers(r) : j < k
    BY <1>1 DEF HearInv
  <1>3. tx = -59 /\ adLen = n
    BY <1>1 DEF HearInv
  <1>4. r \in AdReport /\ n \in 0 .. 255
    BY <1>1, PayloadRead
  <1> DEFINE len == Len(r.fields[j + 1].value)
  <1>5. /\ len \in 0 .. 254 /\ FieldLen = len + 1 /\ adOff \in Nat
        /\ FieldsEnd(r, j + 1) = adOff + len + 2
        /\ \A k \in j + 1 .. Len(r.fields) : FieldsEnd(r, j + 1) <= FieldsEnd(r, k)
    BY <1>1, <1>2, FieldHere
  <1>6. ~(adOff + FieldLen < adLen)
    <2> HIDE DEF r, len
    <2> QED BY <1>1, <1>5 DEF FieldFits
  <1>7. Powers(r) = {}
    <2> SUFFICES ASSUME NEW k \in Powers(r) PROVE FALSE
      OBVIOUS
    <2>1. k \in 1 .. Len(r.fields) /\ FieldsEnd(r, k) <= n /\ Len(r.fields) \in Nat
      BY <1>4, PowersAre DEF FieldsEnd
    <2>2. j < k
      BY <1>2
    <2>3. FieldsEnd(r, k) \in Nat
      BY <1>4, <2>1, FieldEndIs
    <2> HIDE DEF r, n, len
    <2>4. k \in j + 1 .. Len(r.fields)
      BY <2>1, <2>2
    <2>5. adOff + len + 2 <= FieldsEnd(r, k)
      BY <1>5, <2>4
    <2> QED BY <1>3, <1>4, <1>5, <1>6, <2>1, <2>3, <2>5
  <1>8. tx' = TxPower(r)
    BY <1>1, <1>3, <1>4, <1>7, PowersAre
  <1> QED BY <1>1, <1>8, SearchKeeps DEF HearInv

\* A field that is whole: the search ends with it if it is a Tx power, and
\* otherwise goes on behind it.
LEMMA HearField ==
    ASSUME BleInv, NEW l \in EventLayout, event = Written(l), HearInv(l), TxPowerField \/ OtherField
    PROVE  HearInv(l)'
  <1> DEFINE r == Current(l)
             n == Len(Payload(r))
  <1>1. /\ blePc = "field" /\ FieldFits
        /\ UNCHANGED <<event, leftover, report, bleOffset, adLen, mac, bleHeard>>
    BY DEF TxPowerField, OtherField, reportVars
  <1>2. PICK j \in 0 .. Len(r.fields) : adOff = FieldsEnd(r, j) /\ \A k \in Powers(r) : j < k
    BY <1>1 DEF HearInv
  <1>3. tx = -59 /\ adLen = n
    BY <1>1 DEF HearInv
  <1>4. r \in AdReport /\ n \in 0 .. 255
    BY <1>1, PayloadRead
  <1> DEFINE i == j + 1
             v == r.fields[i].value
  <1>5. /\ i \in 1 .. Len(r.fields)
        /\ Len(v) \in 0 .. 254 /\ FieldLen = Len(v) + 1 /\ adOff \in Nat
        /\ Data(bleOffset + adOff + 1) = r.fields[i].type
        /\ FieldsEnd(r, i) = adOff + Len(v) + 2
        /\ v # <<>> <=> Len(v) # 0
    BY ZenonT(30), <1>1, <1>2, FieldHere
  <1>6. FieldsEnd(r, i) <= n
    <2> DEFINE len == Len(v)
    <2>1. adOff + FieldLen < adLen
      BY <1>1 DEF FieldFits
    <2> HIDE DEF len, r, n
    <2>2. len \in 0 .. 254 /\ FieldLen = len + 1 /\ FieldsEnd(r, i) = adOff + len + 2
      BY <1>5 DEF len
    <2>3. adOff \in Nat /\ n \in 0 .. 255 /\ adLen = n
      BY <1>3, <1>4, <1>5
    <2> HIDE DEF i
    <2> QED BY <2>1, <2>2, <2>3
  <1>7. IsTxPower <=> i \in Powers(r)
    <2>1. i \in Powers(r) <=> /\ r.fields[i].type = 10 /\ r.fields[i].value # <<>>
                              /\ FieldsEnd(r, i) <= n
      BY <1>4, <1>5, PowersAre DEF FieldsEnd
    <2>2. FieldLen >= 2 <=> v # <<>>
      <3> DEFINE len == Len(v)
      <3>1. len \in 0 .. 254 /\ FieldLen = len + 1 /\ (v # <<>> <=> len # 0)
        BY <1>5
      <3> HIDE DEF len, v
      <3> QED BY <3>1
    <2> QED BY <1>5, <1>6, <2>1, <2>2 DEF IsTxPower, TxPowerLevel
  <1>8. \A k \in Powers(r) : i <= k /\ (k # i => i < k)
    <2> TAKE k \in Powers(r)
    <2>1. k \in Nat /\ j < k
      <3>1. k \in 1 .. Len(r.fields)
        BY <1>4, PowersAre
      <3> HIDE DEF r
      <3> QED BY <1>2, <3>1
    <2>2. j \in Nat
      OBVIOUS
    <2> QED BY <2>1, <2>2
  <1>9. CASE TxPowerField
    <2>1. blePc' = "power" /\ IsTxPower /\ adOff' = adOff
      BY <1>9 DEF TxPowerField, BleGoto, reportVars
    <2>2. i \in Powers(r) /\ adOff' = FieldsEnd(r, i - 1)
      <3>1. i - 1 = j
        OBVIOUS
      <3> HIDE DEF i
      <3> QED BY <1>2, <1>7, <2>1, <3>1
    <2>3. \E m \in Powers(r) : adOff' = FieldsEnd(r, m - 1) /\ \A k \in Powers(r) : m <= k
      BY <1>8, <2>2
    <2> HIDE DEF i, v
    <2> QED BY <1>1, <2>1, <2>3, SearchKeeps DEF HearInv
  <1>10. CASE OtherField
    <2>1. blePc' = "ad" /\ ~IsTxPower /\ adOff' = adOff + FieldLen + 1 /\ tx' = tx
      BY <1>10 DEF OtherField, BleGoto
    <2>2. adOff' = FieldsEnd(r, i)
      <3> DEFINE len == Len(v)
      <3>1. len \in 0 .. 254 /\ FieldLen = len + 1 /\ adOff \in Nat
            /\ FieldsEnd(r, i) = adOff + len + 2
        BY <1>5
      <3> HIDE DEF len, r, i
      <3> QED BY <2>1, <3>1
    <2>3. \A k \in Powers(r) : i < k
      BY <1>7, <1>8, <2>1
    <2>4. i \in 0 .. Len(r.fields)
      <3>1. Len(r.fields) \in Nat
        BY <1>4, FieldPart
      <3> DEFINE fields == Len(r.fields)
      <3>2. i \in 1 .. fields /\ fields \in Nat
        BY <1>5, <3>1
      <3> HIDE DEF fields, i
      <3>3. i \in 0 .. fields
        BY <3>2
      <3> QED BY <3>3 DEF fields
    <2>5. \E m \in 0 .. Len(r.fields) : adOff' = FieldsEnd(r, m) /\ \A k \in Powers(r) : m < k
      BY <2>2, <2>3, <2>4
    <2> HIDE DEF i, v
    <2> QED BY <1>1, <1>3, <2>1, <2>5, SearchKeeps DEF HearInv
  <1> QED BY <1>9, <1>10

\* The value of a Tx power.
LEMMA HearPower ==
    ASSUME BleInv, NEW l \in EventLayout, event = Written(l), HearInv(l), ReadPower
    PROVE  HearInv(l)'
  <1> DEFINE r == Current(l)
             p == Payload(r)
             n == Len(p)
  <1>1. /\ blePc = "power" /\ blePc' = "rssi" /\ tx' = Int8(Data(bleOffset + adOff + 2))
        /\ UNCHANGED <<event, leftover, report, bleOffset, adLen, mac, bleHeard>>
    BY DEF ReadPower, BleGoto
  <1>2. PICK j \in Powers(r) : adOff = FieldsEnd(r, j - 1) /\ \A k \in Powers(r) : j <= k
    BY <1>1 DEF HearInv
  <1>3. /\ r \in AdReport /\ n \in 0 .. 255 /\ bleOffset \in Nat
        /\ \A k \in 0 .. n - 1 : Data(bleOffset + k) = p[k + 1]
    BY <1>1, PayloadRead
  <1> DEFINE v == r.fields[j].value
  <1>4. j \in 1 .. Len(r.fields) /\ v # <<>> /\ FieldsEnd(r, j) <= n
    BY <1>3, PowersAre DEF FieldsEnd
  <1>5. adOff \in Nat /\ adOff + 3 <= n /\ p[adOff + 3] = v[1] /\ v[1] \in Byte
    <2> DEFINE i == j - 1
    <2>1. FieldLies(r, i, j)
      BY <1>3, <1>4, FieldAt
    <2>2. adOff = FieldsEnd(r, i)
      BY <1>2
    <2> HIDE DEF i
    <2> QED BY <1>4, <2>1, <2>2 DEF FieldLies
  <1>6. TxPower(r) = Signed(v[1])
    BY <1>2, <1>3, PowersAre
  <1> HIDE DEF r, p, n, v
  <1>7. Data(bleOffset + adOff + 2) = v[1]
    <2>1. adOff + 2 \in 0 .. n - 1 /\ (adOff + 2) + 1 = adOff + 3
          /\ bleOffset + adOff + 2 = bleOffset + (adOff + 2)
      BY <1>3, <1>5
    <2> QED BY <1>3, <1>5, <2>1
  <1>8. tx' = TxPower(r)
    BY <1>1, <1>5, <1>6, <1>7, CastBack
  <1> QED BY <1>1, <1>8, SearchKeeps DEF HearInv, r

\* The RSSI, and with it a sighting.
LEMMA HearRssi ==
    ASSUME BleInv, NEW l \in EventLayout, event = Written(l), HearInv(l), ReadRssi
    PROVE  HearInv(l)'
  <1> DEFINE r == Current(l)
             heard == Len(event.sent)
             new == [mac |-> mac, rssi |-> Int8(Data(bleOffset + adLen)), tx_power |-> tx]
  <1>1. /\ blePc = "rssi" /\ blePc' = "report" /\ bleHeard' = Append(bleHeard, new)
        /\ bleOffset' = bleOffset + adLen + 1 /\ report' = report + 1
        /\ UNCHANGED <<event, leftover, reportVars>>
    BY DEF ReadRssi, BleGoto
  <1>2. /\ report \in Nat /\ report < Len(l.reports) /\ report < heard
        /\ bleHeard = [k \in 1 .. report |-> event.sent[k]]
        /\ l.kind = <<4, 62, 2>> /\ 3 + Declared(l.reports, l.short) <= Received
        /\ bleOffset = 10 + EndOfReport(l, report)
        /\ adLen = Len(Payload(r)) /\ mac = OnWire(r) /\ tx = TxPower(r)
    BY <1>1 DEF HearInv
  <1>3. Int8(Data(bleOffset + adLen)) = r.rssi
    BY <1>1, PayloadRead
  <1>4. new = SightingOf(r)
    BY <1>2, <1>3 DEF SightingOf
  <1>5. heard \in Nat /\ \A k \in 1 .. heard : event.sent[k] = SightingOf(l.reports[k])
    <2>1. Len(l.reports) \in Nat /\ heard \in 0 .. Len(l.reports)
      BY EventSent
    <2>2. heard \in Nat
      <3> HIDE DEF heard
      <3> QED BY <2>1
    <2> QED BY <2>2, EventSent
  <1>6. EndOfReport(l, report) \in Nat /\ adLen \in Nat
        /\ EndOfReport(l, report + 1) = EndOfReport(l, report) + 10 + adLen
    <2> DEFINE e == EndOfReport(l, report)
               n == Len(Payload(r))
    <2>1. e \in Nat /\ n \in 0 .. 255 /\ EndOfReport(l, report + 1) = e + 10 + n
      BY <1>2, CurrentAt
    <2> HIDE DEF e, n
    <2>2. n \in Nat
      BY <2>1
    <2> QED BY <1>2, <2>1, <2>2 DEF e, n
  <1>7. event.sent[report + 1] = new
    <2>1. report + 1 \in 1 .. heard
      BY <1>2, <1>5
    <2> QED BY <1>4, <1>5, <2>1 DEF Current
  <1> HIDE DEF new, heard
  <1>8. bleHeard' = [k \in 1 .. report' |-> event'.sent[k]]
    BY <1>1, <1>2, <1>7
  <1>9. bleOffset' = 1 + EndOfReport(l, report')
    <2> DEFINE e == EndOfReport(l, report)
    <2>1. e \in Nat /\ adLen \in Nat /\ EndOfReport(l, report') = e + 10 + adLen
          /\ bleOffset' = (10 + e) + adLen + 1
      BY <1>1, <1>2, <1>6
    <2> HIDE DEF e
    <2> QED BY <2>1
  <1>10. report' \in Nat /\ report' <= Len(event'.sent)
    BY SMTT(30), <1>1, <1>2, <1>5 DEF heard
  <1>11. Received' = Received
    BY <1>1 DEF Received
  <1> QED BY <1>1, <1>2, <1>8, <1>9, <1>10, <1>11 DEF HearInv

\* Every step keeps what is known of the event.
LEMMA HearStep ==
    ASSUME BleInv, NEW l \in EventLayout, event = Written(l), HearInv(l), [BleNext]_bleVars
    PROVE  HearInv(l)' /\ event' = event
  <1>1. event' = event
    BY DEF BleNext, EventHeader, NextReport, ReadHeader, TestPayload, NextField, BadField,
           TxPowerField, OtherField, ReadPower, ReadRssi, EventDone, bleVars
  <1>2. CASE UNCHANGED bleVars
    BY <1>2 DEF bleVars, reportVars, HearInv, Current, Received
  <1>3. CASE EventDone
    BY <1>2, <1>3 DEF EventDone
  <1>4. HearInv(l)'
    BY <1>2, <1>3, HearEvent, HearNext, HearHeader, HearPayload, HearNextField, HearBadField,
       HearField, HearPower, HearRssi DEF BleNext
  <1> QED BY <1>1, <1>4

\* process_hci_event passes on every report that lies wholly within the event,
\* with its own RSSI and Tx power and the bytes of its address in the order of
\* the wire, in the order of the event, and nothing else, for every event that a controller lays out, however many bytes
\* of it are lost, left out of its length or behind the last whole report.
THEOREM EventsAreHeard ==
    ASSUME \A e \in Events : \E l \in EventLayout : e = Written(l)
    PROVE  BleSpec => []HeardAsSent
  <1> DEFINE Inv == BleInv /\ \E l \in EventLayout : event = Written(l) /\ HearInv(l)
  <1>1. BleInit => Inv
    <2> SUFFICES ASSUME BleInit PROVE Inv
      OBVIOUS
    <2>1. BleInv /\ event \in Events
      BY DEF BleInit, BleInv
    <2>2. PICK l \in EventLayout : event = Written(l)
      BY <2>1
    <2>3. Len(event.sent) \in Nat
      <3> DEFINE heard == Len(event.sent)
                 N == Len(l.reports)
      <3>1. heard \in 0 .. N /\ N \in Nat
        BY <2>2, EventSent
      <3> HIDE DEF heard, N
      <3>2. heard \in Nat
        BY <3>1
      <3> QED BY <3>2 DEF heard
    <2>4. bleHeard = [k \in 1 .. report |-> event.sent[k]]
      BY DEF BleInit
    <2>5. HearInv(l)
      BY <2>3, <2>4 DEF BleInit, HearInv
    <2> QED BY <2>1, <2>2, <2>5
  <1>2. Inv /\ [BleNext]_bleVars => Inv'
    <2> SUFFICES ASSUME Inv, [BleNext]_bleVars PROVE Inv'
      OBVIOUS
    <2>1. BleInv'
      BY BleStep
    <2>2. PICK l \in EventLayout : event = Written(l) /\ HearInv(l)
      OBVIOUS
    <2>3. event' = Written(l) /\ HearInv(l)'
      BY <2>2, HearStep
    <2> QED BY <2>1, <2>2, <2>3
  <1>3. Inv => HeardAsSent
    <2> SUFFICES ASSUME Inv PROVE HeardAsSent
      OBVIOUS
    <2>1. PICK l \in EventLayout : event = Written(l) /\ HearInv(l)
      OBVIOUS
    <2> DEFINE sent == event.sent
               heard == Len(sent)
               S == {SightingOf(l.reports[k]) : k \in 1 .. Len(l.reports)}
    <2>2. sent \in Seq(S) /\ heard \in Nat
      <3>1. sent \in Seq(S)
        BY <2>1, EventSent
      <3> HIDE DEF sent, S
      <3> QED BY <3>1
    <2>3. report \in Nat /\ report <= heard /\ bleHeard = [k \in 1 .. report |-> sent[k]]
          /\ (blePc = "done" => report = heard)
      BY <2>1 DEF HearInv
    <2> HIDE DEF sent, S
    <2>4. bleHeard = SubSeq(sent, 1, report)
      BY <2>2, <2>3
    <2>5. report \in 0 .. heard
      BY <2>2, <2>3
    <2>6. blePc = "done" => bleHeard = sent
      <3>1. sent = [k \in 1 .. heard |-> sent[k]]
        BY <2>2
      <3> QED BY <2>3, <3>1
    <2> QED BY <2>4, <2>5, <2>6 DEF HeardAsSent, sent
  <1> QED BY <1>1, <1>2, <1>3, PTL DEF BleSpec

-------------------------------------------------------------------------------
\* The fields begin behind the presence words, and the offset never passes the
\* end of the header.
WifiInv ==
    /\ frame \in Frames
    /\ wifiPc \in {"header", "chain", "fields", "frame", "done"}
    /\ chain \in Nat \ {0} /\ bit \in 0 .. Ext /\ wifiOffset \in Nat /\ signalAt \in Nat
    /\ wifiPc = "header" => chain = 1 /\ wifiOffset = HeaderSize
    /\ wifiPc \in {"chain", "fields", "frame"} => frame.rlen <= frame.len
    /\ wifiPc \in {"chain", "fields"} => wifiOffset \in HeaderSize + 4 * (chain - 1) .. frame.rlen
    /\ wifiPc = "frame" => signalAt \in HeaderSize + 4 * (chain - 1) .. frame.rlen - 1

\* The table of radiotap_fields gives each known field an alignment and a size.
LEMMA FieldTable ==
    ASSUME NEW n \in DOMAIN radiotap_fields
    PROVE  radiotap_fields[n].align \in Nat /\ radiotap_fields[n].size \in Nat
  BY DEF radiotap_fields

\* Aligning never moves back.
LEMMA AlignedIsAhead ==
    ASSUME wifiOffset \in Nat, Known
    PROVE  /\ Aligned \in Nat /\ Aligned >= wifiOffset
           /\ radiotap_fields[bit].size \in Nat
  <1> DEFINE align == radiotap_fields[bit].align
  <1>1. align \in Nat \ {0} /\ radiotap_fields[bit].size \in Nat
    BY FieldTable DEF Known
  <1> HIDE DEF align
  <1>2. wifiOffset % align \in 0 .. align - 1
    BY <1>1
  <1>3. (align - (wifiOffset % align)) % align \in Nat
    BY <1>1, <1>2
  <1> QED
    BY <1>1, <1>3 DEF Aligned, align

\* Every step keeps the offsets within the header.
LEMMA WifiStep == ASSUME WifiInv, [WifiNext]_wifiVars PROVE WifiInv'
  <1>1. frame.len \in Nat /\ frame.rlen \in Nat
    BY WifiParserAssumption DEF WifiInv
  <1> USE <1>1 DEF WifiInv, HeaderSize, Ext
  <1>2. CASE RadiotapHeader
    BY <1>2 DEF RadiotapHeader
  <1>3. CASE NextWord
    BY <1>3 DEF NextWord
  <1>4. CASE LastWord
    BY <1>4 DEF LastWord
  <1>5. CASE AbsentField
    BY <1>5 DEF AbsentField
  <1>6. CASE NoSignal
    BY <1>6 DEF NoSignal
  <1>7. CASE SkipField
    BY <1>7, AlignedIsAhead DEF SkipField, Fits
  <1>8. CASE ReadSignal
    <2>1. Known /\ radiotap_fields[bit].size = 1
      BY <1>8 DEF ReadSignal, Known, radiotap_fields, DbmAntSignal
    <2> QED
      BY <1>8, <2>1, AlignedIsAhead DEF ReadSignal, Fits
  <1>9. CASE ProcessFrame
    BY <1>9 DEF ProcessFrame
  <1>10. CASE UNCHANGED wifiVars
    BY <1>10 DEF wifiVars
  <1> QED
    BY <1>2, <1>3, <1>4, <1>5, <1>6, <1>7, <1>8, <1>9, <1>10 DEF WifiNext, FrameDone

\* parse_radiotap_rssi reads no presence word, field or signal strength behind
\* the length the header declares, nor behind the frame, and takes no presence
\* word for a field, whatever a frame says of itself.
THEOREM SignalIsInside == WifiSpec => []SignalInsideHeader
  <1>1. WifiInit => WifiInv
    BY DEF WifiInit, WifiInv, HeaderSize, Ext
  <1>2. WifiInv /\ [WifiNext]_wifiVars => WifiInv'
    BY WifiStep
  <1>3. WifiInv => SignalInsideHeader
    BY DEF WifiInv, SignalInsideHeader
  <1> QED
    BY <1>1, <1>2, <1>3, PTL DEF WifiSpec

-------------------------------------------------------------------------------
(* Which probe requests are heard *)

\* A frame as a driver lays it out, or what a capture cut short has of it.
LaidOut(f) ==
    \E words \in Seq(SUBSET (0 .. Ext)), rlen \in Nat, body \in Nat, type \in FrameType :
        \E lost \in 0 .. rlen + body : f = Truncated(FrameOf(words, rlen, body, type), lost)

\* The parser's table and the layout describe the same fields.
LEMMA SameLayout ==
    ASSUME NEW n \in 0 .. 5
    PROVE  /\ n + 1 \in 1 .. 6 /\ Layout[n + 1].bit = n /\ n \in DOMAIN radiotap_fields
           /\ radiotap_fields[n].align = Layout[n + 1].align
           /\ radiotap_fields[n].size = Layout[n + 1].size
           /\ Layout[n + 1].align \in {1, 2, 8} /\ Layout[n + 1].size \in Nat
  <1>1. \A m \in 0 .. 22 : radiotap_fields[m] =
           CASE m = 0 -> [align |-> 8, size |-> 8]
             [] m = 3 -> [align |-> 2, size |-> 4]
             [] m \in {4, 7, 8, 9, 14, 15} -> [align |-> 2, size |-> 2]
             [] m = 18 -> [align |-> 0, size |-> 0]
             [] m = 19 -> [align |-> 1, size |-> 3]
             [] m = 20 -> [align |-> 4, size |-> 8]
             [] m = 21 -> [align |-> 2, size |-> 12]
             [] m = 22 -> [align |-> 8, size |-> 12]
             [] OTHER -> [align |-> 1, size |-> 1]
    BY DEF radiotap_fields
  <1>2. CASE n = 0 BY <1>1, <1>2 DEF Layout, radiotap_fields
  <1>3. CASE n = 1 BY <1>1, <1>3 DEF Layout, radiotap_fields
  <1>4. CASE n = 2 BY <1>1, <1>4 DEF Layout, radiotap_fields
  <1>5. CASE n = 3 BY <1>1, <1>5 DEF Layout, radiotap_fields
  <1>6. CASE n = 4 BY <1>1, <1>6 DEF Layout, radiotap_fields
  <1>7. CASE n = 5 BY <1>1, <1>7 DEF Layout, radiotap_fields
  <1> QED BY <1>2, <1>3, <1>4, <1>5, <1>6, <1>7

\* The first aligned place is what the modulo arithmetic of the parser computes.
LEMMA PlaceIs ==
    ASSUME NEW n \in 0 .. 5, NEW from \in Nat
    PROVE  LET align == radiotap_fields[n].align
           IN /\ Place(n + 1, from) = from + ((align - (from % align)) % align)
              /\ Place(n + 1, from) \in Nat /\ Place(n + 1, from) >= from
  <1> DEFINE align == radiotap_fields[n].align
             aligned == from + ((align - (from % align)) % align)
             S == {o \in from .. from + 7 : o % align = 0}
  <1>1. align \in {1, 2, 8} /\ Place(n + 1, from) = Min(S)
    BY SameLayout DEF Place
  <1> HIDE DEF align
  <1>2. aligned \in S /\ \A o \in S : aligned <= o
    <2>1. CASE align = 1 BY <2>1
    <2>2. CASE align = 2 BY <2>2
    <2>3. CASE align = 8 BY <2>3
    <2> QED BY <1>1, <2>1, <2>2, <2>3
  <1>3. S \subseteq Nat
    OBVIOUS
  <1>4. Min(S) = aligned
    <2> HIDE DEF S, aligned
    <2>1. Min(S) \in S /\ \A o \in S : Min(S) <= o
      BY <1>2 DEF Min
    <2>2. Min(S) \in Nat /\ aligned \in Nat
      BY <1>2, <1>3, <2>1
    <2> QED BY <1>2, <2>1, <2>2
  <1>5. aligned \in Nat /\ aligned >= from
    BY <1>2
  <1> QED BY <1>1, <1>4, <1>5 DEF align

\* FieldEnds is the function its recursion describes.
LEMMA FieldEndsIs ==
    ASSUME NEW words \in Seq(SUBSET (0 .. Ext))
    PROVE  /\ FieldEnds(words) \in [0 .. 6 -> Nat]
           /\ FieldEnds(words)[0] = 4 + 4 * Len(words)
           /\ \A k \in 1 .. 6 : FieldEnds(words)[k] =
                                 EndOfField(k, FieldEnds(words)[k - 1], words)
  <1> DEFINE N == Len(Layout)
             start == 4 + 4 * Len(words)
             F == [k \in 1 .. N |-> [o \in Nat |-> EndOfField(k, o, words)]]
             Solves(g) == g = [k \in 0 .. N |-> IF k = 0 THEN start
                                                ELSE EndOfField(k, g[k - 1], words)]
             f == FieldEnds(words)
  <1>1. f = CHOOSE g : Solves(g)
    BY DEF FieldEnds
  <1>2. start \in Nat /\ N = 6
    BY DEF Layout
  <1> HIDE DEF start, f, N
  <1>3. F \in [1 .. N -> [Nat -> Nat]]
    <2>1. ASSUME NEW k \in 1 .. N, NEW o \in Nat PROVE EndOfField(k, o, words) \in Nat
      <3>1. k - 1 \in 0 .. 5 /\ (k - 1) + 1 = k
        BY <1>2
      <3>2. Place(k, o) \in Nat /\ Layout[k].size \in Nat
        BY <3>1, PlaceIs, SameLayout
      <3> QED BY <3>2 DEF EndOfField
    <2> QED BY <2>1
  <1>4. \E g \in [0 .. N -> Nat] : Solves(g)
    <2> DEFINE S == Nat
    <2>1. F \in Rounds(S, N) /\ start \in S /\ N \in Nat
      BY <1>2, <1>3 DEF Rounds
    <2>2. PICK g : SolvesRounds(g, S, N, start, F)
      <3> HIDE DEF F, S, Solves
      <3> QED BY <2>1, RecursionSolved
    <2>3. \A k \in 1 .. N : k - 1 \in 0 .. N /\ g[k - 1] \in Nat
      BY <1>2, <2>2 DEF SolvesRounds
    <2>4. \A k \in 1 .. N : F[k][g[k - 1]] = EndOfField(k, g[k - 1], words)
      BY <2>3
    <2> HIDE DEF F
    <2>5. \A k \in 0 .. N : k # 0 => k \in 1 .. N
      BY <1>2
    <2>6. Solves(g)
      BY <2>2, <2>4, <2>5 DEF SolvesRounds
    <2> HIDE DEF Solves
    <2> QED BY <2>2, <2>6 DEF SolvesRounds
  <1>5. Solves(f)
    <2> HIDE DEF Solves
    <2> QED BY <1>1, <1>4
  <1>6. f \in [0 .. N -> Nat]
    <2>1. PICK g \in [0 .. N -> Nat] : Solves(g)
      BY <1>4
    <2>2. f[0] = g[0] /\ \A k \in 1 .. N : f[k - 1] = g[k - 1] => f[k] = g[k]
      BY <1>2, <1>5, <2>1
    <2>3. \A k \in 0 .. N : f[k] = g[k]
      <3> HIDE DEF Solves
      <3> QED BY <1>2, <2>2, RecursionUnique
    <2>4. f = [k \in 0 .. N |-> f[k]]
      BY <1>5
    <2> HIDE DEF Solves
    <2> QED BY <2>3, <2>4
  <1>7. f[0] = start /\ \A k \in 1 .. N : f[k] = EndOfField(k, f[k - 1], words)
    BY <1>2, <1>5
  <1> QED BY <1>2, <1>6, <1>7 DEF f, start

\* No field ends before the one in front of it.
LEMMA FieldEndsRise ==
    ASSUME NEW words \in Seq(SUBSET (0 .. Ext)), NEW n \in 0 .. 5
    PROVE  /\ FieldEnds(words)[n] \in Nat /\ FieldEnds(words)[n + 1] \in Nat
           /\ FieldEnds(words)[n] <= FieldEnds(words)[n + 1]
           /\ FieldEnds(words)[n + 1] =
                  IF n \in words[1]
                  THEN Place(n + 1, FieldEnds(words)[n]) + radiotap_fields[n].size
                  ELSE FieldEnds(words)[n]
  <1> DEFINE f == FieldEnds(words)
  <1>1. n \in 0 .. 6 /\ n + 1 \in 0 .. 6 /\ n + 1 \in 1 .. 6 /\ (n + 1) - 1 = n
    OBVIOUS
  <1>2. f[n] \in Nat /\ f[n + 1] \in Nat /\ f[n + 1] = EndOfField(n + 1, f[n], words)
    BY <1>1, FieldEndsIs
  <1> HIDE DEF f
  <1>3. Layout[n + 1].bit = n /\ Layout[n + 1].size = radiotap_fields[n].size
        /\ Layout[n + 1].size \in Nat
    BY SameLayout
  <1>4. Place(n + 1, f[n]) \in Nat /\ Place(n + 1, f[n]) >= f[n]
    BY <1>2, PlaceIs
  <1> QED BY <1>2, <1>3, <1>4 DEF EndOfField, f

\* The signal strength lies behind the end of every field before it.
LEMMA SignalIsBehind ==
    ASSUME NEW words \in Seq(SUBSET (0 .. Ext)), NEW n \in 0 .. 5
    PROVE  /\ SignalPlace(words) \in Nat /\ SignalPlace(words) >= FieldEnds(words)[n]
           /\ SignalPlace(words) = Place(6, FieldEnds(words)[5])
  <1> DEFINE f == FieldEnds(words)
  <1>1. /\ f[0] \in Nat /\ f[1] \in Nat /\ f[2] \in Nat
        /\ f[3] \in Nat /\ f[4] \in Nat /\ f[5] \in Nat
        /\ f[0] <= f[1] /\ f[1] <= f[2] /\ f[2] <= f[3] /\ f[3] <= f[4] /\ f[4] <= f[5]
    <2>1. \A m \in 0 .. 5 : f[m] \in Nat /\ f[m + 1] \in Nat /\ f[m] <= f[m + 1]
      BY FieldEndsRise
    <2> HIDE DEF f
    <2>2. f[0] \in Nat /\ f[0 + 1] \in Nat /\ f[0] <= f[0 + 1] BY <2>1
    <2>3. f[1] \in Nat /\ f[1 + 1] \in Nat /\ f[1] <= f[1 + 1] BY <2>1
    <2>4. f[2] \in Nat /\ f[2 + 1] \in Nat /\ f[2] <= f[2 + 1] BY <2>1
    <2>5. f[3] \in Nat /\ f[3 + 1] \in Nat /\ f[3] <= f[3 + 1] BY <2>1
    <2>6. f[4] \in Nat /\ f[4 + 1] \in Nat /\ f[4] <= f[4 + 1] BY <2>1
    <2>7. f[5] \in Nat BY <2>1
    <2> QED BY <2>2, <2>3, <2>4, <2>5, <2>6, <2>7
  <1> HIDE DEF f
  <1>2. f[n] <= f[5]
    BY SMTT(30), <1>1
  <1>3. Place(6, f[5]) \in Nat /\ Place(6, f[5]) >= f[5]
    <2>1. f[5] \in Nat
      BY <1>1
    <2>2. \A m \in 0 .. 5 : m = 5 => Place(m + 1, f[5]) \in Nat /\ Place(m + 1, f[5]) >= f[5]
      BY <2>1, PlaceIs
    <2> QED BY <2>2
  <1>4. SignalPlace(words) = Place(6, f[5])
    BY DEF SignalPlace, f
  <1>5. f[n] \in Nat
    BY <1>1
  <1> QED BY <1>1, <1>2, <1>3, <1>4, <1>5 DEF f

\* A frame that has a sighting to report: a probe request whose header holds its
\* presence words and a signal strength.
Reportable(f) ==
    /\ 4 + 4 * Len(f.words) <= f.rlen /\ Ext \notin f.words[Len(f.words)]
    /\ DbmAntSignal \in f.words[1] /\ SignalPlace(f.words) < f.rlen
    /\ f.len - f.rlen >= 24 /\ f.type = [ftype |-> 0, stype |-> 4]

\* What a frame stands for, in terms of its own fields.
LEMMA SentIs ==
    ASSUME NEW f, LaidOut(f)
    PROVE  /\ f.words \in Seq(SUBSET (0 .. Ext))
           /\ f.sent = IF Reportable(f)
                       THEN <<[mac |-> f.rlen + 10, rssi |-> SignalPlace(f.words)]>> ELSE <<>>
  <1>0. PICK words \in Seq(SUBSET (0 .. Ext)), rlen \in Nat, body \in Nat, type \in FrameType :
            \E lost \in 0 .. rlen + body : f = Truncated(FrameOf(words, rlen, body, type), lost)
    BY Zenon DEF LaidOut
  <1>1. PICK lost \in 0 .. rlen + body : f = Truncated(FrameOf(words, rlen, body, type), lost)
    BY <1>0
  <1> DEFINE g == FrameOf(words, rlen, body, type)
             good == /\ 4 + 4 * Len(words) <= rlen /\ Ext \notin words[Len(words)]
                     /\ DbmAntSignal \in words[1] /\ SignalPlace(words) < rlen
                     /\ body >= 24 /\ type = [ftype |-> 0, stype |-> 4]
             sighting == <<[mac |-> rlen + 10, rssi |-> SignalPlace(words)]>>
  <1>2. /\ g.len = rlen + body /\ g.rlen = rlen /\ g.words = words /\ g.type = type
        /\ g.sent = IF good THEN sighting ELSE <<>>
        /\ DOMAIN g = {"len", "rlen", "words", "type", "sent"}
    BY DEF FrameOf, Last, Ext, DbmAntSignal
  <1> HIDE DEF good, sighting
  <1>3. /\ f.len = rlen + body - lost /\ f.rlen = rlen /\ f.words = words /\ f.type = type
        /\ f.sent = IF rlen + body - lost - rlen >= 24 THEN (IF good THEN sighting ELSE <<>>)
                    ELSE <<>>
    <2>1. f = [g EXCEPT !.len = g.len - lost,
                        !.sent = IF g.len - lost - g.rlen >= 24 THEN g.sent ELSE <<>>]
      BY <1>1 DEF Truncated
    <2> HIDE DEF g
    <2> QED BY <1>2, <2>1
  <1> HIDE DEF g
  <1>4. Reportable(f) <=> good /\ rlen + body - lost - rlen >= 24
    <2>1. rlen \in Int /\ body \in Int /\ lost \in Int /\ lost >= 0
      OBVIOUS
    <2>2. f.len - f.rlen = rlen + body - lost - rlen
      BY <1>3
    <2> QED BY <1>3, <2>1, <2>2 DEF Reportable, good
  <1> QED BY <1>3, <1>4 DEF sighting

\* Where a frame's parse stands in the layout of its header: the chain counts
\* presence words, the offset is the end of the fields passed, and a signal
\* strength was read at its place.
ProbeInv ==
    LET words == frame.words
        last == Len(words)
    IN /\ wifiHeard = IF wifiPc = "done" THEN frame.sent ELSE <<>>
       /\ wifiPc \in {"header", "chain"} => bit = 0
       /\ wifiPc = "chain" => chain \in 1 .. last /\ wifiOffset = 4 + 4 * chain
       /\ wifiPc \in {"fields", "frame"} => 4 + 4 * last <= frame.rlen /\ Ext \notin words[last]
       /\ wifiPc = "fields" => IF bit <= 5 THEN wifiOffset = FieldEnds(words)[bit]
                                ELSE DbmAntSignal \notin words[1]
       /\ wifiPc = "frame" => /\ DbmAntSignal \in words[1]
                              /\ signalAt = SignalPlace(words) /\ signalAt < frame.rlen

\* The initial state stands at the start of the layout.
LEMMA ProbeStart == ASSUME WifiInit PROVE ProbeInv
  BY DEF WifiInit, ProbeInv

\* What is known of the frame throughout a parse.
LEMMA FrameIs ==
    ASSUME WifiInv, \A f \in Frames : LaidOut(f)
    PROVE  /\ frame.len \in Nat /\ frame.rlen \in Nat /\ Len(frame.words) \in Nat \ {0}
           /\ frame.words \in Seq(SUBSET (0 .. Ext)) /\ AllWords(frame)
           /\ frame.sent = IF Reportable(frame)
                           THEN <<[mac |-> frame.rlen + 10, rssi |-> SignalPlace(frame.words)]>>
                           ELSE <<>>
  <1>1. frame \in Frames /\ LaidOut(frame)
    BY DEF WifiInv
  <1>2. frame.words \in Seq(SUBSET (0 .. Ext)) /\ AllWords(frame) /\ frame.len \in Nat
        /\ frame.rlen \in Nat
    BY <1>1, WifiParserAssumption
  <1>3. Len(frame.words) \in Nat \ {0}
    BY <1>2 DEF AllWords
  <1> QED BY <1>1, <1>2, <1>3, SentIs

\* A field that is present is aligned, and ends, where the layout says.
LEMMA FieldIs ==
    ASSUME frame.words \in Seq(SUBSET (0 .. Ext)), bit \in 0 .. 5, Known,
           wifiOffset = FieldEnds(frame.words)[bit], bit \in Present
    PROVE  /\ Aligned = Place(bit + 1, FieldEnds(frame.words)[bit])
           /\ FieldEnds(frame.words)[bit + 1] = Aligned + radiotap_fields[bit].size
  <1> DEFINE ends == FieldEnds(frame.words)
  <1>1. ends[bit] \in Nat
        /\ ends[bit + 1] = Place(bit + 1, ends[bit]) + radiotap_fields[bit].size
    BY FieldEndsRise DEF Present
  <1> HIDE DEF ends
  <1>2. Aligned = Place(bit + 1, ends[bit])
    BY <1>1, PlaceIs DEF Aligned, ends
  <1> QED BY <1>1, <1>2 DEF ends

\* Every step keeps the parse in step with the layout.
LEMMA ProbeStep ==
    ASSUME WifiInv, ProbeInv, \A f \in Frames : LaidOut(f), [WifiNext]_wifiVars
    PROVE  ProbeInv'
  <1> DEFINE words == frame.words
             last == Len(words)
             ends == FieldEnds(words)
             signal == SignalPlace(words)
             sighting == <<[mac |-> frame.rlen + 10, rssi |-> signal]>>
  <1>1. /\ frame.len \in Nat /\ frame.rlen \in Nat /\ last \in Nat \ {0}
        /\ words \in Seq(SUBSET (0 .. Ext)) /\ AllWords(frame)
        /\ frame.sent = IF Reportable(frame) THEN sighting ELSE <<>>
    BY FrameIs
  <1>2. /\ ends[0] = 4 + 4 * last /\ signal \in Nat
        /\ \A n \in 0 .. 5 : ends[n] \in Nat /\ signal >= ends[n]
        /\ \A n \in 0 .. 5 : n \notin words[1] => ends[n + 1] = ends[n]
    <2>1. ends[0] = 4 + 4 * last
      BY <1>1, FieldEndsIs
    <2>2. \A n \in 0 .. 5 : ends[n] \in Nat /\ (n \notin words[1] => ends[n + 1] = ends[n])
      BY <1>1, FieldEndsRise
    <2>3. \A n \in 0 .. 5 : signal \in Nat /\ signal >= ends[n]
      BY <1>1, SignalIsBehind
    <2>4. 0 \in 0 .. 5
      OBVIOUS
    <2> QED BY <2>1, <2>2, <2>3, <2>4
  <1>3. bit \in 0 .. Ext /\ chain \in Nat \ {0} /\ wifiOffset \in Nat
    BY DEF WifiInv
  <1>4. wifiHeard = IF wifiPc = "done" THEN frame.sent ELSE <<>>
    BY DEF ProbeInv
  <1>5. Reportable(frame) => /\ 4 + 4 * last <= frame.rlen /\ Ext \notin words[last]
                             /\ DbmAntSignal \in words[1] /\ signal < frame.rlen
                             /\ frame.len - frame.rlen >= 24
    BY DEF Reportable
  <1>6. AllWords(frame) <=> /\ last > 0 /\ \A k \in 1 .. last - 1 : Ext \in words[k]
                            /\ Ext \in words[last] => frame.rlen < 8 + 4 * last
    BY DEF AllWords, HeaderSize
  <1>7. ProbeInv <=>
           /\ wifiHeard = IF wifiPc = "done" THEN frame.sent ELSE <<>>
           /\ wifiPc \in {"header", "chain"} => bit = 0
           /\ wifiPc = "chain" => chain \in 1 .. last /\ wifiOffset = 4 + 4 * chain
           /\ wifiPc \in {"fields", "frame"} => 4 + 4 * last <= frame.rlen /\ Ext \notin words[last]
           /\ wifiPc = "fields" => IF bit <= 5 THEN wifiOffset = ends[bit]
                                    ELSE DbmAntSignal \notin words[1]
           /\ wifiPc = "frame" => /\ DbmAntSignal \in words[1]
                                  /\ signalAt = signal /\ signalAt < frame.rlen
    BY DEF ProbeInv
  <1>8. ASSUME UNCHANGED frame
        PROVE  ProbeInv' <=>
           /\ wifiHeard' = IF wifiPc' = "done" THEN frame.sent ELSE <<>>
           /\ wifiPc' \in {"header", "chain"} => bit' = 0
           /\ wifiPc' = "chain" => chain' \in 1 .. last /\ wifiOffset' = 4 + 4 * chain'
           /\ wifiPc' \in {"fields", "frame"} =>
                 4 + 4 * last <= frame.rlen /\ Ext \notin words[last]
           /\ wifiPc' = "fields" => IF bit' <= 5 THEN wifiOffset' = ends[bit']
                                     ELSE DbmAntSignal \notin words[1]
           /\ wifiPc' = "frame" => /\ DbmAntSignal \in words[1]
                                   /\ signalAt' = signal /\ signalAt' < frame.rlen
    BY <1>8 DEF ProbeInv
  <1>9. bit \in Present <=> bit \in words[1]
    BY DEF Present
  <1> HIDE DEF words, last, ends, signal, sighting
  <1>10. CASE RadiotapHeader
    <2>1. ~(frame.len >= HeaderSize /\ frame.rlen \in HeaderSize .. frame.len) => ~Reportable(frame)
      BY <1>1, <1>5 DEF HeaderSize
    <2>2. wifiPc = "header" => chain = 1 /\ wifiOffset = 8
      BY DEF WifiInv, HeaderSize
    <2>3. wifiPc = "header" /\ UNCHANGED <<frame, chain, bit, wifiOffset, wifiHeard>>
      BY <1>10 DEF RadiotapHeader
    <2>4. last > 0 /\ wifiHeard = <<>> /\ bit = 0
      BY <1>1, <1>7, <2>3
    <2>5. CASE wifiPc' = "chain"
      BY <1>8, <2>2, <2>3, <2>4, <2>5, <1>1
    <2>6. CASE wifiPc' = "done" /\ ~Reportable(frame)
      BY <1>1, <1>8, <2>3, <2>4, <2>6
    <2>7. wifiPc' = "chain" \/ (wifiPc' = "done" /\ ~Reportable(frame))
      BY <1>10, <2>1 DEF RadiotapHeader
    <2> QED BY <2>5, <2>6, <2>7
  <1>11. CASE NextWord
    <2>1. wifiPc = "chain" /\ UNCHANGED <<frame, wifiPc, bit, wifiHeard>>
          /\ chain' = chain + 1 /\ wifiOffset' = wifiOffset + 4 /\ wifiOffset + 4 <= frame.rlen
          /\ Ext \in words[chain]
      BY <1>11 DEF NextWord, Chained, words
    <2>2. chain \in 1 .. last /\ wifiOffset = 4 + 4 * chain /\ bit = 0
      BY <1>7, <2>1
    <2>3. chain # last
      BY <1>1, <1>6, <2>1, <2>2
    <2>4. chain' \in 1 .. last /\ wifiOffset' = 4 + 4 * chain'
      BY <1>1, <2>1, <2>2, <2>3
    <2> QED BY <1>7, <1>8, <2>1, <2>2, <2>4
  <1>12. CASE LastWord
    <2>1. wifiPc = "chain" /\ UNCHANGED <<frame, chain, bit, wifiOffset, wifiHeard>>
          /\ wifiPc' = (IF Chained THEN "done" ELSE "fields")
          /\ (Chained => ~(wifiOffset + 4 <= frame.rlen))
      BY <1>12 DEF LastWord
    <2>2. chain \in 1 .. last /\ wifiOffset = 4 + 4 * chain /\ bit = 0 /\ wifiHeard = <<>>
      BY <1>7, <2>1
    <2>3. Chained <=> Ext \in words[chain]
      BY <1>1, <2>2 DEF Chained, words, last
    <2>4. CASE Chained
      <3>1. ~Reportable(frame)
        <4>1. CASE chain = last
          BY <1>5, <2>3, <2>4, <4>1
        <4>2. CASE chain < last
          <5>1. frame.rlen < 4 + 4 * last
            BY <1>1, <2>1, <2>2, <2>4, <4>2
          <5> QED BY <1>1, <1>5, <5>1
        <4> QED BY <1>1, <2>2, <4>1, <4>2
      <3>2. frame.sent = <<>> /\ wifiHeard = <<>>
        BY <1>1, <2>2, <3>1
      <3>3. wifiPc' = "done" /\ wifiHeard' = frame.sent /\ UNCHANGED frame
        BY <2>1, <2>4, <3>2
      <3> QED BY <1>8, <3>3
    <2>5. CASE ~Chained
      <3>1. chain = last
        BY <1>1, <1>6, <2>2, <2>3, <2>5
      <3>2. wifiOffset <= frame.rlen
        BY <2>1, <1>1 DEF WifiInv
      <3>3. 4 + 4 * last <= frame.rlen /\ Ext \notin words[last] /\ wifiOffset = ends[0]
        BY <1>2, <2>2, <2>3, <2>5, <3>1, <3>2
      <3> QED BY <1>8, <2>1, <2>2, <2>5, <3>3
    <2> QED BY <2>4, <2>5
  <1>13. CASE AbsentField
    <2>1. wifiPc = "fields" /\ bit < Ext /\ bit \notin words[1] /\ bit' = bit + 1
          /\ UNCHANGED <<frame, wifiPc, wifiOffset, wifiHeard>>
      BY <1>9, <1>13 DEF AbsentField
    <2>2. IF bit' <= 5 THEN wifiOffset' = ends[bit'] ELSE DbmAntSignal \notin words[1]
      <3>1. CASE bit < 5
        <4>1. bit \in 0 .. 5 /\ bit <= 5
          BY <1>3, <3>1
        <4> QED BY <1>2, <1>7, <2>1, <4>1, <3>1
      <3>2. CASE bit = 5
        BY <2>1, <3>2 DEF DbmAntSignal
      <3>3. CASE bit > 5
        BY <1>3, <1>7, <2>1, <3>3
      <3> QED BY <1>3, <3>1, <3>2, <3>3
    <2> QED BY <1>7, <1>8, <2>1, <2>2
  <1>14. CASE NoSignal
    <2>1. wifiPc = "fields" /\ wifiPc' = "done"
          /\ UNCHANGED <<frame, chain, bit, wifiOffset, wifiHeard>>
          /\ (bit = Ext \/ (bit \in words[1] /\ ~(Known /\ Fits)))
      BY <1>9, <1>14 DEF NoSignal
    <2>2. ~Reportable(frame)
      <3>1. CASE bit > 5
        BY <1>3, <1>5, <1>7, <2>1, <3>1
      <3>2. CASE bit <= 5
        <4>1. bit \in 0 .. 5 /\ bit \in words[1] /\ wifiOffset = ends[bit]
          <5>1. bit \in 0 .. 5
            BY <1>3, <3>2
          <5>2. bit # Ext
            BY <5>1 DEF Ext
          <5> QED BY <1>7, <2>1, <3>2, <5>1, <5>2
        <4>2. Known
          BY <4>1, SameLayout DEF Known
        <4>3. Aligned + radiotap_fields[bit].size > frame.rlen
          <5>1. Aligned \in Nat /\ radiotap_fields[bit].size \in Nat
            BY <1>3, <4>2, AlignedIsAhead
          <5>2. bit # Ext
            BY <4>1 DEF Ext
          <5>3. ~Fits
            BY <2>1, <4>2, <5>2
          <5> QED BY <1>1, <5>1, <5>3 DEF Fits
        <4>4. Aligned = Place(bit + 1, ends[bit])
              /\ ends[bit + 1] = Aligned + radiotap_fields[bit].size
          BY <1>1, <1>9, <4>1, <4>2, FieldIs DEF words, ends
        <4>5. CASE bit < 5
          <5>1. bit + 1 \in 0 .. 5
            BY <1>3, <4>5
          <5>2. ends[bit + 1] \in Nat /\ signal >= ends[bit + 1] /\ ends[bit + 1] > frame.rlen
            BY <1>2, <4>3, <4>4, <5>1
          <5> QED BY <1>1, <1>2, <1>5, <5>2
        <4>6. CASE bit = 5
          <5>1. signal = Aligned /\ radiotap_fields[bit].size = 1
            <6>1. signal = Place(6, ends[5])
              BY DEF signal, ends, SignalPlace
            <6> QED BY <4>4, <4>6, <6>1 DEF radiotap_fields
          <5> QED BY <1>1, <1>2, <1>5, <4>3, <5>1
        <4> QED BY <1>3, <3>2, <4>5, <4>6
      <3> QED BY <1>3, <3>1, <3>2
    <2> QED BY <1>1, <1>7, <1>8, <2>1, <2>2
  <1>15. CASE SkipField
    <2>1. wifiPc = "fields" /\ bit < Ext /\ bit \in words[1] /\ Known /\ bit # 5
          /\ wifiOffset' = Aligned + radiotap_fields[bit].size /\ bit' = bit + 1
          /\ UNCHANGED <<frame, wifiPc, wifiHeard>>
      BY <1>9, <1>15 DEF SkipField, DbmAntSignal
    <2>2. IF bit' <= 5 THEN wifiOffset' = ends[bit'] ELSE DbmAntSignal \notin words[1]
      <3>1. CASE bit < 5
        <4>1. bit \in 0 .. 5 /\ wifiOffset = ends[bit]
          BY <1>3, <1>7, <2>1, <3>1
        <4>2. ends[bit + 1] = Aligned + radiotap_fields[bit].size
          BY <1>1, <1>9, <2>1, <4>1, FieldIs DEF words, ends
        <4> QED BY <1>3, <2>1, <3>1, <4>2
      <3>2. CASE bit > 5
        BY <1>3, <1>7, <2>1, <3>2
      <3> QED BY <1>3, <2>1, <3>1, <3>2
    <2> QED BY <1>7, <1>8, <2>1, <2>2
  <1>16. CASE ReadSignal
    <2>1. wifiPc = "fields" /\ bit = 5 /\ bit \in words[1] /\ Fits /\ signalAt' = Aligned
          /\ wifiPc' = "frame" /\ UNCHANGED <<frame, wifiHeard>>
      BY <1>9, <1>16 DEF ReadSignal, DbmAntSignal
    <2>2. bit \in 0 .. 5 /\ wifiOffset = ends[bit]
      BY <1>7, <2>1
    <2>3. Known /\ radiotap_fields[bit].size = 1
      BY <2>1 DEF Known, radiotap_fields
    <2>4. Aligned = Place(bit + 1, ends[bit]) /\ Aligned \in Nat
      BY <1>1, <1>3, <1>9, <2>1, <2>2, <2>3, FieldIs, AlignedIsAhead DEF words, ends
    <2>5. signal = Place(6, ends[5])
      BY DEF signal, ends, SignalPlace
    <2>6. signalAt' = signal /\ signalAt' < frame.rlen /\ DbmAntSignal \in words[1]
      BY <1>1, <2>1, <2>3, <2>4, <2>5 DEF Fits, DbmAntSignal
    <2> QED BY <1>7, <1>8, <2>1, <2>6
  <1>17. CASE ProcessFrame
    <2>1. wifiPc = "frame" /\ wifiPc' = "done" /\ UNCHANGED frame /\ wifiHeard = <<>>
          /\ signalAt = signal
      BY <1>7, <1>17 DEF ProcessFrame
    <2>2. Reportable(frame) <=> IsProbeRequest
      BY <1>7, <2>1 DEF Reportable, IsProbeRequest, words, last, signal
    <2>3. wifiHeard' = IF IsProbeRequest THEN sighting ELSE <<>>
      BY <1>17, <2>1 DEF ProcessFrame, sighting, signal, words
    <2> QED BY <1>1, <1>8, <2>1, <2>2, <2>3
  <1>18. CASE UNCHANGED wifiVars
    BY <1>7, <1>8, <1>18 DEF wifiVars
  <1> QED BY <1>10, <1>11, <1>12, <1>13, <1>14, <1>15, <1>16, <1>17, <1>18 DEF WifiNext, FrameDone

\* process_wifi_frame reports a frame to the aggregator exactly if it is a probe
\* request whose header has a signal strength, once, with the strength and the
\* address found where the driver put them, for every choice of presence words,
\* header length and frame length, captured whole or cut short.
THEOREM ProbesAreHeard ==
    ASSUME \A f \in Frames : LaidOut(f)
    PROVE  WifiSpec => []ProbesHeard
  <1>1. WifiInit => WifiInv /\ ProbeInv
    BY ProbeStart DEF WifiInit, WifiInv, HeaderSize, Ext
  <1>2. (WifiInv /\ ProbeInv) /\ [WifiNext]_wifiVars => (WifiInv /\ ProbeInv)'
    BY WifiStep, ProbeStep
  <1>3. WifiInv /\ ProbeInv => ProbesHeard
    BY DEF ProbeInv, ProbesHeard
  <1> QED
    BY <1>1, <1>2, <1>3, PTL DEF WifiSpec
===============================================================================
