----------------------------- MODULE ReplayProofs -----------------------------
(* Every device of a recording is passed on as it was written, for every    *)
(* recording whose lines fit in the buffer and whatever a member that is    *)
(* cut off at the end of a slice is taken for.                              *)
EXTENDS ReplayParser, RecordingFormat, Recursion, SequenceTheorems, TLAPS

\* What a recording may be made of.  A device names no member twice, and one
\* that is complete fits in a slice and has values the program can hold.
Device(T) ==
    {d \in Strings(T) :
        /\ \A j, k \in 1 .. Len(d) : d[j].key = d[k].key => j = k
        /\ Complete(d) =>
              /\ Len(d) <= SliceMax
              /\ \A k \in 1 .. Len(d) :
                    /\ d[k].key = "protocol" => d[k].val \in {"ble", "wifi"}
                    /\ d[k].key \in {"rssi", "tx_power"} => d[k].val \in -128 .. 127}

DeviceLists(T) == Seq(Device(T))

OtherTokens(T) == {t \in Strings(T) : Positions(t, "devices") = {}}

RecordLine(T) == {LineOf(d) : d \in DeviceLists(T)} \cup {OtherLine(t) : t \in OtherTokens(T)}

RecordingLayout(T) ==
    /\ \A t \in T : t.key \in {"rssi", "tx_power"} => t.val \in Int
    /\ \A t \in T : Cut(t) \subseteq T
    /\ {Token("timestamp", 0), Token("devices", 0)} \subseteq T
    /\ Recordings \subseteq Seq(RecordLine(T))

\* The sightings these can be read as.
Readings(T) ==
    LET Values == {t.val : t \in T} \cup {"bad", "ble", "wifi"}
    IN [mac : Values, protocol : Values, rssi : Int, tx_power : Int]

-------------------------------------------------------------------------------
(* Members and slices *)

\* The least of some positions.
LEMMA LeastIs ==
    ASSUME NEW P \in SUBSET Nat, P # {}
    PROVE  Min(P) \in P /\ \A k \in P : Min(P) <= k
  <1>1. \E m \in P : \A k \in P : m <= k
    BY LeastNumber
  <1> QED BY <1>1 DEF Min

\* A device is read by its only member of a name.
LEMMA ValueIs ==
    ASSUME NEW T, NEW d \in Device(T), NEW k \in 1 .. Len(d), NEW default
    PROVE  ValueOf(d, d[k].key, default) = d[k].val
  <1>1. {j \in DOMAIN d : d[j].key = d[k].key} = {k}
    BY DEF Device, Strings
  <1>2. Max({k}) = k
    BY DEF Max
  <1> QED BY <1>1, <1>2 DEF ValueOf

\* What is not there has its default.
LEMMA NoValue ==
    ASSUME NEW d, NEW key, NEW default, \A k \in DOMAIN d : d[k].key # key
    PROVE  ValueOf(d, key, default) = default
  <1>1. {j \in DOMAIN d : d[j].key = key} = {}
    OBVIOUS
  <1> QED BY <1>1 DEF ValueOf

\* A buffer holds as many of the tokens as it has room for, and perhaps one
\* more that was cut.
LEMMA BufferedIs ==
    ASSUME NEW T, RecordingLayout(T), NEW w \in Strings(T), NEW max \in Nat,
           NEW s \in Buffered(w, max)
    PROVE  /\ s \in Strings(T)
           /\ \A q \in 1 .. Len(w) : q <= max => q <= Len(s) /\ s[q] = w[q]
  <1>1. CASE Len(w) <= max
    BY <1>1 DEF Buffered, Strings
  <1>2. CASE ~(Len(w) <= max)
    <2> DEFINE whole == SubSeq(w, 1, max)
    <2>1. w \in Seq(T) /\ Len(w) \in Nat /\ max + 1 \in 1 .. Len(w)
      BY <1>2 DEF Strings
    <2>2. whole \in Seq(T) /\ Len(whole) = max /\ \A q \in 1 .. max : whole[q] = w[q]
      BY <2>1
    <2>3. s = whole \/ \E t \in Cut(w[max + 1]) : s = Append(whole, t)
      BY <1>2 DEF Buffered
    <2>4. Cut(w[max + 1]) \subseteq T
      BY <2>1 DEF RecordingLayout
    <2> HIDE DEF whole
    <2>5. CASE s = whole
      BY <2>2, <2>5 DEF Strings
    <2>6. CASE \E t \in Cut(w[max + 1]) : s = Append(whole, t)
      <3>1. PICK t \in T : s = Append(whole, t)
        BY <2>4, <2>6
      <3>2. s \in Seq(T) /\ Len(s) = max + 1 /\ \A q \in 1 .. max : s[q] = whole[q]
        BY <2>2, <3>1
      <3> QED BY <2>1, <2>2, <3>2 DEF Strings
    <2> QED BY <2>3, <2>5, <2>6
  <1> QED BY <1>1, <1>2

\* The names in a device, and a text that begins with a device.
Names(d) == {d[q].key : q \in DOMAIN d}

Begins(s, d) == Len(d) <= Len(s) /\ \A q \in 1 .. Len(d) : s[q] = d[q]

\* The text from a member on finds what the device has of that name.
LEMMA FirstIs ==
    ASSUME NEW T, NEW d \in Device(T), NEW s \in Strings(T), NEW key, NEW default,
           Begins(s, d), key \in Names(d)
    PROVE  \E k \in 1 .. Len(d) :
              /\ d[k].key = key
              /\ FirstValue(s, key, default) = d[k].val
              /\ ValueOf(d, key, default) = d[k].val
  <1>1. /\ Len(d) \in Nat /\ DOMAIN d = 1 .. Len(d)
        /\ Len(s) \in Nat /\ DOMAIN s = 1 .. Len(s)
        /\ \A i, k \in 1 .. Len(d) : d[i].key = d[k].key => i = k
    BY DEF Device, Strings
  <1>2. PICK k \in 1 .. Len(d) : d[k].key = key
    BY <1>1 DEF Names
  <1>3. ValueOf(d, key, default) = d[k].val
    BY <1>2, ValueIs
  <1> DEFINE at == Positions(s, key)
  <1>4. at \in SUBSET Nat /\ k \in at /\ \A i \in at : i <= Len(d) => i = k
    BY <1>1, <1>2 DEF Positions, Begins
  <1>5. Min(at) \in at /\ Min(at) <= k /\ Min(at) \in Nat
    <2> HIDE DEF at
    <2> QED BY <1>4, LeastIs
  <1>6. Min(at) = k
    <2> HIDE DEF at
    <2> QED BY <1>1, <1>4, <1>5
  <1>7. FirstValue(s, key, default) = s[Min(at)].val
    BY <1>4 DEF FirstValue
  <1> QED BY <1>2, <1>3, <1>6, <1>7 DEF Begins

\* What is found is a value, of a signal or a power a number.
LEMMA FirstTyped ==
    ASSUME NEW T, NEW s \in Strings(T), NEW key, NEW default
    PROVE  FirstValue(s, key, default) = default
           \/ \E t \in T : t.key = key /\ FirstValue(s, key, default) = t.val
  <1> DEFINE at == Positions(s, key)
  <1>1. at \in SUBSET Nat /\ \A i \in at : s[i] \in T /\ s[i].key = key
    BY DEF Positions, Strings
  <1>2. CASE at = {}
    BY <1>2 DEF FirstValue
  <1>3. CASE at # {}
    <2>1. Min(at) \in at
      <3> HIDE DEF at
      <3> QED BY <1>1, <1>3, LeastIs
    <2>2. FirstValue(s, key, default) = s[Min(at)].val
      BY <1>3 DEF FirstValue
    <2> HIDE DEF at
    <2> QED BY <1>1, <2>1, <2>2
  <1> QED BY <1>2, <1>3

\* And so does the reader of the whole device.
LEMMA ValueTyped ==
    ASSUME NEW T, NEW d \in Device(T), NEW key, NEW default
    PROVE  ValueOf(d, key, default) = default
           \/ \E t \in T : t.key = key /\ ValueOf(d, key, default) = t.val
  <1>1. CASE \A k \in DOMAIN d : d[k].key # key
    BY <1>1, NoValue
  <1>2. CASE \E k \in DOMAIN d : d[k].key = key
    <2>1. PICK k \in 1 .. Len(d) : d[k].key = key /\ d[k] \in T
      BY <1>2 DEF Device, Strings
    <2>2. ValueOf(d, key, default) = d[k].val
      BY <2>1, ValueIs
    <2> QED BY <2>1, <2>2
  <1> QED BY <1>1, <1>2

\* A cast of what fits changes nothing.
LEMMA CastOfSmall == /\ \A x \in -128 .. 127 : Int8(x) = x
                     /\ \A x \in Int : Int8(x) \in Int
  BY DEF Int8

\* What a device stands for are readings.
LEMMA SightingTyped ==
    ASSUME NEW T, RecordingLayout(T), NEW d \in Device(T)
    PROVE  SightingOf(d) \in Readings(T) /\ Sightings(d) \in Strings(Readings(T))
  <1> DEFINE Values == {t.val : t \in T} \cup {"bad", "ble", "wifi"}
  <1>1. ValueOf(d, "mac", "bad") \in Values /\ ValueOf(d, "protocol", "ble") \in Values
    <2>1. ValueOf(d, "mac", "bad") \in Values
      BY ValueTyped
    <2>2. ValueOf(d, "protocol", "ble") \in Values
      BY ValueTyped
    <2> QED BY <2>1, <2>2
  <1>2. ValueOf(d, "rssi", -75) \in Int
    <2>1. ValueOf(d, "rssi", -75) = -75
          \/ \E t \in T : t.key = "rssi" /\ ValueOf(d, "rssi", -75) = t.val
      BY ValueTyped
    <2> QED BY <2>1 DEF RecordingLayout
  <1>3. ValueOf(d, "tx_power", -59) \in Int
    <2>1. ValueOf(d, "tx_power", -59) = -59
          \/ \E t \in T : t.key = "tx_power" /\ ValueOf(d, "tx_power", -59) = t.val
      BY ValueTyped
    <2> QED BY <2>1 DEF RecordingLayout
  <1>4. SightingOf(d) \in Readings(T)
    <2> HIDE DEF Values
    <2> QED BY <1>1, <1>2, <1>3 DEF SightingOf, Readings, Values
  <1> QED BY <1>4 DEF Sightings, Strings

\* A device heard and the device meant: both silent, or one sighting each, with
\* the same address, and the same altogether if the device is complete.
Matching(x, y, complete, T) ==
    \/ x = <<>> /\ y = <<>>
    \/ \E u \in Readings(T), v \in Readings(T) :
          /\ x = <<u>> /\ y = <<v>> /\ u.mac = v.mac
          /\ complete => u = v

\* What is made of a slice are readings.
LEMMA IngestedTyped ==
    ASSUME NEW T, RecordingLayout(T), NEW s \in Strings(T), Len(s) # 0
    PROVE  \/ s[1].val = "bad" /\ Ingested(s) = <<>>
           \/ \E u \in Readings(T) :
                 /\ s[1].val # "bad" /\ Ingested(s) = <<u>> /\ u.mac = s[1].val
                 /\ u.protocol = IF FirstValue(s, "protocol", "ble") = "wifi"
                                 THEN "wifi" ELSE "ble"
                 /\ u.rssi = Int8(FirstValue(s, "rssi", -75))
                 /\ u.tx_power = Int8(FirstValue(s, "tx_power", -59))
  <1> DEFINE Values == {t.val : t \in T} \cup {"bad", "ble", "wifi"}
             protocol == IF FirstValue(s, "protocol", "ble") = "wifi" THEN "wifi" ELSE "ble"
             u == [mac |-> s[1].val, protocol |-> protocol,
                   rssi |-> Int8(FirstValue(s, "rssi", -75)),
                   tx_power |-> Int8(FirstValue(s, "tx_power", -59))]
  <1>1. s[1].val \in Values /\ protocol \in Values
    BY DEF Strings
  <1>2. FirstValue(s, "rssi", -75) \in Int
    <2>1. FirstValue(s, "rssi", -75) = -75
          \/ \E t \in T : t.key = "rssi" /\ FirstValue(s, "rssi", -75) = t.val
      BY FirstTyped
    <2> QED BY <2>1 DEF RecordingLayout
  <1>3. FirstValue(s, "tx_power", -59) \in Int
    <2>1. FirstValue(s, "tx_power", -59) = -59
          \/ \E t \in T : t.key = "tx_power" /\ FirstValue(s, "tx_power", -59) = t.val
      BY FirstTyped
    <2> QED BY <2>1 DEF RecordingLayout
  <1>4. Int8(FirstValue(s, "rssi", -75)) \in Int /\ Int8(FirstValue(s, "tx_power", -59)) \in Int
    BY <1>2, <1>3, CastOfSmall
  <1>5. u \in Readings(T)
    <2> HIDE DEF protocol, Values
    <2> QED BY <1>1, <1>4 DEF Readings, Values
  <1>6. Ingested(s) = IF s[1].val = "bad" THEN <<>> ELSE <<u>>
    <2>1. DefaultRssiCutoff + 10 = -75 /\ DefaultTxPower = -59
      BY DEF DefaultRssiCutoff, DefaultTxPower
    <2> QED BY <2>1 DEF Ingested
  <1>7. /\ u.mac = s[1].val /\ u.protocol = protocol
        /\ u.rssi = Int8(FirstValue(s, "rssi", -75))
        /\ u.tx_power = Int8(FirstValue(s, "tx_power", -59))
    OBVIOUS
  <1> HIDE DEF u
  <1> QED BY <1>5, <1>6, <1>7

\* Two readings are the same if their members are.
LEMMA SameReading ==
    ASSUME NEW T, NEW u \in Readings(T), NEW v \in Readings(T), u.mac = v.mac,
           u.protocol = v.protocol, u.rssi = v.rssi, u.tx_power = v.tx_power
    PROVE  u = v
  BY DEF Readings

\* A slice that begins with the address of a device is heard as the device.
LEMMA HeardAsMeant ==
    ASSUME NEW T, RecordingLayout(T), NEW d \in Device(T), NEW s \in Strings(T), Len(s) # 0,
           NEW m \in 1 .. Len(d), d[m].key = "mac", s[1] = d[m],
           Complete(d) => Begins(s, d)
    PROVE  Matching(Ingested(s), Sightings(d), Complete(d), T)
  <1> DEFINE v == SightingOf(d)
  <1>1. ValueOf(d, "mac", "bad") = d[m].val
    BY ValueIs
  <1>2. v \in Readings(T) /\ v.mac = s[1].val
    BY <1>1, SightingTyped DEF SightingOf
  <1>3. /\ v.protocol = ValueOf(d, "protocol", "ble")
        /\ v.rssi = ValueOf(d, "rssi", -75)
        /\ v.tx_power = ValueOf(d, "tx_power", -59)
    BY DEF SightingOf
  <1>4. Sightings(d) = IF s[1].val = "bad" THEN <<>> ELSE <<v>>
    BY <1>2 DEF Sightings
  <1> HIDE DEF v
  <1>5. CASE s[1].val = "bad"
    <2>1. Ingested(s) = <<>>
      BY <1>5 DEF Ingested
    <2> QED BY <1>4, <1>5, <2>1 DEF Matching
  <1>6. CASE s[1].val # "bad"
    <2>1. PICK u \in Readings(T) :
             /\ Ingested(s) = <<u>> /\ u.mac = s[1].val
             /\ u.protocol = IF FirstValue(s, "protocol", "ble") = "wifi" THEN "wifi" ELSE "ble"
             /\ u.rssi = Int8(FirstValue(s, "rssi", -75))
             /\ u.tx_power = Int8(FirstValue(s, "tx_power", -59))
      BY <1>6, IngestedTyped
    <2>2. ASSUME Complete(d) PROVE u = v
      <3>1. /\ Begins(s, d)
            /\ {"protocol", "rssi", "tx_power"} \subseteq Names(d)
            /\ \A k \in 1 .. Len(d) :
                  /\ d[k].key = "protocol" => d[k].val \in {"ble", "wifi"}
                  /\ d[k].key \in {"rssi", "tx_power"} => d[k].val \in -128 .. 127
        BY <2>2 DEF Complete, Device, Names
      <3>5. \A key \in {"protocol", "rssi", "tx_power"} : \A default : \E k \in 1 .. Len(d) :
               /\ d[k].key = key
               /\ FirstValue(s, key, default) = d[k].val
               /\ ValueOf(d, key, default) = d[k].val
        BY <3>1, FirstIs
      <3>2. u.protocol = v.protocol
        <4>1. PICK k \in 1 .. Len(d) : /\ d[k].key = "protocol"
                                       /\ FirstValue(s, "protocol", "ble") = d[k].val
                                       /\ ValueOf(d, "protocol", "ble") = d[k].val
          BY <3>5
        <4>2. d[k].val \in {"ble", "wifi"}
          BY <3>1, <4>1
        <4> QED BY <1>3, <2>1, <4>1, <4>2
      <3>3. u.rssi = v.rssi
        <4>1. PICK k \in 1 .. Len(d) : /\ d[k].key = "rssi"
                                       /\ FirstValue(s, "rssi", -75) = d[k].val
                                       /\ ValueOf(d, "rssi", -75) = d[k].val
          BY <3>5
        <4>2. d[k].val \in -128 .. 127
          BY <3>1, <4>1
        <4>3. Int8(d[k].val) = d[k].val
          BY <4>2, CastOfSmall
        <4> QED BY <1>3, <2>1, <4>1, <4>3
      <3>4. u.tx_power = v.tx_power
        <4>1. PICK k \in 1 .. Len(d) : /\ d[k].key = "tx_power"
                                       /\ FirstValue(s, "tx_power", -59) = d[k].val
                                       /\ ValueOf(d, "tx_power", -59) = d[k].val
          BY <3>5
        <4>2. d[k].val \in -128 .. 127
          BY <3>1, <4>1
        <4>3. Int8(d[k].val) = d[k].val
          BY <4>2, CastOfSmall
        <4> QED BY <1>3, <2>1, <4>1, <4>3
      <3> QED BY <1>2, <2>1, <3>2, <3>3, <3>4, SameReading
    <2>3. Ingested(s) = <<u>> /\ Sightings(d) = <<v>> /\ u.mac = v.mac
      BY <1>2, <1>4, <1>6, <2>1
    <2> QED BY <1>2, <2>2, <2>3 DEF Matching
  <1> QED BY <1>5, <1>6

-------------------------------------------------------------------------------
(* Lines *)

\* The sightings of the devices of a line.
SightingList(ds) == [k \in DOMAIN ds |-> Sightings(ds[k])]

\* Devices are lists of tokens, what they stand for are lists of readings.
LEMMA DeviceListIs ==
    ASSUME NEW T, RecordingLayout(T), NEW ds \in DeviceLists(T)
    PROVE  /\ ds \in ListsOf(T) /\ Len(ds) \in Nat
           /\ \A k \in 1 .. Len(ds) : ds[k] \in Device(T) /\ ds[k] \in Strings(T)
           /\ SightingList(ds) \in ListsOf(Readings(T)) /\ Len(SightingList(ds)) = Len(ds)
           /\ \A k \in 1 .. Len(ds) : SightingList(ds)[k] = Sightings(ds[k])
  <1>1. Len(ds) \in Nat /\ DOMAIN ds = 1 .. Len(ds) /\ \A k \in 1 .. Len(ds) : ds[k] \in Device(T)
    BY DEF DeviceLists
  <1>2. Device(T) \subseteq Strings(T)
    BY DEF Device
  <1>3. ds \in Seq(Strings(T))
    <2>1. ds \in Seq(Device(T))
      BY DEF DeviceLists
    <2> QED BY <1>2, <2>1
  <1> DEFINE S == SightingList(ds)
  <1>4. S = [k \in 1 .. Len(ds) |-> Sightings(ds[k])]
    BY <1>1 DEF SightingList
  <1>5. \A k \in 1 .. Len(ds) : Sightings(ds[k]) \in Strings(Readings(T))
    BY <1>1, SightingTyped
  <1>6. S \in Seq(Strings(Readings(T))) /\ Len(S) = Len(ds)
    <2> HIDE DEF S
    <2> QED BY <1>1, <1>4, <1>5
  <1> QED BY <1>1, <1>2, <1>3, <1>4, <1>6 DEF ListsOf

\* Where the tokens of the first k devices end.
End(ds, k) == 2 + Len(Joined(ds)[k])

\* The tokens of a line that names devices.
LEMMA LineIs ==
    ASSUME NEW T, RecordingLayout(T), NEW ds \in DeviceLists(T), NEW tokens,
           tokens = LineOf(ds).tokens
    PROVE  /\ tokens \in Strings(T) /\ Len(tokens) = End(ds, Len(ds))
           /\ tokens[1].key = "timestamp" /\ tokens[2].key = "devices" /\ Len(tokens) >= 2
           /\ \A m \in 1 .. Len(Joined(ds)[Len(ds)]) : tokens[2 + m] = Joined(ds)[Len(ds)][m]
  <1> DEFINE all == Joined(ds)[Len(ds)]
             head == <<Token("timestamp", 0), Token("devices", 0)>>
  <1>1. Len(ds) \in 0 .. Len(ds) /\ ds \in ListsOf(T)
    BY DeviceListIs
  <1>2. all \in Strings(T)
    BY <1>1, ListJoined
  <1>3. head \in Strings(T) /\ Len(head) = 2
        /\ head[1].key = "timestamp" /\ head[2].key = "devices"
    BY DEF RecordingLayout, Strings, Token
  <1>4. tokens = head \o all
    BY DEF LineOf
  <1> HIDE DEF head, all
  <1>5. /\ tokens \in Strings(T) /\ Len(all) \in Nat /\ Len(tokens) = Len(head) + Len(all)
        /\ \A m \in 1 .. Len(head) : tokens[m] = head[m]
        /\ \A m \in 1 .. Len(all) : tokens[Len(head) + m] = all[m]
    <2>1. head \in Strings(T) /\ all \in Strings(T)
      BY <1>2, <1>3
    <2>2. /\ head \o all \in Strings(T) /\ Len(all) \in Nat
          /\ Len(head \o all) = Len(head) + Len(all)
          /\ \A m \in 1 .. Len(head) : (head \o all)[m] = head[m]
          /\ \A m \in 1 .. Len(all) : (head \o all)[Len(head) + m] = all[m]
      BY <2>1, StringBehind
    <2> QED BY <1>4, <2>2
  <1>6. End(ds, Len(ds)) = 2 + Len(all)
    BY DEF End, all
  <1>7. 1 \in 1 .. Len(head) /\ 2 \in 1 .. Len(head) /\ Len(tokens) = 2 + Len(all)
        /\ Len(tokens) >= 2
    BY <1>3, <1>5
  <1> QED BY <1>3, <1>5, <1>6, <1>7 DEF all

\* The ends of the devices rise, each device is where the ones before it end.
LEMMA DeviceAt ==
    ASSUME NEW T, RecordingLayout(T), NEW ds \in DeviceLists(T), NEW tokens,
           tokens = LineOf(ds).tokens, NEW k \in 1 .. Len(ds)
    PROVE  /\ End(ds, k - 1) \in Nat /\ End(ds, k - 1) >= 2 /\ Len(ds[k]) \in Nat
           /\ End(ds, k) = End(ds, k - 1) + Len(ds[k])
           /\ End(ds, k) <= Len(tokens)
           /\ \A m \in 1 .. Len(ds[k]) : tokens[End(ds, k - 1) + m] = ds[k][m]
  <1> DEFINE N == Len(ds)
             J == Joined(ds)
  <1>1. N \in Nat /\ N \in k .. N /\ ds \in ListsOf(T) /\ ds[k] \in Strings(T)
    BY DeviceListIs
  <1>2. /\ Len(J[k - 1]) \in Nat /\ Len(J[k]) = Len(J[k - 1]) + Len(ds[k])
        /\ Len(J[k]) <= Len(J[N])
        /\ \A m \in 1 .. Len(ds[k]) : J[N][Len(J[k - 1]) + m] = ds[k][m]
    BY <1>1, PartInList
  <1>3. Len(ds[k]) \in Nat
    BY <1>1 DEF Strings
  <1>4. /\ Len(tokens) = End(ds, N)
        /\ \A m \in 1 .. Len(J[N]) : tokens[2 + m] = J[N][m]
    BY LineIs
  <1>5. End(ds, k - 1) = 2 + Len(J[k - 1]) /\ End(ds, k) = 2 + Len(J[k])
        /\ End(ds, N) = 2 + Len(J[N])
    BY DEF End
  <1>6. N \in 0 .. N
    BY <1>1
  <1>7. J[N] \in Strings(T)
    BY <1>1, <1>6, ListJoined
  <1>8. Len(J[N]) \in Nat
    BY <1>7 DEF Strings
  <1> HIDE DEF J
  <1> DEFINE before == Len(J[k - 1])
             more == Len(ds[k])
             last == Len(J[N])
             from == End(ds, k - 1)
  <1>9. /\ before \in Nat /\ more \in Nat /\ last \in Nat /\ before + more <= last
        /\ from = 2 + before /\ End(ds, k) = 2 + (before + more)
        /\ Len(tokens) = 2 + last
    BY <1>2, <1>3, <1>4, <1>5, <1>8
  <1>10. \A m \in 1 .. more : J[N][before + m] = ds[k][m]
    BY <1>2
  <1>11. \A m \in 1 .. last : tokens[2 + m] = J[N][m]
    BY <1>4
  <1> HIDE DEF before, more, last, from
  <1>12. ASSUME NEW m \in 1 .. more PROVE tokens[from + m] = ds[k][m]
    <2> DEFINE q == before + m
    <2>1. q \in 1 .. last /\ from + m = 2 + q
      BY <1>9
    <2>2. J[N][q] = ds[k][m]
      BY <1>10
    <2> HIDE DEF q
    <2> QED BY <1>11, <2>1, <2>2
  <1>13. from \in Nat /\ from >= 2 /\ End(ds, k) = from + more /\ End(ds, k) <= Len(tokens)
    BY <1>9
  <1> QED BY <1>9, <1>12, <1>13 DEF more, from

\* The ends rise.
LEMMA EndsRise ==
    ASSUME NEW T, RecordingLayout(T), NEW ds \in DeviceLists(T),
           NEW j \in 0 .. Len(ds), NEW k \in j .. Len(ds)
    PROVE  End(ds, j) \in Nat /\ End(ds, k) \in Nat /\ End(ds, j) <= End(ds, k)
  <1> DEFINE J == Joined(ds)
  <1>1. ds \in ListsOf(T) /\ Len(ds) \in Nat /\ k \in 0 .. Len(ds)
    BY DeviceListIs
  <1>2. J[j] \in Strings(T) /\ J[k] \in Strings(T) /\ J[0] = <<>>
    BY <1>1, ListJoined
  <1>3. Len(J[j]) \in Nat /\ Len(J[k]) \in Nat
    BY <1>2 DEF Strings
  <1>4. Len(J[j]) <= Len(J[k])
    <2>1. CASE j = 0
      BY <1>2, <1>3, <2>1
    <2>2. CASE j # 0
      <3>1. j \in 1 .. Len(ds)
        BY <1>1, <2>2
      <3> QED BY <1>1, <3>1, PartInList
    <2> QED BY <2>1, <2>2
  <1> QED BY <1>3, <1>4 DEF End

\* Every token behind the first two belongs to a device.
LEMMA DeviceOf ==
    ASSUME NEW T, RecordingLayout(T), NEW ds \in DeviceLists(T), NEW p \in Nat, p > 2,
           p <= End(ds, Len(ds))
    PROVE  \E k \in 1 .. Len(ds) : End(ds, k - 1) < p /\ p <= End(ds, k)
  <1> DEFINE N == Len(ds)
             G == {k \in 0 .. N : p <= End(ds, k)}
  <1>1. N \in Nat /\ N \in 0 .. N /\ ds \in ListsOf(T)
    BY DeviceListIs
  <1>2. G \in SUBSET Nat /\ N \in G
    BY <1>1
  <1>3. PICK k \in G : \A j \in G : k <= j
    <2> HIDE DEF G
    <2> QED BY <1>2, LeastNumber
  <1>4. End(ds, 0) = 2
    <2>1. Joined(ds)[0] = <<>>
      BY <1>1, ListJoined
    <2> QED BY <2>1 DEF End
  <1>5. k # 0
    BY <1>3, <1>4
  <1>6. k \in 1 .. N /\ k - 1 \in 0 .. N /\ k - 1 < k /\ k - 1 \in Nat
    BY <1>1, <1>3, <1>5
  <1>7. k - 1 \notin G
    BY <1>3, <1>6
  <1>8. End(ds, k - 1) \in Nat
    BY <1>6, DeviceAt
  <1>9. ~(p <= End(ds, k - 1))
    BY <1>6, <1>7
  <1>10. End(ds, k - 1) < p
    BY <1>8, <1>9
  <1> QED BY <1>3, <1>6, <1>10

\* Devices without a readable address add nothing.
LEMMA SilentDevices ==
    ASSUME NEW T, RecordingLayout(T), NEW ds \in DeviceLists(T),
           NEW j \in 0 .. Len(ds), NEW i \in j .. Len(ds),
           \A k \in j + 1 .. i : Sightings(ds[k]) = <<>>
    PROVE  Joined(SightingList(ds))[i] = Joined(SightingList(ds))[j]
  <1> DEFINE J == Joined(SightingList(ds))
             P == {n \in 0 .. i - j : J[j + n] = J[j]}
  <1>1. /\ SightingList(ds) \in ListsOf(Readings(T)) /\ Len(SightingList(ds)) = Len(ds)
        /\ \A k \in 1 .. Len(ds) : SightingList(ds)[k] = Sightings(ds[k])
        /\ Len(ds) \in Nat
    BY DeviceListIs
  <1>2. \A k \in 1 .. Len(ds) : J[k] = J[k - 1] \o Sightings(ds[k])
    BY <1>1, ListJoined
  <1>3. \A k \in 0 .. Len(ds) : J[k] \in Strings(Readings(T))
    BY <1>1, ListJoined
  <1> HIDE DEF J
  <1>4. j \in Nat /\ i \in Nat /\ i - j \in Nat /\ j + 0 = j /\ j + (i - j) = i
    BY <1>1
  <1>5. 0 \in P
    BY <1>4
  <1>6. ASSUME NEW n \in P, n < i - j PROVE n + 1 \in P
    <2>1. /\ j + n \in 0 .. Len(ds) /\ j + (n + 1) \in 1 .. Len(ds)
          /\ j + (n + 1) \in j + 1 .. i /\ (j + (n + 1)) - 1 = j + n
          /\ n + 1 \in 0 .. i - j
      BY <1>1, <1>4, <1>6
    <2>2. J[j + (n + 1)] = J[j + n] \o <<>>
      BY <1>2, <2>1
    <2>3. J[j + n] \in Seq(Readings(T))
      BY <1>3, <2>1 DEF Strings
    <2>4. J[j + n] \o <<>> = J[j + n]
      <3> DEFINE a == J[j + n]
      <3>1. a \in Seq(Readings(T))
        BY <2>3
      <3> HIDE DEF a
      <3>2. a \o <<>> = a
        BY <3>1
      <3> QED BY <3>2 DEF a
    <2> QED BY <1>6, <2>1, <2>2, <2>4
  <1>7. P = 0 .. i - j
    <2>1. P \in SUBSET (0 .. i - j)
      OBVIOUS
    <2> HIDE DEF P
    <2> QED BY <1>4, <1>5, <1>6, <2>1, UpwardInduction
  <1>8. i - j \in P
    <2> HIDE DEF P
    <2>1. i - j \in 0 .. i - j
      BY <1>4
    <2> QED BY <1>7, <2>1
  <1>9. J[j + (i - j)] = J[j]
    BY <1>8
  <1> QED BY <1>4, <1>9 DEF J

-------------------------------------------------------------------------------
(* What has been passed on *)

\* The recording r is a constant in what follows: no step changes it.
SentOf(r, n) == Joined([k \in DOMAIN r |-> r[k].sent])[n]

AllComplete(r) == \A k \in DOMAIN r : r[k].complete

AllFit(r) == \A k \in DOMAIN r : Len(r[k].tokens) <= LineMax

\* Two lists of sightings as LinesAsSent compares them.
Alike(r, a, b, T) ==
    /\ a \in Strings(Readings(T)) /\ b \in Strings(Readings(T))
    /\ Macs(a) = Macs(b)
    /\ AllComplete(r) => a = b

\* Intervals that are the same end at the same number.
LEMMA SameInterval ==
    ASSUME NEW m \in Nat, NEW n \in Nat, 1 .. m = 1 .. n
    PROVE  m = n
  <1>1. m # 0 => m \in 1 .. n
    <2>1. m # 0 => m \in 1 .. m
      OBVIOUS
    <2> QED BY <2>1
  <1>2. n # 0 => n \in 1 .. m
    <2>1. n # 0 => n \in 1 .. n
      OBVIOUS
    <2> QED BY <2>1
  <1> QED BY <1>1, <1>2

\* The addresses are the same if they are one by one.
LEMMA MacsAre ==
    ASSUME NEW T, NEW a \in Strings(Readings(T)), NEW b \in Strings(Readings(T))
    PROVE  Macs(a) = Macs(b) <=>
               /\ Len(a) = Len(b)
               /\ \A k \in 1 .. Len(a) : a[k].mac = b[k].mac
  <1>1. /\ DOMAIN a = 1 .. Len(a) /\ Len(a) \in Nat
        /\ DOMAIN b = 1 .. Len(b) /\ Len(b) \in Nat
    BY DEF Strings
  <1>2. /\ Macs(a) = [k \in 1 .. Len(a) |-> a[k].mac]
        /\ Macs(b) = [k \in 1 .. Len(b) |-> b[k].mac]
    BY <1>1 DEF Macs
  <1>3. ASSUME Macs(a) = Macs(b)
        PROVE  Len(a) = Len(b) /\ \A k \in 1 .. Len(a) : a[k].mac = b[k].mac
    <2>1. DOMAIN Macs(a) = 1 .. Len(a) /\ DOMAIN Macs(b) = 1 .. Len(b)
      BY <1>2
    <2>2. 1 .. Len(a) = 1 .. Len(b)
      BY <1>3, <2>1
    <2>3. Len(a) = Len(b)
      BY <1>1, <2>2, SameInterval
    <2>4. \A k \in 1 .. Len(a) : Macs(a)[k] = a[k].mac /\ Macs(b)[k] = b[k].mac
      BY <1>2, <2>3
    <2> QED BY <1>3, <2>3, <2>4
  <1>4. ASSUME Len(a) = Len(b), \A k \in 1 .. Len(a) : a[k].mac = b[k].mac
        PROVE  Macs(a) = Macs(b)
    BY <1>2, <1>4
  <1> QED BY <1>3, <1>4

\* Lists that are alike stay so when a device is heard as it is meant.
LEMMA AlikeGrows ==
    ASSUME NEW r, NEW T, NEW a, NEW b, Alike(r, a, b, T), NEW x, NEW y, NEW c,
           Matching(x, y, c, T), AllComplete(r) => c
    PROVE  Alike(r, a \o x, b \o y, T)
  <1> DEFINE R == Readings(T)
  <1>1. /\ a \in Strings(R) /\ b \in Strings(R) /\ a \in Seq(R) /\ b \in Seq(R)
        /\ Macs(a) = Macs(b) /\ (AllComplete(r) => a = b)
    BY DEF Alike, Strings
  <1>2. Len(a) = Len(b) /\ Len(a) \in Nat /\ \A k \in 1 .. Len(a) : a[k].mac = b[k].mac
    <2>1. Len(a) = Len(b) /\ \A k \in 1 .. Len(a) : a[k].mac = b[k].mac
      BY <1>1, MacsAre
    <2> QED BY <1>1, <2>1
  <1>3. CASE x = <<>> /\ y = <<>>
    <2> HIDE DEF R
    <2>1. a \o <<>> = a /\ b \o <<>> = b
      BY <1>1
    <2> QED BY <1>3, <2>1
  <1>4. CASE \E u \in R, v \in R : x = <<u>> /\ y = <<v>> /\ u.mac = v.mac /\ (c => u = v)
    <2>1. PICK u \in R, v \in R : x = <<u>> /\ y = <<v>> /\ u.mac = v.mac /\ (c => u = v)
      BY <1>4
    <2> HIDE DEF R
    <2>2. /\ a \o <<u>> \in Seq(R) /\ Len(a \o <<u>>) = Len(a) + 1
          /\ (a \o <<u>>)[Len(a) + 1] = u
          /\ \A k \in 1 .. Len(a) : (a \o <<u>>)[k] = a[k]
      BY <1>1
    <2>3. /\ b \o <<v>> \in Seq(R) /\ Len(b \o <<v>>) = Len(b) + 1
          /\ (b \o <<v>>)[Len(b) + 1] = v
          /\ \A k \in 1 .. Len(b) : (b \o <<v>>)[k] = b[k]
      BY <1>1
    <2> DEFINE e == a \o <<u>>
               f == b \o <<v>>
    <2>4. e \in Strings(R) /\ f \in Strings(R)
      BY <2>2, <2>3 DEF Strings
    <2>5. Len(e) = Len(f) /\ Len(e) = Len(a) + 1
          /\ e[Len(a) + 1] = u /\ f[Len(a) + 1] = v
          /\ \A k \in 1 .. Len(a) : e[k] = a[k] /\ f[k] = b[k]
      BY <1>2, <2>2, <2>3
    <2>6. AllComplete(r) => e = f
      BY <1>1, <2>1
    <2> HIDE DEF e, f
    <2>7. \A k \in 1 .. Len(e) : e[k].mac = f[k].mac
      <3>1. \A k \in 1 .. Len(e) : k \in 1 .. Len(a) \/ k = Len(a) + 1
        BY <1>2, <2>5
      <3> QED BY <1>2, <2>1, <2>5, <3>1
    <2>8. Macs(e) = Macs(f)
      BY <2>4, <2>5, <2>7, MacsAre DEF R
    <2>9. Alike(r, e, f, T)
      BY <2>4, <2>6, <2>8 DEF Alike, R
    <2> QED BY <2>1, <2>9 DEF e, f
  <1> QED BY <1>3, <1>4 DEF Matching

\* The two kinds of lines.
LEMMA RecordLineIs ==
    ASSUME NEW T, RecordingLayout(T), NEW l \in RecordLine(T)
    PROVE  /\ l.sent \in Strings(Readings(T)) /\ l.tokens \in Strings(T)
           /\ \/ Positions(l.tokens, "devices") = {} /\ l.sent = <<>>
              \/ \E ds \in DeviceLists(T) : l = LineOf(ds)
  <1>1. CASE \E t \in OtherTokens(T) : l = OtherLine(t)
    <2>1. PICK t \in OtherTokens(T) : l = OtherLine(t)
      BY <1>1
    <2>2. l.tokens = t /\ l.sent = <<>>
      BY <2>1 DEF OtherLine
    <2>3. t \in Strings(T) /\ Positions(t, "devices") = {}
      BY DEF OtherTokens
    <2>4. <<>> \in Strings(Readings(T))
      BY DEF Strings
    <2> QED BY <2>2, <2>3, <2>4
  <1>2. CASE \E ds \in DeviceLists(T) : l = LineOf(ds)
    <2>1. PICK ds \in DeviceLists(T) : l = LineOf(ds)
      BY <1>2
    <2>2. l.tokens \in Strings(T)
      BY <2>1, LineIs
    <2>3. l.sent = Joined(SightingList(ds))[Len(ds)]
      BY <2>1 DEF LineOf, SightingList
    <2>4. /\ SightingList(ds) \in ListsOf(Readings(T)) /\ Len(SightingList(ds)) = Len(ds)
          /\ Len(ds) \in 0 .. Len(ds)
      BY DeviceListIs
    <2>5. l.sent \in Strings(Readings(T))
      BY <2>3, <2>4, ListJoined
    <2> QED BY <2>1, <2>2, <2>5
  <1> QED BY <1>1, <1>2 DEF RecordLine

\* What a recording stands for, line by line.
LEMMA RecordingIs ==
    ASSUME NEW T, RecordingLayout(T), NEW r \in Recordings
    PROVE  /\ Len(r) \in Nat /\ DOMAIN r = 1 .. Len(r)
           /\ \A k \in 1 .. Len(r) : r[k] \in RecordLine(T)
           /\ SentOf(r, 0) = <<>>
           /\ \A n \in 1 .. Len(r) : SentOf(r, n) = SentOf(r, n - 1) \o r[n].sent
           /\ \A n \in 0 .. Len(r) : SentOf(r, n) \in Strings(Readings(T))
  <1> DEFINE S == [k \in DOMAIN r |-> r[k].sent]
  <1>1. /\ Len(r) \in Nat /\ DOMAIN r = 1 .. Len(r)
        /\ \A k \in 1 .. Len(r) : r[k] \in RecordLine(T)
    <2>1. r \in Seq(RecordLine(T))
      BY DEF RecordingLayout
    <2> QED BY <2>1
  <1>2. \A k \in 1 .. Len(r) : r[k].sent \in Strings(Readings(T))
    BY <1>1, RecordLineIs
  <1>3. S = [k \in 1 .. Len(r) |-> r[k].sent]
    BY <1>1
  <1>4. S \in Seq(Strings(Readings(T))) /\ Len(S) = Len(r)
        /\ \A k \in 1 .. Len(r) : S[k] = r[k].sent
    <2> HIDE DEF S
    <2> QED BY <1>1, <1>2, <1>3
  <1>5. S \in ListsOf(Readings(T))
    BY <1>4 DEF ListsOf
  <1>6. \A n : SentOf(r, n) = Joined(S)[n]
    BY DEF SentOf
  <1> HIDE DEF S
  <1>7. /\ \A k \in 0 .. Len(S) : Joined(S)[k] \in Strings(Readings(T))
        /\ Joined(S)[0] = <<>>
        /\ \A k \in 1 .. Len(S) : Joined(S)[k] = Joined(S)[k - 1] \o S[k]
    BY <1>5, ListJoined
  <1> QED BY <1>1, <1>4, <1>6, <1>7

\* The first j devices of the line have been passed on, and the cursor is behind
\* their addresses and before the others.
Scanned(r, ds, j, T) ==
    /\ cursor \in Nat
    /\ \A p \in Positions(line, "mac") : p > cursor <=> p > End(ds, j)
    /\ Alike(r, ingested, SentOf(r, lines - 1) \o Joined(SightingList(ds))[j], T)

\* What holds between and within the lines of a recording whose lines fit.
ReplayInv(r, T) ==
    /\ replayPc \in {"read", "devices", "scan", "done"}
    /\ lines \in 0 .. Len(r) /\ rest = <<>>
    /\ replayPc \in {"read", "done"} => Alike(r, ingested, SentOf(r, lines), T)
    /\ replayPc \in {"devices", "scan"} => lines # 0 /\ line = r[lines].tokens
    /\ replayPc = "devices" => Alike(r, ingested, SentOf(r, lines - 1), T)
    /\ replayPc = "scan" =>
          \E ds \in DeviceLists(T) : \E j \in 0 .. Len(ds) :
              r[lines] = LineOf(ds) /\ Scanned(r, ds, j, T)

\* Before the first line.
LEMMA ReplayStart ==
    ASSUME NEW T, RecordingLayout(T), ReplayInit, NEW r \in Recordings, recording = r
    PROVE  ReplayInv(r, T)
  <1>1. lines = 0 /\ replayPc = "read" /\ rest = <<>> /\ ingested = <<>>
    BY DEF ReplayInit
  <1>2. SentOf(r, 0) = <<>> /\ 0 \in 0 .. Len(r)
    <2>1. SentOf(r, 0) = <<>> /\ Len(r) \in Nat
      BY RecordingIs
    <2> QED BY <2>1
  <1>3. Alike(r, <<>>, <<>>, T)
    BY DEF Alike, Strings
  <1> QED BY <1>1, <1>2, <1>3 DEF ReplayInv

\* A stop changes nothing else.
LEMMA ReplayStop ==
    ASSUME NEW T, NEW r, ReplayInv(r, T), StopFeeder \/ FeederDone \/ UNCHANGED replayVars
    PROVE  ReplayInv(r, T)'
  <1>1. UNCHANGED <<replayPc, lines, rest, line, cursor, ingested>>
    BY DEF StopFeeder, FeederDone, replayVars
  <1> QED BY <1>1 DEF ReplayInv, Scanned

\* The end of the file is the end of a line.
LEMMA ReplayEnd ==
    ASSUME NEW T, NEW r, ReplayInv(r, T), EndOfFile
    PROVE  ReplayInv(r, T)'
  <1>1. replayPc = "read" /\ replayPc' = "done" /\ UNCHANGED <<lines, rest, line, cursor, ingested>>
    BY DEF EndOfFile
  <1> QED BY <1>1 DEF ReplayInv

\* A line that fits is read whole.
LEMMA ReplayRead ==
    ASSUME NEW T, RecordingLayout(T), NEW r \in Recordings, recording = r, AllFit(r),
           ReplayInv(r, T), ReadLine
    PROVE  ReplayInv(r, T)'
  <1>1. /\ replayPc = "read" /\ rest = <<>> /\ lines \in 0 .. Len(r) /\ lines < Len(r)
        /\ Alike(r, ingested, SentOf(r, lines), T)
        /\ lines' = lines + 1 /\ replayPc' = "devices" /\ UNCHANGED ingested
    BY DEF ReplayInv, ReadLine
  <1>2. /\ Len(r) \in Nat /\ DOMAIN r = 1 .. Len(r)
        /\ \A k \in 1 .. Len(r) : r[k] \in RecordLine(T)
    BY RecordingIs
  <1>3. lines + 1 \in 1 .. Len(r) /\ lines + 1 \in 0 .. Len(r) /\ lines + 1 # 0
        /\ (lines + 1) - 1 = lines
    BY <1>1, <1>2
  <1> DEFINE more == r[lines + 1].tokens
  <1>4. more \in Strings(T) /\ Len(more) <= LineMax
    <2>1. more \in Strings(T)
      BY <1>2, <1>3, RecordLineIs
    <2> QED BY <1>2, <1>3, <2>1 DEF AllFit
  <1>5. PICK chunk \in Buffered(more, LineMax) :
           line' = chunk /\ rest' = SubSeq(more, Len(chunk) + 1, Len(more))
    BY <1>1 DEF ReadLine
  <1> HIDE DEF more
  <1>6. chunk = more
    BY <1>4, <1>5 DEF Buffered
  <1>7. rest' = <<>>
    BY <1>4, <1>5, <1>6 DEF Strings
  <1> QED BY <1>1, <1>3, <1>5, <1>6, <1>7 DEF ReplayInv, more

\* The line that is being read.
LEMMA CurrentLine ==
    ASSUME NEW T, RecordingLayout(T), NEW r \in Recordings, ReplayInv(r, T),
           replayPc \in {"devices", "scan"}
    PROVE  /\ line = r[lines].tokens /\ lines \in 1 .. Len(r) /\ line \in Strings(T)
           /\ SentOf(r, lines) = SentOf(r, lines - 1) \o r[lines].sent
           /\ SentOf(r, lines - 1) \in Strings(Readings(T))
           /\ \/ Positions(line, "devices") = {} /\ r[lines].sent = <<>>
              \/ \E ds \in DeviceLists(T) : r[lines] = LineOf(ds)
  <1>1. lines \in 0 .. Len(r) /\ lines # 0 /\ line = r[lines].tokens
    BY DEF ReplayInv
  <1>2. Len(r) \in Nat /\ \A k \in 1 .. Len(r) : r[k] \in RecordLine(T)
    BY RecordingIs
  <1>3. lines \in 1 .. Len(r) /\ lines - 1 \in 0 .. Len(r)
    BY <1>1, <1>2
  <1>4. /\ SentOf(r, lines) = SentOf(r, lines - 1) \o r[lines].sent
        /\ SentOf(r, lines - 1) \in Strings(Readings(T))
    BY <1>3, RecordingIs
  <1>5. r[lines] \in RecordLine(T)
    BY <1>2, <1>3
  <1>6. /\ r[lines].tokens \in Strings(T)
        /\ \/ Positions(r[lines].tokens, "devices") = {} /\ r[lines].sent = <<>>
           \/ \E ds \in DeviceLists(T) : r[lines] = LineOf(ds)
    BY <1>5, RecordLineIs
  <1> QED BY <1>1, <1>3, <1>4, <1>6

\* Nothing behind a list.
LEMMA NothingBehind ==
    ASSUME NEW S, NEW a \in Strings(S)
    PROVE  a \o <<>> = a
  BY DEF Strings

\* A line without devices stands for nothing; in another the cursor is put
\* before the first device.
LEMMA ReplayFind ==
    ASSUME NEW T, RecordingLayout(T), NEW r \in Recordings, ReplayInv(r, T), FindDevices
    PROVE  ReplayInv(r, T)'
  <1> DEFINE at == Positions(line, "devices")
  <1>1. /\ replayPc = "devices" /\ UNCHANGED <<lines, rest, line, ingested>>
        /\ IF at = {} THEN replayPc' = "read" ELSE replayPc' = "scan" /\ cursor' = Min(at)
    BY DEF FindDevices
  <1>2. /\ lines \in 0 .. Len(r) /\ lines # 0 /\ rest = <<>> /\ line = r[lines].tokens
        /\ Alike(r, ingested, SentOf(r, lines - 1), T)
    BY <1>1 DEF ReplayInv
  <1>3. /\ line \in Strings(T)
        /\ SentOf(r, lines) = SentOf(r, lines - 1) \o r[lines].sent
        /\ SentOf(r, lines - 1) \o <<>> = SentOf(r, lines - 1)
        /\ \/ at = {} /\ r[lines].sent = <<>>
           \/ \E ds \in DeviceLists(T) : r[lines] = LineOf(ds)
    BY ZenonT(30), <1>1, CurrentLine, NothingBehind
  <1>4. at \in SUBSET Nat
    BY <1>3 DEF Positions, Strings
  <1>5. CASE at = {} /\ r[lines].sent = <<>>
    <2>1. Alike(r, ingested, SentOf(r, lines), T)
      BY <1>2, <1>3, <1>5
    <2>2. replayPc' = "read"
      BY <1>1, <1>5
    <2> QED BY <1>1, <1>2, <2>1, <2>2 DEF ReplayInv
  <1>6. CASE \E ds \in DeviceLists(T) : r[lines] = LineOf(ds)
    <2>1. PICK ds \in DeviceLists(T) : r[lines] = LineOf(ds)
      BY <1>6
    <2>2. line = LineOf(ds).tokens
      BY <1>2, <2>1
    <2>3. line[1].key = "timestamp" /\ line[2].key = "devices" /\ Len(line) >= 2
      BY <2>2, LineIs
    <2>4. 2 \in at /\ 1 \notin at /\ \A k \in at : k \in Nat /\ k # 0
      BY <1>3, <2>3 DEF Positions, Strings
    <2>5. Min(at) = 2
      <3> HIDE DEF at
      <3>1. Min(at) \in at /\ Min(at) <= 2
        BY <1>4, <2>4, LeastIs
      <3> QED BY <2>4, <3>1
    <2>6. replayPc' = "scan" /\ cursor' = 2
      BY <1>1, <2>4, <2>5
    <2>7. /\ ds \in ListsOf(T) /\ SightingList(ds) \in ListsOf(Readings(T))
          /\ Len(ds) \in Nat
      BY DeviceListIs
    <2>8. End(ds, 0) = 2 /\ Joined(SightingList(ds))[0] = <<>> /\ 0 \in 0 .. Len(ds)
      <3>1. Joined(ds)[0] = <<>> /\ Joined(SightingList(ds))[0] = <<>>
        BY <2>7, ListJoined
      <3>2. End(ds, 0) = 2
        BY <3>1 DEF End
      <3> QED BY <2>7, <3>1, <3>2
    <2>9. Alike(r, ingested, SentOf(r, lines - 1) \o Joined(SightingList(ds))[0], T)
      BY <1>2, <1>3, <2>8
    <2>10. Scanned(r, ds, 0, T)'
      BY <1>1, <2>6, <2>8, <2>9 DEF Scanned
    <2> QED BY <1>1, <1>2, <2>1, <2>6, <2>8, <2>10 DEF ReplayInv
  <1> QED BY <1>3, <1>5, <1>6

\* A device has an address among the tokens of its line, if it has one.
LEMMA AddressAt ==
    ASSUME NEW T, RecordingLayout(T), NEW ds \in DeviceLists(T), NEW tokens,
           tokens = LineOf(ds).tokens, NEW k \in 1 .. Len(ds), Sightings(ds[k]) # <<>>
    PROVE  \E p \in Positions(tokens, "mac") : End(ds, k - 1) < p /\ p <= End(ds, k)
  <1> DEFINE d == ds[k]
  <1>1. d \in Device(T) /\ DOMAIN d = 1 .. Len(d) /\ Len(d) \in Nat
    <2>1. d \in Device(T)
      BY DeviceListIs
    <2> QED BY SMTT(30), <2>1 DEF Device, Strings
  <1>2. ValueOf(d, "mac", "bad") # "bad"
    BY DEF Sightings, SightingOf
  <1> HIDE DEF d
  <1>3. PICK m \in 1 .. Len(d) : d[m].key = "mac"
    BY <1>1, <1>2, NoValue
  <1> DEFINE from == End(ds, k - 1)
  <1>4. /\ from \in Nat /\ from >= 2 /\ End(ds, k) = from + Len(d)
        /\ End(ds, k) <= Len(tokens)
        /\ \A q \in 1 .. Len(d) : tokens[from + q] = d[q]
    BY DeviceAt DEF d
  <1>5. tokens \in Strings(T)
    BY LineIs
  <1> HIDE DEF from
  <1>6. Len(tokens) \in Nat /\ DOMAIN tokens = 1 .. Len(tokens)
    BY <1>5 DEF Strings
  <1>7. from + m \in 1 .. Len(tokens) /\ from < from + m /\ from + m <= End(ds, k)
    BY <1>1, <1>4, <1>6
  <1>8. from + m \in Positions(tokens, "mac")
    BY <1>3, <1>4, <1>6, <1>7 DEF Positions
  <1> QED BY <1>7, <1>8 DEF from

\* The devices before the next address stand for nothing.
LEMMA SilentBefore ==
    ASSUME NEW T, RecordingLayout(T), NEW r, NEW ds \in DeviceLists(T),
           line = LineOf(ds).tokens, NEW j \in 0 .. Len(ds), NEW i \in j .. Len(ds),
           Scanned(r, ds, j, T), \A p \in NextMacs : p > End(ds, i)
    PROVE  Joined(SightingList(ds))[i] = Joined(SightingList(ds))[j]
  <1>1. Len(ds) \in Nat
    BY DeviceListIs
  <1>2. ASSUME NEW k \in j + 1 .. i PROVE Sightings(ds[k]) = <<>>
    <2> SUFFICES ASSUME Sightings(ds[k]) # <<>> PROVE FALSE
      OBVIOUS
    <2>1. /\ k \in 1 .. Len(ds) /\ k - 1 \in 0 .. Len(ds) /\ k \in 0 .. Len(ds)
          /\ k - 1 \in j .. Len(ds) /\ i \in k .. Len(ds)
      BY <1>1
    <2>2. PICK p \in Positions(line, "mac") : End(ds, k - 1) < p /\ p <= End(ds, k)
      BY <2>1, AddressAt
    <2>3. line \in Strings(T)
      BY LineIs
    <2>4. p \in Nat
      BY <2>3 DEF Positions, Strings
    <2>5. /\ End(ds, j) \in Nat /\ End(ds, k - 1) \in Nat /\ End(ds, j) <= End(ds, k - 1)
      BY <2>1, EndsRise
    <2>6. /\ End(ds, k) \in Nat /\ End(ds, i) \in Nat /\ End(ds, k) <= End(ds, i)
      BY <2>1, EndsRise
    <2>7. p > End(ds, j) /\ p <= End(ds, i)
      BY <2>2, <2>4, <2>5, <2>6
    <2>8. p \in NextMacs
      BY <2>2, <2>7 DEF Scanned, NextMacs
    <2> QED BY <2>4, <2>6, <2>7, <2>8
  <1> QED BY <1>2, SilentDevices

\* Behind the last address of a line all of it has been passed on.
LEMMA ReplayLineEnds ==
    ASSUME NEW T, RecordingLayout(T), NEW r \in Recordings, ReplayInv(r, T), EndOfLine
    PROVE  ReplayInv(r, T)'
  <1>1. /\ replayPc = "scan" /\ NextMacs = {} /\ replayPc' = "read"
        /\ UNCHANGED <<lines, rest, line, cursor, ingested>>
    BY DEF EndOfLine
  <1>2. PICK ds \in DeviceLists(T) : \E j \in 0 .. Len(ds) :
            r[lines] = LineOf(ds) /\ Scanned(r, ds, j, T)
    BY <1>1 DEF ReplayInv
  <1>3. PICK j \in 0 .. Len(ds) : r[lines] = LineOf(ds) /\ Scanned(r, ds, j, T)
    BY <1>2
  <1>4. line = LineOf(ds).tokens /\ lines \in 0 .. Len(r) /\ rest = <<>>
    BY <1>1, <1>3 DEF ReplayInv
  <1>5. Len(ds) \in j .. Len(ds)
    <2>1. Len(ds) \in Nat
      BY DeviceListIs
    <2> QED BY <2>1
  <1>6. Joined(SightingList(ds))[Len(ds)] = Joined(SightingList(ds))[j]
    BY <1>1, <1>3, <1>4, <1>5, SilentBefore
  <1>7. r[lines].sent = Joined(SightingList(ds))[Len(ds)]
    BY <1>3 DEF LineOf, SightingList
  <1>8. SentOf(r, lines) = SentOf(r, lines - 1) \o Joined(SightingList(ds))[j]
    BY <1>1, <1>6, <1>7, CurrentLine
  <1>9. Alike(r, ingested, SentOf(r, lines), T)
    BY <1>3, <1>8 DEF Scanned
  <1> QED BY <1>1, <1>4, <1>9 DEF ReplayInv

\* The device that the next address belongs to.
LEMMA NextDevice ==
    ASSUME NEW T, RecordingLayout(T), NEW r, NEW ds \in DeviceLists(T),
           line = LineOf(ds).tokens, NEW j \in 0 .. Len(ds), Scanned(r, ds, j, T),
           NextMacs # {}
    PROVE  \E i \in j + 1 .. Len(ds) : \E m \in 1 .. Len(ds[i]) :
              /\ Min(NextMacs) = End(ds, i - 1) + m
              /\ ds[i][m].key = "mac" /\ line[Min(NextMacs)] = ds[i][m]
              /\ Min(NextMacs) \in 3 .. Len(line)
              /\ \A p \in NextMacs : p > End(ds, i - 1)
              /\ \A p \in Positions(line, "mac") : p > Min(NextMacs) <=> p > End(ds, i)
  <1> DEFINE p == Min(NextMacs)
             N == Len(ds)
  <1>1. /\ line \in Strings(T) /\ Len(line) = End(ds, N)
    BY LineIs
  <1>2. N \in Nat /\ N \in j .. N /\ \A k \in 1 .. N : ds[k] \in Device(T)
    BY DeviceListIs
  <1>3. Len(line) \in Nat /\ DOMAIN line = 1 .. Len(line)
    BY <1>1 DEF Strings
  <1>4. NextMacs \in SUBSET Nat
    BY <1>3 DEF NextMacs, Positions
  <1>5. p \in NextMacs /\ \A q \in NextMacs : p <= q
    BY <1>4, LeastIs
  <1>6. p \in 1 .. Len(line) /\ line[p].key = "mac" /\ p > cursor
    BY <1>3, <1>5 DEF NextMacs, Positions
  <1>7. End(ds, j) \in Nat /\ End(ds, j) >= 2
    <2>1. 0 \in 0 .. N /\ j \in 0 .. N
      BY <1>2
    <2>2. End(ds, 0) = 2
      <3>1. ds \in ListsOf(T)
        BY DeviceListIs
      <3>2. Joined(ds)[0] = <<>>
        BY <3>1, ListJoined
      <3> QED BY <3>2 DEF End
    <2>3. End(ds, 0) <= End(ds, j) /\ End(ds, j) \in Nat
      BY <2>1, EndsRise
    <2> QED BY <2>2, <2>3
  <1>8. p > End(ds, j)
    BY <1>5 DEF Scanned, NextMacs
  <1> HIDE DEF p
  <1>9. p \in Nat /\ p > 2 /\ p <= End(ds, N) /\ p \in 3 .. Len(line)
    BY <1>1, <1>3, <1>6, <1>7, <1>8
  <1>10. PICK i \in 1 .. N : End(ds, i - 1) < p /\ p <= End(ds, i)
    BY <1>9, DeviceOf
  <1>11. /\ End(ds, i - 1) \in Nat /\ Len(ds[i]) \in Nat
         /\ End(ds, i) = End(ds, i - 1) + Len(ds[i])
         /\ \A m \in 1 .. Len(ds[i]) : line[End(ds, i - 1) + m] = ds[i][m]
    BY DeviceAt
  <1>12. i > j
    <2> SUFFICES ASSUME i <= j PROVE FALSE
      BY <1>2
    <2>1. i \in 0 .. N /\ j \in i .. N
      BY <1>2
    <2>2. End(ds, i) <= End(ds, j) /\ End(ds, i) \in Nat
      BY <2>1, EndsRise
    <2> QED BY <1>7, <1>8, <1>9, <1>10, <2>2
  <1>13. i \in j + 1 .. N
    BY <1>2, <1>12
  <1> DEFINE from == End(ds, i - 1)
             m == p - from
  <1>14. /\ m \in 1 .. Len(ds[i]) /\ p = from + m
    <2> HIDE DEF from
    <2> QED BY <1>9, <1>10, <1>11 DEF from
  <1>15. line[p] = ds[i][m] /\ ds[i][m].key = "mac"
    <2> HIDE DEF from, m
    <2> QED BY <1>6, <1>11, <1>14 DEF from
  <1>16. \A q \in NextMacs : q > from
    <2> HIDE DEF from
    <2> SUFFICES ASSUME NEW q \in NextMacs PROVE q > from
      OBVIOUS
    <2>1. q \in Nat /\ p <= q /\ from \in Nat /\ from < p
      BY <1>4, <1>5, <1>10, <1>11 DEF from, p
    <2> QED BY <1>9, <2>1
  <1>17. \A q \in Positions(line, "mac") : q > p <=> q > End(ds, i)
    <2> SUFFICES ASSUME NEW q \in Positions(line, "mac") PROVE q > p <=> q > End(ds, i)
      OBVIOUS
    <2>1. q \in Nat /\ line[q].key = "mac"
      BY <1>3 DEF Positions
    <2> DEFINE k == q - from
    <2>2. \A a, b \in 1 .. Len(ds[i]) : ds[i][a].key = ds[i][b].key => a = b
      BY <1>2 DEF Device
    <2> HIDE DEF from, m
    <2>3. ASSUME q > p, q <= End(ds, i) PROVE FALSE
      <3>1. k \in 1 .. Len(ds[i]) /\ q = from + k
        BY SMTT(30), <1>9, <1>11, <1>14, <2>1, <2>3 DEF from
      <3> HIDE DEF k
      <3>2. ds[i][k].key = "mac"
        BY <1>11, <2>1, <3>1 DEF from
      <3>3. k = m
        BY <1>14, <1>15, <2>2, <3>1, <3>2
      <3> QED BY <1>9, <1>14, <2>3, <3>1, <3>3
    <2>4. End(ds, i) \in Nat /\ p <= End(ds, i)
      BY <1>10, <1>11
    <2> QED BY <1>9, <2>1, <2>3, <2>4
  <1> QED BY <1>9, <1>13, <1>14, <1>15, <1>16, <1>17 DEF p, from

\* What is left of a line from a position on.
LEMMA SuffixIs ==
    ASSUME NEW T, NEW l \in Seq(T), NEW p \in 1 .. Len(l)
    PROVE  /\ SubSeq(l, p, Len(l)) \in Seq(T)
           /\ Len(SubSeq(l, p, Len(l))) = Len(l) - p + 1
           /\ \A q \in 1 .. Len(l) - p + 1 : SubSeq(l, p, Len(l))[q] = l[p + q - 1]
  <1>1. p \in Int /\ Len(l) \in Int /\ p <= Len(l) /\ \A q \in p .. Len(l) : l[q] \in T
    OBVIOUS
  <1> QED BY <1>1, SubSeqProperties

\* A device that begins at a position ends within what is left of the line.
LEMMA WithinSuffix ==
    ASSUME NEW from \in Nat, NEW k \in Nat, NEW n \in Nat, from + k <= n, NEW q \in 1 .. k
    PROVE  q \in 1 .. n - (from + 1) + 1 /\ (from + 1) + q - 1 = from + q
  OBVIOUS

\* The slice behind the address of a device.
LEMMA SliceIs ==
    ASSUME NEW T, RecordingLayout(T), NEW ds \in DeviceLists(T),
           line = LineOf(ds).tokens, NEW i \in 1 .. Len(ds), NEW m \in 1 .. Len(ds[i]),
           NEW p \in 3 .. Len(line), p = End(ds, i - 1) + m,
           ds[i][m].key = "mac", line[p] = ds[i][m],
           NEW s \in Buffered(SubSeq(line, p, Len(line)), SliceMax)
    PROVE  Matching(Ingested(s), Sightings(ds[i]), Complete(ds[i]), T)
  <1> DEFINE w == SubSeq(line, p, Len(line))
             d == ds[i]
             from == End(ds, i - 1)
  <1>1. line \in Seq(T) /\ Len(line) \in Nat
    <2>1. line \in Strings(T)
      BY LineIs
    <2> QED BY <2>1 DEF Strings
  <1>2. /\ w \in Seq(T) /\ Len(w) = Len(line) - p + 1
        /\ \A q \in 1 .. Len(w) : w[q] = line[p + q - 1]
    <2>1. p \in 1 .. Len(line)
      BY <1>1
    <2>2. /\ w \in Seq(T) /\ Len(w) = Len(line) - p + 1
          /\ \A q \in 1 .. Len(line) - p + 1 : w[q] = line[p + q - 1]
      BY ZenonT(30), <1>1, <2>1, SuffixIs
    <2> HIDE DEF w
    <2> QED BY <2>2
  <1>3. w \in Strings(T) /\ s \in Buffered(w, SliceMax) /\ SliceMax \in Nat /\ SliceMax # 0
    BY <1>2, ReplayParserAssumption DEF Strings
  <1> HIDE DEF w
  <1>4. /\ s \in Strings(T)
        /\ \A q \in 1 .. Len(w) : q <= SliceMax => q <= Len(s) /\ s[q] = w[q]
    BY <1>3, BufferedIs
  <1>5. Len(s) \in Nat
    BY <1>4 DEF Strings
  <1>6. Len(s) # 0 /\ s[1] = d[m]
    <2>1. 1 \in 1 .. Len(w) /\ p + 1 - 1 = p /\ 1 <= SliceMax
      BY <1>1, <1>2, <1>3
    <2>2. 1 <= Len(s) /\ s[1] = w[1] /\ w[1] = line[p]
      BY <1>2, <1>4, <2>1
    <2> QED BY <1>5, <2>2
  <1>7. d \in Device(T) /\ Len(d) \in Nat
    <2>1. d \in Device(T)
      BY DeviceListIs
    <2> QED BY SMTT(30), <2>1 DEF Device, Strings
  <1>8. /\ from \in Nat /\ from + Len(d) <= Len(line)
        /\ \A q \in 1 .. Len(d) : line[from + q] = d[q]
    <2>1. /\ End(ds, i - 1) \in Nat /\ End(ds, i) = End(ds, i - 1) + Len(ds[i])
          /\ End(ds, i) <= Len(line)
      BY DeviceAt
    <2>2. \A q \in 1 .. Len(ds[i]) : line[End(ds, i - 1) + q] = ds[i][q]
      BY SMTT(30), DeviceAt
    <2>3. from \in Nat /\ End(ds, i) = from + Len(d) /\ End(ds, i) <= Len(line)
      BY <2>1
    <2>4. \A q \in 1 .. Len(d) : line[from + q] = d[q]
      BY <2>2
    <2> HIDE DEF from, d
    <2> QED BY <2>3, <2>4
  <1>9. p = from + m /\ m \in 1 .. Len(d) /\ d[m].key = "mac"
    OBVIOUS
  <1> HIDE DEF d, from
  <1>10. ASSUME Complete(d) PROVE Begins(s, d)
    <2>1. d[1].key = "mac" /\ Len(d) <= SliceMax
          /\ \A a, b \in 1 .. Len(d) : d[a].key = d[b].key => a = b
      BY <1>7, <1>10 DEF Complete, Device
    <2>2. m = 1 /\ p = from + 1
      <3>1. 1 \in 1 .. Len(d)
        BY <1>7, <1>9
      <3> QED BY <1>9, <2>1, <3>1
    <2>3. ASSUME NEW q \in 1 .. Len(d) PROVE q <= Len(s) /\ s[q] = d[q]
      <3>1. q \in 1 .. Len(w) /\ q <= SliceMax /\ p + q - 1 = from + q
        <4>1. q \in 1 .. Len(line) - p + 1 /\ p + q - 1 = from + q
          <5> DEFINE n == Len(line)
                     k == Len(d)
          <5>1. /\ q \in 1 .. k /\ k \in Nat /\ n \in Nat /\ from \in Nat
                /\ from + k <= n /\ p = from + 1
            BY <1>1, <1>7, <1>8, <2>2
          <5> HIDE DEF n, k
          <5>2. q \in 1 .. n - (from + 1) + 1 /\ (from + 1) + q - 1 = from + q
            BY <5>1, WithinSuffix
          <5>3. q \in 1 .. n - p + 1 /\ p + q - 1 = from + q
            BY <5>1, <5>2
          <5> QED BY <5>3 DEF n
        <4>2. q <= SliceMax
          BY <1>3, <1>7, <2>1
        <4> QED BY <1>2, <4>1, <4>2
      <3>2. w[q] = line[p + q - 1] /\ line[from + q] = d[q]
        BY <1>2, <1>8, <3>1
      <3> QED BY <1>4, <3>1, <3>2
    <2>4. Len(d) \in 1 .. Len(d)
      BY <1>7, <1>9
    <2> QED BY <2>3, <2>4 DEF Begins
  <1> QED BY <1>4, <1>6, <1>7, <1>9, <1>10, HeardAsMeant DEF d

\* An address passes on one device, and skips those that have none.
LEMMA ReplayIngest ==
    ASSUME NEW T, RecordingLayout(T), NEW r \in Recordings, ReplayInv(r, T), IngestDevice
    PROVE  ReplayInv(r, T)'
  <1> DEFINE p == Min(NextMacs)
  <1>1. /\ replayPc = "scan" /\ NextMacs # {} /\ cursor' = p
        /\ UNCHANGED <<replayPc, lines, rest, line>>
    BY DEF IngestDevice
  <1>2. PICK s \in Buffered(SubSeq(line, p, Len(line)), SliceMax) :
           ingested' = ingested \o Ingested(s)
    BY DEF IngestDevice
  <1>3. PICK ds \in DeviceLists(T) : \E j \in 0 .. Len(ds) :
            r[lines] = LineOf(ds) /\ Scanned(r, ds, j, T)
    BY <1>1 DEF ReplayInv
  <1>4. PICK j \in 0 .. Len(ds) : r[lines] = LineOf(ds) /\ Scanned(r, ds, j, T)
    BY <1>3
  <1>5. /\ line = LineOf(ds).tokens /\ lines \in 0 .. Len(r) /\ lines # 0 /\ rest = <<>>
        /\ line = r[lines].tokens
    BY <1>1, <1>4 DEF ReplayInv
  <1>6. PICK i \in j + 1 .. Len(ds) : \E m \in 1 .. Len(ds[i]) :
              /\ p = End(ds, i - 1) + m
              /\ ds[i][m].key = "mac" /\ line[p] = ds[i][m]
              /\ p \in 3 .. Len(line)
              /\ \A q \in NextMacs : q > End(ds, i - 1)
              /\ \A q \in Positions(line, "mac") : q > p <=> q > End(ds, i)
    BY <1>1, <1>4, <1>5, NextDevice
  <1>7. PICK m \in 1 .. Len(ds[i]) :
              /\ p = End(ds, i - 1) + m
              /\ ds[i][m].key = "mac" /\ line[p] = ds[i][m]
              /\ p \in 3 .. Len(line)
              /\ \A q \in NextMacs : q > End(ds, i - 1)
              /\ \A q \in Positions(line, "mac") : q > p <=> q > End(ds, i)
    BY <1>6
  <1> HIDE DEF p
  <1>8. i \in 1 .. Len(ds) /\ i - 1 \in j .. Len(ds) /\ i \in 0 .. Len(ds) /\ j \in 0 .. Len(ds)
        /\ i - 1 \in 0 .. Len(ds)
    <2>1. Len(ds) \in Nat
      BY DeviceListIs
    <2> QED BY <2>1
  <1> DEFINE S == SightingList(ds)
             so == SentOf(r, lines - 1)
             x == Ingested(s)
             y == Sightings(ds[i])
  <1>9. Joined(S)[i - 1] = Joined(S)[j]
    BY <1>4, <1>5, <1>7, <1>8, SilentBefore
  <1>10. /\ Joined(S)[i] = Joined(S)[j] \o y
         /\ Joined(S)[j] \in Strings(Readings(T)) /\ y \in Strings(Readings(T))
    <2>1. /\ S \in ListsOf(Readings(T)) /\ Len(S) = Len(ds) /\ S[i] = y
          /\ ds[i] \in Device(T)
      BY <1>8, DeviceListIs
    <2>2. Joined(S)[i] = Joined(S)[i - 1] \o S[i] /\ Joined(S)[j] \in Strings(Readings(T))
      <3> HIDE DEF S
      <3> QED BY <1>8, <2>1, ListJoined
    <2>3. y \in Strings(Readings(T))
      BY <2>1, SightingTyped
    <2> QED BY <1>9, <2>1, <2>2, <2>3
  <1>11. Matching(x, y, Complete(ds[i]), T)
    BY <1>2, <1>5, <1>7, <1>8, SliceIs
  <1>12. so \in Strings(Readings(T)) /\ lines \in 1 .. Len(r)
    BY <1>1, CurrentLine
  <1>13. AllComplete(r) => Complete(ds[i])
    <2>1. DOMAIN r = 1 .. Len(r)
      BY RecordingIs
    <2>2. DOMAIN ds = 1 .. Len(ds)
      BY DEF DeviceLists
    <2>3. r[lines].complete <=> \A k \in DOMAIN ds : Complete(ds[k])
      BY <1>4 DEF LineOf
    <2> QED BY <1>8, <1>12, <2>1, <2>2, <2>3 DEF AllComplete
  <1>14. Alike(r, ingested, so \o Joined(S)[j], T)
    BY <1>4 DEF Scanned
  <1> DEFINE before == Joined(S)[j]
  <1>15. (so \o before) \o y = so \o (before \o y)
    <2>1. so \in Seq(Readings(T)) /\ before \in Seq(Readings(T)) /\ y \in Seq(Readings(T))
      BY <1>10, <1>12 DEF Strings
    <2> HIDE DEF so, before, y
    <2> QED BY SMTT(30), <2>1, ConcatAssociative
  <1> HIDE DEF S, so, x, y
  <1>16. Alike(r, ingested \o x, so \o Joined(S)[i], T)
    <2>1. Alike(r, ingested \o x, (so \o before) \o y, T)
      <3> DEFINE b == so \o before
      <3>1. Alike(r, ingested, b, T)
        BY <1>14
      <3> HIDE DEF b, before
      <3>2. Alike(r, ingested \o x, b \o y, T)
        BY <1>11, <1>13, <3>1, AlikeGrows
      <3> QED BY <3>2 DEF b
    <2> QED BY <1>10, <1>15, <2>1
  <1>17. Scanned(r, ds, i, T)'
    <2>1. p \in Nat
      BY <1>7
    <2>2. ingested' = ingested \o x
      BY <1>2 DEF x
    <2>3. Alike(r, ingested', SentOf(r, lines' - 1) \o Joined(SightingList(ds))[i], T)
      BY <1>1, <1>16, <2>2 DEF so, S
    <2> QED BY <1>1, <1>7, <2>1, <2>3 DEF Scanned
  <1> QED BY <1>1, <1>4, <1>5, <1>8, <1>17 DEF ReplayInv

\* No step loses its place in the recording.
LEMMA ReplayStep ==
    ASSUME NEW T, RecordingLayout(T), NEW r \in Recordings, recording = r, AllFit(r),
           ReplayInv(r, T), [ReplayNext]_replayVars
    PROVE  ReplayInv(r, T)'
  <1>1. CASE ReadLine
    BY <1>1, ReplayRead
  <1>2. CASE EndOfFile
    BY <1>2, ReplayEnd
  <1>3. CASE FindDevices
    BY <1>3, ReplayFind
  <1>4. CASE IngestDevice
    BY <1>4, ReplayIngest
  <1>5. CASE EndOfLine
    BY <1>5, ReplayLineEnds
  <1>6. CASE StopFeeder \/ FeederDone \/ UNCHANGED replayVars
    BY <1>6, ReplayStop
  <1> QED BY <1>1, <1>2, <1>3, <1>4, <1>5, <1>6 DEF ReplayNext

\* If every recording is made of devices and other lines as the simulator writes
\* them, then whatever is read of it between two lines is passed on as written:
\* every address once and in order, and complete devices with their own values
\* (replay.c, process_jsonl_file and ingest_json_line).
THEOREM LinesAreIngested ==
    ASSUME NEW T, RecordingLayout(T)
    PROVE  ReplaySpec => []LinesAsSent
  <1> DEFINE Inv == \E r \in Recordings :
                       recording = r /\ (AllFit(r) => ReplayInv(r, T))
  <1>1. ReplayInit => Inv
    <2> SUFFICES ASSUME ReplayInit PROVE Inv
      OBVIOUS
    <2>1. PICK r \in Recordings : recording = r
      BY DEF ReplayInit
    <2>2. ReplayInv(r, T)
      BY <2>1, ReplayStart
    <2> QED BY <2>1, <2>2
  <1>2. Inv /\ [ReplayNext]_replayVars => Inv'
    <2> SUFFICES ASSUME Inv, [ReplayNext]_replayVars PROVE Inv'
      OBVIOUS
    <2>1. PICK r \in Recordings : recording = r /\ (AllFit(r) => ReplayInv(r, T))
      OBVIOUS
    <2>2. recording' = r
      BY <2>1 DEF ReplayNext, replayVars, ReadLine, EndOfFile, FindDevices, IngestDevice,
                  EndOfLine, StopFeeder, FeederDone
    <2>3. AllFit(r) => ReplayInv(r, T)'
      BY <2>1, ReplayStep
    <2> QED BY <2>2, <2>3
  <1>3. Inv => LinesAsSent
    <2> SUFFICES ASSUME Inv, BetweenLines, LinesFit
                 PROVE  /\ Macs(ingested) = Macs(Sent(lines))
                        /\ (\A k \in DOMAIN recording : recording[k].complete) =>
                               ingested = Sent(lines)
      BY DEF LinesAsSent
    <2>1. PICK r \in Recordings : recording = r /\ (AllFit(r) => ReplayInv(r, T))
      OBVIOUS
    <2>2. AllFit(r) /\ Sent(lines) = SentOf(r, lines)
      BY <2>1 DEF LinesFit, AllFit, Sent, SentOf
    <2>3. Alike(r, ingested, SentOf(r, lines), T)
      BY <2>1, <2>2 DEF BetweenLines, ReplayInv
    <2> QED BY <2>1, <2>2, <2>3 DEF Alike, AllComplete
  <1> QED BY <1>1, <1>2, <1>3, PTL DEF ReplaySpec
===============================================================================
