-------------------------------- MODULE MCReplay --------------------------------
(* Recordings with a line of two devices, and a line buffer for one and a half. *)
EXTENDS ReplayParser

Json == INSTANCE RecordingFormat

Device(m) ==
    <<Json!Token("mac", m), Json!Token("protocol", "wifi"), Json!Token("rssi", -40),
      Json!Token("tx_power", 4)>>

Line(devices) == Json!LineOf([k \in DOMAIN devices |-> Device(devices[k])])

McRecordings ==
    {<<Line(<<"m1", "m2">>)>>, <<Line(<<"m1", "m2", "m3">>), Line(<<"m1">>)>>,
     <<Line(<<"m3">>), Line(<<"m1", "m2">>)>>}

McCut(token) == Json!CutToken(token)
=================================================================================
