---------------------------- MODULE RadiotapFormat ----------------------------
(***************************************************************************)
(* How a driver lays out a radiotap header (www.radiotap.org, the page     *)
(* src/wifi/wifi_scanner.c refers to) with an 802.11 frame behind it, and  *)
(* which probe requests such a frame stands for.  The reference that       *)
(* WifiParser is compared with.                                            *)
(***************************************************************************)
EXTENDS Integers, Sequences, SequencesExt

\* Alignment and size of the fields up to the antenna signal, bit 5.
Layout == <<[bit |-> 0, align |-> 8, size |-> 8], [bit |-> 1, align |-> 1, size |-> 1],
            [bit |-> 2, align |-> 1, size |-> 1], [bit |-> 3, align |-> 2, size |-> 4],
            [bit |-> 4, align |-> 2, size |-> 2], [bit |-> 5, align |-> 1, size |-> 1]>>

\* Each field takes the first aligned place behind the fields before it; what
\* is present starts behind the presence words.  End[k]: behind the first k.
Place(k, from) == Min({o \in from .. from + 7 : o % Layout[k].align = 0})

EndOfField(k, from, words) ==
    IF Layout[k].bit \in words[1] THEN Place(k, from) + Layout[k].size ELSE from

FieldEnds(words) ==
    LET End[k \in 0 .. Len(Layout)] ==
            IF k = 0 THEN 4 + 4 * Len(words) ELSE EndOfField(k, End[k - 1], words)
    IN End

SignalPlace(words) == Place(6, FieldEnds(words)[5])

\* A frame with these presence words, rlen bytes of radiotap header and "body"
\* bytes of 802.11 frame.  It stands for a sighting if it is a probe request
\* whose header holds all its presence words and a signal strength.
FrameOf(words, rlen, body, type) ==
    LET signal == SignalPlace(words)
    IN [len |-> rlen + body, rlen |-> rlen, words |-> words, type |-> type,
        sent |-> IF /\ 4 + 4 * Len(words) <= rlen /\ 31 \notin Last(words)
                    /\ 5 \in words[1] /\ signal < rlen
                    /\ body >= 24 /\ type = [ftype |-> 0, stype |-> 4]
                 THEN <<[mac |-> rlen + 10, rssi |-> signal]>> ELSE <<>>]

\* The same, captured with all but its last bytes.
Truncated(frame, lost) == [frame EXCEPT !.len = @ - lost,
                           !.sent = IF frame.len - lost - frame.rlen >= 24 THEN @ ELSE <<>>]
===============================================================================
