--------------------------------- MODULE Lists ---------------------------------
(* Lists of parts: reports, fields, lines or devices one behind another.      *)
EXTENDS Integers, Sequences

\* The first k of these sequences in one.
Joined(parts) ==
    LET first[k \in 0 .. Len(parts)] == IF k = 0 THEN <<>> ELSE first[k - 1] \o parts[k]
    IN first
================================================================================
