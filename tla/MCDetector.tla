------------------------------ MODULE MCDetector ------------------------------
(* Small instances of Detector for TLC: command lines and what becomes of them. *)
EXTENDS Detector, Arguments

Option(opt) == [opt |-> opt, val |-> 0]
Every(n) == [opt |-> "interval", val |-> n]

Radios == {<<>>, <<Option("no-ble")>>, <<Option("no-wifi")>>,
           <<Option("no-wifi"), Option("no-ble")>>}

\* 0 and a number that is cut to 0; 2; a number given twice; none given.
Intervals == {<<Every(0)>>, <<Every(UintSize)>>, <<Every(2)>>, <<Every(7), Every(UintSize + 2)>>,
              <<>>}

LiveConfigs == UNION {Started(Append(o, Every(2)), FALSE) : o \in Radios}

BothRadios == Started(<<Every(1)>>, FALSE)

FiniteReplay == Started(<<Option("replay"), Every(1)>>, FALSE)

LostReplay == Started(<<Option("replay"), Every(1)>>, TRUE)

ReplayConfigs ==
    UNION {Started(<<Option("replay"), Every(2)>> \o loop, lost) :
               loop \in {<<>>, <<Option("replay-loop")>>}, lost \in BOOLEAN}

\* Command lines that end in usage start nothing.
UsageOnly == {<<Option("help"), Option("replay")>>, <<Option("no-ble"), Option("bogus")>>}

AllConfigs ==
    LiveConfigs \cup ReplayConfigs
    \cup UNION {Started(i \o <<Option("verbose")>>, FALSE) : i \in Intervals}
    \cup UNION {Started(o, FALSE) : o \in UsageOnly}

ASSUME UsageStartsNothing == \A o \in UsageOnly : ParseArguments(o).rc # 0
==============================================================================
