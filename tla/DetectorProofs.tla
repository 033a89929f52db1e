---------------------------- MODULE DetectorProofs ----------------------------
(* Safety of the life of the process, for every set of command lines and   *)
(* every length of the recording; what it leaves behind when it ends, and  *)
(* what it has seen of a recording when it calls it complete.              *)
EXTENDS Detector, Arguments, Recursion, TLAPS

\* A thread that has been created and not joined.
Unjoined(c) == thread[c] \notin {"none", "joined"}

\* Main is stopping or destroying a component.
Stopping == at \in {"stop", "join", "close"}

\* A thread that is not joined has its flag set, until main waits for it; main
\* passes from one component to the next only when the flag is clear.
JoinInv ==
    /\ \A c \in Components : Unjoined(c) => running[c] \/ (at = "join" /\ who = c)
    /\ at \in {"create", "free", "exit"} => \A c \in Components : ~running[c]
    /\ at = "start" /\ who = "feeder" => \A c \in Components : ~running[c]
    /\ at = "join" \/ at = "close" => ~running[who]
    /\ Stopping => who \in Components
    /\ at \in {"init", "start"} => who \in Components
    /\ Stopping /\ down /\ who # "feeder" => ~running["feeder"]
    /\ Stopping /\ down /\ who = "wifi" => ~running["ble"]
    /\ down => Stopping \/ at \in {"free", "exit"}
    /\ Stopping /\ who = "feeder" => down
    /\ agg = "live" <=> at \notin {"create", "exit"}

\* Main is at scanner s for the first time, or has not come to it yet.
Ahead(s) ==
    \/ at = "create"
    \/ at = "start" /\ who = "feeder"
    \/ at = "init" /\ who = s
    \/ s = "wifi" /\ ~down /\ who = "ble" /\ at \in {"init", "start", "stop", "join", "close"}

\* A scanner whose thread runs, or is about to, has a socket of its own; what
\* is open beyond the standard descriptors belongs to a scanner.
SocketInv ==
    /\ ~down => {0, 1, 2} \subseteq open
    /\ open \subseteq {0, 1, 2} \cup {fd["ble"], fd["wifi"]}
    /\ \A s \in Scanners : fd[s] \in {-1, 0} \/ fd[s] \in open \ {0, 1, 2}
    /\ fd["ble"] = fd["wifi"] => fd["ble"] \in {-1, 0}
    /\ \A s \in Scanners : Ahead(s) => fd[s] = 0
    /\ \A s \in Scanners : Unjoined(s) \/ (at = "start" /\ who = s) => fd[s] \in open \ {0, 1, 2}
    /\ \A s \in Scanners : Stopping /\ ~down /\ who = s => fd[s] \in open \ {0, 1, 2}
    /\ Stopping /\ down /\ who = "wifi" => fd["ble"] = -1
    /\ at \in {"free", "exit"} => \A s \in Scanners : fd[s] \in {-1, 0}

-------------------------------------------------------------------------------
\* Every action keeps the types.
LEMMA TypeStep == ASSUME TypeOK, [Next]_vars PROVE TypeOK'
  <1>0. cfg.interval \in Nat /\ Lines \in Nat BY DetectorAssumption DEF TypeOK
  <1> USE <1>0 DEF TypeOK, Descriptors, Goto, StartNext, CloseNext, GotoInit,
      Leave, ThreadAt, FirstLabel,
         Components, Scanners, mainVars, threadVars, fdVars, replayVars,
         reportVars
  <1>1. CASE Create BY <1>1 DEF Create
  <1>2. CASE CreateFails BY <1>2 DEF CreateFails
  <1>3. CASE LoopTop
    <2>1. CASE g_running BY <1>3, <2>1 DEF LoopTop
    <2>2. CASE ~g_running BY <1>3, <2>2 DEF LoopTop
    <2> QED BY <2>1, <2>2
  <1>4. CASE Sleep BY <1>4 DEF Sleep
  <1>5. CASE WakeUp
    <2>1. CASE g_running BY <1>5, <2>1 DEF WakeUp
    <2>2. CASE ~g_running BY <1>5, <2>2 DEF WakeUp
    <2> QED BY <2>1, <2>2
  <1>6. CASE Snapshot BY <1>6 DEF Snapshot
  <1>7. CASE Report BY <1>7 DEF Report
  <1>8. CASE CycleFails BY <1>8 DEF CycleFails
  <1>9. CASE CheckFinished BY ZenonT(30), <1>9 DEF CheckFinished
  <1>10. CASE CloseFeeder BY <1>10 DEF CloseFeeder
  <1>11. CASE Free BY <1>11 DEF Free
  <1>12. ASSUME NEW s \in Scanners, InitScanner(s) PROVE TypeOK'
    BY <1>12 DEF InitScanner
  <1>13. ASSUME NEW s \in Scanners, InitFails(s) PROVE TypeOK'
    BY <1>13 DEF InitFails
  <1>14. ASSUME NEW s \in Scanners, CloseScanner(s) PROVE TypeOK'
    <2>1. ctrl' \in {"off", "scanning", "gone"}
      BY <1>14 DEF CloseScanner, DisableScan
    <2> QED
      BY ZenonT(30), <1>14, <2>1 DEF CloseScanner
  <1>15. ASSUME NEW c \in Components, StartThread(c) PROVE TypeOK'
    BY <1>15 DEF StartThread
  <1>16. ASSUME NEW c \in Components, StartFails(c) PROVE TypeOK'
    BY <1>16 DEF StartFails
  <1>17. ASSUME NEW c \in Components, Stop(c) PROVE TypeOK'
    <2>1. running' \in [Components -> BOOLEAN]
      <3>1. CASE running[c] BY <1>17, <3>1 DEF Stop
      <3>2. CASE ~running[c] BY <1>17, <3>2, Zenon DEF Stop
      <3> QED BY <3>1, <3>2
    <2>2. at' \in {"join", "close"} /\ who' = c BY <1>17, Zenon DEF Stop
    <2> QED BY <1>17, <2>1, <2>2 DEF Stop
  <1>18. ASSUME NEW c \in Components, Join(c) PROVE TypeOK'
    BY <1>18 DEF Join
  <1>19. ASSUME NEW s \in Scanners, CheckRunning(s) PROVE TypeOK'
    BY <1>19 DEF CheckRunning
  <1>20. ASSUME NEW s \in Scanners, Poll(s) PROVE TypeOK'
    BY <1>20 DEF Poll
  <1>21. ASSUME NEW s \in Scanners, Read(s) PROVE TypeOK'
    BY <1>21 DEF Read
  <1>22. ASSUME NEW s \in Scanners, Update(s) PROVE TypeOK'
    BY <1>22 DEF Update
  <1>23. CASE OpenRecording BY <1>23 DEF OpenRecording
  <1>24. CASE OpenFails BY <1>24 DEF OpenFails
  <1>25. CASE ReadLine BY <1>25 DEF ReadLine
  <1>26. CASE IngestLine
    <2>1. fresh' \in BOOLEAN BY <1>26, Zenon DEF IngestLine
    <2> QED BY <1>26, <2>1 DEF IngestLine
  <1>27. CASE EndOfPass BY <1>27 DEF EndOfPass
  <1>28. CASE Again BY <1>28 DEF Again
  <1>29. CASE Finish BY <1>29 DEF Finish
  <1>30. CASE Signal
    <2>1. g_running' = FALSE /\ UNCHANGED <<cfg, mainVars, agg, threadVars, fdVars, replayVars, reportVars>>
      BY <1>30, Zenon DEF Signal
    <2>2. g_running' \in BOOLEAN BY <2>1, Zenon
    <2> QED BY <2>1, <2>2
  <1>31. CASE Unplug BY <1>31, SMTT(30) DEF Unplug
  <1>32. CASE UNCHANGED vars BY <1>32 DEF vars
  <1> QED
    BY <1>1, <1>2, <1>3, <1>4, <1>5, <1>6, <1>7, <1>8, <1>9, <1>10, <1>11,
       <1>12, <1>13, <1>14, <1>15, <1>16, <1>17, <1>18, <1>19, <1>20, <1>21, <1>22,
       <1>23, <1>24, <1>25, <1>26, <1>27, <1>28, <1>29, <1>30, <1>31, <1>32
    DEF Next, Main, Scan, Feed, Exited

\* Every action keeps the discipline of flags and joins.
LEMMA JoinStep == ASSUME TypeOK, JoinInv, [Next]_vars PROVE JoinInv'
  <1> USE DEF TypeOK, JoinInv, Unjoined, Stopping, Goto, StartNext, CloseNext,
      GotoInit, Leave, ThreadAt, FirstLabel,
         Components, Scanners, mainVars, threadVars, fdVars, replayVars,
         reportVars
  <1>1. CASE Create BY <1>1 DEF Create
  <1>2. CASE CreateFails BY <1>2 DEF CreateFails
  <1>3. CASE LoopTop BY <1>3 DEF LoopTop
  <1>4. CASE Sleep BY <1>4 DEF Sleep
  <1>5. CASE WakeUp BY <1>5 DEF WakeUp
  <1>6. CASE Snapshot BY <1>6 DEF Snapshot
  <1>7. CASE Report BY <1>7 DEF Report
  <1>8. CASE CycleFails BY <1>8 DEF CycleFails
  <1>9. CASE CheckFinished BY <1>9 DEF CheckFinished
  <1>10. CASE CloseFeeder BY <1>10 DEF CloseFeeder
  <1>11. CASE Free BY <1>11 DEF Free
  <1>12. ASSUME NEW s \in Scanners, InitScanner(s) PROVE JoinInv'
    BY <1>12 DEF InitScanner
  <1>13. ASSUME NEW s \in Scanners, InitFails(s) PROVE JoinInv'
    BY <1>13 DEF InitFails
  <1>14. ASSUME NEW s \in Scanners, CloseScanner(s) PROVE JoinInv'
    BY <1>14 DEF CloseScanner
  <1>15. ASSUME NEW c \in Components, StartThread(c) PROVE JoinInv'
    BY <1>15 DEF StartThread
  <1>16. ASSUME NEW c \in Components, StartFails(c) PROVE JoinInv'
    BY <1>16 DEF StartFails
  <1>17. ASSUME NEW c \in Components, Stop(c) PROVE JoinInv'
    BY <1>17 DEF Stop
  <1>18. ASSUME NEW c \in Components, Join(c) PROVE JoinInv'
    BY <1>18 DEF Join
  <1>19. ASSUME NEW s \in Scanners, CheckRunning(s) PROVE JoinInv'
    BY <1>19 DEF CheckRunning
  <1>20. ASSUME NEW s \in Scanners, Poll(s) PROVE JoinInv'
    BY <1>20 DEF Poll
  <1>21. ASSUME NEW s \in Scanners, Read(s) PROVE JoinInv'
    BY <1>21 DEF Read
  <1>22. ASSUME NEW s \in Scanners, Update(s) PROVE JoinInv'
    BY <1>22 DEF Update
  <1>23. CASE OpenRecording BY <1>23 DEF OpenRecording
  <1>24. CASE OpenFails BY <1>24 DEF OpenFails
  <1>25. CASE ReadLine BY <1>25 DEF ReadLine
  <1>26. CASE IngestLine BY <1>26 DEF IngestLine
  <1>27. CASE EndOfPass BY <1>27 DEF EndOfPass
  <1>28. CASE Again BY <1>28 DEF Again
  <1>29. CASE Finish BY <1>29 DEF Finish
  <1>30. CASE Signal BY <1>30 DEF Signal
  <1>31. CASE Unplug BY <1>31 DEF Unplug
  <1>32. CASE UNCHANGED vars BY <1>32 DEF vars
  <1> QED
    BY <1>1, <1>2, <1>3, <1>4, <1>5, <1>6, <1>7, <1>8, <1>9, <1>10, <1>11,
       <1>12, <1>13, <1>14, <1>15, <1>16, <1>17, <1>18, <1>19, <1>20, <1>21, <1>22,
       <1>23, <1>24, <1>25, <1>26, <1>27, <1>28, <1>29, <1>30, <1>31, <1>32
    DEF Next, Main, Scan, Feed, Exited

\* Closing a scanner, whose thread JoinInv says is not running, leaves the
\* other scanner its socket.
LEMMA CloseStep ==
    ASSUME TypeOK, JoinInv, SocketInv, NEW s \in Scanners, CloseScanner(s)
    PROVE SocketInv'
  <1> USE DEF TypeOK, JoinInv, Scanners, Components
  <1>1. ~Unjoined(s) /\ UNCHANGED thread
    BY DEF CloseScanner, Unjoined, threadVars
  <1>2. at = "close" /\ who = s
    BY DEF CloseScanner
  <1>3. CASE fd[s] < 0
    <2>1. down /\ UNCHANGED <<fd, open, down>>
      BY <1>2, <1>3 DEF CloseScanner, fdVars, SocketInv, Stopping, Descriptors
    <2>2. \/ s = "ble" /\ at' = "stop" /\ who' = "wifi"
          \/ s = "wifi" /\ at' = "free" /\ who' = "none"
      BY <2>1 DEF CloseScanner, CloseNext, Goto
    <2>3. fd[s] = -1
      BY <1>3 DEF Descriptors
    <2> QED
      BY <1>1, <1>2, <2>1, <2>2, <2>3 DEF SocketInv, Ahead, Unjoined, Stopping
  <1>4. CASE fd[s] >= 0
    <2>1. open' = open \ {fd[s]} /\ fd' = [fd EXCEPT ![s] = -1] /\ UNCHANGED down
      BY <1>4 DEF CloseScanner
    <2>2. CASE down
      <3>1. \/ s = "ble" /\ at' = "stop" /\ who' = "wifi"
            \/ s = "wifi" /\ at' = "free" /\ who' = "none"
        BY <2>1, <2>2 DEF CloseScanner, CloseNext, Goto
      <3>2. fd[s] \notin open' /\ fd[s] # -1
        BY <1>4, <2>1
      <3>3. \A r \in Scanners : Unjoined(r)' => fd[r]' \in open' \ {0, 1, 2}
        BY <1>1, <2>1, <3>2 DEF SocketInv, Unjoined
      <3>4. CASE s = "ble"
        BY <1>1, <1>2, <2>1, <2>2, <3>1, <3>2, <3>3, <3>4 DEF SocketInv, Ahead,
           Stopping
      <3>5. CASE s = "wifi"
        BY <1>1, <1>2, <2>1, <2>2, <3>1, <3>2, <3>3, <3>5 DEF SocketInv, Ahead,
           Stopping
      <3> QED
        BY <3>4, <3>5
    <2>3. CASE ~down
      <3>1. \/ s = "ble" /\ at' = "init" /\ who' = "wifi"
            \/ at' = "loop" /\ who' = "none"
        BY <2>1, <2>3 DEF CloseScanner, CloseNext, StartNext, Goto
      <3>2. fd[s] \in open \ {0, 1, 2} /\ {0, 1, 2} \subseteq open
        BY <1>2, <2>3 DEF SocketInv, Stopping
      <3>3. s = "ble" => fd["wifi"] = 0
        BY <1>2, <2>3 DEF SocketInv, Ahead
      <3>4. {0, 1, 2} \subseteq open'
        BY <2>1, <3>2
      <3>5. open' \subseteq {0, 1, 2} \cup {fd["ble"]', fd["wifi"]'}
        BY <2>1, <3>2 DEF SocketInv
      <3>6. \A r \in Scanners : fd[r]' \in {-1, 0} \/ fd[r]' \in open' \ {0, 1, 2}
        BY <2>1, <3>2 DEF SocketInv
      <3>7. \A r \in Scanners : Unjoined(r)' => fd[r]' \in open' \ {0, 1, 2}
        <4> SUFFICES ASSUME NEW r \in Scanners, Unjoined(r)' PROVE fd[r]' \in open' \ {0, 1, 2}
          OBVIOUS
        <4>1. r # s /\ Unjoined(r)
          BY <1>1 DEF Unjoined
        <4>2. fd[r]' = fd[r] /\ fd[r] \in open \ {0, 1, 2}
          BY <2>1, <4>1 DEF SocketInv
        <4>3. fd[r] # fd[s]
          BY <3>2, <4>1, <4>2 DEF SocketInv, Descriptors
        <4> QED
          BY <2>1, <4>2, <4>3
      <3>8. \A r \in Scanners : Ahead(r)' => fd[r]' = 0
        BY <1>2, <2>1, <2>3, <3>1, <3>3 DEF Ahead
      <3> QED
        BY <2>1, <2>3, <3>1, <3>4, <3>5, <3>6, <3>7, <3>8 DEF SocketInv, Stopping
    <2> QED
      BY <2>2, <2>3
  <1> QED BY <1>3, <1>4 DEF Descriptors

\* Every action keeps the ownership of the sockets.
LEMMA SocketStep == ASSUME TypeOK, JoinInv, SocketInv, [Next]_vars PROVE SocketInv'
  <1> USE DEF TypeOK, JoinInv, SocketInv, Ahead, Unjoined, Stopping, Goto,
      StartNext, CloseNext, GotoInit, Leave, ThreadAt, FirstLabel,
         Components, Scanners, mainVars, threadVars, fdVars, replayVars,
         reportVars
  <1>1. CASE Create BY <1>1 DEF Create
  <1>2. CASE CreateFails BY <1>2 DEF CreateFails
  <1>3. CASE LoopTop BY <1>3 DEF LoopTop
  <1>4. CASE Sleep BY <1>4 DEF Sleep
  <1>5. CASE WakeUp BY <1>5 DEF WakeUp
  <1>6. CASE Snapshot BY <1>6 DEF Snapshot
  <1>7. CASE Report BY <1>7 DEF Report
  <1>8. CASE CycleFails BY <1>8 DEF CycleFails
  <1>9. CASE CheckFinished BY <1>9 DEF CheckFinished
  <1>10. CASE CloseFeeder BY <1>10 DEF CloseFeeder
  <1>11. CASE Free BY <1>11 DEF Free
  <1>12. ASSUME NEW s \in Scanners, InitScanner(s) PROVE SocketInv'
    BY <1>12 DEF InitScanner
  <1>13. ASSUME NEW s \in Scanners, InitFails(s) PROVE SocketInv'
    BY <1>13 DEF InitFails
  <1>14. ASSUME NEW s \in Scanners, CloseScanner(s) PROVE SocketInv'
    BY <1>14, CloseStep
  <1>15. ASSUME NEW c \in Components, StartThread(c) PROVE SocketInv'
    BY <1>15 DEF StartThread
  <1>16. ASSUME NEW c \in Components, StartFails(c) PROVE SocketInv'
    BY <1>16 DEF StartFails
  <1>17. ASSUME NEW c \in Components, Stop(c) PROVE SocketInv'
    BY <1>17 DEF Stop
  <1>18. ASSUME NEW c \in Components, Join(c) PROVE SocketInv'
    BY <1>18 DEF Join
  <1>19. ASSUME NEW s \in Scanners, CheckRunning(s) PROVE SocketInv'
    BY <1>19 DEF CheckRunning
  <1>20. ASSUME NEW s \in Scanners, Poll(s) PROVE SocketInv'
    BY <1>20 DEF Poll
  <1>21. ASSUME NEW s \in Scanners, Read(s) PROVE SocketInv'
    BY <1>21 DEF Read
  <1>22. ASSUME NEW s \in Scanners, Update(s) PROVE SocketInv'
    BY <1>22 DEF Update
  <1>23. CASE OpenRecording BY <1>23 DEF OpenRecording
  <1>24. CASE OpenFails BY <1>24 DEF OpenFails
  <1>25. CASE ReadLine BY <1>25 DEF ReadLine
  <1>26. CASE IngestLine BY <1>26 DEF IngestLine
  <1>27. CASE EndOfPass BY <1>27 DEF EndOfPass
  <1>28. CASE Again BY <1>28 DEF Again
  <1>29. CASE Finish BY <1>29 DEF Finish
  <1>30. CASE Signal BY <1>30 DEF Signal
  <1>31. CASE Unplug BY <1>31 DEF Unplug
  <1>32. CASE UNCHANGED vars BY <1>32 DEF vars
  <1> QED
    BY <1>1, <1>2, <1>3, <1>4, <1>5, <1>6, <1>7, <1>8, <1>9, <1>10, <1>11,
       <1>12, <1>13, <1>14, <1>15, <1>16, <1>17, <1>18, <1>19, <1>20, <1>21, <1>22,
       <1>23, <1>24, <1>25, <1>26, <1>27, <1>28, <1>29, <1>30, <1>31, <1>32
    DEF Next, Main, Scan, Feed, Exited

IInv == TypeOK /\ JoinInv /\ SocketInv

\* The process starts with the invariant.
LEMMA InitIInv == Init => IInv
  <1> SUFFICES ASSUME Init PROVE IInv
    OBVIOUS
  <1> USE DEF Init, Components, Scanners
  <1>1. TypeOK
    <2>1. 0 \in 0 .. cfg.interval /\ 0 \in 0 .. Lines
      BY DetectorAssumption
    <2>2. fd \in [Scanners -> Descriptors \cup {-1}] /\ open \subseteq Descriptors
      BY DEF Descriptors
    <2>3. /\ running \in [Components -> BOOLEAN]
          /\ \A c \in Components : thread[c] = "none"
          /\ thread \in [Components -> {"none"}]
      OBVIOUS
    <2> HIDE DEF Components, Scanners
    <2> QED
      BY <2>1, <2>2, <2>3 DEF TypeOK
  <1>2. JoinInv
    BY DEF JoinInv, Unjoined, Stopping
  <1>3. SocketInv
    BY DEF SocketInv, Ahead, Unjoined, Stopping
  <1> QED
    BY <1>1, <1>2, <1>3 DEF IInv

\* IInv is an invariant of main.c and its threads.
THEOREM Invariance == Spec => []IInv
  <1>1. Init => IInv
    BY InitIInv
  <1>2. IInv /\ [Next]_vars => IInv'
    BY TypeStep, JoinStep, SocketStep DEF IInv
  <1> QED
    BY <1>1, <1>2, PTL DEF Spec

\* Every variable of the process keeps its type: main.c's counter of slept
\* seconds and the feeder's lines stay in range, and no step of a start or a
\* stop needs a label that does not exist.
THEOREM TypeCorrect == Spec => []TypeOK
  <1>1. IInv => TypeOK
    BY DEF IInv
  <1> QED
    BY <1>1, Invariance, PTL

\* aggregator_destroy is safe without a lock: whichever starts failed and
\* whenever a signal came, a thread inside aggregator_update has the flag of
\* its component set, which is cleared before main goes on to free the table.
THEOREM NoCallAfterDestroy == Spec => []NoUseAfterFree
  <1>1. IInv => NoUseAfterFree
    <2> SUFFICES ASSUME TypeOK, JoinInv PROVE NoUseAfterFree
      BY DEF IInv
    <2>1. \A c \in Components : Unjoined(c) => at \notin {"create", "exit"}
      BY DEF JoinInv
    <2> QED
      BY <2>1 DEF NoUseAfterFree, JoinInv, Unjoined
  <1> QED
    BY <1>1, Invariance, PTL

\* ble_scanner_destroy and wifi_scanner_destroy never close a descriptor that
\* their thread polls or reads: stop joins the thread first.
THEOREM ThreadsKeepTheirSockets == Spec => []NoIoOnClosedSocket
  <1>1. IInv => NoIoOnClosedSocket
    BY DEF IInv, TypeOK, SocketInv, Unjoined, NoIoOnClosedSocket
  <1> QED
    BY <1>1, Invariance, PTL

\* However the process ends - a failed start, a signal, a finished replay -
\* every thread has been joined, every socket closed and the aggregator freed.
THEOREM NothingIsLeftBehind == Spec => []CleanExit
  <1>1. IInv => CleanExit
    <2> SUFFICES ASSUME TypeOK, JoinInv, SocketInv, at = "exit" PROVE CleanExit
      BY DEF IInv, CleanExit
    <2>1. \A c \in Components : thread[c] \in {"none", "joined"}
      BY DEF JoinInv, Unjoined
    <2>2. open \subseteq {0, 1, 2}
      BY DEF SocketInv, Scanners, TypeOK, Descriptors
    <2>3. agg # "live"
      BY DEF JoinInv
    <2> QED
      BY <2>1, <2>2, <2>3 DEF CleanExit
  <1> QED
    BY <1>1, Invariance, PTL

-------------------------------------------------------------------------------
(* What the process leaves behind *)

\* If requests to the controller do what their result says, it scans only
\* while ble_scanner holds a socket of its own.
RadioInv ==
    ReplyMayBeLost \/ DisableMayFail \/ (ctrl = "scanning" => fd["ble"] \notin {-1, 0})

\* With both radios enabled, a scanner whose descriptor is still the 0 of the
\* zeroed struct is one that main has yet to come to.
OwnInv ==
    cfg.ble /\ cfg.wifi /\ ~cfg.replay =>
        /\ {0, 1, 2} \subseteq open
        /\ at = "start" => who # "feeder"
        /\ \A s \in Scanners : fd[s] = 0 => Ahead(s) \/ at = "exit"

\* A feeder that ends while its flag is set has come to the end of the file or
\* not found it, and it is not joined before main has left its loop.
FeedInv ==
    /\ running["feeder"] /\ (finished \/ thread["feeder"] \in {"again", "finish"})
         => consumed \/ cfg.lost
    /\ finished => thread["feeder"] \in {"gone", "joined"}
    /\ thread["feeder"] = "joined" => down
    /\ at = "create" \/ (at = "start" /\ who = "feeder") => thread["feeder"] = "none"
    /\ complete => consumed \/ cfg.lost

-------------------------------------------------------------------------------
\* Every action keeps the tie between the scan and the socket.
LEMMA RadioStep == ASSUME TypeOK, JoinInv, SocketInv, RadioInv, [Next]_vars PROVE RadioInv'
  <1> USE DEF TypeOK, JoinInv, Unjoined, Stopping, Goto,
      StartNext, CloseNext, GotoInit, Leave, ThreadAt, FirstLabel, Components, Scanners,
      mainVars, threadVars, fdVars, replayVars, reportVars,
      SocketInv, Ahead, Descriptors, DisableScan, RadioInv
  <1>1. CASE Create BY <1>1 DEF Create
  <1>2. CASE CreateFails BY <1>2 DEF CreateFails
  <1>3. CASE LoopTop BY <1>3 DEF LoopTop
  <1>4. CASE Sleep BY <1>4 DEF Sleep
  <1>5. CASE WakeUp BY <1>5 DEF WakeUp
  <1>6. CASE Snapshot BY <1>6 DEF Snapshot
  <1>7. CASE Report BY <1>7 DEF Report
  <1>8. CASE CycleFails BY <1>8 DEF CycleFails
  <1>9. CASE CheckFinished BY <1>9 DEF CheckFinished
  <1>10. CASE CloseFeeder BY <1>10 DEF CloseFeeder
  <1>11. CASE Free BY <1>11 DEF Free
  <1>12. ASSUME NEW s \in Scanners, InitScanner(s) PROVE RadioInv'
    BY <1>12 DEF InitScanner
  <1>13. ASSUME NEW s \in Scanners, InitFails(s) PROVE RadioInv'
    BY <1>13 DEF InitFails
  <1>14. ASSUME NEW s \in Scanners, CloseScanner(s) PROVE RadioInv'
    BY <1>14 DEF CloseScanner
  <1>15. ASSUME NEW c \in Components, StartThread(c) PROVE RadioInv'
    BY <1>15 DEF StartThread
  <1>16. ASSUME NEW c \in Components, StartFails(c) PROVE RadioInv'
    BY <1>16 DEF StartFails
  <1>17. ASSUME NEW c \in Components, Stop(c) PROVE RadioInv'
    BY <1>17 DEF Stop
  <1>18. ASSUME NEW c \in Components, Join(c) PROVE RadioInv'
    BY <1>18 DEF Join
  <1>19. ASSUME NEW s \in Scanners, CheckRunning(s) PROVE RadioInv'
    BY <1>19 DEF CheckRunning
  <1>20. ASSUME NEW s \in Scanners, Poll(s) PROVE RadioInv'
    BY <1>20 DEF Poll
  <1>21. ASSUME NEW s \in Scanners, Read(s) PROVE RadioInv'
    BY <1>21 DEF Read
  <1>22. ASSUME NEW s \in Scanners, Update(s) PROVE RadioInv'
    BY <1>22 DEF Update
  <1>23. CASE OpenRecording BY <1>23 DEF OpenRecording
  <1>24. CASE OpenFails BY <1>24 DEF OpenFails
  <1>25. CASE ReadLine BY <1>25 DEF ReadLine
  <1>26. CASE IngestLine BY <1>26 DEF IngestLine
  <1>27. CASE EndOfPass BY <1>27 DEF EndOfPass
  <1>28. CASE Again BY <1>28 DEF Again
  <1>29. CASE Finish BY <1>29 DEF Finish
  <1>30. CASE Signal BY <1>30 DEF Signal
  <1>31. CASE Unplug BY <1>31 DEF Unplug
  <1>32. CASE UNCHANGED vars BY <1>32 DEF vars
  <1> QED
    BY <1>1, <1>2, <1>3, <1>4, <1>5, <1>6, <1>7, <1>8, <1>9, <1>10, <1>11,
       <1>12, <1>13, <1>14, <1>15, <1>16, <1>17, <1>18, <1>19, <1>20, <1>21, <1>22,
       <1>23, <1>24, <1>25, <1>26, <1>27, <1>28, <1>29, <1>30, <1>31, <1>32
    DEF Next, Main, Scan, Feed, Exited

\* Closing a scanner, which main has come to, closes no standard descriptor.
LEMMA OwnCloseStep ==
    ASSUME TypeOK, JoinInv, SocketInv, OwnInv, NEW s \in Scanners, CloseScanner(s)
    PROVE  OwnInv'
  <1> SUFFICES ASSUME cfg.ble /\ cfg.wifi /\ ~cfg.replay
               PROVE  /\ {0, 1, 2} \subseteq open'
                      /\ (at = "start" => who # "feeder")'
                      /\ \A r \in Scanners : fd[r]' = 0 => Ahead(r)' \/ at' = "exit"
    BY DEF OwnInv, CloseScanner
  <1>1. at = "close" /\ who = s /\ UNCHANGED <<cfg, down>>
    BY DEF CloseScanner
  <1>2. fd[s] # 0
    BY <1>1 DEF OwnInv, Ahead, Scanners
  <1>3. {0, 1, 2} \subseteq open'
    BY <1>2 DEF OwnInv, SocketInv, CloseScanner, TypeOK, Descriptors, fdVars
  <1>4. \/ ~down /\ s = "ble" /\ at' = "init" /\ who' = "wifi"
        \/ ~down /\ s = "wifi" /\ at' = "loop"
        \/ down /\ at' \in {"stop", "free"}
    <2>1. CASE down
      BY <2>1 DEF CloseScanner, CloseNext, Goto, Scanners
    <2>2. CASE ~down
      BY <2>2 DEF CloseScanner, CloseNext, StartNext, Goto, Scanners
    <2> QED BY <2>1, <2>2
  <1>5. ASSUME NEW r \in Scanners, fd[r]' = 0 PROVE Ahead(r)' \/ at' = "exit"
    <2>1. r # s /\ fd[r] = 0
      BY <1>2, <1>5 DEF CloseScanner, TypeOK, fdVars
    <2>2. r = "wifi" /\ s = "ble" /\ ~down
      BY <1>1, <2>1 DEF OwnInv, Ahead, Scanners
    <2> QED BY <1>4, <2>2 DEF Ahead
  <1> QED BY <1>3, <1>4, <1>5

\* Every action keeps the standard descriptors out of the scanners' hands.
LEMMA OwnStep == ASSUME TypeOK, JoinInv, SocketInv, OwnInv, [Next]_vars PROVE OwnInv'
  <1> USE DEF TypeOK, JoinInv, Unjoined, Stopping, Goto,
      StartNext, CloseNext, GotoInit, Leave, ThreadAt, FirstLabel, Components, Scanners,
      mainVars, threadVars, fdVars, replayVars, reportVars,
      SocketInv, Ahead, Descriptors, OwnInv
  <1>1. CASE Create BY <1>1 DEF Create
  <1>2. CASE CreateFails BY <1>2 DEF CreateFails
  <1>3. CASE LoopTop BY <1>3 DEF LoopTop
  <1>4. CASE Sleep BY <1>4 DEF Sleep
  <1>5. CASE WakeUp BY <1>5 DEF WakeUp
  <1>6. CASE Snapshot BY <1>6 DEF Snapshot
  <1>7. CASE Report BY <1>7 DEF Report
  <1>8. CASE CycleFails BY <1>8 DEF CycleFails
  <1>9. CASE CheckFinished BY <1>9 DEF CheckFinished
  <1>10. CASE CloseFeeder BY <1>10 DEF CloseFeeder
  <1>11. CASE Free BY <1>11 DEF Free
  <1>12. ASSUME NEW s \in Scanners, InitScanner(s) PROVE OwnInv'
    BY <1>12 DEF InitScanner
  <1>13. ASSUME NEW s \in Scanners, InitFails(s) PROVE OwnInv'
    BY <1>13 DEF InitFails
  <1>14. ASSUME NEW s \in Scanners, CloseScanner(s) PROVE OwnInv'
    BY <1>14, OwnCloseStep
  <1>15. ASSUME NEW c \in Components, StartThread(c) PROVE OwnInv'
    BY <1>15 DEF StartThread
  <1>16. ASSUME NEW c \in Components, StartFails(c) PROVE OwnInv'
    BY <1>16 DEF StartFails
  <1>17. ASSUME NEW c \in Components, Stop(c) PROVE OwnInv'
    BY <1>17 DEF Stop
  <1>18. ASSUME NEW c \in Components, Join(c) PROVE OwnInv'
    BY <1>18 DEF Join
  <1>19. ASSUME NEW s \in Scanners, CheckRunning(s) PROVE OwnInv'
    BY <1>19 DEF CheckRunning
  <1>20. ASSUME NEW s \in Scanners, Poll(s) PROVE OwnInv'
    BY <1>20 DEF Poll
  <1>21. ASSUME NEW s \in Scanners, Read(s) PROVE OwnInv'
    BY <1>21 DEF Read
  <1>22. ASSUME NEW s \in Scanners, Update(s) PROVE OwnInv'
    BY <1>22 DEF Update
  <1>23. CASE OpenRecording BY <1>23 DEF OpenRecording
  <1>24. CASE OpenFails BY <1>24 DEF OpenFails
  <1>25. CASE ReadLine BY <1>25 DEF ReadLine
  <1>26. CASE IngestLine BY <1>26 DEF IngestLine
  <1>27. CASE EndOfPass BY <1>27 DEF EndOfPass
  <1>28. CASE Again BY <1>28 DEF Again
  <1>29. CASE Finish BY <1>29 DEF Finish
  <1>30. CASE Signal BY <1>30 DEF Signal
  <1>31. CASE Unplug BY <1>31 DEF Unplug
  <1>32. CASE UNCHANGED vars BY <1>32 DEF vars
  <1> QED
    BY <1>1, <1>2, <1>3, <1>4, <1>5, <1>6, <1>7, <1>8, <1>9, <1>10, <1>11,
       <1>12, <1>13, <1>14, <1>15, <1>16, <1>17, <1>18, <1>19, <1>20, <1>21, <1>22,
       <1>23, <1>24, <1>25, <1>26, <1>27, <1>28, <1>29, <1>30, <1>31, <1>32
    DEF Next, Main, Scan, Feed, Exited

\* Every action keeps the meaning of the feeder's flags.
LEMMA FeedStep == ASSUME TypeOK, JoinInv, FeedInv, [Next]_vars PROVE FeedInv'
  <1> USE DEF TypeOK, JoinInv, Unjoined, Stopping, Goto,
      StartNext, CloseNext, GotoInit, Leave, ThreadAt, FirstLabel, Components, Scanners,
      mainVars, threadVars, fdVars, replayVars, reportVars, FeedInv
  <1>1. CASE Create BY <1>1 DEF Create
  <1>2. CASE CreateFails BY <1>2 DEF CreateFails
  <1>3. CASE LoopTop BY <1>3 DEF LoopTop
  <1>4. CASE Sleep BY <1>4 DEF Sleep
  <1>5. CASE WakeUp BY <1>5 DEF WakeUp
  <1>6. CASE Snapshot BY <1>6 DEF Snapshot
  <1>7. CASE Report BY <1>7 DEF Report
  <1>8. CASE CycleFails BY <1>8 DEF CycleFails
  <1>9. CASE CheckFinished BY <1>9 DEF CheckFinished
  <1>10. CASE CloseFeeder BY <1>10 DEF CloseFeeder
  <1>11. CASE Free BY <1>11 DEF Free
  <1>12. ASSUME NEW s \in Scanners, InitScanner(s) PROVE FeedInv'
    BY <1>12 DEF InitScanner
  <1>13. ASSUME NEW s \in Scanners, InitFails(s) PROVE FeedInv'
    BY <1>13 DEF InitFails
  <1>14. ASSUME NEW s \in Scanners, CloseScanner(s) PROVE FeedInv'
    BY <1>14 DEF CloseScanner
  <1>15. ASSUME NEW c \in Components, StartThread(c) PROVE FeedInv'
    BY <1>15 DEF StartThread
  <1>16. ASSUME NEW c \in Components, StartFails(c) PROVE FeedInv'
    BY <1>16 DEF StartFails
  <1>17. ASSUME NEW c \in Components, Stop(c) PROVE FeedInv'
    BY <1>17 DEF Stop
  <1>18. ASSUME NEW c \in Components, Join(c) PROVE FeedInv'
    BY <1>18 DEF Join
  <1>19. ASSUME NEW s \in Scanners, CheckRunning(s) PROVE FeedInv'
    BY <1>19 DEF CheckRunning
  <1>20. ASSUME NEW s \in Scanners, Poll(s) PROVE FeedInv'
    BY <1>20 DEF Poll
  <1>21. ASSUME NEW s \in Scanners, Read(s) PROVE FeedInv'
    BY <1>21 DEF Read
  <1>22. ASSUME NEW s \in Scanners, Update(s) PROVE FeedInv'
    BY <1>22 DEF Update
  <1>23. CASE OpenRecording BY <1>23 DEF OpenRecording
  <1>24. CASE OpenFails BY <1>24 DEF OpenFails
  <1>25. CASE ReadLine BY <1>25 DEF ReadLine
  <1>26. CASE IngestLine BY <1>26 DEF IngestLine
  <1>27. CASE EndOfPass BY <1>27 DEF EndOfPass
  <1>28. CASE Again BY <1>28 DEF Again
  <1>29. CASE Finish BY <1>29 DEF Finish
  <1>30. CASE Signal BY <1>30 DEF Signal
  <1>31. CASE Unplug BY <1>31 DEF Unplug
  <1>32. CASE UNCHANGED vars BY <1>32 DEF vars
  <1> QED
    BY <1>1, <1>2, <1>3, <1>4, <1>5, <1>6, <1>7, <1>8, <1>9, <1>10, <1>11,
       <1>12, <1>13, <1>14, <1>15, <1>16, <1>17, <1>18, <1>19, <1>20, <1>21, <1>22,
       <1>23, <1>24, <1>25, <1>26, <1>27, <1>28, <1>29, <1>30, <1>31, <1>32
    DEF Next, Main, Scan, Feed, Exited

-------------------------------------------------------------------------------
ExitInv == IInv /\ RadioInv /\ OwnInv /\ FeedInv

\* The invariant of the exit holds throughout.
LEMMA ExitInvariance == Spec => []ExitInv
  <1>1. Init => ExitInv
    <2>1. Init => RadioInv /\ OwnInv /\ FeedInv
      BY DEF Init, RadioInv, OwnInv, FeedInv, Ahead, Scanners, Components
    <2> QED
      BY <2>1, InitIInv DEF ExitInv
  <1>2. ExitInv /\ [Next]_vars => ExitInv'
    <2>1. ExitInv /\ [Next]_vars => IInv'
      BY TypeStep, JoinStep, SocketStep DEF ExitInv, IInv
    <2> QED
      BY <2>1, RadioStep, OwnStep, FeedStep DEF ExitInv, IInv
  <1> QED
    BY <1>1, <1>2, PTL DEF Spec

\* ble_scanner_destroy turns the scan off on every way out of the process, if
\* the controller does what the results of the HCI requests say.
THEOREM RadioIsLeftOff ==
    ASSUME ~ReplyMayBeLost, ~DisableMayFail
    PROVE  Spec => []RadioOffAtExit
  <1>1. ExitInv => RadioOffAtExit
    BY DEF ExitInv, IInv, SocketInv, RadioInv, RadioOffAtExit, Scanners
  <1> QED
    BY <1>1, ExitInvariance, PTL

\* With both radios enabled and no replay, the destroy functions close only
\* sockets their own init functions opened, whichever of the starts failed.
THEOREM OnlyOwnAreClosed == Spec => []OwnDescriptorsClosed
  <1>1. ExitInv => OwnDescriptorsClosed
    BY DEF ExitInv, OwnInv, OwnDescriptorsClosed
  <1> QED
    BY <1>1, ExitInvariance, PTL

\* The finished flag main reads without a lock says what it means: if the file
\* can be opened, the feeder has come to its end.
THEOREM CompleteIsConsumed == Spec => []CompleteMeansConsumed
  <1>1. ExitInv => CompleteMeansConsumed
    BY DEF ExitInv, FeedInv, CompleteMeansConsumed
  <1> QED
    BY <1>1, ExitInvariance, PTL

-------------------------------------------------------------------------------
\* parse_arguments cannot set an interval of 0, whatever number it is given.
LEMMA IntervalIsPositive ==
    ASSUME NEW x \in Int PROVE IntervalOf(x) \in Nat /\ IntervalOf(x) > 0
  <1>1. UintSize \in Nat /\ UintSize > 0
    BY ArgumentsAssumption
  <1>2. Uint32(x) \in Nat
    BY <1>1 DEF Uint32
  <1> QED
    BY <1>2 DEF IntervalOf

Parsed == [rc: Int,
           cfg: [rssi_cutoff: Int, window: Nat, interval: Nat \ {0}, ttl: Nat,
                 verbose: BOOLEAN, json: BOOLEAN, replay: BOOLEAN, loop: BOOLEAN,
                 ble: BOOLEAN, wifi: BOOLEAN]]

\* The loop over the options starts with, and keeps, a configuration whose
\* interval is positive.
LEMMA OptionsKeepInterval ==
    /\ [rc |-> 0, cfg |-> DefaultConfig] \in Parsed
    /\ \A parsed \in Parsed, o \in [opt: STRING, val: Int] : WithOption(parsed, o) \in Parsed
  <1>1. [rc |-> 0, cfg |-> DefaultConfig] \in Parsed
    BY DEF Parsed, DefaultConfig, DefaultRssiCutoff, DefaultWindow, DefaultInterval, DefaultTtl
  <1>2. ASSUME NEW parsed \in Parsed, NEW o \in [opt: STRING, val: Int]
        PROVE  WithOption(parsed, o) \in Parsed
    <2>1. Uint32(o.val) \in Nat /\ Int32(o.val) \in Int
      BY ArgumentsAssumption DEF Uint32, Int32
    <2>2. IntervalOf(o.val) \in Nat \ {0}
      BY IntervalIsPositive
    <2> DEFINE With(f, v) == [parsed EXCEPT !.cfg = [@ EXCEPT ![f] = v]]
    <2>4. \A v \in Int : With("rssi_cutoff", v) \in Parsed
      BY DEF Parsed
    <2>5. \A v \in Nat : With("window", v) \in Parsed /\ With("ttl", v) \in Parsed
      BY DEF Parsed
    <2>6. \A v \in Nat \ {0} : With("interval", v) \in Parsed
      BY DEF Parsed
    <2>7. \A f \in {"verbose", "json", "replay", "loop", "ble", "wifi"}, v \in BOOLEAN :
              With(f, v) \in Parsed
      BY DEF Parsed
    <2>8. \A v \in Int : [parsed EXCEPT !.rc = v] \in Parsed
      BY DEF Parsed
    <2>9. WithOption(parsed, o) \in
              {parsed, With("rssi_cutoff", Int32(o.val)), With("window", Uint32(o.val)),
               With("interval", IntervalOf(o.val)), With("ttl", Uint32(o.val)),
               With("json", TRUE), With("replay", TRUE), With("loop", TRUE), With("ble", FALSE),
               With("wifi", FALSE), With("verbose", TRUE), [parsed EXCEPT !.rc = 1],
               [parsed EXCEPT !.rc = -1]}
      BY DEF WithOption
    <2> HIDE DEF With
    <2>10. /\ With("rssi_cutoff", Int32(o.val)) \in Parsed
           /\ With("window", Uint32(o.val)) \in Parsed
           /\ With("interval", IntervalOf(o.val)) \in Parsed
           /\ With("ttl", Uint32(o.val)) \in Parsed
      BY <2>1, <2>2, <2>4, <2>5, <2>6
    <2>11. /\ With("json", TRUE) \in Parsed /\ With("replay", TRUE) \in Parsed
           /\ With("loop", TRUE) \in Parsed /\ With("ble", FALSE) \in Parsed
           /\ With("wifi", FALSE) \in Parsed /\ With("verbose", TRUE) \in Parsed
      BY <2>7
    <2>12. [parsed EXCEPT !.rc = 1] \in Parsed /\ [parsed EXCEPT !.rc = -1] \in Parsed
      BY <2>8
    <2> QED
      BY <2>9, <2>10, <2>11, <2>12, Zenon
  <1> QED BY <1>1, <1>2

\* main never runs two estimation cycles without a second of sleep between
\* them, if no configuration has an interval of 0.
THEOREM CyclesAreApart ==
    ASSUME \A c \in Configs : c.interval > 0
    PROVE  Spec => CyclesAreSpaced
  <1>1. TypeOK /\ [Next]_vars => [at # "cycle" /\ at' = "cycle" => slept > 0]_vars
    <2> SUFFICES ASSUME TypeOK, Next, at # "cycle", at' = "cycle" PROVE slept > 0
      OBVIOUS
    <2>1. WakeUp
      <3> USE DEF Goto, GotoInit, StartNext, CloseNext, Leave, mainVars, Scanners, Components
      <3>1. ASSUME NEW s \in Scanners PROVE ~(InitScanner(s) \/ InitFails(s))
        BY <3>1 DEF InitScanner, InitFails
      <3>2. ASSUME NEW s \in Scanners PROVE ~CloseScanner(s)
        BY <3>2 DEF CloseScanner
      <3>3. ASSUME NEW c \in Components PROVE ~(StartThread(c) \/ StartFails(c))
        BY <3>3 DEF StartThread, StartFails
      <3>4. ASSUME NEW c \in Components PROVE ~(Stop(c) \/ Join(c))
        BY <3>4 DEF Stop, Join
      <3>5. ~(Create \/ CreateFails \/ CloseFeeder \/ Free)
        BY DEF Create, CreateFails, CloseFeeder, Free
      <3>6. ~(LoopTop \/ Sleep \/ Snapshot \/ Report \/ CycleFails \/ CheckFinished)
        BY DEF LoopTop, Sleep, Snapshot, Report, CycleFails, CheckFinished
      <3>7. ASSUME NEW s \in Scanners PROVE ~Scan(s)
        BY <3>7 DEF Scan, CheckRunning, Poll, Read, Update
      <3>8. ~Feed
        BY DEF Feed, OpenRecording, OpenFails, ReadLine, IngestLine, EndOfPass, Again, Finish
      <3>9. ~(Signal \/ Unplug \/ Exited)
        BY DEF Signal, Unplug, Exited, vars
      <3> QED
        BY <3>1, <3>2, <3>3, <3>4, <3>5, <3>6, <3>7, <3>8, <3>9 DEF Next, Main
    <2> QED
      BY <2>1, DetectorAssumption DEF TypeOK, WakeUp, Leave, Goto
  <1> QED
    BY <1>1, TypeCorrect, PTL DEF Spec, CyclesAreSpaced

\* What getopt_long may deliver.
Option == [opt: STRING, val: Int]

\* parse_arguments ends with such a configuration, however many options there are.
LEMMA OptionsParsed ==
    ASSUME NEW options \in Seq(Option)
    PROVE  ParseArguments(options) \in Parsed
  <1> DEFINE N == Len(options)
             base == [rc |-> 0, cfg |-> DefaultConfig]
             F == [k \in 1 .. N |-> [p \in Parsed |-> WithOption(p, options[k])]]
             Solves(g) == g = [n \in 0 .. N |-> IF n = 0 THEN base
                                                ELSE WithOption(g[n - 1], options[n])]
             f == CHOOSE g : Solves(g)
  <1>1. ParseArguments(options) = f[N]
    BY DEF ParseArguments
  <1>2. N \in Nat /\ \A k \in 1 .. N : options[k] \in Option
    OBVIOUS
  <1>3. base \in Parsed /\ \A k \in 1 .. N : \A p \in Parsed : WithOption(p, options[k]) \in Parsed
    BY <1>2, OptionsKeepInterval DEF Option
  <1> HIDE DEF N, base
  <1>4. F \in Rounds(Parsed, N)
    BY <1>3 DEF Rounds
  <1>5. PICK g : SolvesRounds(g, Parsed, N, base, F)
    <2> HIDE DEF F, Solves
    <2> QED BY <1>2, <1>3, <1>4, RecursionSolved
  <1>6. \A k \in 1 .. N : k - 1 \in 0 .. N /\ g[k - 1] \in Parsed /\ k \in 0 .. N /\ k # 0
    BY <1>2, <1>5 DEF SolvesRounds
  <1>7. \A k \in 1 .. N : g[k] = WithOption(g[k - 1], options[k])
    BY <1>5, <1>6 DEF SolvesRounds
  <1>8. Solves(g)
    <2> HIDE DEF F
    <2>1. \A k \in 0 .. N : k # 0 => k \in 1 .. N
      BY <1>2
    <2> QED BY <1>5, <1>7, <2>1 DEF SolvesRounds
  <1>9. Solves(f)
    <2> HIDE DEF Solves
    <2> QED BY <1>8
  <1> HIDE DEF f
  <1>10. f[0] = base /\ \A k \in 1 .. N : f[k] = WithOption(f[k - 1], options[k])
    BY <1>2, <1>6, <1>9
  <1>11. \A k \in 0 .. N : f[k] = g[k]
    <2> HIDE DEF Solves, F
    <2>1. f[0] = g[0] /\ \A k \in 1 .. N : f[k - 1] = g[k - 1] => f[k] = g[k]
      BY <1>5, <1>7, <1>10 DEF SolvesRounds
    <2> QED BY ZenonT(30), <1>2, <2>1, RecursionUnique
  <1>12. N \in 0 .. N /\ g[N] \in Parsed
    BY <1>2, <1>5 DEF SolvesRounds
  <1> QED BY <1>1, <1>11, <1>12

\* Whatever the command line, main never runs two estimation cycles without a
\* second of sleep between them: parse_arguments leaves no interval of 0 behind,
\* whichever options it is given, how often, in which order and with which numbers.
THEOREM CommandLinesSpaceCycles ==
    ASSUME Configs \subseteq UNION {Started(o, lost) : o \in Seq(Option), lost \in BOOLEAN}
    PROVE  Spec => CyclesAreSpaced
  <1>1. ASSUME NEW c \in Configs PROVE c.interval > 0
    <2>1. PICK o \in Seq(Option), lost \in BOOLEAN : c \in Started(o, lost)
      OBVIOUS
    <2>2. ParseArguments(o) \in Parsed
      BY OptionsParsed
    <2>3. ParseArguments(o).cfg.interval \in Nat \ {0}
      BY <2>2 DEF Parsed
    <2>4. c.interval = ParseArguments(o).cfg.interval
      BY <2>1 DEF Started
    <2> QED BY <2>3, <2>4
  <1> QED BY <1>1, CyclesAreApart
===============================================================================
