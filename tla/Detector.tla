------------------------------- MODULE Detector -------------------------------
(***************************************************************************)
(* The life of one person_detector process: src/main.c with the start,     *)
(* stop and destroy operations and the threads of ble_scanner.c,           *)
(* wifi_scanner.c and replay.c.                                            *)
(*                                                                         *)
(* Main and each thread take the steps between two accesses to what they   *)
(* share: the running and finished flags, the aggregator, the descriptors. *)
(* What the threads parse is left out; Aggregator.tla has what an update,  *)
(* a prune and a snapshot do, Estimator.tla what is made of a snapshot.    *)
(* The flags are volatile bools and are modelled as atomic.                *)
(***************************************************************************)
EXTENDS Integers, FiniteSets

CONSTANTS
    Configs,         \* what parse_arguments may return, and in "lost" whether
                     \* fopen of the recording may fail
    Lines,           \* lines of the recording
    AllocMayFail,    \* whether an estimation cycle may run out of memory
    ReplyMayBeLost,  \* whether the controller may start to scan although the
                     \* HCI request to do so times out
    DisableMayFail   \* whether the HCI request to stop scanning may fail

ASSUME DetectorAssumption ==
    /\ Configs \subseteq [replay: BOOLEAN, loop: BOOLEAN, ble: BOOLEAN,
                    wifi: BOOLEAN, lost: BOOLEAN, interval: Nat]
    /\ Lines \in Nat
    /\ {AllocMayFail, ReplyMayBeLost, DisableMayFail} \subseteq BOOLEAN

Scanners == {"ble", "wifi"}
Components == Scanners \cup {"feeder"}

Descriptors == 0 .. 4  \* the standard three and a socket for each scanner

VARIABLES
    cfg,        \* the configuration, fixed by the command line
    g_running,  \* cleared by SIGINT and SIGTERM
    at,         \* where main is
    who,        \* the component main is starting or stopping, or "none"
    down,       \* whether main has left its loop
    slept,      \* seconds slept in this interval
    agg,        \* the aggregator: "none", "live" or "freed"
    running,    \* the running flag of each component
    thread,     \* where the thread of each component is
    fd,         \* hci_fd and sock_fd; the structs start out as zeros
    open,       \* open descriptors of the process
    ctrl,       \* the BLE controller: "off", "scanning" or "gone"
    unread,     \* lines of the recording left in this pass
    consumed,   \* whether a pass has reached the end of the recording
    finished,   \* g_replay_feeder.finished
    fresh,      \* whether there are sightings no snapshot has taken yet
    taken,      \* whether the snapshot at hand has sightings no report has
    complete    \* whether main left its loop for "Replay complete"

mainVars == <<at, who, down, slept>>
threadVars == <<running, thread>>
fdVars == <<fd, open, ctrl>>
replayVars == <<unread, consumed, finished>>
reportVars == <<fresh, taken, complete>>
vars == <<cfg, g_running, mainVars, agg, threadVars, fdVars, replayVars, reportVars>>

Init ==
    /\ cfg \in Configs
    /\ g_running = TRUE
    /\ at = "create" /\ who = "none" /\ down = FALSE /\ slept = 0
    /\ agg = "none"
    /\ running = [c \in Components |-> FALSE]
    /\ thread = [c \in Components |-> "none"]
    /\ fd = [s \in Scanners |-> 0] /\ open = {0, 1, 2} /\ ctrl = "off"
    /\ unread = 0 /\ consumed = FALSE /\ finished = FALSE
    /\ fresh = FALSE /\ taken = FALSE /\ complete = FALSE

Goto(a, c) == at' = a /\ who' = c

\* SIGINT or SIGTERM, once the handlers are installed.
Signal ==
    /\ g_running
    /\ g_running' = FALSE
    /\ UNCHANGED <<cfg, mainVars, agg, threadVars, fdVars, replayVars, reportVars>>

\* The adapter is pulled out; its controller stops scanning.
Unplug ==
    /\ ctrl # "gone"
    /\ ctrl' = "gone"
    /\ UNCHANGED <<cfg, g_running, mainVars, agg, threadVars, fd, open, replayVars, reportVars>>

-------------------------------------------------------------------------------
(* main: start *)

GotoInit ==
    IF cfg.ble THEN Goto("init", "ble")
    ELSE IF cfg.wifi THEN Goto("init", "wifi") ELSE Goto("loop", "none")

Create ==
    /\ at = "create"
    /\ agg' = "live"
    /\ IF cfg.replay THEN Goto("start", "feeder") ELSE GotoInit
    /\ UNCHANGED <<cfg, g_running, down, slept, threadVars, fdVars, replayVars, reportVars>>

CreateFails ==
    /\ at = "create"
    /\ Goto("exit", "none")
    /\ UNCHANGED <<cfg, g_running, down, slept, agg, threadVars, fdVars, replayVars, reportVars>>

\* Main is through with the start of scanner s, successful or not.
StartNext(s) ==
    IF s = "ble" /\ cfg.wifi THEN Goto("init", "wifi") ELSE Goto("loop", "none")

\* A socket gets the lowest free descriptor.  ble_scanner_init also makes the
\* controller scan, so it needs one.
InitScanner(s) ==
    /\ at = "init" /\ who = s
    /\ s = "ble" => ctrl # "gone"
    /\ \E d \in Descriptors \ open :
          /\ \A e \in Descriptors \ open : d <= e
          /\ fd' = [fd EXCEPT ![s] = d]
          /\ open' = open \cup {d}
    /\ ctrl' = IF s = "ble" THEN "scanning" ELSE ctrl
    /\ Goto("start", s)
    /\ UNCHANGED <<cfg, g_running, down, slept, agg, threadVars, replayVars, reportVars>>

\* Mutant: a failed init leaves the descriptor as the memset made it.
InitFailsZeroed(s) ==
    /\ at = "init" /\ who = s
    /\ StartNext(s)
    /\ UNCHANGED <<cfg, g_running, down, slept, agg, threadVars, fdVars, replayVars, reportVars>>

\* Some step of ble_scanner_init or wifi_scanner_init fails: what was opened
\* is closed again.
InitFails(s) ==
    /\ at = "init" /\ who = s
    /\ fd' = [fd EXCEPT ![s] = -1]
    /\ ctrl' \in {ctrl} \cup
                 (IF ReplyMayBeLost /\ s = "ble" /\ ctrl = "off" THEN {"scanning"} ELSE {})
    /\ StartNext(s)
    /\ UNCHANGED <<cfg, g_running, down, slept, agg, threadVars, open, replayVars, reportVars>>

FirstLabel(c) == IF c = "feeder" THEN "open" ELSE "check"

\* replay_feeder_start, ble_scanner_start, wifi_scanner_start
StartThread(c) ==
    /\ at = "start" /\ who = c
    /\ running' = [running EXCEPT ![c] = TRUE]
    /\ thread' = [thread EXCEPT ![c] = FirstLabel(c)]
    /\ IF c = "feeder" THEN Goto("loop", "none") ELSE StartNext(c)
    /\ UNCHANGED <<cfg, g_running, down, slept, agg, fdVars, replayVars, reportVars>>

\* pthread_create fails: a scanner is destroyed, a replay is given up.
StartFails(c) ==
    /\ at = "start" /\ who = c
    /\ IF c = "feeder" THEN Goto("exit", "none") /\ agg' = "freed"
                       ELSE Goto("stop", c) /\ UNCHANGED agg
    /\ UNCHANGED <<cfg, g_running, down, slept, threadVars, fdVars, replayVars, reportVars>>

-------------------------------------------------------------------------------
(* main: the estimation loop *)

Leave == Goto("stop", "feeder") /\ down' = TRUE

LoopTop ==
    /\ at = "loop"
    /\ IF g_running THEN Goto("sleep", "none") /\ UNCHANGED down ELSE Leave
    /\ slept' = 0
    /\ UNCHANGED <<cfg, g_running, agg, threadVars, fdVars, replayVars, reportVars>>

\* Mutant: one second too many.
SleepOver ==
    /\ at = "sleep"
    /\ slept <= cfg.interval /\ g_running
    /\ slept' = slept + 1
    /\ UNCHANGED <<cfg, g_running, at, who, down, agg, threadVars, fdVars, replayVars, reportVars>>

Sleep ==
    /\ at = "sleep"
    /\ slept < cfg.interval /\ g_running
    /\ slept' = slept + 1
    /\ UNCHANGED <<cfg, g_running, at, who, down, agg, threadVars, fdVars, replayVars, reportVars>>

WakeUp ==
    /\ at = "sleep"
    /\ ~(slept < cfg.interval /\ g_running)
    /\ IF g_running THEN Goto("cycle", "none") /\ UNCHANGED down ELSE Leave
    /\ slept' = 0
    /\ UNCHANGED <<cfg, g_running, agg, threadVars, fdVars, replayVars, reportVars>>

\* run_estimation_cycle, up to the copy of the table.
Snapshot ==
    /\ at = "cycle"
    /\ Goto("report", "none")
    /\ taken' = fresh /\ fresh' = FALSE
    /\ UNCHANGED <<cfg, g_running, down, slept, agg, threadVars, fdVars, replayVars, complete>>

\* The rest of it: estimate, print, append to the JSON file.
Report ==
    /\ at = "report"
    /\ Goto("finished", "none")
    /\ taken' = FALSE
    /\ UNCHANGED <<cfg, g_running, down, slept, agg, threadVars, fdVars, replayVars, fresh, complete>>

\* No memory for the snapshot or for the estimate: nothing is reported.
CycleFails ==
    /\ AllocMayFail
    /\ at \in {"cycle", "report"}
    /\ Goto("finished", "none")
    /\ fresh' = (fresh \/ taken) /\ taken' = FALSE
    /\ UNCHANGED <<cfg, g_running, down, slept, agg, threadVars, fdVars, replayVars, complete>>

\* Mutant: any finite replay is over after its first report.
CheckFinishedAtOnce ==
    /\ at = "finished"
    /\ IF cfg.replay /\ ~cfg.loop
       THEN Leave /\ complete' = TRUE
       ELSE Goto("loop", "none") /\ UNCHANGED <<down, complete>>
    /\ UNCHANGED <<cfg, g_running, slept, agg, threadVars, fdVars, replayVars, fresh, taken>>

CheckFinished ==
    /\ at = "finished"
    /\ IF cfg.replay /\ ~cfg.loop /\ finished
       THEN Leave /\ complete' = TRUE
       ELSE Goto("loop", "none") /\ UNCHANGED <<down, complete>>
    /\ UNCHANGED <<cfg, g_running, slept, agg, threadVars, fdVars, replayVars, fresh, taken>>

-------------------------------------------------------------------------------
(* main: stop and destroy.  Run for one scanner when its thread could not  *)
(* be started, and for all three components by shutdown_scanners.          *)

\* Mutant: the thread is told to stop and not waited for.
StopUnjoined(c) ==
    /\ at = "stop" /\ who = c
    /\ running' = [running EXCEPT ![c] = FALSE]
    /\ Goto("close", c)
    /\ UNCHANGED <<cfg, g_running, down, slept, agg, thread, fdVars, replayVars, reportVars>>

Stop(c) ==
    /\ at = "stop" /\ who = c
    /\ IF running[c]
       THEN running' = [running EXCEPT ![c] = FALSE] /\ Goto("join", c)
       ELSE Goto("close", c) /\ UNCHANGED running
    /\ UNCHANGED <<cfg, g_running, down, slept, agg, thread, fdVars, replayVars, reportVars>>

Join(c) ==
    /\ at = "join" /\ who = c
    /\ thread[c] = "gone"
    /\ thread' = [thread EXCEPT ![c] = "joined"]
    /\ Goto("close", c)
    /\ UNCHANGED <<cfg, g_running, down, slept, agg, running, fdVars, replayVars, reportVars>>

CloseNext(c) ==
    IF ~down THEN StartNext(c)
    ELSE CASE c = "feeder" -> Goto("stop", "ble")
           [] c = "ble" -> Goto("stop", "wifi")
           [] c = "wifi" -> Goto("free", "none")

CloseFeeder ==
    /\ at = "close" /\ who = "feeder"
    /\ CloseNext("feeder")
    /\ UNCHANGED <<cfg, g_running, down, slept, agg, threadVars, fdVars, replayVars, reportVars>>

\* The HCI request of ble_scanner_destroy, its result ignored.
DisableScan(s) ==
    IF s = "ble" /\ ctrl = "scanning"
    THEN ctrl' \in {"off"} \cup (IF DisableMayFail THEN {ctrl} ELSE {})
    ELSE UNCHANGED ctrl

\* Mutant: only a scanner that was started has its scan disabled.
CloseStartedScanner(s) ==
    /\ at = "close" /\ who = s
    /\ IF fd[s] >= 0
       THEN /\ open' = open \ {fd[s]}
            /\ fd' = [fd EXCEPT ![s] = -1]
            /\ IF thread[s] = "joined" THEN DisableScan(s) ELSE UNCHANGED ctrl
       ELSE UNCHANGED fdVars
    /\ CloseNext(s)
    /\ UNCHANGED <<cfg, g_running, down, slept, agg, threadVars, replayVars, reportVars>>

\* The scan is disabled through the device name, which a struct that was never
\* initialised does not have; fd 0 is closed like any other.
CloseScanner(s) ==
    /\ at = "close" /\ who = s
    /\ IF fd[s] >= 0
       THEN /\ open' = open \ {fd[s]}
            /\ fd' = [fd EXCEPT ![s] = -1]
            /\ DisableScan(s)
       ELSE UNCHANGED fdVars
    /\ CloseNext(s)
    /\ UNCHANGED <<cfg, g_running, down, slept, agg, threadVars, replayVars, reportVars>>

\* aggregator_destroy, logger_shutdown, return
Free ==
    /\ at = "free"
    /\ agg' = "freed"
    /\ Goto("exit", "none")
    /\ UNCHANGED <<cfg, g_running, down, slept, threadVars, fdVars, replayVars, reportVars>>

Main ==
    \/ Create \/ CreateFails
    \/ \E s \in Scanners : InitScanner(s) \/ InitFails(s) \/ CloseScanner(s)
    \/ \E c \in Components : StartThread(c) \/ StartFails(c) \/ Stop(c) \/ Join(c)
    \/ LoopTop \/ Sleep \/ WakeUp \/ Snapshot \/ Report \/ CycleFails \/ CheckFinished
    \/ CloseFeeder \/ Free

-------------------------------------------------------------------------------
(* ble_scanner_thread and wifi_scanner_thread *)

ThreadAt(c, from, to) == thread[c] = from /\ thread' = [thread EXCEPT ![c] = to]

\* Mutant: the thread does not look at its flag.
CheckNothing(s) ==
    /\ ThreadAt(s, "check", "poll")
    /\ UNCHANGED <<cfg, g_running, mainVars, agg, running, fdVars, replayVars, reportVars>>

CheckRunning(s) ==
    /\ ThreadAt(s, "check", IF running[s] THEN "poll" ELSE "gone")
    /\ UNCHANGED <<cfg, g_running, mainVars, agg, running, fdVars, replayVars, reportVars>>

\* Mutant: a thread that gives up clears its own flag.
PollClearsFlag(s) ==
    /\ \E next \in {"read", "check", "gone"} :
          /\ ThreadAt(s, "poll", next)
          /\ running' = [running EXCEPT ![s] = @ /\ next # "gone"]
    /\ UNCHANGED <<cfg, g_running, mainVars, agg, fdVars, replayVars, reportVars>>

\* Input; a timeout, EINTR or an event that is not input; an error.
Poll(s) ==
    /\ \E next \in {"read", "check", "gone"} : ThreadAt(s, "poll", next)
    /\ UNCHANGED <<cfg, g_running, mainVars, agg, running, fdVars, replayVars, reportVars>>

\* A sighting; EINTR or a packet that is none; an error.
Read(s) ==
    /\ \E next \in {"update", "check", "gone"} : ThreadAt(s, "read", next)
    /\ UNCHANGED <<cfg, g_running, mainVars, agg, running, fdVars, replayVars, reportVars>>

Update(s) ==
    /\ ThreadAt(s, "update", "check")
    /\ fresh' = TRUE
    /\ UNCHANGED <<cfg, g_running, mainVars, agg, running, fdVars, replayVars, taken, complete>>

Scan(s) == CheckRunning(s) \/ Poll(s) \/ Read(s) \/ Update(s)

-------------------------------------------------------------------------------
(* replay_feeder_thread *)

OpenRecording ==
    /\ ThreadAt("feeder", "open", "lines")
    /\ unread' = Lines
    /\ UNCHANGED <<cfg, g_running, mainVars, agg, running, fdVars, consumed, finished, reportVars>>

OpenFails ==
    /\ cfg.lost
    /\ ThreadAt("feeder", "open", "finish")
    /\ UNCHANGED <<cfg, g_running, mainVars, agg, running, fdVars, replayVars, reportVars>>

ReadLine ==
    /\ running["feeder"] /\ unread > 0
    /\ ThreadAt("feeder", "lines", "ingest")
    /\ unread' = unread - 1
    /\ UNCHANGED <<cfg, g_running, mainVars, agg, running, fdVars, consumed, finished, reportVars>>

\* The updates of one line, if it names any device, and the pause after it.
IngestLine ==
    /\ ThreadAt("feeder", "ingest", "lines")
    /\ fresh' \in {fresh, TRUE}
    /\ UNCHANGED <<cfg, g_running, mainVars, agg, running, fdVars, replayVars, taken, complete>>

EndOfPass ==
    /\ ~(running["feeder"] /\ unread > 0)
    /\ ThreadAt("feeder", "lines", "again")
    /\ consumed' = (consumed \/ unread = 0)
    /\ unread' = 0
    /\ UNCHANGED <<cfg, g_running, mainVars, agg, running, fdVars, finished, reportVars>>

Again ==
    /\ ThreadAt("feeder", "again", IF running["feeder"] /\ cfg.loop THEN "open" ELSE "finish")
    /\ UNCHANGED <<cfg, g_running, mainVars, agg, running, fdVars, replayVars, reportVars>>

\* Mutant: the feeder ends without saying so.
FinishUnflagged ==
    /\ ThreadAt("feeder", "finish", "gone")
    /\ UNCHANGED <<cfg, g_running, mainVars, agg, running, fdVars, replayVars, reportVars>>

Finish ==
    /\ ThreadAt("feeder", "finish", "gone")
    /\ finished' = TRUE
    /\ UNCHANGED <<cfg, g_running, mainVars, agg, running, fdVars, unread, consumed, reportVars>>

Feed == OpenRecording \/ OpenFails \/ ReadLine \/ IngestLine \/ EndOfPass \/ Again \/ Finish

-------------------------------------------------------------------------------
Exited == at = "exit" /\ UNCHANGED vars

Next == Main \/ (\E s \in Scanners : Scan(s)) \/ Feed \/ Signal \/ Unplug \/ Exited

\* The scheduler runs every thread that can run; sleep, usleep and poll return
\* (poll within its timeout of 500 ms), and so do the system calls of main.
Fairness == WF_vars(Main) /\ (\A s \in Scanners : WF_vars(Scan(s))) /\ WF_vars(Feed)

Spec == Init /\ [][Next]_vars

FairSpec == Spec /\ Fairness

-------------------------------------------------------------------------------
(* Safety *)

\* Every variable keeps its type.
TypeOK ==
    /\ cfg \in Configs /\ g_running \in BOOLEAN
    /\ at \in {"create", "init", "start", "loop", "sleep", "cycle", "report", "finished",
               "stop", "join", "close", "free", "exit"}
    /\ who \in Components \cup {"none"}
    /\ down \in BOOLEAN /\ slept \in 0 .. cfg.interval
    /\ agg \in {"none", "live", "freed"}
    /\ running \in [Components -> BOOLEAN]
    /\ thread \in [Components -> {"none", "check", "poll", "read", "update", "open", "lines",
                                  "ingest", "again", "finish", "gone", "joined"}]
    /\ fd \in [Scanners -> Descriptors \cup {-1}] /\ open \subseteq Descriptors
    /\ ctrl \in {"off", "scanning", "gone"}
    /\ unread \in 0 .. Lines /\ consumed \in BOOLEAN /\ finished \in BOOLEAN
    /\ fresh \in BOOLEAN /\ taken \in BOOLEAN /\ complete \in BOOLEAN

\* Nobody calls into the aggregator before it exists or after it is freed:
\* every thread is joined before aggregator_destroy, which takes no lock.
NoUseAfterFree ==
    /\ \A c \in Components : thread[c] \in {"update", "ingest"} => agg = "live"
    /\ at = "cycle" => agg = "live"

\* A thread polls and reads only the socket its scanner opened: main closes a
\* descriptor no sooner than the thread that uses it has been joined.
NoIoOnClosedSocket ==
    \A s \in Scanners : thread[s] \in {"poll", "read"} => fd[s] \in open \ {0, 1, 2}

\* docs/INTERNSHIP_SUBMISSION.md:146, "There is no path that leaves a thread
\* running or a socket open", after a failed start included; a thread that
\* ended on its own is joined too, and the aggregator is freed.
CleanExit ==
    at = "exit" =>
        /\ \A c \in Components : thread[c] \in {"none", "joined"}
        /\ open \subseteq {0, 1, 2}
        /\ agg # "live"

\* The controller is not left scanning (ble_scanner.c:306-308), whether the
\* scanner ran, died, or was initialised and never started.
RadioOffAtExit == at = "exit" => ctrl # "scanning"

\* With both radios enabled, the process closes only sockets of its own,
\* whichever of them could be initialised and started.
OwnDescriptorsClosed == cfg.ble /\ cfg.wifi /\ ~cfg.replay => {0, 1, 2} \subseteq open

\* When main leaves because the replay is complete, the feeder has seen a
\* recording that can be opened through to its end.
CompleteMeansConsumed == complete /\ ~cfg.lost => consumed

\* README.md, "--replay": the program exits once the recording is consumed, and
\* so not as complete without having read it.
CompleteOnlyIfRead == complete => consumed

\* ... and has reported a final estimate of it: nothing the feeder ingested is
\* missing from the last report.
FinalReportIsFinal == complete => ~fresh

\* Whatever number the command line gives, main sleeps before each estimation
\* cycle and does not spin: an interval of 0, from an argument that is 0, is no
\* number or is cut to 0 by the width of the field, is never used.
CyclesAreSpaced == [][at # "cycle" /\ at' = "cycle" => slept > 0]_vars

-------------------------------------------------------------------------------
(* Liveness *)

\* A signal ends the process, whatever the threads are doing and however far
\* the start has got: every join returns.
SignalTerminates == ~g_running ~> at = "exit"

\* A finite replay ends by itself (.github/workflows/ci.yml).
FiniteReplayEnds == cfg.replay /\ ~cfg.loop ~> at = "exit"
==============================================================================
