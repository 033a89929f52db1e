-------------------------------- MODULE Logger --------------------------------
(***************************************************************************)
(* src/utils/logger.c: log_write and logger_shutdown called by any thread  *)
(* at any time.  A line is written in three parts, each with the sink that *)
(* the global holds at that moment.  Time stamps and text are left out.    *)
(***************************************************************************)
EXTENDS Integers, Sequences, FiniteSets

CONSTANTS
    Loggers,  \* the threads that log
    Levels,   \* log_level_t
    MaxCalls  \* bound on the calls of a thread

ASSUME LoggerAssumption ==
    Levels \subseteq Int /\ MaxCalls \in Nat /\ "nobody" \notin Loggers

Parts == {"prefix", "body", "newline"}

VARIABLES
    g_min_level,
    g_log_fp,     \* "stderr" or "NULL"
    g_log_mutex,  \* who holds it
    logPc,        \* where each thread is in log_write or logger_shutdown
    due,          \* its calls that passed the test of the level
    out           \* what has been written, in parts

loggerVars == <<g_min_level, g_log_fp, g_log_mutex, logPc, due, out>>

\* After logger_init, which main calls before there are threads.
LoggerInit ==
    /\ g_min_level \in Levels /\ g_log_fp = "stderr"
    /\ g_log_mutex = "nobody"
    /\ logPc = [t \in Loggers |-> "idle"]
    /\ due = [t \in Loggers |-> 0]
    /\ out = <<>>

LogGoto(t, from, to) == logPc[t] = from /\ logPc' = [logPc EXCEPT ![t] = to]

LoggerSetLevel ==
    /\ g_min_level' \in Levels
    /\ UNCHANGED <<g_log_fp, g_log_mutex, logPc, due, out>>

\* log_write up to the lock; a message below the level goes no further.
LogWrite(t) ==
    /\ due[t] < MaxCalls
    /\ \E level \in Levels : level >= g_min_level
    /\ LogGoto(t, "idle", "lock")
    /\ due' = [due EXCEPT ![t] = @ + 1]
    /\ UNCHANGED <<g_min_level, g_log_fp, g_log_mutex, out>>

\* Mutant: the sink is looked at before the lock is taken.
LockLogTested(t) ==
    \/ /\ LogGoto(t, "lock", IF g_log_fp = "NULL" THEN "idle" ELSE "tested")
       /\ UNCHANGED <<g_min_level, g_log_fp, g_log_mutex, due, out>>
    \/ /\ g_log_mutex = "nobody" /\ g_log_mutex' = t
       /\ LogGoto(t, "tested", "prefix")
       /\ UNCHANGED <<g_min_level, g_log_fp, due, out>>

\* Mutant: the lock is not taken.
LockLogSkipped(t) ==
    /\ LogGoto(t, "lock", "test")
    /\ UNCHANGED <<g_min_level, g_log_fp, g_log_mutex, due, out>>

\* Mutant: a message that would have to wait is dropped.
LockLogTried(t) ==
    /\ LogGoto(t, "lock", IF g_log_mutex = "nobody" THEN "test" ELSE "idle")
    /\ g_log_mutex' = IF g_log_mutex = "nobody" THEN t ELSE g_log_mutex
    /\ UNCHANGED <<g_min_level, g_log_fp, due, out>>

LockLog(t) ==
    /\ g_log_mutex = "nobody" /\ g_log_mutex' = t
    /\ LogGoto(t, "lock", "test")
    /\ UNCHANGED <<g_min_level, g_log_fp, due, out>>

\* Mutant: without a sink it returns at once.
TestSinkLeaving(t) ==
    /\ LogGoto(t, "test", IF g_log_fp = "NULL" THEN "idle" ELSE "prefix")
    /\ UNCHANGED <<g_min_level, g_log_fp, g_log_mutex, due, out>>

TestSink(t) ==
    /\ LogGoto(t, "test", IF g_log_fp = "NULL" THEN "unlock" ELSE "prefix")
    /\ UNCHANGED <<g_min_level, g_log_fp, g_log_mutex, due, out>>

PartAfter == [prefix |-> "body", body |-> "newline", newline |-> "unlock"]

WritePart(t, part) ==
    /\ LogGoto(t, part, PartAfter[part])
    /\ out' = Append(out, [by |-> t, part |-> part])
    /\ UNCHANGED <<g_min_level, g_log_fp, g_log_mutex, due>>

UnlockLog(t) ==
    /\ LogGoto(t, "unlock", "idle")
    /\ g_log_mutex' = "nobody"
    /\ UNCHANGED <<g_min_level, g_log_fp, due, out>>

\* logger_shutdown
LockShutdown(t) ==
    /\ g_log_mutex = "nobody" /\ g_log_mutex' = t
    /\ LogGoto(t, "idle", "shutdown")
    /\ UNCHANGED <<g_min_level, g_log_fp, due, out>>

ClearSink(t) ==
    /\ LogGoto(t, "shutdown", "unlock")
    /\ g_log_fp' = "NULL"
    /\ UNCHANGED <<g_min_level, g_log_mutex, due, out>>

LogLocked(t) ==
    \/ TestSink(t) \/ \E part \in Parts : WritePart(t, part)
    \/ ClearSink(t) \/ UnlockLog(t)

LoggerNext ==
    \/ LoggerSetLevel
    \/ \E t \in Loggers : LogWrite(t) \/ LockLog(t) \/ LogLocked(t) \/ LockShutdown(t)

\* Nothing between lock and unlock blocks, standard error included.
LoggerFairness == \A t \in Loggers : WF_loggerVars(LogLocked(t))

LoggerSpec == LoggerInit /\ [][LoggerNext]_loggerVars /\ LoggerFairness

-------------------------------------------------------------------------------
(* Properties *)

Writing(t) == logPc[t] \in Parts

\* Nothing is written once logger_shutdown has cleared the sink, whenever the
\* message was begun: fprintf is never called with NULL.
SinkOpenWhileWriting == \A t \in Loggers : Writing(t) => g_log_fp # "NULL"

Follows(a, b) == a.by = b.by /\ <<a.part, b.part>> \in {<<"prefix", "body">>, <<"body", "newline">>}

\* A line of one thread is never broken by a part of another, and only the
\* last line may be unfinished.
LinesAreWhole ==
    \A k \in DOMAIN out :
        IF out[k].part = "prefix" THEN k = 1 \/ out[k - 1].part = "newline"
        ELSE k > 1 /\ Follows(out[k - 1], out[k])

Ends(t) == {k \in DOMAIN out : out[k] = [by |-> t, part |-> "newline"]}

LinesBy(t) == Cardinality(Ends(t))

\* As long as there is a sink, every call that has passed the test of the level
\* and has returned has written exactly one line.
EveryMessageOnce ==
    g_log_fp # "NULL" =>
        \A t \in Loggers : LinesBy(t) = due[t] - (IF logPc[t] \in {"idle", "unlock", "shutdown"}
                                                  THEN 0 ELSE 1)

\* Whoever takes the mutex releases it, after a shutdown too.
LogMutexReleased == \A t \in Loggers : g_log_mutex = t ~> g_log_mutex # t
===============================================================================
