----------------------------- MODULE LoggerProofs -----------------------------
(* Lines are whole, every message is written once, and nothing is written  *)
(* after the shutdown, for any number of threads and of messages.          *)
EXTENDS Logger, SequenceTheorems, FiniteSetTheorems, TLAPS

Held == {"test", "prefix", "body", "newline", "unlock", "shutdown"}

\* Between lock and unlock a thread holds the mutex, and the sink it has tested
\* is still there while it writes.
MutexInv ==
    /\ g_log_mutex \in Loggers \cup {"nobody"}
    /\ logPc \in [Loggers -> {"idle", "lock"} \cup Held]
    /\ \A t \in Loggers : logPc[t] \in Held => g_log_mutex = t
    /\ SinkOpenWhileWriting

\* What has been written ends with what the thread that holds the mutex has
\* written of its line; if it has written nothing, the last line is complete.
LastPartInv ==
    /\ out \in Seq([by: Loggers, part: Parts])
    /\ \A t \in Loggers :
          /\ logPc[t] = "body" => out # <<>> /\ out[Len(out)] = [by |-> t, part |-> "prefix"]
          /\ logPc[t] = "newline" => out # <<>> /\ out[Len(out)] = [by |-> t, part |-> "body"]
    /\ \/ out = <<>>
       \/ out[Len(out)].part = "newline"
       \/ \E t \in Loggers : logPc[t] \in {"body", "newline"}

\* Every step keeps the discipline of the mutex.
LEMMA MutexStep == ASSUME MutexInv, [LoggerNext]_loggerVars PROVE MutexInv'
  <1> USE LoggerAssumption DEF MutexInv, Held, SinkOpenWhileWriting, Writing, Parts, LogGoto
  <1>1. CASE LoggerSetLevel BY <1>1 DEF LoggerSetLevel
  <1>2. ASSUME NEW t \in Loggers, LogWrite(t) PROVE MutexInv' BY <1>2 DEF LogWrite
  <1>3. ASSUME NEW t \in Loggers, LockLog(t) PROVE MutexInv' BY <1>3 DEF LockLog
  <1>4. ASSUME NEW t \in Loggers, TestSink(t) PROVE MutexInv' BY <1>4 DEF TestSink
  <1>5. ASSUME NEW t \in Loggers, NEW part \in Parts, WritePart(t, part) PROVE MutexInv'
    BY <1>5 DEF WritePart, PartAfter
  <1>6. ASSUME NEW t \in Loggers, ClearSink(t) PROVE MutexInv' BY <1>6 DEF ClearSink
  <1>7. ASSUME NEW t \in Loggers, UnlockLog(t) PROVE MutexInv' BY <1>7 DEF UnlockLog
  <1>8. ASSUME NEW t \in Loggers, LockShutdown(t) PROVE MutexInv' BY <1>8 DEF LockShutdown
  <1>9. CASE UNCHANGED loggerVars BY <1>9 DEF loggerVars
  <1> QED
    BY <1>1, <1>2, <1>3, <1>4, <1>5, <1>6, <1>7, <1>8, <1>9 DEF LoggerNext, LogLocked

\* A part that is written continues the line of its thread, or begins one.
LEMMA WriteStep ==
    ASSUME MutexInv, LastPartInv, LinesAreWhole,
           NEW t \in Loggers, NEW part \in Parts, WritePart(t, part)
    PROVE  LastPartInv' /\ LinesAreWhole'
  <1> DEFINE new == [by |-> t, part |-> part]
  <1>1. logPc[t] = part /\ logPc' = [logPc EXCEPT ![t] = PartAfter[part]] /\ out' = Append(out, new)
    BY DEF WritePart, LogGoto
  <1>2. out \in Seq([by: Loggers, part: Parts]) /\ new \in [by: Loggers, part: Parts]
    BY DEF LastPartInv
  <1>3. /\ out' \in Seq([by: Loggers, part: Parts]) /\ Len(out') = Len(out) + 1
        /\ out'[Len(out')] = new /\ out' # <<>>
        /\ \A k \in 1 .. Len(out) : out'[k] = out[k]
    BY <1>1, <1>2, AppendProperties
  <1>4. \A s \in Loggers : s # t => logPc'[s] = logPc[s] /\ logPc[s] \in {"idle", "lock"}
    BY <1>1, LoggerAssumption DEF MutexInv, Held, Parts
  <1>5. logPc'[t] = PartAfter[part]
    BY <1>1 DEF MutexInv
  <1>6. LastPartInv'
    <2>1. ASSUME NEW s \in Loggers, logPc'[s] \in {"body", "newline"}
          PROVE  s = t
      BY <1>4, <2>1
    <2>2. CASE part = "prefix"
      BY <1>3, <1>5, <2>1, <2>2 DEF LastPartInv, PartAfter
    <2>3. CASE part = "body"
      BY <1>3, <1>5, <2>1, <2>3 DEF LastPartInv, PartAfter
    <2>4. CASE part = "newline"
      BY <1>3, <1>5, <2>1, <2>4 DEF LastPartInv, PartAfter
    <2> QED BY <2>2, <2>3, <2>4 DEF Parts
  <1>7. LinesAreWhole'
    <2>1. Len(out) \in Nat /\ DOMAIN out = 1 .. Len(out) /\ DOMAIN out' = 1 .. Len(out) + 1
      BY <1>2, <1>3
    <2>2. ASSUME NEW k \in 1 .. Len(out)
          PROVE  IF out'[k].part = "prefix" THEN k = 1 \/ out'[k - 1].part = "newline"
                 ELSE k > 1 /\ Follows(out'[k - 1], out'[k])
      <3>1. out'[k] = out[k] /\ (k > 1 => out'[k - 1] = out[k - 1])
        BY <1>3, <2>1
      <3> QED BY <2>1, <3>1 DEF LinesAreWhole
    <2>3. LET k == Len(out) + 1
          IN IF out'[k].part = "prefix" THEN k = 1 \/ out'[k - 1].part = "newline"
             ELSE k > 1 /\ Follows(out'[k - 1], out'[k])
      <3>1. out'[Len(out) + 1] = new /\ (out # <<>> => Len(out) > 0 /\ out'[Len(out)] = out[Len(out)])
        BY <1>2, <1>3, <2>1, EmptySeq
      <3>2. CASE part = "prefix"
        <4>1. out = <<>> \/ out[Len(out)].part = "newline"
          BY <1>1, <1>4, <3>2 DEF LastPartInv
        <4> QED BY <2>1, <3>1, <3>2, <4>1
      <3>3. CASE part = "body"
        <4>1. out # <<>> /\ out[Len(out)] = [by |-> t, part |-> "prefix"]
          BY <1>1, <3>3 DEF LastPartInv
        <4>2. Follows(out'[Len(out)], new)
          BY <3>1, <3>3, <4>1 DEF Follows
        <4> QED BY <2>1, <3>1, <3>3, <4>1, <4>2
      <3>4. CASE part = "newline"
        <4>1. out # <<>> /\ out[Len(out)] = [by |-> t, part |-> "body"]
          BY <1>1, <3>4 DEF LastPartInv
        <4>2. Follows(out'[Len(out)], new)
          BY <3>1, <3>4, <4>1 DEF Follows
        <4> QED BY <2>1, <3>1, <3>4, <4>1, <4>2
      <3> QED BY <3>2, <3>3, <3>4 DEF Parts
    <2> QED BY <2>1, <2>2, <2>3 DEF LinesAreWhole
  <1> QED BY <1>6, <1>7

\* Every step leaves the lines whole.
LEMMA LinesStep ==
    ASSUME MutexInv, LastPartInv, LinesAreWhole, [LoggerNext]_loggerVars
    PROVE  LastPartInv' /\ LinesAreWhole'
  <1> DEFINE Keeps == /\ out' = out
                      /\ \A t \in Loggers : \/ logPc'[t] = logPc[t]
                                            \/ logPc[t] \notin Parts /\ logPc'[t] \notin {"body", "newline"}
  <1>1. ASSUME Keeps PROVE LastPartInv' /\ LinesAreWhole'
    BY <1>1 DEF LastPartInv, LinesAreWhole, Parts, Follows
  <1> USE DEF LogGoto, MutexInv, Parts
  <1>2. CASE LoggerSetLevel BY <1>1, <1>2 DEF LoggerSetLevel
  <1>3. ASSUME NEW t \in Loggers, LogWrite(t) PROVE Keeps BY <1>3 DEF LogWrite
  <1>4. ASSUME NEW t \in Loggers, LockLog(t) PROVE Keeps BY <1>4 DEF LockLog
  <1>5. ASSUME NEW t \in Loggers, TestSink(t) PROVE Keeps BY <1>5 DEF TestSink
  <1>6. ASSUME NEW t \in Loggers, NEW part \in Parts, WritePart(t, part)
        PROVE  LastPartInv' /\ LinesAreWhole'
    BY <1>6, WriteStep
  <1>7. ASSUME NEW t \in Loggers, ClearSink(t) PROVE Keeps BY <1>7 DEF ClearSink
  <1>8. ASSUME NEW t \in Loggers, UnlockLog(t) PROVE Keeps BY <1>8 DEF UnlockLog
  <1>9. ASSUME NEW t \in Loggers, LockShutdown(t) PROVE Keeps BY <1>9 DEF LockShutdown
  <1>10. CASE UNCHANGED loggerVars BY <1>1, <1>10 DEF loggerVars
  <1> HIDE DEF Keeps
  <1> QED
    BY <1>1, <1>2, <1>3, <1>4, <1>5, <1>6, <1>7, <1>8, <1>9, <1>10 DEF LoggerNext, LogLocked

LoggerInv == MutexInv /\ LastPartInv /\ LinesAreWhole

\* LoggerInv is an invariant of the logger.
LEMMA LoggerInvariance == LoggerSpec => []LoggerInv
  <1>1. LoggerInit => LoggerInv
    BY DEF LoggerInit, LoggerInv, MutexInv, LastPartInv, LinesAreWhole, Held,
       SinkOpenWhileWriting, Writing, Parts
  <1>2. LoggerInv /\ [LoggerNext]_loggerVars => LoggerInv'
    BY MutexStep, LinesStep DEF LoggerInv
  <1> QED
    BY <1>1, <1>2, PTL DEF LoggerSpec

\* log_write tests the sink under the mutex under which logger_shutdown clears
\* it, so no thread writes to a sink that is gone.
THEOREM SinkStaysOpen == LoggerSpec => []SinkOpenWhileWriting
  <1>1. LoggerInv => SinkOpenWhileWriting
    BY DEF LoggerInv, MutexInv
  <1> QED
    BY <1>1, LoggerInvariance, PTL

\* The three fprintf calls of a message are never split by another thread.
THEOREM LinesStayWhole == LoggerSpec => []LinesAreWhole
  <1>1. LoggerInv => LinesAreWhole
    BY DEF LoggerInv
  <1> QED
    BY <1>1, LoggerInvariance, PTL

-------------------------------------------------------------------------------
(* Every message once *)

\* Threads that have a line to write that they have not completed.
Owes(t) == logPc[t] \in {"lock", "test", "prefix", "body", "newline"}

\* The lines of a thread are the calls that have passed the test of the level,
\* but the one it is at.
CountInv ==
    /\ due \in [Loggers -> Nat]
    /\ g_log_fp # "NULL" => \A t \in Loggers : LinesBy(t) = due[t] - (IF Owes(t) THEN 1 ELSE 0)

\* A log is finite, and so are the lines of a thread.
LEMMA EndsFinite ==
    ASSUME LastPartInv, NEW t
    PROVE  IsFiniteSet(Ends(t)) /\ Ends(t) \subseteq 1 .. Len(out) /\ Cardinality(Ends(t)) \in Nat
  <1>1. Len(out) \in Nat /\ DOMAIN out = 1 .. Len(out)
    BY DEF LastPartInv
  <1>2. IsFiniteSet(1 .. Len(out))
    BY <1>1, FS_Interval
  <1> QED
    BY <1>1, <1>2, FS_Subset, FS_CardinalityType DEF Ends

\* A part that ends a line adds one to the lines of its thread; any other part
\* adds to none.
LEMMA LinesAfterPart ==
    ASSUME LastPartInv, NEW t \in Loggers, NEW part \in Parts,
           out' = Append(out, [by |-> t, part |-> part]), NEW s \in Loggers
    PROVE  LinesBy(s)' = LinesBy(s) + (IF s = t /\ part = "newline" THEN 1 ELSE 0)
  <1> DEFINE new == Len(out) + 1
  <1>1. /\ Len(out) \in Nat /\ DOMAIN out = 1 .. Len(out) /\ DOMAIN out' = 1 .. new
        /\ out'[new] = [by |-> t, part |-> part]
        /\ \A k \in 1 .. Len(out) : out'[k] = out[k]
    BY AppendProperties DEF LastPartInv
  <1>2. new \notin Ends(s)
    BY <1>1 DEF Ends
  <1>3. CASE s = t /\ part = "newline"
    <2>1. Ends(s)' = Ends(s) \cup {new}
      BY <1>1, <1>3 DEF Ends
    <2>2. Cardinality(Ends(s)') = Cardinality(Ends(s)) + 1
      BY <1>2, <2>1, EndsFinite, FS_AddElement
    <2> QED
      BY <1>3, <2>2 DEF LinesBy
  <1>4. CASE ~(s = t /\ part = "newline")
    <2>1. [by |-> t, part |-> part] # [by |-> s, part |-> "newline"]
      BY <1>4
    <2>2. Ends(s)' = Ends(s)
      BY <1>1, <2>1 DEF Ends
    <2>3. Cardinality(Ends(s)') = Cardinality(Ends(s)) + 0
      BY <2>2, EndsFinite
    <2> QED
      BY <1>4, <2>3 DEF LinesBy
  <1> QED BY <1>3, <1>4

\* Every step keeps the count of the lines.
LEMMA CountStep ==
    ASSUME MutexInv, LastPartInv, CountInv, [LoggerNext]_loggerVars
    PROVE  CountInv'
  <1> DEFINE Keeps == /\ UNCHANGED out /\ due' \in [Loggers -> Nat]
                      /\ g_log_fp' # "NULL" =>
                             /\ g_log_fp # "NULL"
                             /\ \A t \in Loggers : due'[t] - (IF Owes(t)' THEN 1 ELSE 0)
                                                  = due[t] - (IF Owes(t) THEN 1 ELSE 0)
  <1>1. ASSUME Keeps PROVE CountInv'
    <2>1. \A t \in Loggers : LinesBy(t)' = LinesBy(t)
      BY <1>1 DEF LinesBy, Ends
    <2>2. \A t \in Loggers : LinesBy(t) \in Nat
      BY EndsFinite DEF LinesBy
    <2> QED BY <1>1, <2>1, <2>2 DEF CountInv
  <1> USE DEF LogGoto, MutexInv, CountInv, Owes, Held
  <1>2. CASE LoggerSetLevel
    <2>1. Keeps BY <1>2 DEF LoggerSetLevel
    <2> HIDE DEF Keeps
    <2> QED BY <1>1, <2>1
  <1>3. ASSUME NEW t \in Loggers, LogWrite(t) PROVE Keeps BY <1>3 DEF LogWrite
  <1>4. ASSUME NEW t \in Loggers, LockLog(t) PROVE Keeps BY <1>4 DEF LockLog
  <1>5. ASSUME NEW t \in Loggers, TestSink(t) PROVE Keeps BY <1>5 DEF TestSink
  <1>6. ASSUME NEW t \in Loggers, NEW part \in Parts, WritePart(t, part) PROVE CountInv'
    <2>1. /\ logPc[t] = part /\ logPc' = [logPc EXCEPT ![t] = PartAfter[part]]
          /\ out' = Append(out, [by |-> t, part |-> part]) /\ UNCHANGED <<g_log_fp, due>>
      BY <1>6 DEF WritePart
    <2>2. Owes(t) /\ (Owes(t)' <=> part # "newline")
      BY <2>1 DEF Parts, PartAfter
    <2>3. \A s \in Loggers : s # t => (Owes(s)' <=> Owes(s))
      BY <2>1
    <2>4. \A s \in Loggers :
              LinesBy(s)' = LinesBy(s) + (IF s = t /\ part = "newline" THEN 1 ELSE 0)
      BY <2>1, LinesAfterPart
    <2> HIDE DEF Owes
    <2> QED BY <2>1, <2>2, <2>3, <2>4
  <1>7. ASSUME NEW t \in Loggers, ClearSink(t) PROVE Keeps BY <1>7 DEF ClearSink
  <1>8. ASSUME NEW t \in Loggers, UnlockLog(t) PROVE Keeps BY <1>8 DEF UnlockLog
  <1>9. ASSUME NEW t \in Loggers, LockShutdown(t) PROVE Keeps BY <1>9 DEF LockShutdown
  <1>10. CASE UNCHANGED loggerVars BY <1>1, <1>10 DEF loggerVars
  <1> HIDE DEF Keeps
  <1> QED
    BY <1>1, <1>2, <1>3, <1>4, <1>5, <1>6, <1>7, <1>8, <1>9, <1>10 DEF LoggerNext, LogLocked

\* As long as there is a sink, every call that has passed the test of the level
\* and has returned has written one line and no other.
THEOREM MessagesOnce == LoggerSpec => []EveryMessageOnce
  <1> DEFINE Inv == LoggerInv /\ CountInv
  <1>1. LoggerInit => Inv
    <2> SUFFICES ASSUME LoggerInit PROVE Inv
      OBVIOUS
    <2>1. LoggerInv
      BY DEF LoggerInit, LoggerInv, MutexInv, LastPartInv, LinesAreWhole, Held,
         SinkOpenWhileWriting, Writing, Parts
    <2>2. \A t \in Loggers : LinesBy(t) = 0
      <3>1. \A t \in Loggers : Ends(t) = {}
        BY DEF LoggerInit, Ends
      <3> QED BY <3>1, FS_EmptySet DEF LinesBy
    <2> QED
      BY <2>1, <2>2 DEF LoggerInit, CountInv, Owes
  <1>2. Inv /\ [LoggerNext]_loggerVars => Inv'
    BY MutexStep, LinesStep, CountStep DEF LoggerInv
  <1>3. Inv => EveryMessageOnce
    BY DEF LoggerInv, MutexInv, Held, CountInv, Owes, EveryMessageOnce
  <1> QED
    BY <1>1, <1>2, <1>3, PTL DEF LoggerSpec
===============================================================================
