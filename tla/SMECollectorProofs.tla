------------------------- MODULE SMECollectorProofs -------------------------
(***************************************************************************)
(* Proofs about SMECollector, for any set of reports, worker threads and   *)
(* clock values.                                                           *)
(***************************************************************************)
EXTENDS SMECollector, TLAPS

\* The threads of a collector are threads, no two of them are the same, and none
\* is a thread of the application.
LEMMA ThreadNames ==
    /\ AppThreads \subseteq Threads
    /\ UIThread \in AppThreads
    /\ \A r \in Reports :
          /\ {Collect(r), Save(r), Handler(r)} \subseteq Threads \ AppThreads
          /\ \A q \in Reports :
                /\ Collect(r) # Save(q)
                /\ Collect(r) # Handler(q)
                /\ Save(r) # Handler(q)
                /\ Collect(r) = Collect(q) => r = q
                /\ Save(r) = Save(q) => r = q
                /\ Handler(r) = Handler(q) => r = q
<1>1. \A r \in Reports : Collect(r) # Save(r) /\ Collect(r) # Handler(r)
  BY DEF Collect, Save, Handler
<1> QED
  BY <1>1, ConstantsAssumption DEF Threads, AppThreads, Collect, Save, Handler

LEMMA ThreadOf ==
    ASSUME NEW r \in Reports, NEW q \in Reports
    PROVE  /\ Collect(r) \in Threads /\ Save(r) \in Threads /\ Handler(r) \in Threads
           /\ Handler(r) # Save(q)
  BY ThreadNames

\* One action of Next is taken: the case split every proof of a step starts from.
LEMMA NextCases ==
    ASSUME Next
    PROVE \/ \E send, catchne, catchhe \in BOOLEAN : SMEClient(send, catchne, catchhe)
          \/ Tick
          \/ \E t \in AppThreads : AppThrow(t)
          \/ \E r \in Reports, t \in AppThreads : CollectError(r, t)
          \/ \E r \in Reports, t \in Threads :
                \/ SMEFirstChanceExceptionHandler(r, t)
                \/ SMEUnHandledExceptionHandler(r, t)
          \/ \E r \in Reports : SMEThreadExceptionHandler(r)
          \/ \E r \in Reports : CollectThread(r)
          \/ \E r \in Reports : SaveThread(r)
          \/ \E r \in Reports : HandlerThread(r)
          \/ \E r \in Reports : FinalizeSender(r)
  BY DEF Next, EnterHandlers

-----------------------------------------------------------------------------
(* Type correctness.                                                       *)

LEMMA TypeInit == Init => TypeOK
<1>1. Init => ProcessTypeOK
  <2> SUFFICES ASSUME Init PROVE ProcessTypeOK
    OBVIOUS
  <2>1. /\ ready \in BOOLEAN /\ IsSend \in BOOLEAN /\ IsCatchHE \in BOOLEAN
        /\ folder \in BOOLEAN /\ alive \in BOOLEAN
        /\ now \in Seconds /\ inner \subseteq Reports
    BY Zenon DEF Init
  <2>2. /\ exc \in [Threads -> {"none", "first", "infirst", "second", "insecond"}]
        /\ kind \in [Reports -> Kinds]
        /\ thrower \in [Reports -> Threads \cup {NoThread}]
    BY DEF Init, Kinds
  <2> QED
    BY <2>1, <2>2 DEF ProcessTypeOK
<1>2. Init => CollectorTypeOK
  BY DEF Init, CollectorTypeOK
<1>3. Init => FileTypeOK
  BY DEF Init, FileTypeOK
<1> QED
  BY <1>1, <1>2, <1>3 DEF TypeOK

LEMMA TypeEnter ==
    ASSUME TypeOK, NEW r \in Reports, NEW k \in Kinds, NEW t \in Threads,
           EnterHandler(r, k, t), exc' \in [Threads -> {"none", "first",
                                            "infirst", "second", "insecond"}]
    PROVE  TypeOK'
<1> USE DEF TypeOK, EnterHandler, NewCollector, configVars, fileVars, netVars
<1>1. ProcessTypeOK'
  BY DEF ProcessTypeOK
<1>2. CollectorTypeOK'
  BY DEF ProcessTypeOK, CollectorTypeOK
<1>3. FileTypeOK'
  BY DEF FileTypeOK
<1> QED
  BY <1>1, <1>2, <1>3

\* Where a thread's dispatch state goes, it stays one.
LEMMA TypeExc ==
    ASSUME TypeOK, NEW t,
           NEW x \in {"none", "first", "infirst", "second", "insecond"},
           exc' = [exc EXCEPT ![t] = x]
    PROVE  exc' \in [Threads -> {"none", "first", "infirst", "second", "insecond"}]
  BY Zenon DEF TypeOK, ProcessTypeOK

LEMMA TypeThrows ==
    ASSUME TypeOK, NEW t, Throws(t)
    PROVE  TypeOK'
<1>1. exc' \in [Threads -> {"none", "first", "infirst", "second", "insecond"}]
  BY TypeExc, Zenon DEF Throws, Thrown
<1>2. ProcessTypeOK'
  BY <1>1 DEF Throws, TypeOK, ProcessTypeOK, configVars, eventVars
<1>3. CollectorTypeOK'
  BY DEF Throws, TypeOK, CollectorTypeOK, eventVars, threadVars
<1>4. FileTypeOK'
  BY DEF Throws, TypeOK, FileTypeOK, fileVars, netVars
<1> QED
  BY <1>2, <1>3, <1>4 DEF TypeOK

LEMMA TypeCollectThread ==
    ASSUME TypeOK, NEW r \in Reports, CollectThread(r)
    PROVE  TypeOK'
<1>1. CASE CollectExceptionInfo(r)
  <2>1. ProcessTypeOK'
    BY <1>1, Zenon DEF CollectExceptionInfo, CollectStep, Terminate, TypeOK,
       ProcessTypeOK, configVars, eventVars
  <2>2. CollectorTypeOK'
    BY <1>1, Zenon DEF CollectExceptionInfo, CollectStep, Terminate, TypeOK,
       CollectorTypeOK, eventVars, threadVars
  <2>3. FileTypeOK'
    <3>1. CASE UNCHANGED <<writer, readers, conn>>
      BY <1>1, <3>1 DEF CollectExceptionInfo, TypeOK, FileTypeOK
    <3>2. CASE Terminate
      BY <1>1, <3>2 DEF CollectExceptionInfo, Terminate, TypeOK, FileTypeOK
    <3> QED
      BY <1>1, <3>1, <3>2 DEF CollectExceptionInfo
  <2> QED
    BY <2>1, <2>2, <2>3 DEF TypeOK
<1>2. CASE CollectCallStack(r)
  <2>1. ProcessTypeOK'
    BY <1>2 DEF CollectCallStack, CollectStep, TypeOK, ProcessTypeOK,
       configVars, eventVars
  <2>2. CollectorTypeOK'
    BY <1>2 DEF CollectCallStack, CollectStep, TypeOK, CollectorTypeOK,
       eventVars, threadVars
  <2>3. FileTypeOK'
    BY <1>2 DEF CollectCallStack, CollectStep, TypeOK, CollectorTypeOK,
       FileTypeOK, fileVars, netVars
  <2> QED
    BY <2>1, <2>2, <2>3 DEF TypeOK
<1>3. CASE CollectThrows(r)
  BY <1>3, TypeThrows DEF CollectThrows
<1>4. CASE CollectRelease(r)
  <2>1. ProcessTypeOK'
    BY <1>4 DEF CollectRelease, CollectStep, TypeOK, ProcessTypeOK,
       configVars, eventVars
  <2>2. CollectorTypeOK'
    BY <1>4 DEF CollectRelease, CollectStep, TypeOK, CollectorTypeOK,
       eventVars, threadVars
  <2>3. FileTypeOK'
    BY Zenon, <1>4 DEF CollectRelease, CollectStep, TypeOK, CollectorTypeOK,
       FileTypeOK, fileVars, netVars
  <2> QED
    BY <2>1, <2>2, <2>3 DEF TypeOK
<1> QED
  BY <1>1, <1>2, <1>3, <1>4 DEF CollectThread

LEMMA TypeSaveThread ==
    ASSUME TypeOK, NEW r \in Reports, SaveThread(r)
    PROVE  TypeOK'
<1>1. CASE SaveWait(r)
  <2>1. ProcessTypeOK'
    BY <1>1 DEF SaveWait, SaveStep, TypeOK, ProcessTypeOK, configVars,
       eventVars
  <2>2. CollectorTypeOK'
    BY <1>1 DEF SaveWait, SaveStep, TypeOK, CollectorTypeOK, eventVars,
       threadVars
  <2>3. FileTypeOK'
    BY <1>1 DEF SaveWait, SaveStep, TypeOK, CollectorTypeOK, FileTypeOK,
       fileVars, netVars
  <2> QED
    BY <2>1, <2>2, <2>3 DEF TypeOK
<1>2. CASE \E from \in {"build", "open"} : SaveThrows(r, from)
  BY <1>2, TypeThrows DEF SaveThrows
<1>3. CASE /\ SaveStep(r, "build", "open")
           /\ UNCHANGED <<CollectSemaphore, SaveSemaphore, fileVars>>
  <2>1. ProcessTypeOK'
    BY <1>3 DEF SaveStep, TypeOK, ProcessTypeOK, configVars, eventVars
  <2>2. CollectorTypeOK'
    BY <1>3 DEF SaveStep, TypeOK, CollectorTypeOK, eventVars, threadVars
  <2>3. FileTypeOK'
    BY <1>3 DEF SaveStep, TypeOK, CollectorTypeOK, FileTypeOK, fileVars,
       netVars
  <2> QED
    BY <2>1, <2>2, <2>3 DEF TypeOK
<1>4. CASE /\ SaveStep(r, "open", "write")
           /\ disk' = [disk EXCEPT ![m_currentTime[r]] = "torn"]
           /\ writer' = [writer EXCEPT ![m_currentTime[r]] = r]
           /\ UNCHANGED <<CollectSemaphore, SaveSemaphore, readers>>
  <2>1. ProcessTypeOK'
    BY <1>4 DEF SaveStep, TypeOK, ProcessTypeOK, configVars, eventVars
  <2>2. CollectorTypeOK'
    BY <1>4 DEF SaveStep, TypeOK, CollectorTypeOK, eventVars, threadVars
  <2>3. FileTypeOK'
    BY <1>4 DEF SaveStep, TypeOK, CollectorTypeOK, FileTypeOK, fileVars,
       netVars
  <2> QED
    BY <2>1, <2>2, <2>3 DEF TypeOK
<1>5. CASE SaveWrite(r)
  <2>1. ProcessTypeOK'
    BY <1>5 DEF SaveWrite, SaveStep, TypeOK, ProcessTypeOK, configVars,
       eventVars
  <2>2. CollectorTypeOK'
    BY <1>5 DEF SaveWrite, SaveStep, TypeOK, CollectorTypeOK, eventVars,
       threadVars
  <2>3. FileTypeOK'
    BY <1>5 DEF SaveWrite, SaveStep, TypeOK, CollectorTypeOK, FileTypeOK,
       fileVars, netVars
  <2> QED
    BY <2>1, <2>2, <2>3 DEF TypeOK
<1>6. CASE SaveWriteThrows(r)
  <2>0. exc' \in [Threads -> {"none", "first", "infirst", "second", "insecond"}]
    BY <1>6, TypeExc, Zenon DEF SaveWriteThrows, Thrown
  <2>1. ProcessTypeOK'
    BY <1>6, <2>0 DEF SaveWriteThrows, TypeOK, ProcessTypeOK, configVars, eventVars
  <2>2. CollectorTypeOK'
    BY <1>6 DEF SaveWriteThrows, TypeOK, CollectorTypeOK, eventVars,
       threadVars
  <2>3. FileTypeOK'
    BY <1>6 DEF SaveWriteThrows, TypeOK, CollectorTypeOK, FileTypeOK,
       fileVars, netVars
  <2> QED
    BY <2>1, <2>2, <2>3 DEF TypeOK
<1>7. CASE SaveRelease(r)
  <2>1. ProcessTypeOK'
    BY <1>7 DEF SaveRelease, SaveStep, TypeOK, ProcessTypeOK, configVars,
       eventVars
  <2>2. CollectorTypeOK'
    BY <1>7 DEF SaveRelease, SaveStep, TypeOK, CollectorTypeOK, eventVars,
       threadVars
  <2>3. FileTypeOK'
    BY Zenon, <1>7 DEF SaveRelease, SaveStep, TypeOK, CollectorTypeOK, FileTypeOK,
       fileVars, netVars
  <2> QED
    BY <2>1, <2>2, <2>3 DEF TypeOK
<1> QED
  BY <1>1, <1>2, <1>3, <1>4, <1>5, <1>6, <1>7
  DEF SaveThread, SaveBuild, SaveOpen

LEMMA TypeHandlerThread ==
    ASSUME TypeOK, NEW r \in Reports, HandlerThread(r)
    PROVE  TypeOK'
<1>1. CASE SendWait(r)
  <2>1. ProcessTypeOK'
    BY <1>1 DEF SendWait, HandlerStep, TypeOK, ProcessTypeOK, configVars,
       eventVars
  <2>2. CollectorTypeOK'
    BY <1>1 DEF SendWait, HandlerStep, TypeOK, CollectorTypeOK, eventVars,
       threadVars
  <2>3. FileTypeOK'
    BY <1>1 DEF SendWait, HandlerStep, TypeOK, CollectorTypeOK, FileTypeOK,
       fileVars, netVars
  <2> QED
    BY <2>1, <2>2, <2>3 DEF TypeOK
<1>2. CASE \E from \in {"connect", "open", "send"} : SenderThrows(r, from)
  <2>0. exc' \in [Threads -> {"none", "first", "infirst", "second", "insecond"}]
    BY <1>2, TypeExc, Zenon DEF SenderThrows
  <2>1. ProcessTypeOK'
    BY <1>2, <2>0 DEF SenderThrows, HandlerStep, TypeOK, ProcessTypeOK, configVars,
       eventVars
  <2>2. CollectorTypeOK'
    BY <1>2 DEF SenderThrows, HandlerStep, TypeOK, CollectorTypeOK, eventVars,
       threadVars
  <2>3. FileTypeOK'
    BY <1>2 DEF SenderThrows, HandlerStep, TypeOK, CollectorTypeOK,
       FileTypeOK, fileVars, netVars
  <2> QED
    BY <2>1, <2>2, <2>3 DEF TypeOK
<1>3. CASE /\ HandlerStep(r, "connect", "open")
           /\ conn' = [conn EXCEPT ![r] = "open"]
           /\ UNCHANGED <<exc, SaveSemaphore, readers, sent>>
  <2>1. ProcessTypeOK'
    BY <1>3 DEF HandlerStep, TypeOK, ProcessTypeOK, configVars, eventVars
  <2>2. CollectorTypeOK'
    BY <1>3 DEF HandlerStep, TypeOK, CollectorTypeOK, eventVars, threadVars
  <2>3. FileTypeOK'
    BY <1>3 DEF HandlerStep, TypeOK, CollectorTypeOK, FileTypeOK, fileVars,
       netVars
  <2> QED
    BY <2>1, <2>2, <2>3 DEF TypeOK
<1>4. CASE /\ HandlerStep(r, "open", "send")
           /\ readers' = [readers EXCEPT ![m_currentTime[r]] = @ \cup {r}]
           /\ UNCHANGED <<exc, SaveSemaphore, netVars>>
  <2>1. ProcessTypeOK'
    BY <1>4 DEF HandlerStep, TypeOK, ProcessTypeOK, configVars, eventVars
  <2>2. CollectorTypeOK'
    BY Zenon, <1>4 DEF HandlerStep, TypeOK, CollectorTypeOK, eventVars, threadVars
  <2>3. FileTypeOK'
    BY Zenon, <1>4 DEF HandlerStep, TypeOK, CollectorTypeOK, FileTypeOK, fileVars,
       netVars
  <2> QED
    BY <2>1, <2>2, <2>3 DEF TypeOK
<1>5. CASE /\ HandlerStep(r, "send", "return")
           /\ sent' = [sent EXCEPT ![r] = disk[m_currentTime[r]]]
           /\ conn' = [conn EXCEPT ![r] = "closed"]
           /\ UNCHANGED <<exc, SaveSemaphore, readers>>
  <2>1. ProcessTypeOK'
    BY <1>5 DEF HandlerStep, TypeOK, ProcessTypeOK, configVars, eventVars
  <2>2. CollectorTypeOK'
    BY <1>5 DEF HandlerStep, TypeOK, CollectorTypeOK, eventVars, threadVars
  <2>3. FileTypeOK'
    BY <1>5 DEF HandlerStep, TypeOK, CollectorTypeOK, FileTypeOK, fileVars,
       netVars
  <2> QED
    BY <2>1, <2>2, <2>3 DEF TypeOK
<1>6. CASE FirstChanceReturnsToApp(r)
  <2>0. exc' \in [Threads -> {"none", "first", "infirst", "second", "insecond"}]
    BY <1>6, TypeExc, Zenon DEF FirstChanceReturnsToApp
  <2>1. ProcessTypeOK'
    BY Zenon, <1>6, <2>0 DEF FirstChanceReturnsToApp, Returning, TypeOK, ProcessTypeOK,
       configVars, eventVars
  <2>2. CollectorTypeOK'
    BY <1>6 DEF FirstChanceReturnsToApp, Returning, TypeOK, CollectorTypeOK,
       eventVars, threadVars
  <2>3. FileTypeOK'
    BY <1>6 DEF FirstChanceReturnsToApp, Returning, TypeOK, CollectorTypeOK,
       FileTypeOK, fileVars, netVars
  <2> QED
    BY <2>1, <2>2, <2>3 DEF TypeOK
<1>7. CASE FirstChanceReturnsToReporter(r)
  <2>0. exc' \in [Threads -> {"none", "first", "infirst", "second", "insecond"}]
    BY <1>7, TypeExc, Zenon DEF FirstChanceReturnsToReporter
  <2>1. ProcessTypeOK'
    BY Zenon, <1>7, <2>0 DEF FirstChanceReturnsToReporter, Returning, TypeOK,
       ProcessTypeOK, configVars, eventVars
  <2>2. CollectorTypeOK'
    BY Zenon, <1>7 DEF FirstChanceReturnsToReporter, Returning, TypeOK,
       CollectorTypeOK, eventVars, threadVars
  <2>3. FileTypeOK'
    BY <1>7 DEF FirstChanceReturnsToReporter, Returning, TypeOK,
       CollectorTypeOK, FileTypeOK, fileVars, netVars
  <2> QED
    BY <2>1, <2>2, <2>3 DEF TypeOK
<1>8. CASE \E q \in Reports : FirstChanceReturnsToSender(r, q)
  <2>0. exc' \in [Threads -> {"none", "first", "infirst", "second", "insecond"}]
    BY <1>8, TypeExc, Zenon DEF FirstChanceReturnsToSender
  <2>1. ProcessTypeOK'
    BY <1>8, <2>0 DEF FirstChanceReturnsToSender, TypeOK, ProcessTypeOK, configVars,
       eventVars
  <2>2. CollectorTypeOK'
    BY <1>8, Zenon DEF FirstChanceReturnsToSender, TypeOK, CollectorTypeOK,
       eventVars, threadVars
  <2>3. FileTypeOK'
    BY <1>8 DEF FirstChanceReturnsToSender, TypeOK, CollectorTypeOK,
       FileTypeOK, fileVars, netVars
  <2> QED
    BY <2>1, <2>2, <2>3 DEF TypeOK
<1>9. CASE ThreadReturns(r)
  <2>0. exc' \in [Threads -> {"none", "first", "infirst", "second", "insecond"}]
    BY <1>9, TypeExc, Zenon DEF ThreadReturns
  <2>1. ProcessTypeOK'
    BY Zenon, <1>9, <2>0 DEF ThreadReturns, Returning, TypeOK, ProcessTypeOK, configVars,
       eventVars
  <2>2. CollectorTypeOK'
    BY <1>9 DEF ThreadReturns, Returning, TypeOK, CollectorTypeOK, eventVars,
       threadVars
  <2>3. FileTypeOK'
    BY <1>9 DEF ThreadReturns, Returning, TypeOK, CollectorTypeOK, FileTypeOK,
       fileVars, netVars
  <2> QED
    BY <2>1, <2>2, <2>3 DEF TypeOK
<1>10. CASE UnhandledReturns(r)
  <2>1. ProcessTypeOK'
    BY <1>10, Zenon DEF UnhandledReturns, Returning, Terminate, TypeOK,
       ProcessTypeOK, configVars, eventVars
  <2>2. CollectorTypeOK'
    BY Zenon, <1>10 DEF UnhandledReturns, Returning, Terminate, TypeOK,
       CollectorTypeOK, eventVars, threadVars
  <2>3. FileTypeOK'
    BY <1>10 DEF UnhandledReturns, Returning, Terminate, TypeOK,
       CollectorTypeOK, FileTypeOK, fileVars, netVars
  <2> QED
    BY <2>1, <2>2, <2>3 DEF TypeOK
<1> QED
  BY <1>1, <1>2, <1>3, <1>4, <1>5, <1>6, <1>7, <1>8, <1>9, <1>10
  DEF HandlerThread, SendConnect, SendOpen, FileSend

LEMMA TypeNext == TypeOK /\ [Next]_vars => TypeOK'
<1> SUFFICES ASSUME TypeOK, [Next]_vars PROVE TypeOK'
  BY Zenon
<1> USE DEF ProcessTypeOK, CollectorTypeOK, FileTypeOK
<1>1. ASSUME NEW send \in BOOLEAN, NEW catchne \in BOOLEAN, NEW catchhe \in BOOLEAN,
             SMEClient(send, catchne, catchhe)
      PROVE  TypeOK'
  BY Zenon, <1>1 DEF SMEClient, TypeOK, eventVars, threadVars, fileVars, netVars
<1>2. CASE Tick
  BY <1>2 DEF Tick, TypeOK, configVars, eventVars, threadVars, fileVars, netVars
<1>3. ASSUME NEW t \in AppThreads, AppThrow(t)
      PROVE  TypeOK'
  BY <1>3, Zenon DEF AppThrow, Thrown, TypeOK, configVars, eventVars, threadVars,
              fileVars, netVars
<1>4. ASSUME NEW r \in Reports, NEW t \in AppThreads, CollectError(r, t)
      PROVE  TypeOK'
  BY <1>4, ThreadNames DEF CollectError, NewCollector, TypeOK, Kinds, configVars,
                           fileVars, netVars
<1>5. ASSUME NEW r \in Reports, NEW t \in Threads,
             \/ SMEFirstChanceExceptionHandler(r, t)
             \/ SMEUnHandledExceptionHandler(r, t)
      PROVE  TypeOK'
  <2>1. exc' \in [Threads -> {"none", "first", "infirst", "second", "insecond"}]
    BY <1>5 DEF SMEFirstChanceExceptionHandler, SMEUnHandledExceptionHandler, TypeOK
  <2> QED
    BY Zenon, <1>5, <2>1, TypeEnter DEF SMEFirstChanceExceptionHandler,
                                 SMEUnHandledExceptionHandler, Kinds
<1>6. ASSUME NEW r \in Reports, SMEThreadExceptionHandler(r)
      PROVE  TypeOK'
  <2>1. exc' \in [Threads -> {"none", "first", "infirst", "second", "insecond"}]
    BY <1>6, Zenon DEF SMEThreadExceptionHandler, TypeOK
  <2> QED
    BY <1>6, <2>1, TypeEnter, ThreadNames DEF SMEThreadExceptionHandler, Kinds
<1>7. ASSUME NEW r \in Reports, FinalizeSender(r)
      PROVE  TypeOK'
  BY Zenon, <1>7 DEF FinalizeSender, TypeOK, configVars, eventVars, threadVars
<1>8. CASE UNCHANGED vars
  BY <1>8 DEF vars, TypeOK, configVars, eventVars, threadVars, fileVars, netVars
<1> QED
  BY <1>1, <1>2, <1>3, <1>4, <1>5, <1>6, <1>7, <1>8, NextCases,
     TypeCollectThread, TypeSaveThread, TypeHandlerThread

\* Every variable keeps its type in every behaviour of the reporter, whatever
\* the handlers, the collect and save threads and the runtime do.
THEOREM TypeCorrect == Spec => []TypeOK
  BY TypeInit, TypeNext, PTL DEF Spec

-----------------------------------------------------------------------------
(* The handshake of the two threads of a collector.                        *)

\* Where the single count of CollectSemaphore is: the collect thread makes it,
\* the save thread holds it while it builds and writes, and gives it back.
CollectCount(r) ==
    IF collectpc[r] = "done" /\ savepc[r] \in {"wait", "done"} THEN 1 ELSE 0

HandshakeInv ==
    \A r \in Reports :
        /\ kind[r] = "none" => collectpc[r] = "idle"
        /\ collectpc[r] = "idle" <=> savepc[r] = "idle"
        /\ savepc[r] \notin {"idle", "wait"} => collectpc[r] = "done"
        /\ CollectSemaphore[r] = CollectCount(r)
        /\ alive /\ collectpc[r] = "stack" => r \in m_exceptioninfo
        /\ collectpc[r] \in {"release", "done"} =>
              r \in m_exceptioninfo \cap m_callstackinfo
        /\ SaveSemaphore[r] <= 1
        /\ savepc[r] # "done" => SaveSemaphore[r] = 0

LEMMA HandshakeInit == Init => HandshakeInv
  BY DEF Init, HandshakeInv, CollectCount

\* A step that starts no collector and moves neither of its threads.
LEMMA HandshakeFrame ==
    ASSUME TypeOK, HandshakeInv, alive' => alive,
           UNCHANGED <<collectpc, savepc, CollectSemaphore, m_exceptioninfo,
                       m_callstackinfo, kind>>,
           \A r \in Reports : SaveSemaphore'[r] \in {SaveSemaphore[r], 0}
    PROVE  HandshakeInv'
  BY DEF TypeOK, CollectorTypeOK, HandshakeInv, CollectCount

LEMMA HandshakeNew ==
    ASSUME TypeOK, HandshakeInv, NEW r \in Reports, NEW k \in Kinds \ {"none"},
           NEW t, NEW hasInner, NewCollector(r, k, t, hasInner), alive' = alive
    PROVE  HandshakeInv'
  BY SMTT(60) DEF TypeOK, ProcessTypeOK, CollectorTypeOK, HandshakeInv, CollectCount,
         NewCollector

LEMMA HandshakeCollectThread ==
    ASSUME TypeOK, HandshakeInv, NEW r \in Reports, CollectThread(r)
    PROVE  HandshakeInv'
<1> USE DEF TypeOK, CollectorTypeOK, HandshakeInv, CollectCount, eventVars
<1>1. CASE CollectExceptionInfo(r)
  BY <1>1, Zenon DEF CollectExceptionInfo, CollectStep, Terminate
<1>2. CASE CollectCallStack(r)
  BY Zenon, <1>2 DEF CollectCallStack, CollectStep
<1>3. CASE CollectThrows(r)
  BY Zenon, <1>3 DEF CollectThrows, Throws, threadVars
<1>4. CASE CollectRelease(r)
  BY <1>4 DEF CollectRelease, CollectStep
<1> QED
  BY <1>1, <1>2, <1>3, <1>4 DEF CollectThread

LEMMA HandshakeSaveThread ==
    ASSUME TypeOK, HandshakeInv, NEW r \in Reports, SaveThread(r)
    PROVE  HandshakeInv'
<1> USE DEF TypeOK, CollectorTypeOK, HandshakeInv, CollectCount, eventVars
<1>1. CASE SaveWait(r)
  BY <1>1 DEF SaveWait, SaveStep
<1>2. CASE SaveBuild(r)
  BY <1>2 DEF SaveBuild, SaveStep, SaveThrows, Throws, threadVars
<1>3. CASE SaveOpen(r)
  <2>1. CASE SaveThrows(r, "open")
    BY Zenon, <2>1 DEF SaveThrows, Throws, threadVars
  <2>2. CASE SaveStep(r, "open", "write") /\ UNCHANGED <<CollectSemaphore, SaveSemaphore>>
    BY Zenon, <2>2 DEF SaveStep
  <2> QED
    BY Zenon, <1>3, <2>1, <2>2 DEF SaveOpen
<1>4. CASE SaveWrite(r)
  BY Zenon, <1>4 DEF SaveWrite, SaveStep
<1>5. CASE SaveWriteThrows(r)
  BY Zenon, <1>5 DEF SaveWriteThrows, threadVars
<1>6. CASE SaveRelease(r)
  BY <1>6 DEF SaveRelease, SaveStep
<1> QED
  BY <1>1, <1>2, <1>3, <1>4, <1>5, <1>6, Zenon DEF SaveThread

LEMMA HandshakeHandlerThread ==
    ASSUME TypeOK, HandshakeInv, NEW r \in Reports, HandlerThread(r)
    PROVE  HandshakeInv'
<1>1. CASE SendWait(r)
  <2>1. SaveSemaphore[r] = 1
    BY <1>1 DEF SendWait, HandshakeInv, TypeOK, CollectorTypeOK
  <2> QED
    BY <1>1, <2>1, HandshakeFrame DEF SendWait, HandlerStep, eventVars, TypeOK,
                                      CollectorTypeOK
<1>2. CASE SendConnect(r) \/ SendOpen(r) \/ FileSend(r)
  BY <1>2, HandshakeFrame, Zenon DEF SendConnect, SendOpen, FileSend, SenderThrows,
                              HandlerStep, eventVars
<1>3. CASE FirstChanceReturnsToApp(r) \/ FirstChanceReturnsToReporter(r)
  BY <1>3, HandshakeFrame, Zenon DEF FirstChanceReturnsToApp,
                FirstChanceReturnsToReporter, Returning, eventVars
<1>4. CASE \E q \in Reports : FirstChanceReturnsToSender(r, q)
  BY <1>4, HandshakeFrame, Zenon DEF FirstChanceReturnsToSender, eventVars
<1>5. CASE ThreadReturns(r) \/ UnhandledReturns(r)
  BY Zenon, <1>5, HandshakeFrame DEF ThreadReturns, UnhandledReturns, Terminate,
                              Returning, eventVars
<1> QED
  BY Zenon, <1>1, <1>2, <1>3, <1>4, <1>5 DEF HandlerThread

LEMMA HandshakeNext == TypeOK /\ HandshakeInv /\ [Next]_vars => HandshakeInv'
<1> SUFFICES ASSUME TypeOK, HandshakeInv, [Next]_vars PROVE HandshakeInv'
  OBVIOUS
<1>1. ASSUME NEW send \in BOOLEAN, NEW catchne \in BOOLEAN, NEW catchhe \in BOOLEAN,
             SMEClient(send, catchne, catchhe)
      PROVE  HandshakeInv'
  BY Zenon, <1>1, HandshakeFrame DEF SMEClient, eventVars, threadVars
<1>2. CASE Tick \/ \E t \in AppThreads : AppThrow(t)
  BY <1>2, HandshakeFrame DEF Tick, AppThrow, eventVars, threadVars
<1>3. ASSUME NEW r \in Reports, NEW t \in AppThreads, CollectError(r, t)
      PROVE  HandshakeInv'
  BY <1>3, HandshakeNew, Zenon DEF CollectError, Kinds
<1>4. ASSUME NEW r \in Reports, NEW t \in Threads,
             \/ SMEFirstChanceExceptionHandler(r, t)
             \/ SMEUnHandledExceptionHandler(r, t)
      PROVE  HandshakeInv'
  BY <1>4, HandshakeNew, Zenon DEF SMEFirstChanceExceptionHandler,
                SMEUnHandledExceptionHandler, EnterHandler, Kinds
<1>5. ASSUME NEW r \in Reports, SMEThreadExceptionHandler(r)
      PROVE  HandshakeInv'
  BY Zenon, <1>5, HandshakeNew DEF SMEThreadExceptionHandler, EnterHandler, Kinds
<1>6. ASSUME NEW r \in Reports, FinalizeSender(r)
      PROVE  HandshakeInv'
  BY Zenon, <1>6, HandshakeFrame DEF FinalizeSender, eventVars, threadVars
<1>7. CASE UNCHANGED vars
  BY <1>7, HandshakeFrame DEF vars, eventVars, threadVars
<1> QED
  BY <1>1, <1>2, <1>3, <1>4, <1>5, <1>6, <1>7, NextCases,
     HandshakeCollectThread, HandshakeSaveThread, HandshakeHandlerThread

\* The semaphores of a collector and the places its two threads are at agree, in
\* every behaviour.
THEOREM Handshake == Spec => []HandshakeInv
  BY HandshakeInit, HandshakeNext, TypeCorrect, PTL DEF Spec

\* Release is never called on a semaphore of SMECollector at its maximum count.
THEOREM SemaphoresSafe == Spec => []SemaphoreWithinMaximum
<1>1. HandshakeInv => SemaphoreWithinMaximum
  BY DEF HandshakeInv, CollectCount, SemaphoreWithinMaximum
<1> QED
  BY <1>1, Handshake, PTL

\* SaveToXML never builds a report whose exception or call stack is still missing.
THEOREM SavesCollectedReports == Spec => []SaveAfterCollect
<1>1. HandshakeInv => SaveAfterCollect
  BY Zenon DEF HandshakeInv, SaveAfterCollect
<1> QED
  BY <1>1, Handshake, PTL

-----------------------------------------------------------------------------
(* The handlers and the threads they run on.                               *)

Sending == {"connect", "open", "send"}
InHandler == {"infirst", "insecond"}

\* The handler calls that have been entered and have not returned, on any thread
\* and on thread t.
Running(r) == handlerpc[r] \notin {"idle", "done"}
Handling(t) == {r \in Reports : Running(r) /\ thrower[r] = t}

\* A thread runs at most one handler frame on top of the code that threw, and
\* runs one exactly while the runtime waits for that handler to return.
OneHandlerPerThread ==
    \A t \in Threads :
        /\ \A q, r \in Handling(t) : q = r
        /\ alive => (exc[t] \in {"infirst", "insecond"} <=> Handling(t) # {})

\* Nothing happens before SMEClient is constructed; a thread with an exception
\* inside TCPSender is still inside it; each running handler is the one the
\* runtime waits for on the thread that threw.
DispatchInv ==
    /\ ~ready => /\ \A t \in Threads : exc[t] = "none"
                 /\ \A r \in Reports : kind[r] = "none"
    /\ \A r \in Reports :
          /\ kind[r] = "none" => handlerpc[r] = "idle"
          /\ kind[r] = "Thread" => thrower[r] = UIThread
          /\ exc[Handler(r)] # "none" => handlerpc[r] \in Sending
          /\ Running(r) => thrower[r] \in Threads
    /\ OneHandlerPerThread
    /\ SendAfterSave

LEMMA DispatchInit == Init => DispatchInv
<1> SUFFICES ASSUME Init PROVE DispatchInv
  BY Zenon
<1>1. \A t \in Threads : Handling(t) = {} /\ exc[t] = "none"
  BY DEF Init, Handling, Running
<1>2. OneHandlerPerThread
  BY Zenon, <1>1 DEF OneHandlerPerThread
<1> QED
  BY <1>2, ThreadNames DEF Init, DispatchInv, Running, SendAfterSave

\* How a step may change the handlers of a thread and what the runtime waits for.
LEMMA HandlingStep ==
    ASSUME OneHandlerPerThread, alive' => alive,
           \A t \in Threads :
               \/ Handling(t)' = Handling(t) /\ (exc'[t] \in InHandler <=> exc[t] \in InHandler)
               \/ Handling(t)' = {} /\ exc'[t] \notin InHandler
               \/ \E r \in Reports : Handling(t)' = {r} /\ exc'[t] \in InHandler
               \/ Handling(t)' \subseteq Handling(t) /\ ~alive'
    PROVE  OneHandlerPerThread'
<1> SUFFICES ASSUME NEW t \in Threads
             PROVE  /\ \A q, r \in Handling(t)' : q = r
                    /\ alive' => (exc'[t] \in InHandler <=> Handling(t)' # {})
  BY Zenon DEF OneHandlerPerThread, InHandler
<1>1. /\ \A q, r \in Handling(t) : q = r
      /\ alive => (exc[t] \in InHandler <=> Handling(t) # {})
  BY Zenon DEF OneHandlerPerThread, InHandler
<1> QED
  BY Zenon, <1>1

\* The runtime waits for a running handler, and for no other on its thread.
LEMMA RunningHandler ==
    ASSUME DispatchInv, NEW r \in Reports, Running(r)
    PROVE  /\ thrower[r] \in Threads
           /\ Handling(thrower[r]) = {r}
           /\ alive => exc[thrower[r]] \in InHandler
<1>1. thrower[r] \in Threads
  BY DEF DispatchInv
<1>2. r \in Handling(thrower[r])
  BY Zenon DEF Handling
<1> QED
  BY <1>1, <1>2 DEF DispatchInv, OneHandlerPerThread, InHandler

\* A step that leaves the handlers and the dispatched exceptions alone.
LEMMA DispatchFrame ==
    ASSUME TypeOK, DispatchInv, alive' => alive,
           UNCHANGED <<ready, IsSend, exc, kind, thrower, handlerpc>>,
           \A r \in Reports : savepc[r] = "done" => savepc'[r] = "done"
    PROVE  DispatchInv'
<1>1. \A t \in Threads : Handling(t)' = Handling(t)
  BY Zenon DEF Handling, Running
<1>2. OneHandlerPerThread'
  BY Zenon, <1>1, HandlingStep DEF DispatchInv
<1> QED
  BY Zenon, <1>2 DEF DispatchInv, Running, SendAfterSave

\* A thread outside TCPSender throws.
LEMMA DispatchThrow ==
    ASSUME TypeOK, DispatchInv, NEW t \in Threads, ready, exc[t] = "none",
           \A r \in Reports : t # Handler(r),
           exc' = [exc EXCEPT ![t] = Thrown],
           UNCHANGED <<ready, IsSend, alive, kind, thrower, handlerpc, savepc>>
    PROVE  DispatchInv'
<1>1. Thrown \in {"first", "second"}
  BY Zenon DEF Thrown
<1>2. \A r \in Reports : exc'[Handler(r)] = exc[Handler(r)]
  BY Zenon, ThreadNames DEF TypeOK, ProcessTypeOK
<1>3. \A u \in Threads : exc'[u] \in InHandler <=> exc[u] \in InHandler
  BY Zenon, <1>1 DEF TypeOK, ProcessTypeOK, InHandler
<1>4. \A u \in Threads : Handling(u)' = Handling(u)
  BY Zenon DEF Handling, Running
<1>5. OneHandlerPerThread'
  BY Zenon, <1>3, <1>4, HandlingStep DEF DispatchInv
<1> QED
  BY <1>2, <1>5 DEF DispatchInv, Running, SendAfterSave

LEMMA DispatchEnter ==
    ASSUME TypeOK, HandshakeInv, DispatchInv, NEW r \in Reports, NEW k, NEW t \in Threads,
           k # "none", k = "Thread" => t = UIThread, alive,
           exc[t] \in {"first", "second"},
           NEW in \in InHandler, exc' = [exc EXCEPT ![t] = in],
           EnterHandler(r, k, t)
    PROVE  DispatchInv'
<1>1. /\ kind[r] = "none" /\ handlerpc[r] = "idle" /\ savepc[r] = "idle"
      /\ exc[Handler(r)] = "none" /\ ready
  BY Zenon DEF EnterHandler, NewCollector, HandshakeInv, DispatchInv, Sending
<1>2. /\ kind' = [kind EXCEPT ![r] = k]
      /\ thrower' = [thrower EXCEPT ![r] = t]
      /\ savepc' = [savepc EXCEPT ![r] = "wait"]
      /\ handlerpc' = [handlerpc EXCEPT ![r] = IF IsSend THEN "wait" ELSE "return"]
      /\ UNCHANGED <<ready, IsSend, alive>>
  BY Zenon DEF EnterHandler, NewCollector, configVars
<1>3. \A q \in Reports : Running(q)' <=> Running(q) \/ q = r
  BY Zenon, <1>2 DEF Running, TypeOK, CollectorTypeOK
<1>4. Handling(t) = {}
  BY Zenon DEF DispatchInv, OneHandlerPerThread
<1>5. OneHandlerPerThread'
  <2>1. \A q \in Reports : thrower'[q] = IF q = r THEN t ELSE thrower[q]
    BY Zenon, <1>2 DEF TypeOK, ProcessTypeOK
  <2>2. ~Running(r)
    BY Zenon, <1>1 DEF Running
  <2>3. Handling(t)' = {r} /\ exc'[t] \in InHandler
    BY Zenon, <1>3, <1>4, <2>1 DEF Handling, TypeOK, ProcessTypeOK
  <2>4. \A u \in Threads \ {t} : Handling(u)' = Handling(u) /\ exc'[u] = exc[u]
    BY Zenon, <1>3, <2>1, <2>2 DEF Handling, TypeOK, ProcessTypeOK
  <2> QED
    BY Zenon, <1>2, <2>3, <2>4, HandlingStep DEF DispatchInv
<1>6. SendAfterSave'
  BY Zenon, <1>1, <1>2 DEF DispatchInv, SendAfterSave, TypeOK, CollectorTypeOK
<1>7. ASSUME NEW q \in Reports
      PROVE  (/\ kind[q] = "none" => handlerpc[q] = "idle"
              /\ kind[q] = "Thread" => thrower[q] = UIThread
              /\ exc[Handler(q)] # "none" => handlerpc[q] \in Sending
              /\ Running(q) => thrower[q] \in Threads)'
  <2>1. exc'[Handler(q)] # "none" => exc[Handler(q)] # "none"
    BY Zenon, ThreadNames DEF TypeOK, ProcessTypeOK
  <2>2. CASE q = r
    BY Zenon, <1>1, <1>2, <2>1, <2>2 DEF TypeOK, ProcessTypeOK, CollectorTypeOK
  <2>3. CASE q # r
    BY <1>2, <1>3, <2>1, <2>3 DEF DispatchInv, TypeOK, ProcessTypeOK, CollectorTypeOK
  <2> QED
    BY Zenon, <2>2, <2>3
<1> QED
  BY Zenon, <1>1, <1>2, <1>5, <1>6, <1>7 DEF DispatchInv

\* A step of SendToServer or TCPSender that does not throw.
LEMMA DispatchSend ==
    ASSUME TypeOK, DispatchInv, NEW r \in Reports, NEW from, NEW to,
           HandlerStep(r, from, to), UNCHANGED exc, from \in Sending \cup {"wait"},
           to \in Sending \cup {"return"}, savepc[r] = "done"
    PROVE  DispatchInv'
<1>1. /\ exc[Handler(r)] = "none" /\ handlerpc[r] = from
      /\ handlerpc' = [handlerpc EXCEPT ![r] = to]
      /\ UNCHANGED <<ready, IsSend, alive, kind, thrower, savepc>>
  BY Zenon DEF HandlerStep, configVars, eventVars
<1>2. \A q \in Reports : Running(q)' <=> Running(q)
  BY <1>1 DEF Running, Sending, TypeOK, CollectorTypeOK
<1>3. \A u \in Threads : Handling(u)' = Handling(u)
  BY <1>1, <1>2, Zenon DEF Handling
<1>4. OneHandlerPerThread'
  BY <1>1, <1>3, HandlingStep, Zenon DEF DispatchInv
<1>5. SendAfterSave'
  <2>1. \A q \in Reports \ {r} : handlerpc'[q] = handlerpc[q]
    BY <1>1 DEF TypeOK, CollectorTypeOK
  <2> QED
    BY <1>1, <2>1, Zenon DEF DispatchInv, SendAfterSave
<1> QED
  BY <1>1, <1>2, <1>4, <1>5, Zenon DEF DispatchInv, Sending, TypeOK, CollectorTypeOK

LEMMA DispatchSenderThrows ==
    ASSUME TypeOK, DispatchInv, NEW r \in Reports, NEW from \in Sending,
           SenderThrows(r, from)
    PROVE  DispatchInv'
<1>1. /\ exc[Handler(r)] = "none" /\ handlerpc[r] = from /\ savepc[r] = "done"
      /\ UNCHANGED <<ready, IsSend, IsCatchHE, alive, kind, thrower, savepc>>
  BY Zenon DEF SenderThrows, HandlerStep, configVars, eventVars, DispatchInv,
         SendAfterSave, Sending
<1>2. CASE ~IsCatchHE
  <2>1. UNCHANGED exc
    BY <1>1, <1>2 DEF SenderThrows, TypeOK, ProcessTypeOK
  <2> QED
    BY Zenon, <1>1, <1>2, <2>1, DispatchSend DEF SenderThrows
<1>3. CASE IsCatchHE
  <2>1. handlerpc' = handlerpc /\ exc' = [exc EXCEPT ![Handler(r)] = "first"]
    BY <1>1, <1>3 DEF SenderThrows, HandlerStep, TypeOK, CollectorTypeOK
  <2>2. ready
    BY <1>1, Zenon DEF DispatchInv, Sending
  <2>3. \A u \in Threads : exc'[u] \in InHandler <=> exc[u] \in InHandler
    BY <1>1, <2>1, ThreadNames, Zenon DEF TypeOK, ProcessTypeOK, InHandler
  <2>4. OneHandlerPerThread'
    <3>1. \A u \in Threads : Handling(u)' = Handling(u)
      BY <1>1, <2>1 DEF Handling, Running
    <3> QED
      BY <1>1, <2>3, <3>1, HandlingStep, Zenon DEF DispatchInv
  <2>5. \A q \in Reports : exc'[Handler(q)] # "none" => handlerpc'[q] \in Sending
    BY <1>1, <2>1, ThreadNames, Zenon DEF DispatchInv, TypeOK, ProcessTypeOK
  <2> QED
    BY <1>1, <2>1, <2>2, <2>4, <2>5, Zenon DEF DispatchInv, Running, SendAfterSave
<1> QED
  BY <1>2, <1>3

\* A handler returns to a thread outside TCPSender, or with the process.
LEMMA DispatchReturn ==
    ASSUME TypeOK, DispatchInv, NEW r \in Reports, NEW k, Returning(r, k),
           \/ ~alive' /\ exc' = exc
           \/ /\ alive' = alive
              /\ \A q \in Reports : thrower[r] # Handler(q)
              /\ \E next \in {"none", "second"} :
                    exc' = [exc EXCEPT ![thrower[r]] = next]
    PROVE  DispatchInv'
<1>1. /\ alive /\ handlerpc[r] = "return"
      /\ handlerpc' = [handlerpc EXCEPT ![r] = "done"]
      /\ UNCHANGED <<ready, IsSend, kind, thrower, savepc>>
  BY Zenon DEF Returning, configVars, eventVars
<1>2. /\ thrower[r] \in Threads /\ exc[thrower[r]] \in InHandler
      /\ Handling(thrower[r]) = {r}
  BY Zenon, <1>1, RunningHandler DEF Running
<1>3. \A q \in Reports : Running(q)' <=> Running(q) /\ q # r
  BY <1>1 DEF Running, TypeOK, CollectorTypeOK
<1>4. OneHandlerPerThread'
  <2>1. Handling(thrower[r])' = {}
    BY Zenon, <1>1, <1>2, <1>3 DEF Handling
  <2>2. \A u \in Threads \ {thrower[r]} : Handling(u)' = Handling(u)
    BY <1>1, <1>3 DEF Handling
  <2>3. CASE ~alive'
    BY <1>1, <2>1, <2>2, <2>3, HandlingStep, Zenon DEF DispatchInv
  <2>4. CASE alive'
    <3>1. exc'[thrower[r]] \notin InHandler
      BY Zenon, <1>2, <2>4 DEF TypeOK, ProcessTypeOK, InHandler
    <3>2. \A u \in Threads \ {thrower[r]} : exc'[u] = exc[u]
      BY <2>4 DEF TypeOK, ProcessTypeOK
    <3> QED
      BY <1>1, <2>1, <2>2, <3>1, <3>2, HandlingStep, Zenon DEF DispatchInv
  <2> QED
    BY Zenon, <2>3, <2>4
<1>5. SendAfterSave'
  BY <1>1, Zenon DEF DispatchInv, SendAfterSave, TypeOK, CollectorTypeOK
<1>6. \A q \in Reports : exc'[Handler(q)] # "none" => handlerpc'[q] \in Sending
  <2> SUFFICES ASSUME NEW q \in Reports, exc'[Handler(q)] # "none"
               PROVE  handlerpc'[q] \in Sending
    OBVIOUS
  <2>1. exc[Handler(q)] # "none"
    BY <1>1, ThreadNames, Zenon DEF TypeOK, ProcessTypeOK
  <2>2. handlerpc[q] \in Sending
    BY <2>1, Zenon DEF DispatchInv
  <2> QED
    BY Zenon, <1>1, <2>2 DEF Sending, TypeOK, CollectorTypeOK
<1> QED
  BY <1>1, <1>2, <1>3, <1>4, <1>5, <1>6, Zenon DEF DispatchInv, TypeOK, CollectorTypeOK

\* A first-chance handler returns into the catch block of TCPSender.
LEMMA DispatchReturnToSender ==
    ASSUME TypeOK, DispatchInv, NEW r \in Reports, NEW q \in Reports,
           FirstChanceReturnsToSender(r, q)
    PROVE  DispatchInv'
<1>1. /\ alive /\ handlerpc[r] = "return" /\ thrower[r] = Handler(q)
      /\ handlerpc' = [handlerpc EXCEPT ![r] = "done", ![q] = "return"]
      /\ exc' = [exc EXCEPT ![Handler(q)] = "none"]
      /\ UNCHANGED <<ready, IsSend, alive, kind, thrower, savepc>>
  BY Zenon DEF FirstChanceReturnsToSender, configVars, eventVars
<1>2. /\ Handler(q) \in Threads /\ exc[Handler(q)] \in InHandler
      /\ Handling(Handler(q)) = {r}
  BY Zenon, <1>1, RunningHandler DEF Running
<1>3. handlerpc[q] \in Sending /\ savepc[q] = "done" /\ q # r
  BY Zenon, <1>1, <1>2 DEF DispatchInv, SendAfterSave, InHandler, Sending
<1>4. /\ handlerpc'[q] = "return" /\ handlerpc'[r] = "done"
      /\ \A p \in Reports \ {q, r} : handlerpc'[p] = handlerpc[p]
  BY Zenon, <1>1, <1>3 DEF TypeOK, CollectorTypeOK
<1>5. \A p \in Reports : Running(p)' <=> Running(p) /\ p # r
  BY <1>3, <1>4 DEF Running, Sending
<1>6. OneHandlerPerThread'
  <2>1. Handling(Handler(q))' = {} /\ exc'[Handler(q)] \notin InHandler
    BY Zenon, <1>1, <1>2, <1>5 DEF Handling, TypeOK, ProcessTypeOK, InHandler
  <2>2. \A u \in Threads \ {Handler(q)} : Handling(u)' = Handling(u) /\ exc'[u] = exc[u]
    BY Zenon, <1>1, <1>5 DEF Handling, TypeOK, ProcessTypeOK
  <2> QED
    BY <1>1, <2>1, <2>2, HandlingStep, Zenon DEF DispatchInv
<1>7. SendAfterSave'
  BY <1>1, <1>3, <1>4 DEF DispatchInv, SendAfterSave
<1>8. \A p \in Reports : exc'[Handler(p)] # "none" => handlerpc'[p] \in Sending
  <2>1. exc'[Handler(q)] = "none"
    BY Zenon, <1>1, <1>2 DEF TypeOK, ProcessTypeOK
  <2>2. exc[Handler(r)] = "none"
    BY <1>1, Zenon DEF DispatchInv, Sending
  <2>3. \A p \in Reports \ {q} : exc'[Handler(p)] = exc[Handler(p)]
    BY <1>1, ThreadNames DEF TypeOK, ProcessTypeOK
  <2> QED
    BY <1>4, <2>1, <2>2, <2>3, Zenon DEF DispatchInv
<1>9. ASSUME NEW p \in Reports
      PROVE  (/\ kind[p] = "none" => handlerpc[p] = "idle"
              /\ kind[p] = "Thread" => thrower[p] = UIThread
              /\ Running(p) => thrower[p] \in Threads)'
  BY <1>1, <1>3, <1>4, <1>5, Zenon DEF DispatchInv, Sending
<1> QED
  BY <1>1, <1>2, <1>6, <1>7, <1>8, <1>9, Zenon DEF DispatchInv

LEMMA DispatchHandlerThread ==
    ASSUME TypeOK, HandshakeInv, DispatchInv, NEW r \in Reports, HandlerThread(r)
    PROVE  DispatchInv'
<1>1. CASE SendWait(r)
  <2>1. savepc[r] = "done"
    BY <1>1 DEF SendWait, HandshakeInv, TypeOK, CollectorTypeOK
  <2> QED
    BY Zenon, <1>1, <2>1, DispatchSend DEF SendWait, Sending
<1>2. CASE SendConnect(r) \/ SendOpen(r) \/ FileSend(r)
  <2>1. savepc[r] = "done"
    BY <1>2, Zenon DEF SendConnect, SendOpen, FileSend, SenderThrows, HandlerStep,
                DispatchInv, SendAfterSave
  <2>2. CASE SendConnect(r)
    BY Zenon, <2>1, <2>2, DispatchSend, DispatchSenderThrows DEF SendConnect, Sending
  <2>3. CASE SendOpen(r)
    BY Zenon, <2>1, <2>3, DispatchSend, DispatchSenderThrows DEF SendOpen, Sending
  <2>4. CASE FileSend(r)
    BY <2>1, <2>4, DispatchSend, DispatchSenderThrows DEF FileSend, Sending
  <2> QED
    BY <1>2, <2>2, <2>3, <2>4
<1>3. CASE FirstChanceReturnsToApp(r)
  <2>1. \A q \in Reports : thrower[r] # Handler(q)
    BY <1>3, ThreadNames DEF FirstChanceReturnsToApp
  <2> QED
    BY <1>3, <2>1, DispatchReturn, Zenon DEF FirstChanceReturnsToApp
<1>4. CASE FirstChanceReturnsToReporter(r)
  <2>1. \A q \in Reports : thrower[r] # Handler(q)
    BY <1>4, ThreadNames DEF FirstChanceReturnsToReporter
  <2> QED
    BY <1>4, <2>1, DispatchReturn, Zenon DEF FirstChanceReturnsToReporter
<1>5. CASE \E q \in Reports : FirstChanceReturnsToSender(r, q)
  BY <1>5, DispatchReturnToSender
<1>6. CASE ThreadReturns(r)
  <2>1. thrower[r] = UIThread
    BY Zenon, <1>6 DEF ThreadReturns, Returning, DispatchInv
  <2>2. \A q \in Reports : thrower[r] # Handler(q)
    BY SMTT(60), <2>1, ThreadNames
  <2> QED
    BY <1>6, <2>2, DispatchReturn, Zenon DEF ThreadReturns
<1>7. CASE UnhandledReturns(r)
  BY Zenon, <1>7, DispatchReturn DEF UnhandledReturns, Terminate
<1> QED
  BY Zenon, <1>1, <1>2, <1>3, <1>4, <1>5, <1>6, <1>7 DEF HandlerThread

\* The collect and save threads: they move on, or throw.
LEMMA DispatchReporterThreads ==
    ASSUME TypeOK, HandshakeInv, DispatchInv, NEW r \in Reports,
           CollectThread(r) \/ SaveThread(r)
    PROVE  DispatchInv'
<1>1. CASE CollectExceptionInfo(r) \/ CollectCallStack(r) \/ CollectRelease(r)
  BY Zenon, <1>1, DispatchFrame DEF CollectExceptionInfo, CollectCallStack,
           CollectRelease, CollectStep, Terminate, configVars, eventVars
<1>2. ASSUME NEW from, NEW to, SaveStep(r, from, to), from # "done"
      PROVE  DispatchInv'
  BY Zenon, <1>2, DispatchFrame DEF SaveStep, configVars, eventVars, TypeOK, CollectorTypeOK
<1>3. CASE SaveWait(r) \/ SaveWrite(r) \/ SaveRelease(r)
  BY <1>2, <1>3 DEF SaveWait, SaveWrite, SaveRelease
<1>4. ASSUME NEW t \in {Collect(r), Save(r)}, exc[t] = "none",
             exc' = [exc EXCEPT ![t] = Thrown], collectpc[r] # "idle",
             UNCHANGED <<ready, IsSend, alive, kind, thrower, handlerpc, savepc>>
      PROVE  DispatchInv'
  <2>1. ready
    BY <1>4, Zenon DEF HandshakeInv, DispatchInv
  <2>2. t \in Threads /\ \A q \in Reports : t # Handler(q)
    BY Zenon, ThreadNames
  <2> QED
    BY <1>4, <2>1, <2>2, DispatchThrow, Zenon
<1>5. CASE CollectThrows(r)
  BY <1>4, <1>5 DEF CollectThrows, Throws, configVars, eventVars, threadVars
<1>6. ASSUME NEW from \in {"build", "open"}, SaveThrows(r, from)
      PROVE  DispatchInv'
  BY <1>4, <1>6, Zenon DEF SaveThrows, Throws, HandshakeInv, configVars, eventVars,
                    threadVars
<1>7. CASE SaveBuild(r) \/ SaveOpen(r)
  BY <1>2, <1>6, <1>7, Zenon DEF SaveBuild, SaveOpen
<1>8. CASE SaveWriteThrows(r)
  BY <1>4, <1>8, Zenon DEF SaveWriteThrows, HandshakeInv, configVars, eventVars, threadVars
<1> QED
  BY Zenon, <1>1, <1>3, <1>5, <1>7, <1>8 DEF CollectThread, SaveThread

LEMMA DispatchNext ==
    TypeOK /\ HandshakeInv /\ DispatchInv /\ [Next]_vars => DispatchInv'
<1> SUFFICES ASSUME TypeOK, HandshakeInv, DispatchInv, [Next]_vars
             PROVE  DispatchInv'
  OBVIOUS
<1>1. ASSUME NEW send \in BOOLEAN, NEW catchne \in BOOLEAN, NEW catchhe \in BOOLEAN,
             SMEClient(send, catchne, catchhe)
      PROVE  DispatchInv'
  <2>1. \A r \in Reports : handlerpc[r] = "idle"
    BY Zenon, <1>1 DEF SMEClient, DispatchInv
  <2> QED
    <3>1. \A t \in Threads : Handling(t)' = Handling(t)
      BY <1>1, Zenon DEF SMEClient, Handling, Running, eventVars, threadVars
    <3>2. OneHandlerPerThread'
      BY <1>1, <3>1, HandlingStep, Zenon DEF SMEClient, DispatchInv
    <3> QED
      BY <1>1, <2>1, <3>2, Zenon DEF SMEClient, DispatchInv, Running, SendAfterSave,
                              eventVars, threadVars
<1>2. CASE Tick
  BY <1>2, DispatchFrame DEF Tick, configVars, eventVars, threadVars
<1>3. ASSUME NEW t \in AppThreads, AppThrow(t)
      PROVE  DispatchInv'
  <2>1. t \in Threads /\ \A r \in Reports : t # Handler(r)
    BY ThreadNames
  <2> QED
    BY <1>3, <2>1, DispatchThrow, Zenon DEF AppThrow, configVars, eventVars, threadVars
<1>4. ASSUME NEW r \in Reports, NEW t \in AppThreads, CollectError(r, t)
      PROVE  DispatchInv'
  <2>1. /\ kind[r] = "none" /\ handlerpc[r] = "idle" /\ savepc[r] = "idle"
        /\ kind' = [kind EXCEPT ![r] = "CollectError"]
        /\ thrower' = [thrower EXCEPT ![r] = t]
        /\ savepc' = [savepc EXCEPT ![r] = "wait"]
        /\ ready /\ UNCHANGED <<ready, IsSend, alive, exc, handlerpc>>
    BY <1>4, Zenon DEF CollectError, NewCollector, configVars, DispatchInv, HandshakeInv
  <2>2. \A q \in Reports : /\ Running(q)' <=> Running(q)
                           /\ Running(q) => thrower'[q] = thrower[q]
    BY <2>1 DEF Running, TypeOK, ProcessTypeOK
  <2>3. OneHandlerPerThread'
    <3>1. \A u \in Threads : Handling(u)' = Handling(u)
      BY Zenon, <2>2 DEF Handling
    <3> QED
      BY <2>1, <3>1, HandlingStep, Zenon DEF DispatchInv
  <2>4. SendAfterSave'
    BY Zenon, <2>1 DEF DispatchInv, SendAfterSave, TypeOK, CollectorTypeOK
  <2> QED
    <3>1. ASSUME NEW q \in Reports
          PROVE  (/\ kind[q] = "none" => handlerpc[q] = "idle"
                  /\ kind[q] = "Thread" => thrower[q] = UIThread
                  /\ exc[Handler(q)] # "none" => handlerpc[q] \in Sending
                  /\ Running(q) => thrower[q] \in Threads)'
      BY <2>1, <2>2 DEF DispatchInv, TypeOK, ProcessTypeOK
    <3> QED
      BY <2>1, <2>3, <2>4, <3>1, Zenon DEF DispatchInv
<1>5. ASSUME NEW r \in Reports, NEW t \in Threads,
             \/ SMEFirstChanceExceptionHandler(r, t)
             \/ SMEUnHandledExceptionHandler(r, t)
      PROVE  DispatchInv'
  BY <1>5, DispatchEnter DEF SMEFirstChanceExceptionHandler,
                             SMEUnHandledExceptionHandler, InHandler
<1>6. ASSUME NEW r \in Reports, SMEThreadExceptionHandler(r)
      PROVE  DispatchInv'
  BY <1>6, DispatchEnter, ThreadNames, Zenon DEF SMEThreadExceptionHandler, InHandler
<1>7. ASSUME NEW r \in Reports, FinalizeSender(r)
      PROVE  DispatchInv'
  BY Zenon, <1>7, DispatchFrame DEF FinalizeSender, configVars, eventVars, threadVars
<1>8. CASE UNCHANGED vars
  BY <1>8, DispatchFrame DEF vars, configVars, eventVars, threadVars
<1> QED
  BY <1>1, <1>2, <1>3, <1>4, <1>5, <1>6, <1>7, <1>8, NextCases,
     DispatchReporterThreads, DispatchHandlerThread

\* The runtime's view of the handlers and the handlers' own state agree.
THEOREM Dispatch == Spec => []DispatchInv
  BY DispatchInit, DispatchNext, TypeCorrect, Handshake, PTL DEF Spec

\* A handler of a sending client does not return to the runtime before its report
\* is saved, even when TCPSender throws and a first-chance handler runs inside it.
THEOREM SendsSavedReports == Spec => []SendAfterSave
<1>1. DispatchInv => SendAfterSave
  BY Zenon DEF DispatchInv
<1> QED
  BY <1>1, Dispatch, PTL

-----------------------------------------------------------------------------
(***************************************************************************)
(* The report files: who has one open, what it holds and what is sent of   *)
(* it.                                                                     *)
(***************************************************************************)

\* A save thread that has thrown never runs again: nothing in it catches, and the
\* runtime ends the process after the handlers of its exception.
LEMMA SaveExceptionStays ==
    ASSUME TypeOK, DispatchInv, [Next]_vars, NEW s \in Reports,
           exc[Save(s)] # "none"
    PROVE  exc'[Save(s)] # "none"
<1>0. Save(s) \in Threads
  BY Zenon, ThreadNames
<1>1. ASSUME NEW t \in Threads, NEW x, x # "none", exc' = [exc EXCEPT ![t] = x]
      PROVE  exc'[Save(s)] # "none"
  BY Zenon, <1>0, <1>1 DEF TypeOK, ProcessTypeOK
<1>2. ASSUME NEW t \in Threads \ {Save(s)}, NEW x, exc' = [exc EXCEPT ![t] = x]
      PROVE  exc'[Save(s)] # "none"
  BY <1>0, <1>2 DEF TypeOK, ProcessTypeOK
<1>3. Thrown # "none"
  BY Zenon DEF Thrown
<1>4. ASSUME NEW t \in AppThreads, AppThrow(t)
      PROVE  exc'[Save(s)] # "none"
  BY Zenon, <1>1, <1>3, <1>4, ThreadNames DEF AppThrow
<1>5. ASSUME NEW r \in Reports, NEW t \in Threads,
             \/ SMEFirstChanceExceptionHandler(r, t)
             \/ SMEUnHandledExceptionHandler(r, t)
      PROVE  exc'[Save(s)] # "none"
  BY Zenon, <1>1, <1>5 DEF SMEFirstChanceExceptionHandler, SMEUnHandledExceptionHandler
<1>6. ASSUME NEW r \in Reports, SMEThreadExceptionHandler(r)
      PROVE  exc'[Save(s)] # "none"
  BY <1>1, <1>6, ThreadNames DEF SMEThreadExceptionHandler
<1>7. ASSUME NEW r \in Reports, CollectThread(r) \/ SaveThread(r)
      PROVE  exc'[Save(s)] # "none"
  <2>1. UNCHANGED exc \/ \E t \in {Collect(r), Save(r)} : exc' = [exc EXCEPT ![t] = Thrown]
    BY <1>7, Zenon DEF CollectThread, CollectExceptionInfo, CollectCallStack,
         CollectThrows, CollectRelease, CollectStep, SaveThread, SaveWait, SaveBuild,
         SaveOpen, SaveWrite, SaveWriteThrows, SaveRelease, SaveStep, SaveThrows,
         Throws
  <2> QED
    BY <1>1, <1>3, <2>1, ThreadNames, Zenon
<1>8. ASSUME NEW r \in Reports, HandlerThread(r)
      PROVE  exc'[Save(s)] # "none"
  <2>1. CASE SendWait(r) \/ UnhandledReturns(r)
    BY Zenon, <2>1 DEF SendWait, UnhandledReturns
  <2>2. CASE SendConnect(r) \/ SendOpen(r) \/ FileSend(r)
    <3>1. UNCHANGED exc \/ \E x : exc' = [exc EXCEPT ![Handler(r)] = x]
      BY <2>2, Zenon DEF SendConnect, SendOpen, FileSend, SenderThrows
    <3> QED
      BY <1>2, <3>1, ThreadNames
  <2>3. CASE FirstChanceReturnsToApp(r)
    <3>1. thrower[r] \in Threads \ {Save(s)}
      BY <2>3, ThreadNames DEF FirstChanceReturnsToApp
    <3> QED
      BY Zenon, <1>2, <2>3, <3>1 DEF FirstChanceReturnsToApp
  <2>4. CASE FirstChanceReturnsToReporter(r)
    <3>1. PICK q \in Reports : thrower[r] \in {Collect(q), Save(q)}
      BY <2>4 DEF FirstChanceReturnsToReporter
    <3>2. thrower[r] \in Threads
      BY <3>1, ThreadOf, Zenon
    <3> QED
      BY <1>1, <2>4, <3>2, Zenon DEF FirstChanceReturnsToReporter
  <2>5. CASE \E q \in Reports : FirstChanceReturnsToSender(r, q)
    <3>1. PICK q \in Reports : FirstChanceReturnsToSender(r, q)
      BY <2>5
    <3>2. thrower[r] = Handler(q)
      BY <3>1, Zenon DEF FirstChanceReturnsToSender
    <3>3. thrower[r] \in Threads \ {Save(s)}
      BY <3>2, ThreadOf
    <3> QED
      BY <1>2, <3>1, <3>3, Zenon DEF FirstChanceReturnsToSender
  <2>6. CASE ThreadReturns(r)
    <3>1. thrower[r] \in Threads \ {Save(s)}
      BY <2>6, ThreadNames, Zenon DEF ThreadReturns, Returning, DispatchInv
    <3> QED
      BY <1>2, <2>6, <3>1, Zenon DEF ThreadReturns
  <2> QED
    BY <1>8, <2>1, <2>2, <2>3, <2>4, <2>5, <2>6, Zenon DEF HandlerThread
<1>9. CASE UNCHANGED exc
  BY <1>9
<1> QED
  BY <1>4, <1>5, <1>6, <1>7, <1>8, <1>9, NextCases, Zenon DEF vars, SMEClient, Tick,
     CollectError, FinalizeSender

-----------------------------------------------------------------------------
(* Sharing of the files.                                                   *)

\* A save thread between opening and closing its file is its only user, as the
\* file system's sharing modes promise.
FileInv ==
    /\ \A r \in Reports :
          alive /\ savepc[r] = "write" /\ exc[Save(r)] = "none" =>
              writer[m_currentTime[r]] = r
    /\ \A s \in Seconds : writer[s] # NoReport => readers[s] = {}

LEMMA FileInit == Init => FileInv
  BY Zenon DEF Init, FileInv

\* A step that opens, closes and names no file, and moves no save thread into one.
LEMMA FileFrame ==
    ASSUME TypeOK, DispatchInv, FileInv, [Next]_vars, alive' => alive,
           \A r \in Reports : savepc'[r] = "write" =>
               savepc[r] = "write" /\ m_currentTime'[r] = m_currentTime[r],
           UNCHANGED <<writer, readers>>
    PROVE  FileInv'
  BY Zenon, SaveExceptionStays DEF FileInv

LEMMA FileNew ==
    ASSUME TypeOK, DispatchInv, FileInv, [Next]_vars, NEW r \in Reports,
           NEW k, NEW t, NEW hasInner, NewCollector(r, k, t, hasInner),
           UNCHANGED <<alive, writer, readers>>
    PROVE  FileInv'
<1>1. \A q \in Reports : savepc'[q] = "write" =>
          savepc[q] = "write" /\ m_currentTime'[q] = m_currentTime[q]
  BY Zenon DEF NewCollector, TypeOK, CollectorTypeOK
<1> QED
  BY Zenon, <1>1, FileFrame

LEMMA FileSaveThread ==
    ASSUME TypeOK, DispatchInv, FileInv, [Next]_vars, NEW r \in Reports, SaveThread(r)
    PROVE  FileInv'
<1>1. UNCHANGED <<alive, m_currentTime, readers>>
  BY Zenon DEF SaveThread, SaveWait, SaveBuild, SaveOpen, SaveWrite, SaveWriteThrows,
     SaveRelease, SaveStep, SaveThrows, Throws, eventVars, fileVars
<1>2. ASSUME NEW from, NEW to, SaveStep(r, from, to), to # "write", UNCHANGED writer
      PROVE  FileInv'
  BY Zenon, <1>1, <1>2, FileFrame DEF SaveStep, TypeOK, CollectorTypeOK
<1>3. CASE SaveWait(r) \/ SaveRelease(r)
  BY Zenon, <1>2, <1>3 DEF SaveWait, SaveRelease, fileVars
<1>4. ASSUME NEW from, SaveThrows(r, from)
      PROVE  FileInv'
  BY Zenon, <1>1, <1>4, FileFrame DEF SaveThrows, Throws, threadVars, fileVars
<1>5. CASE SaveBuild(r)
  BY Zenon, <1>2, <1>4, <1>5 DEF SaveBuild, fileVars
<1>6. CASE SaveOpen(r)
  <2> DEFINE file == m_currentTime[r]
  <2>1. CASE /\ writer[file] = NoReport /\ readers[file] = {}
             /\ SaveStep(r, "open", "write")
             /\ writer' = [writer EXCEPT ![file] = r]
    <3>1. ASSUME NEW q \in Reports, alive', savepc'[q] = "write", exc'[Save(q)] = "none"
          PROVE  writer'[m_currentTime[q]] = q
      <4>1. CASE q = r
        BY Zenon, <2>1, <4>1 DEF TypeOK, CollectorTypeOK, FileTypeOK
      <4>2. CASE q # r
        <5>1. writer[m_currentTime[q]] = q
          BY <1>1, <2>1, <3>1, <4>2, Zenon DEF SaveStep, FileInv, TypeOK, CollectorTypeOK
        <5> QED
          BY <2>1, <5>1, ConstantsAssumption DEF TypeOK, CollectorTypeOK, FileTypeOK
      <4> QED
        BY Zenon, <4>1, <4>2
    <3>2. \A s \in Seconds : writer'[s] # NoReport => readers'[s] = {}
      BY Zenon, <1>1, <2>1 DEF FileInv, TypeOK, FileTypeOK
    <3> QED
      BY Zenon, <1>1, <3>1, <3>2 DEF FileInv
  <2> QED
    BY Zenon, <1>4, <1>6, <2>1 DEF SaveOpen
<1>7. ASSUME alive, exc[Save(r)] = "none", savepc[r] = "write",
             savepc'[r] # "write" \/ exc'[Save(r)] # "none",
             \A q \in Reports \ {r} : savepc'[q] = savepc[q],
             writer' = [writer EXCEPT ![m_currentTime[r]] = NoReport]
      PROVE  FileInv'
  <2>1. writer[m_currentTime[r]] = r
    BY Zenon, <1>7 DEF FileInv
  <2>2. ASSUME NEW q \in Reports, savepc'[q] = "write", exc'[Save(q)] = "none"
        PROVE  writer'[m_currentTime[q]] = q
    <3>1. q # r /\ savepc[q] = "write" /\ exc[Save(q)] = "none"
      BY <1>7, <2>2, SaveExceptionStays, Zenon
    <3>2. writer[m_currentTime[q]] = q
      BY <1>7, <3>1 DEF FileInv
    <3> QED
      BY <1>7, <2>1, <3>1, <3>2 DEF TypeOK, CollectorTypeOK, FileTypeOK
  <2>3. \A s \in Seconds : writer'[s] # NoReport => readers'[s] = {}
    BY <1>1, <1>7, Zenon DEF FileInv, TypeOK, FileTypeOK
  <2> QED
    BY Zenon, <1>1, <2>2, <2>3 DEF FileInv
<1>8. CASE SaveWrite(r)
  BY <1>7, <1>8 DEF SaveWrite, SaveStep, TypeOK, CollectorTypeOK
<1>9. CASE SaveWriteThrows(r)
  <2>1. exc'[Save(r)] # "none"
    BY <1>9, ThreadNames, Zenon DEF SaveWriteThrows, Thrown, TypeOK, ProcessTypeOK
  <2> QED
    BY <1>7, <1>9, <2>1, Zenon DEF SaveWriteThrows, threadVars
<1> QED
  BY <1>3, <1>5, <1>6, <1>8, <1>9 DEF SaveThread

\* The process ends: every file is closed.
LEMMA FileTerminate ==
    ASSUME Terminate
    PROVE  FileInv'
  BY Zenon DEF Terminate, FileInv

LEMMA FileHandlerThread ==
    ASSUME TypeOK, DispatchInv, FileInv, [Next]_vars, NEW r \in Reports,
           HandlerThread(r)
    PROVE  FileInv'
<1>1. UNCHANGED <<savepc, m_currentTime>>
  BY Zenon DEF HandlerThread, SendWait, SendConnect, SendOpen, FileSend, SenderThrows,
     HandlerStep, FirstChanceReturnsToApp, FirstChanceReturnsToReporter,
     FirstChanceReturnsToSender, ThreadReturns, UnhandledReturns, Returning, eventVars
<1>2. CASE UNCHANGED <<alive, writer, readers>>
  BY <1>1, <1>2, FileFrame, Zenon
<1>3. CASE SendWait(r) \/ SendConnect(r) \/ FileSend(r)
  BY <1>2, <1>3, Zenon DEF SendWait, SendConnect, FileSend, SenderThrows, HandlerStep
<1>4. CASE SendOpen(r)
  <2>1. CASE /\ writer[m_currentTime[r]] = NoReport
             /\ HandlerStep(r, "open", "send") /\ UNCHANGED exc
             /\ readers' = [readers EXCEPT ![m_currentTime[r]] = @ \cup {r}]
    BY Zenon, <1>1, <2>1 DEF HandlerStep, FileInv, TypeOK, FileTypeOK
  <2> QED
    BY <1>2, <1>4, <2>1, Zenon DEF SendOpen, SenderThrows, HandlerStep
<1>5. CASE FirstChanceReturnsToApp(r) \/ FirstChanceReturnsToReporter(r)
  BY <1>2, <1>5 DEF FirstChanceReturnsToApp, FirstChanceReturnsToReporter
<1>6. CASE ThreadReturns(r) \/ \E q \in Reports : FirstChanceReturnsToSender(r, q)
  BY <1>2, <1>6, Zenon DEF ThreadReturns, FirstChanceReturnsToSender, fileVars
<1>7. CASE UnhandledReturns(r)
  BY Zenon, <1>7, FileTerminate DEF UnhandledReturns
<1> QED
  BY <1>3, <1>4, <1>5, <1>6, <1>7 DEF HandlerThread

LEMMA FileNext == TypeOK /\ DispatchInv /\ FileInv /\ [Next]_vars => FileInv'
<1> SUFFICES ASSUME TypeOK, DispatchInv, FileInv, [Next]_vars PROVE FileInv'
  OBVIOUS
<1>1. CASE UNCHANGED <<alive, savepc, m_currentTime, writer, readers>>
  BY Zenon, <1>1, FileFrame
<1>2. ASSUME NEW send \in BOOLEAN, NEW catchne \in BOOLEAN, NEW catchhe \in BOOLEAN,
             SMEClient(send, catchne, catchhe)
      PROVE  FileInv'
  BY Zenon, <1>1, <1>2 DEF SMEClient, eventVars, threadVars, fileVars
<1>3. CASE Tick \/ \E t \in AppThreads : AppThrow(t)
  BY <1>1, <1>3 DEF Tick, AppThrow, eventVars, threadVars, fileVars
<1>4. ASSUME NEW r \in Reports, NEW t \in AppThreads, CollectError(r, t)
      PROVE  FileInv'
  BY <1>4, FileNew, Zenon DEF CollectError, fileVars
<1>5. ASSUME NEW r \in Reports, NEW k, NEW t \in Threads, EnterHandler(r, k, t)
      PROVE  FileInv'
  BY Zenon, <1>5, FileNew DEF EnterHandler, fileVars
<1>6. ASSUME NEW r \in Reports, NEW t \in Threads,
             \/ SMEFirstChanceExceptionHandler(r, t)
             \/ SMEUnHandledExceptionHandler(r, t)
      PROVE  FileInv'
  BY Zenon, <1>5, <1>6 DEF SMEFirstChanceExceptionHandler, SMEUnHandledExceptionHandler
<1>7. ASSUME NEW r \in Reports, SMEThreadExceptionHandler(r)
      PROVE  FileInv'
  BY Zenon, <1>5, <1>7, ThreadNames DEF SMEThreadExceptionHandler
<1>8. ASSUME NEW r \in Reports, CollectThread(r)
      PROVE  FileInv'
  <2>1. CASE CollectExceptionInfo(r)
    BY <1>1, <2>1, FileTerminate, Zenon DEF CollectExceptionInfo, CollectStep, eventVars
  <2>2. CASE CollectCallStack(r) \/ CollectRelease(r)
    BY Zenon, <1>1, <2>2 DEF CollectCallStack, CollectRelease, CollectStep, eventVars, fileVars
  <2>3. CASE CollectThrows(r)
    BY <1>1, <2>3 DEF CollectThrows, Throws, eventVars, threadVars, fileVars
  <2> QED
    BY <1>8, <2>1, <2>2, <2>3 DEF CollectThread
<1>9. ASSUME NEW r \in Reports, FinalizeSender(r)
      PROVE  FileInv'
  <2>1. UNCHANGED <<alive, savepc, m_currentTime, exc, writer>>
    BY <1>9, Zenon DEF FinalizeSender, eventVars, threadVars
  <2>2. \A s \in Seconds : readers'[s] \subseteq readers[s]
    BY Zenon, <1>9 DEF FinalizeSender, TypeOK, FileTypeOK
  <2> QED
    BY <2>1, <2>2, Zenon DEF FileInv
<1>10. CASE UNCHANGED vars
  BY <1>1, <1>10 DEF vars, eventVars, threadVars, fileVars
<1> QED
  BY Zenon, <1>2, <1>3, <1>4, <1>6, <1>7, <1>8, <1>9, <1>10, NextCases, FileSaveThread,
     FileHandlerThread

\* A file is open for one save thread or for senders, never for both.
THEOREM FilesShared == Spec => []FileInv
  BY FileInit, FileNext, TypeCorrect, Dispatch, PTL DEF Spec

-----------------------------------------------------------------------------
(* What the files hold.                                                    *)

\* Only a save thread changes a file: its own, when it opens or completes it.
LEMMA DiskStep ==
    ASSUME TypeOK, [Next]_vars
    PROVE  \/ UNCHANGED <<disk, savepc>>
           \/ \E r \in Reports : \/ SaveWait(r) \/ SaveOpen(r) \/ SaveWrite(r)
                                 \/ SaveRelease(r)
           \/ UNCHANGED disk /\ \E r \in Reports :
                 kind[r] = "none" /\ savepc' = [savepc EXCEPT ![r] = "wait"]
           \/ UNCHANGED disk /\ \E r \in Reports :
                 savepc[r] = "build" /\ savepc' = [savepc EXCEPT ![r] = "open"]
<1> USE DEF threadVars, fileVars
<1>1. ASSUME NEW send \in BOOLEAN, NEW catchne \in BOOLEAN, NEW catchhe \in BOOLEAN,
             SMEClient(send, catchne, catchhe)
      PROVE  UNCHANGED <<disk, savepc>>
  BY Zenon, <1>1 DEF SMEClient
<1>2. CASE Tick \/ \E t \in AppThreads : AppThrow(t)
  BY Zenon, <1>2 DEF Tick, AppThrow
<1>3. ASSUME NEW r \in Reports, NEW t \in AppThreads, CollectError(r, t)
      PROVE  UNCHANGED disk /\ kind[r] = "none" /\ savepc' = [savepc EXCEPT ![r] = "wait"]
  BY <1>3 DEF CollectError, NewCollector
<1>4. ASSUME NEW r \in Reports, NEW t \in Threads,
             \/ SMEFirstChanceExceptionHandler(r, t)
             \/ SMEUnHandledExceptionHandler(r, t)
      PROVE  UNCHANGED disk /\ kind[r] = "none" /\ savepc' = [savepc EXCEPT ![r] = "wait"]
  BY <1>4, Zenon DEF SMEFirstChanceExceptionHandler, SMEUnHandledExceptionHandler,
              EnterHandler, NewCollector
<1>5. ASSUME NEW r \in Reports, CollectThread(r)
      PROVE  UNCHANGED <<disk, savepc>>
  BY Zenon, <1>5 DEF CollectThread, CollectExceptionInfo, CollectCallStack, CollectThrows,
              CollectRelease, CollectStep, Throws
<1>6. ASSUME NEW r \in Reports, SaveBuild(r) \/ SaveWriteThrows(r)
      PROVE  \/ UNCHANGED <<disk, savepc>>
             \/ /\ UNCHANGED disk /\ savepc[r] = "build"
                /\ savepc' = [savepc EXCEPT ![r] = "open"]
  BY <1>6 DEF SaveBuild, SaveWriteThrows, SaveStep, SaveThrows, Throws
<1>7. ASSUME NEW r \in Reports, HandlerThread(r) \/ FinalizeSender(r)
      PROVE  UNCHANGED <<disk, savepc>>
  BY <1>7, Zenon DEF HandlerThread, SendWait, SendConnect, SendOpen, FileSend,
     SenderThrows, HandlerStep, FirstChanceReturnsToApp,
     FirstChanceReturnsToReporter, FirstChanceReturnsToSender, ThreadReturns,
     UnhandledReturns, Returning, FinalizeSender
<1>8. ASSUME NEW r \in Reports, SMEThreadExceptionHandler(r)
      PROVE  UNCHANGED disk /\ kind[r] = "none" /\ savepc' = [savepc EXCEPT ![r] = "wait"]
  BY Zenon, <1>8 DEF SMEThreadExceptionHandler, EnterHandler, NewCollector
<1>9. CASE UNCHANGED vars
  BY Zenon, <1>9 DEF vars
<1>10. CASE \E r \in Reports : SaveThread(r)
  BY <1>6, <1>10 DEF SaveThread
<1> QED
  BY <1>1, <1>2, <1>3, <1>4, <1>5, <1>7, <1>8, <1>9, <1>10, NextCases

\* What TCPSender reads of a file is one version of it: the file is not created
\* again or completed while a sender has it open.
THEOREM SendersReadOneVersion == Spec => FileStableWhileRead
<1>1. TypeOK /\ FileInv /\ [Next]_vars =>
          [\A s \in Seconds : readers[s] # {} => disk'[s] = disk[s]]_vars
  <2> SUFFICES ASSUME TypeOK, FileInv, [Next]_vars, NEW s \in Seconds,
                      readers[s] # {}
               PROVE  disk'[s] = disk[s]
    BY Zenon
  <2>1. ASSUME NEW r \in Reports, SaveOpen(r)
        PROVE  disk'[s] = disk[s]
    BY Zenon, <2>1 DEF SaveOpen, SaveThrows, Throws, fileVars, TypeOK, FileTypeOK
  <2>2. ASSUME NEW r \in Reports, SaveWrite(r)
        PROVE  disk'[s] = disk[s]
    <3>1. writer[m_currentTime[r]] = r /\ m_currentTime[r] \in Seconds
      BY <2>2, Zenon DEF SaveWrite, SaveStep, FileInv, TypeOK, CollectorTypeOK
    <3>2. readers[m_currentTime[r]] = {}
      BY <3>1, ConstantsAssumption, Zenon DEF FileInv
    <3> QED
      BY <2>2, <3>2 DEF SaveWrite, TypeOK, FileTypeOK
  <2>3. ASSUME NEW r \in Reports, SaveWait(r) \/ SaveRelease(r)
        PROVE  disk'[s] = disk[s]
    BY <2>3, Zenon DEF SaveWait, SaveRelease, fileVars
  <2> QED
    BY <2>1, <2>2, <2>3, DiskStep, Zenon
<1> QED
  BY <1>1, TypeCorrect, FilesShared, PTL DEF Spec, FileStableWhileRead

\* A collector keeps its kind, its thrower and the time that names its file.
LEMMA NameStays ==
    ASSUME TypeOK, [Next]_vars, NEW r \in Reports, kind[r] # "none"
    PROVE  /\ kind'[r] = kind[r] /\ thrower'[r] = thrower[r]
           /\ m_currentTime'[r] = m_currentTime[r]
<1>1. CASE UNCHANGED eventVars
  BY <1>1, Zenon DEF eventVars
<1>2. ASSUME NEW q \in Reports, NEW k, NEW t, NEW hasInner,
             NewCollector(q, k, t, hasInner)
      PROVE  /\ kind'[r] = kind[r] /\ thrower'[r] = thrower[r]
             /\ m_currentTime'[r] = m_currentTime[r]
  BY <1>2 DEF NewCollector, TypeOK, ProcessTypeOK, CollectorTypeOK
<1>3. ASSUME NEW q \in Reports, NEW t \in Threads,
             \/ SMEFirstChanceExceptionHandler(q, t)
             \/ SMEUnHandledExceptionHandler(q, t)
             \/ SMEThreadExceptionHandler(q)
             \/ CollectError(q, t)
      PROVE  \E k, u, hasInner : NewCollector(q, k, u, hasInner)
  BY <1>3, Zenon DEF SMEFirstChanceExceptionHandler, SMEUnHandledExceptionHandler,
              SMEThreadExceptionHandler, EnterHandler, CollectError
<1>4. ASSUME NEW q \in Reports, CollectThread(q) \/ SaveThread(q)
      PROVE  UNCHANGED eventVars
  BY <1>4, Zenon DEF CollectThread, CollectExceptionInfo, CollectCallStack, CollectThrows,
              CollectRelease, CollectStep, Throws, SaveThread, SaveWait, SaveBuild,
              SaveOpen, SaveWrite, SaveWriteThrows, SaveRelease, SaveStep, SaveThrows
<1>5. ASSUME NEW q \in Reports, HandlerThread(q) \/ FinalizeSender(q)
      PROVE  UNCHANGED eventVars
  BY <1>5, Zenon DEF HandlerThread, SendWait, SendConnect, SendOpen, FileSend,
     SenderThrows, HandlerStep, FirstChanceReturnsToApp,
     FirstChanceReturnsToReporter, FirstChanceReturnsToSender, ThreadReturns,
     UnhandledReturns, Returning, FinalizeSender
<1> QED
  BY <1>1, <1>2, <1>3, <1>4, <1>5, NextCases, ThreadNames, Zenon DEF vars, SMEClient, Tick,
     AppThrow

\* Only TCPSender's FileSend puts a report on the wire: what its file holds.
LEMMA SentStep ==
    ASSUME TypeOK, [Next]_vars, NEW r \in Reports, sent'[r] # sent[r]
    PROVE  handlerpc[r] = "send" /\ sent'[r] = disk[m_currentTime[r]]
<1>1. ASSUME NEW q \in Reports, FileSend(q)
      PROVE  \/ UNCHANGED sent
             \/ handlerpc[q] = "send" /\ sent' = [sent EXCEPT ![q] = disk[m_currentTime[q]]]
  BY <1>1, Zenon DEF FileSend, SenderThrows, HandlerStep, netVars
<1>2. CASE \E q \in Reports : FileSend(q)
  BY <1>1, <1>2 DEF TypeOK, FileTypeOK
<1>3. ASSUME NEW q \in Reports, NEW t \in Threads,
             \/ SMEFirstChanceExceptionHandler(q, t)
             \/ SMEUnHandledExceptionHandler(q, t)
             \/ SMEThreadExceptionHandler(q)
             \/ CollectError(q, t)
      PROVE  UNCHANGED sent
  BY <1>3, Zenon DEF SMEFirstChanceExceptionHandler, SMEUnHandledExceptionHandler,
              SMEThreadExceptionHandler, EnterHandler, CollectError, netVars
<1>4. ASSUME NEW q \in Reports, CollectThread(q) \/ SaveThread(q)
      PROVE  UNCHANGED sent
  BY <1>4, Zenon DEF CollectThread, CollectExceptionInfo, CollectCallStack, CollectThrows,
              CollectRelease, CollectStep, Throws, SaveThread, SaveWait, SaveBuild,
              SaveOpen, SaveWrite, SaveWriteThrows, SaveRelease, SaveStep,
              SaveThrows, netVars
<1>5. ASSUME NEW q \in Reports, ~FileSend(q), HandlerThread(q) \/ FinalizeSender(q)
      PROVE  UNCHANGED sent
  BY <1>5, Zenon DEF HandlerThread, SendWait, SendConnect, SendOpen, SenderThrows,
     FirstChanceReturnsToApp, FirstChanceReturnsToReporter,
     FirstChanceReturnsToSender, ThreadReturns, UnhandledReturns, Returning,
     FinalizeSender, netVars
<1> QED
  BY <1>2, <1>3, <1>4, <1>5, NextCases, ThreadNames, Zenon DEF vars, SMEClient, Tick,
     AppThrow, netVars

\* A save thread gets past writing its file only by completing it.
LEMMA SavedStep ==
    ASSUME TypeOK, [Next]_vars, NEW r \in Reports, savepc'[r] \in {"release", "done"}
    PROVE  savepc[r] \in {"release", "done"} \/ SaveWrite(r)
<1>1. ASSUME NEW q \in Reports, NEW pc \in {"wait", "build", "open", "write"},
             savepc' = [savepc EXCEPT ![q] = pc]
      PROVE  savepc[r] \in {"release", "done"}
  BY Zenon, <1>1 DEF TypeOK, CollectorTypeOK
<1>2. ASSUME NEW q \in Reports, SaveWait(q)
      PROVE  savepc[r] \in {"release", "done"}
  BY <1>1, <1>2 DEF SaveWait, SaveStep
<1>3. ASSUME NEW q \in Reports, SaveOpen(q)
      PROVE  savepc[r] \in {"release", "done"}
  BY <1>1, <1>3, Zenon DEF SaveOpen, SaveStep, SaveThrows, Throws, threadVars
<1>4. ASSUME NEW q \in Reports, SaveWrite(q) \/ SaveRelease(q), q # r
      PROVE  savepc[r] \in {"release", "done"}
  BY Zenon, <1>4 DEF SaveWrite, SaveRelease, SaveStep, TypeOK, CollectorTypeOK
<1>5. SaveRelease(r) => savepc[r] = "release"
  BY Zenon DEF SaveRelease, SaveStep
<1> QED
  BY Zenon, <1>1, <1>2, <1>3, <1>4, <1>5, DiskStep

\* The two properties of the files, and that only a collector sends.
ContentInv ==
    /\ SavedReportStays
    /\ OwnReportSent
    /\ \A r \in Reports : kind[r] = "none" => sent[r] = NoReport

LEMMA ContentInit == Init => ContentInv
  BY DEF Init, ContentInv, SavedReportStays, OwnReportSent

LEMMA ContentNext ==
    TypeOK /\ HandshakeInv /\ DispatchInv /\ ContentInv /\ [Next]_vars => ContentInv'
<1> SUFFICES ASSUME TypeOK, HandshakeInv, DispatchInv, ContentInv, [Next]_vars
             PROVE  ContentInv'
  OBVIOUS
<1>0. \A r \in Reports : savepc[r] # "idle" => kind[r] # "none"
  BY DEF HandshakeInv
<1>1. ASSUME NEW r \in Reports, kind[r] # "none", OwnsFileName(r)'
      PROVE  OwnsFileName(r) /\ m_currentTime'[r] = m_currentTime[r]
  BY Zenon, <1>1, NameStays DEF OwnsFileName
<1>2. ASSUME NEW r \in Reports, OwnsFileName(r)', savepc'[r] \in {"release", "done"}
      PROVE  disk'[m_currentTime'[r]] = r
  <2>1. savepc[r] \in {"release", "done"} \/ SaveWrite(r)
    BY <1>2, SavedStep
  <2>2. savepc[r] # "idle"
    BY <2>1, Zenon DEF SaveWrite, SaveStep
  <2>3. /\ kind[r] # "none" /\ OwnsFileName(r) /\ m_currentTime'[r] = m_currentTime[r]
        /\ m_currentTime[r] \in Seconds
    BY <1>0, <1>1, <1>2, <2>2, Zenon DEF TypeOK, CollectorTypeOK
  <2>4. CASE SaveWrite(r)
    BY <2>3, <2>4 DEF SaveWrite, TypeOK, FileTypeOK
  <2>5. CASE savepc[r] \in {"release", "done"}
    <3>1. disk[m_currentTime[r]] = r
      BY <2>3, <2>5 DEF ContentInv, SavedReportStays
    <3>2. ASSUME NEW q \in Reports, SaveOpen(q) \/ SaveWrite(q)
          PROVE  disk'[m_currentTime[r]] = disk[m_currentTime[r]]
      <4>1. savepc[q] \in {"open", "write"}
        BY <3>2, Zenon DEF SaveOpen, SaveWrite, SaveStep, SaveThrows
      <4>2. m_currentTime[q] # m_currentTime[r]
        BY Zenon, <1>0, <2>3, <2>5, <4>1 DEF OwnsFileName
      <4> QED
        BY <2>3, <3>2, <4>2, Zenon DEF SaveOpen, SaveWrite, SaveThrows, Throws, fileVars,
                                TypeOK, CollectorTypeOK, FileTypeOK
    <3> QED
      BY <2>3, <3>1, <3>2, DiskStep, Zenon DEF SaveWait, SaveRelease, fileVars
  <2> QED
    BY Zenon, <2>1, <2>4, <2>5
<1>3. ASSUME NEW r \in Reports, OwnsFileName(r)'
      PROVE  sent'[r] \in {r, NoReport}
  <2>1. CASE sent'[r] = sent[r]
    BY <1>1, <1>3, <2>1 DEF ContentInv, OwnReportSent
  <2>2. CASE sent'[r] # sent[r]
    <3>1. handlerpc[r] = "send" /\ sent'[r] = disk[m_currentTime[r]]
      BY <2>2, SentStep, Zenon
    <3>2. savepc[r] = "done"
      BY Zenon, <3>1 DEF DispatchInv, SendAfterSave
    <3> QED
      BY <1>0, <1>1, <1>3, <3>1, <3>2, Zenon DEF ContentInv, SavedReportStays
  <2> QED
    BY Zenon, <2>1, <2>2
<1>4. ASSUME NEW r \in Reports, kind'[r] = "none"
      PROVE  sent'[r] = NoReport
  <2>1. kind[r] = "none"
    BY <1>4, NameStays
  <2> QED
    BY Zenon, <2>1, SentStep DEF DispatchInv, ContentInv
<1> QED
  BY <1>2, <1>3, <1>4, Zenon DEF ContentInv, SavedReportStays, OwnReportSent

\* A report saved in a second no other report is named in stays in its file.
THEOREM SavedReportsStay == Spec => []SavedReportStays
<1>1. ContentInv => SavedReportStays
  BY Zenon DEF ContentInv
<1> QED
  BY <1>1, ContentInit, ContentNext, TypeCorrect, Handshake, Dispatch, PTL DEF Spec

\* A handler sends its own, complete report or nothing, if no other report is
\* named in the same second.
THEOREM OwnReportsSent == Spec => []OwnReportSent
<1>1. ContentInv => OwnReportSent
  BY DEF ContentInv
<1> QED
  BY <1>1, ContentInit, ContentNext, TypeCorrect, Handshake, Dispatch, PTL DEF Spec
-----------------------------------------------------------------------------
(* Exceptions inside a handler.                                            *)

\* A file that exists is never removed.
LEMMA DiskStays ==
    ASSUME TypeOK, [Next]_vars, NEW s \in Seconds, disk[s] # NoReport
    PROVE  disk'[s] # NoReport
<1>1. ASSUME NEW r \in Reports, NEW x \in Reports \cup {"torn"},
             disk' = [disk EXCEPT ![m_currentTime[r]] = x]
      PROVE  disk'[s] # NoReport
  BY <1>1, ConstantsAssumption DEF TypeOK, FileTypeOK
<1>2. ASSUME NEW r \in Reports, SaveOpen(r) \/ SaveWrite(r)
      PROVE  disk'[s] # NoReport
  BY Zenon, <1>1, <1>2 DEF SaveOpen, SaveWrite, SaveThrows, Throws, fileVars
<1> QED
  BY Zenon, <1>2, DiskStep DEF SaveWait, SaveRelease, fileVars

\* A saved report stays saved.
LEMMA SavedStays ==
    ASSUME TypeOK, HandshakeInv, [Next]_vars, NEW r \in Reports, savepc[r] = "done"
    PROVE  /\ savepc'[r] = "done"
           /\ kind'[r] = kind[r] /\ thrower'[r] = thrower[r]
<1>1. kind[r] # "none"
  BY DEF HandshakeInv
<1>2. ASSUME NEW q \in Reports, NEW pc, q # r, savepc' = [savepc EXCEPT ![q] = pc]
      PROVE  savepc'[r] = "done"
  BY Zenon, <1>2 DEF TypeOK, CollectorTypeOK
<1>3. ASSUME NEW q \in Reports,
             SaveWait(q) \/ SaveOpen(q) \/ SaveWrite(q) \/ SaveRelease(q)
      PROVE  \/ UNCHANGED savepc
             \/ savepc[q] # "done" /\ \E pc : savepc' = [savepc EXCEPT ![q] = pc]
  BY <1>3 DEF SaveWait, SaveOpen, SaveWrite, SaveRelease, SaveStep, SaveThrows, Throws,
              threadVars
<1>4. savepc'[r] = "done"
  BY <1>1, <1>2, <1>3, DiskStep
<1> QED
  BY <1>1, <1>4, NameStays

\* SMEClient is constructed before any of its handlers runs.
LEMMA ConfigStays ==
    ASSUME DispatchInv, [Next]_vars, NEW r \in Reports, handlerpc[r] # "idle"
    PROVE  UNCHANGED <<IsSend, IsCatchHE>>
<1> USE DEF configVars
<1>1. ready
  BY DEF DispatchInv
<1>2. ASSUME NEW q \in Reports, NEW t \in Threads,
             \/ SMEFirstChanceExceptionHandler(q, t)
             \/ SMEUnHandledExceptionHandler(q, t)
             \/ SMEThreadExceptionHandler(q)
             \/ CollectError(q, t)
      PROVE  UNCHANGED configVars
  BY <1>2, Zenon DEF SMEFirstChanceExceptionHandler, SMEUnHandledExceptionHandler,
              SMEThreadExceptionHandler, EnterHandler, CollectError
<1>3. ASSUME NEW q \in Reports, CollectThread(q) \/ SaveThread(q)
      PROVE  UNCHANGED configVars
  BY <1>3, Zenon DEF CollectThread, CollectExceptionInfo, CollectCallStack, CollectThrows,
              CollectRelease, CollectStep, Throws, SaveThread, SaveWait, SaveBuild,
              SaveOpen, SaveWrite, SaveWriteThrows, SaveRelease, SaveStep, SaveThrows
<1>4. ASSUME NEW q \in Reports, HandlerThread(q) \/ FinalizeSender(q)
      PROVE  UNCHANGED configVars
  BY <1>4, Zenon DEF HandlerThread, SendWait, SendConnect, SendOpen, FileSend,
     SenderThrows, HandlerStep, FirstChanceReturnsToApp,
     FirstChanceReturnsToReporter, FirstChanceReturnsToSender, ThreadReturns,
     UnhandledReturns, Returning, FinalizeSender
<1> QED
  BY <1>1, <1>2, <1>3, <1>4, NextCases, ThreadNames, Zenon DEF vars, SMEClient, Tick,
     AppThrow

\* The ways into the end of a handler of a sending client that watches first-chance
\* exceptions: it sent its file, or a handler inside it returned to TCPSender.
ReachesEnd(r) ==
    \/ handlerpc'[r] \in {"wait", "connect", "open", "send"}
    \/ handlerpc'[r] = handlerpc[r]
    \/ handlerpc[r] = "return" /\ handlerpc'[r] = "done"
    \/ /\ handlerpc[r] = "send" /\ handlerpc'[r] = "return"
       /\ sent'[r] = disk[m_currentTime[r]]
    \/ \E q \in Reports : FirstChanceReturnsToSender(q, r)

LEMMA HandlerMove ==
    ASSUME TypeOK, [Next]_vars, IsSend', IsCatchHE', NEW r \in Reports
    PROVE  ReachesEnd(r)
<1> USE DEF threadVars, configVars
<1>1. CASE UNCHANGED handlerpc
  BY Zenon, <1>1 DEF ReachesEnd
<1>2. ASSUME NEW q \in Reports, NEW t \in Threads,
             \/ SMEFirstChanceExceptionHandler(q, t)
             \/ SMEUnHandledExceptionHandler(q, t)
             \/ SMEThreadExceptionHandler(q)
      PROVE  ReachesEnd(r)
  <2>1. handlerpc' = [handlerpc EXCEPT ![q] = "wait"]
    BY <1>2, Zenon DEF SMEFirstChanceExceptionHandler, SMEUnHandledExceptionHandler,
                       SMEThreadExceptionHandler, EnterHandler
  <2> QED
    BY Zenon, <2>1 DEF ReachesEnd, TypeOK, CollectorTypeOK
<1>3. ASSUME NEW q \in Reports, CollectThread(q) \/ SaveThread(q)
      PROVE  UNCHANGED handlerpc
  BY <1>3, Zenon DEF CollectThread, CollectExceptionInfo, CollectCallStack, CollectThrows,
              CollectRelease, CollectStep, Throws, SaveThread, SaveWait, SaveBuild,
              SaveOpen, SaveWrite, SaveWriteThrows, SaveRelease, SaveStep, SaveThrows
<1>4. ASSUME NEW q \in Reports, HandlerThread(q)
      PROVE  ReachesEnd(r)
  <2>0. ASSUME NEW pc \in {"connect", "open", "send"},
               handlerpc' = [handlerpc EXCEPT ![q] = pc]
        PROVE  ReachesEnd(r)
    BY Zenon, <2>0 DEF ReachesEnd, TypeOK, CollectorTypeOK
  <2>1. ASSUME NEW from, SenderThrows(q, from)
        PROVE  ReachesEnd(r)
    <3>1. handlerpc[q] = from /\ handlerpc' = [handlerpc EXCEPT ![q] = from]
      BY <2>1, Zenon DEF SenderThrows, HandlerStep
    <3> QED
      BY Zenon, <3>1 DEF ReachesEnd, TypeOK, CollectorTypeOK
  <2>2. CASE SendWait(q) \/ SendConnect(q)
    BY <2>0, <2>1, <2>2, Zenon DEF SendWait, SendConnect, HandlerStep
  <2>3. CASE SendOpen(q)
    BY <2>0, <2>1, <2>3, Zenon DEF SendOpen, HandlerStep
  <2>4. CASE FileSend(q)
    <3>1. \/ \E from : SenderThrows(q, from)
          \/ /\ handlerpc[q] = "send"
             /\ handlerpc' = [handlerpc EXCEPT ![q] = "return"]
             /\ sent' = [sent EXCEPT ![q] = disk[m_currentTime[q]]]
      BY <2>4, Zenon DEF FileSend, HandlerStep
    <3>2. CASE /\ handlerpc[q] = "send"
               /\ handlerpc' = [handlerpc EXCEPT ![q] = "return"]
               /\ sent' = [sent EXCEPT ![q] = disk[m_currentTime[q]]]
      BY <3>2 DEF ReachesEnd, TypeOK, CollectorTypeOK, FileTypeOK
    <3> QED
      BY Zenon, <2>1, <3>1, <3>2
  <2>5. ASSUME NEW k, Returning(q, k)
        PROVE  ReachesEnd(r)
    BY Zenon, <2>5 DEF Returning, ReachesEnd, TypeOK, CollectorTypeOK
  <2>6. CASE \/ FirstChanceReturnsToApp(q) \/ FirstChanceReturnsToReporter(q)
             \/ ThreadReturns(q) \/ UnhandledReturns(q)
    BY Zenon, <2>5, <2>6 DEF FirstChanceReturnsToApp, FirstChanceReturnsToReporter,
       ThreadReturns, UnhandledReturns
  <2>7. ASSUME NEW p \in Reports, FirstChanceReturnsToSender(q, p)
        PROVE  ReachesEnd(r)
    <3>1. CASE p = r
      BY Zenon, <2>7, <3>1 DEF ReachesEnd
    <3>2. CASE p # r
      <4>1. /\ handlerpc[q] = "return"
            /\ handlerpc' = [handlerpc EXCEPT ![q] = "done", ![p] = "return"]
        BY <2>7, Zenon DEF FirstChanceReturnsToSender
      <4> QED
        BY <3>2, <4>1 DEF ReachesEnd, TypeOK, CollectorTypeOK
    <3> QED
      BY Zenon, <3>1, <3>2
  <2> QED
    BY <1>4, <2>2, <2>3, <2>4, <2>6, <2>7, Zenon DEF HandlerThread
<1> QED
  BY <1>1, <1>2, <1>3, <1>4, NextCases, ThreadNames, Zenon DEF vars, SMEClient, Tick,
     AppThrow, CollectError, FinalizeSender

\* TCPSender sends only once File.OpenRead has found the file.
LEMMA SendStep ==
    ASSUME TypeOK, DispatchInv, [Next]_vars, NEW r \in Reports,
           handlerpc'[r] = "send", handlerpc[r] # "send"
    PROVE  disk[m_currentTime[r]] # NoReport /\ kind[r] # "none"
<1> USE DEF threadVars
<1>1. ASSUME NEW q \in Reports, NEW t \in Threads,
             \/ SMEFirstChanceExceptionHandler(q, t)
             \/ SMEUnHandledExceptionHandler(q, t)
             \/ SMEThreadExceptionHandler(q)
      PROVE  \E pc \in {"wait", "return"} : handlerpc' = [handlerpc EXCEPT ![q] = pc]
  BY <1>1 DEF SMEFirstChanceExceptionHandler, SMEUnHandledExceptionHandler,
              SMEThreadExceptionHandler, EnterHandler
<1>2. ASSUME NEW q \in Reports, NEW pc, pc # "send",
             handlerpc' = [handlerpc EXCEPT ![q] = pc]
      PROVE  FALSE
  BY Zenon, <1>2 DEF TypeOK, CollectorTypeOK
<1>3. ASSUME NEW q \in Reports, CollectThread(q) \/ SaveThread(q)
      PROVE  UNCHANGED handlerpc
  BY <1>3, Zenon DEF CollectThread, CollectExceptionInfo, CollectCallStack, CollectThrows,
              CollectRelease, CollectStep, Throws, SaveThread, SaveWait, SaveBuild,
              SaveOpen, SaveWrite, SaveWriteThrows, SaveRelease, SaveStep, SaveThrows
<1>4. ASSUME NEW q \in Reports, HandlerThread(q), ~SendOpen(q)
      PROVE  FALSE
  <2>1. ASSUME NEW from, SenderThrows(q, from)
        PROVE  FALSE
    <3>1. /\ handlerpc[q] = from
          /\ \E pc \in {from, "return"} : handlerpc' = [handlerpc EXCEPT ![q] = pc]
      BY <2>1 DEF SenderThrows, HandlerStep
    <3> QED
      BY Zenon, <3>1 DEF TypeOK, CollectorTypeOK
  <2>2. CASE SendWait(q) \/ SendConnect(q) \/ FileSend(q)
    BY <1>2, <2>1, <2>2 DEF SendWait, SendConnect, FileSend, HandlerStep
  <2>3. CASE \/ FirstChanceReturnsToApp(q) \/ FirstChanceReturnsToReporter(q)
             \/ ThreadReturns(q) \/ UnhandledReturns(q)
    BY <1>2, <2>3 DEF FirstChanceReturnsToApp, FirstChanceReturnsToReporter,
       ThreadReturns, UnhandledReturns, Returning
  <2>4. ASSUME NEW p \in Reports, FirstChanceReturnsToSender(q, p)
        PROVE  FALSE
    <3>1. handlerpc' = [handlerpc EXCEPT ![q] = "done", ![p] = "return"]
      BY <2>4, Zenon DEF FirstChanceReturnsToSender
    <3> QED
      BY <3>1 DEF TypeOK, CollectorTypeOK
  <2> QED
    BY <1>4, <2>2, <2>3, <2>4, Zenon DEF HandlerThread
<1>5. ASSUME NEW q \in Reports, SendOpen(q)
      PROVE  disk[m_currentTime[r]] # NoReport /\ kind[r] # "none"
  <2>1. \/ /\ disk[m_currentTime[q]] # NoReport /\ handlerpc[q] = "open"
           /\ handlerpc' = [handlerpc EXCEPT ![q] = "send"]
        \/ \E pc \in {"open", "return"} : handlerpc' = [handlerpc EXCEPT ![q] = pc]
    BY <1>5 DEF SendOpen, SenderThrows, HandlerStep
  <2>2. handlerpc[q] = "open" => kind[q] # "none"
    BY DEF DispatchInv
  <2> QED
    BY <1>2, <2>1, <2>2 DEF TypeOK, CollectorTypeOK
<1> QED
  BY <1>1, <1>2, <1>3, <1>4, <1>5, NextCases, ThreadNames DEF vars, SMEClient, Tick,
     AppThrow, CollectError, FinalizeSender

\* With the property: a sender that has its file open has a file.
FailedInv ==
    /\ FailedSendIsReported
    /\ \A r \in Reports : handlerpc[r] = "send" => disk[m_currentTime[r]] # NoReport

LEMMA FailedNext ==
    TypeOK /\ HandshakeInv /\ DispatchInv /\ FailedInv /\ [Next]_vars => FailedInv'
<1> SUFFICES ASSUME TypeOK, HandshakeInv, DispatchInv, FailedInv, [Next]_vars
             PROVE  FailedInv'
  OBVIOUS
<1>1. ASSUME NEW r \in Reports, handlerpc'[r] = "send"
      PROVE  disk'[m_currentTime'[r]] # NoReport
  <2>1. kind[r] # "none" /\ disk[m_currentTime[r]] # NoReport
    BY <1>1, SendStep DEF DispatchInv, FailedInv
  <2>2. m_currentTime'[r] = m_currentTime[r] /\ m_currentTime[r] \in Seconds
    BY <2>1, NameStays, Zenon DEF TypeOK, CollectorTypeOK
  <2> QED
    BY <2>1, <2>2, DiskStays
<1>2. ASSUME NEW r \in Reports, IsSend', IsCatchHE',
             handlerpc'[r] \in {"return", "done"}, sent'[r] = NoReport
      PROVE  \E q \in Reports :
                /\ thrower'[q] = Handler(r) /\ kind'[q] = "FirstChance"
                /\ savepc'[q] = "done"
  <2>1. \E q \in Reports :
           thrower[q] = Handler(r) /\ kind[q] = "FirstChance" /\ savepc[q] = "done"
    <3>1. CASE handlerpc[r] \in {"return", "done"}
      <4>1. IsSend /\ IsCatchHE
        BY <1>2, <3>1, ConfigStays
      <4>2. sent[r] = NoReport
        BY <1>2, <3>1, SentStep
      <4> QED
        BY Zenon, <3>1, <4>1, <4>2 DEF FailedInv, FailedSendIsReported
    <3>2. CASE handlerpc[r] = "send" /\ sent'[r] = disk[m_currentTime[r]]
      BY Zenon, <1>2, <3>2 DEF FailedInv
    <3>3. ASSUME NEW q \in Reports, FirstChanceReturnsToSender(q, r)
          PROVE  thrower[q] = Handler(r) /\ kind[q] = "FirstChance" /\ savepc[q] = "done"
      <4>1. /\ handlerpc[q] = "return" /\ kind[q] = "FirstChance"
            /\ thrower[q] = Handler(r) /\ IsSend
        BY <1>2, <3>3, Zenon DEF FirstChanceReturnsToSender, configVars
      <4> QED
        BY <4>1 DEF DispatchInv, SendAfterSave
    <3> QED
      BY <1>2, <3>1, <3>2, <3>3, HandlerMove DEF ReachesEnd
  <2> QED
    BY Zenon, <2>1, SavedStays
<1> QED
  BY Zenon, <1>1, <1>2 DEF FailedInv, FailedSendIsReported

\* A handler that could not send its report leaves a saved report of the exception
\* that kept it from sending, although TCPSender's constructor catches it.
THEOREM FailuresAreReported == Spec => []FailedSendIsReported
<1>1. Init => FailedInv
  BY DEF Init, FailedInv, FailedSendIsReported
<1>2. FailedInv => FailedSendIsReported
  BY Zenon DEF FailedInv
<1> QED
  BY <1>1, <1>2, FailedNext, TypeCorrect, Handshake, Dispatch, PTL DEF Spec
=============================================================================
