---------------------------- MODULE SMECollector ----------------------------
(***************************************************************************)
(* The managed reporter inside a client process: the exception handlers of *)
(* SMEClient, the SMECollector that each handler call creates, the two     *)
(* threads and two semaphores of a collector, the XML file they write and  *)
(* the TCPSender that sends it.                                            *)
(*                                                                         *)
(* A report is one SMECollector instance.  Every handler call creates      *)
(* exactly one, so a report also names the handler call that created it:   *)
(* its "handler" thread is the thread that threw, running the handler.     *)
(***************************************************************************)
EXTENDS Naturals, FiniteSets

CONSTANTS
    Reports,    \* collectors the process can create (bounds the model)
    UIThread,   \* the Windows Forms thread of the application
    Workers,    \* the other application threads
    Seconds,    \* values of DateTime.Now at the resolution of a file name
    NoReport    \* "no collector"

ASSUME ConstantsAssumption ==
    /\ Seconds \subseteq Nat
    /\ NoReport \notin Reports
    /\ UIThread \notin Workers
    /\ Workers \cap (Reports \X {"collect", "save", "handler"}) = {}
    /\ UIThread \notin Reports \X {"collect", "save", "handler"}
    /\ "torn" \notin Reports /\ NoReport # "torn"

AppThreads == {UIThread} \cup Workers
Threads == AppThreads \cup (Reports \X {"collect", "save", "handler"})
Collect(r) == <<r, "collect">>
Save(r) == <<r, "save">>
Handler(r) == <<r, "handler">>

VARIABLES
    ready,      \* SMEClient has been constructed and its handlers installed
    IsSend, IsCatchHE,
    folder,     \* the folder of XMLFilePath exists
    alive,      \* the client process is running
    now,        \* DateTime.Now
    exc,        \* per thread: how far its exception has been dispatched
    kind,       \* per report: the handler that created it
    thrower,    \* per report: the thread whose exception it reports
    inner       \* the reports whose exception has an InnerException

VARIABLES
    m_currentTime, collectpc, savepc, handlerpc,
    CollectSemaphore, SaveSemaphore,
    m_exceptioninfo, m_callstackinfo    \* the reports where it is not null

VARIABLES
    disk,       \* per file name: the report it holds, "torn", or NoReport
    writer,     \* per file name: the report whose XDocument.Save has it open
    readers,    \* per file name: the reports whose fileStream has it open
    conn,       \* per report: the TcpClient of its TCPSender
    sent        \* per report: what FileSend put on the wire in full

configVars == <<ready, IsSend, IsCatchHE>>
eventVars == <<kind, thrower, inner, m_currentTime>>
threadVars == <<collectpc, savepc, handlerpc, CollectSemaphore, SaveSemaphore,
                m_exceptioninfo, m_callstackinfo>>
fileVars == <<disk, writer, readers>>
netVars == <<conn, sent>>
vars == <<configVars, folder, alive, now, exc, eventVars, threadVars, fileVars,
          netVars>>

Kinds == {"none", "FirstChance", "Unhandled", "Thread", "CollectError"}
NoThread == NoReport

ProcessTypeOK ==
    /\ ready \in BOOLEAN /\ IsSend \in BOOLEAN /\ IsCatchHE \in BOOLEAN
    /\ folder \in BOOLEAN /\ alive \in BOOLEAN
    /\ now \in Seconds
    /\ exc \in [Threads -> {"none", "first", "infirst", "second", "insecond"}]
    /\ kind \in [Reports -> Kinds]
    /\ thrower \in [Reports -> Threads \cup {NoThread}]
    /\ inner \subseteq Reports

CollectorTypeOK ==
    /\ m_currentTime \in [Reports -> Seconds]
    /\ collectpc \in [Reports -> {"idle", "exception", "stack", "release", "done"}]
    /\ savepc \in [Reports -> {"idle", "wait", "build", "open", "write",
                               "release", "done"}]
    /\ handlerpc \in [Reports -> {"idle", "wait", "connect", "open", "send",
                                  "return", "done"}]
    /\ CollectSemaphore \in [Reports -> Nat]
    /\ SaveSemaphore \in [Reports -> Nat]
    /\ m_exceptioninfo \subseteq Reports
    /\ m_callstackinfo \subseteq Reports

FileTypeOK ==
    /\ disk \in [Seconds -> Reports \cup {NoReport, "torn"}]
    /\ writer \in [Seconds -> Reports \cup {NoReport}]
    /\ readers \in [Seconds -> SUBSET Reports]
    /\ conn \in [Reports -> {"none", "open", "closed"}]
    /\ sent \in [Reports -> Reports \cup {NoReport, "torn"}]

TypeOK == ProcessTypeOK /\ CollectorTypeOK /\ FileTypeOK

Init ==
    /\ ready = FALSE /\ IsSend = FALSE /\ IsCatchHE = FALSE
    /\ folder \in BOOLEAN
    /\ alive = TRUE
    /\ now \in {s \in Seconds : \A t \in Seconds : s <= t}
    /\ exc = [t \in Threads |-> "none"]
    /\ kind = [r \in Reports |-> "none"]
    /\ thrower = [r \in Reports |-> NoThread]
    /\ inner = {}
    /\ m_currentTime = [r \in Reports |-> now]
    /\ collectpc = [r \in Reports |-> "idle"]
    /\ savepc = [r \in Reports |-> "idle"]
    /\ handlerpc = [r \in Reports |-> "idle"]
    /\ CollectSemaphore = [r \in Reports |-> 0]
    /\ SaveSemaphore = [r \in Reports |-> 0]
    /\ m_exceptioninfo = {}
    /\ m_callstackinfo = {}
    /\ disk = [s \in Seconds |-> NoReport]
    /\ writer = [s \in Seconds |-> NoReport]
    /\ readers = [s \in Seconds |-> {}]
    /\ conn = [r \in Reports |-> "none"]
    /\ sent = [r \in Reports |-> NoReport]

-----------------------------------------------------------------------------
(* The process and its application.                                        *)

\* The process ends: the runtime closes its files, so an unfinished one is
\* left as it is on disk.
Terminate ==
    /\ alive' = FALSE
    /\ writer' = [s \in Seconds |-> NoReport]
    /\ readers' = [s \in Seconds |-> {}]
    /\ conn' = [r \in Reports |-> IF conn[r] = "open" THEN "closed" ELSE conn[r]]

\* Both constructors and Initialize; the native wrapper creates the folder.
SMEClient(send, catchne, catchhe) ==
    /\ alive /\ ~ready
    /\ ready' = TRUE /\ IsSend' = send /\ IsCatchHE' = catchhe
    /\ folder' = (folder \/ catchne)
    /\ UNCHANGED <<alive, now, exc, eventVars, threadVars, fileVars, netVars>>

Tick ==
    /\ alive
    /\ now + 1 \in Seconds
    /\ now' = now + 1
    /\ UNCHANGED <<configVars, folder, alive, exc, eventVars, threadVars,
                   fileVars, netVars>>

\* What the runtime does with an exception that has just been thrown: the
\* FirstChanceException event comes first when SMEClient subscribed to it.
Thrown == IF IsCatchHE THEN "first" ELSE "second"

\* An application thread throws.  Without a first-chance handler an exception
\* the application catches is invisible to the reporter.
AppThrow(t) ==
    /\ alive /\ ready
    /\ exc[t] = "none"
    /\ exc' = [exc EXCEPT ![t] = Thrown]
    /\ UNCHANGED <<configVars, folder, alive, now, eventVars, threadVars,
                   fileVars, netVars>>

-----------------------------------------------------------------------------
(* Creating a collector.                                                   *)

\* SMECollector's constructor and field initialisers: both semaphores start
\* at zero and exist before either thread runs.
NewCollector(r, k, t, hasInner) ==
    /\ kind[r] = "none"
    /\ kind' = [kind EXCEPT ![r] = k]
    /\ thrower' = [thrower EXCEPT ![r] = t]
    /\ inner' = IF hasInner THEN inner \cup {r} ELSE inner
    /\ m_currentTime' = [m_currentTime EXCEPT ![r] = now]
    /\ CollectSemaphore' = [CollectSemaphore EXCEPT ![r] = 0]
    /\ SaveSemaphore' = [SaveSemaphore EXCEPT ![r] = 0]
    /\ collectpc' = [collectpc EXCEPT ![r] = "exception"]
    /\ savepc' = [savepc EXCEPT ![r] = "wait"]
    /\ UNCHANGED <<m_exceptioninfo, m_callstackinfo>>

\* The three handlers have one body: a collector, then SendToServer if IsSend.
EnterHandler(r, k, t) ==
    \E hasInner \in IF t \in AppThreads THEN BOOLEAN ELSE {FALSE} :
        /\ NewCollector(r, k, t, hasInner)
        /\ handlerpc' = [handlerpc EXCEPT ![r] = IF IsSend THEN "wait" ELSE "return"]
        /\ UNCHANGED <<configVars, folder, alive, now, fileVars, netVars>>

\* Mutant: what is thrown while a handler runs is left alone.
SMEFirstChanceExceptionHandlerOnce(r, t) ==
    /\ alive
    /\ exc[t] = "first"
    /\ \/ /\ t \notin {Handler(q) : q \in Reports}
          /\ exc' = [exc EXCEPT ![t] = "infirst"]
          /\ EnterHandler(r, "FirstChance", t)
       \/ \E q \in Reports :
             /\ t = Handler(q)
             /\ exc' = [exc EXCEPT ![t] = "none"]
             /\ handlerpc' = [handlerpc EXCEPT ![q] = "return"]
             /\ UNCHANGED <<configVars, folder, alive, now, eventVars, collectpc,
                            savepc, CollectSemaphore, SaveSemaphore,
                            m_exceptioninfo, m_callstackinfo, fileVars, netVars>>

SMEFirstChanceExceptionHandler(r, t) ==
    /\ alive
    /\ exc[t] = "first"
    /\ exc' = [exc EXCEPT ![t] = "infirst"]
    /\ EnterHandler(r, "FirstChance", t)

SMEThreadExceptionHandler(r) ==
    /\ alive
    /\ exc[UIThread] = "second"
    /\ exc' = [exc EXCEPT ![UIThread] = "insecond"]
    /\ EnterHandler(r, "Thread", UIThread)

SMEUnHandledExceptionHandler(r, t) ==
    /\ alive
    /\ t # UIThread
    /\ exc[t] = "second"
    /\ exc' = [exc EXCEPT ![t] = "insecond"]
    /\ EnterHandler(r, "Unhandled", t)

\* The static call an application makes on one of its threads: no sending.
CollectError(r, t) ==
    /\ alive /\ ready
    /\ exc[t] = "none"
    /\ NewCollector(r, "CollectError", t, FALSE)
    /\ UNCHANGED <<configVars, folder, alive, now, exc, handlerpc, fileVars,
                   netVars>>

-----------------------------------------------------------------------------
(* The collect thread.                                                     *)

\* A reporter thread throws; nothing in it catches.
Throws(t) ==
    /\ exc' = [exc EXCEPT ![t] = Thrown]
    /\ UNCHANGED <<configVars, folder, alive, now, eventVars, threadVars,
                   fileVars, netVars>>

CollectStep(r, from, to) ==
    /\ alive
    /\ exc[Collect(r)] = "none"
    /\ collectpc[r] = from
    /\ collectpc' = [collectpc EXCEPT ![r] = to]
    /\ UNCHANGED <<configVars, folder, now, exc, eventVars, savepc, handlerpc,
                   SaveSemaphore>>

\* The constructor of SMEExceptionInformation passes the exception itself, not
\* its InnerException, to the nested constructor: with an inner exception it
\* never returns, and the stack overflow ends the process.
CollectExceptionInfo(r) ==
    /\ CollectStep(r, "exception", "stack")
    /\ UNCHANGED <<CollectSemaphore, m_callstackinfo, disk, sent>>
    /\ \/ /\ r \notin inner
          /\ m_exceptioninfo' = m_exceptioninfo \cup {r}
          /\ UNCHANGED <<alive, writer, readers, conn>>
       \/ /\ r \in inner
          /\ Terminate
          /\ UNCHANGED m_exceptioninfo

CollectCallStack(r) ==
    /\ CollectStep(r, "stack", "release")
    /\ m_callstackinfo' = m_callstackinfo \cup {r}
    /\ UNCHANGED <<alive, CollectSemaphore, m_exceptioninfo, fileVars, netVars>>

\* A frame without a method, or a property of the exception that throws.
CollectThrows(r) ==
    /\ alive
    /\ exc[Collect(r)] = "none"
    /\ collectpc[r] \in {"exception", "stack"}
    /\ Throws(Collect(r))

\* The maximum count is 1; SemaphoreWithinMaximum shows that no Release is
\* made at the maximum, where it would throw.
CollectRelease(r) ==
    /\ CollectStep(r, "release", "done")
    /\ CollectSemaphore' = [CollectSemaphore EXCEPT ![r] = @ + 1]
    /\ UNCHANGED <<alive, m_exceptioninfo, m_callstackinfo, fileVars, netVars>>

-----------------------------------------------------------------------------
(* The save thread.  The file name is the project, its version and the     *)
(* time to the second, so it is m_currentTime that tells files apart.      *)

SaveStep(r, from, to) ==
    /\ alive
    /\ exc[Save(r)] = "none"
    /\ savepc[r] = from
    /\ savepc' = [savepc EXCEPT ![r] = to]
    /\ UNCHANGED <<configVars, folder, alive, now, exc, eventVars, collectpc,
                   handlerpc, m_exceptioninfo, m_callstackinfo, netVars>>

SaveThrows(r, from) ==
    /\ alive
    /\ exc[Save(r)] = "none"
    /\ savepc[r] = from
    /\ Throws(Save(r))

\* Mutant: the wait times out at once.
SaveWaitTimeout(r) ==
    /\ SaveStep(r, "wait", "build")
    /\ UNCHANGED <<CollectSemaphore, SaveSemaphore, fileVars>>

\* Mutant: the wait does not take the count.
SaveWaitPeek(r) ==
    /\ CollectSemaphore[r] > 0
    /\ SaveStep(r, "wait", "build")
    /\ UNCHANGED <<CollectSemaphore, SaveSemaphore, fileVars>>

SaveWait(r) ==
    /\ CollectSemaphore[r] > 0
    /\ SaveStep(r, "wait", "build")
    /\ CollectSemaphore' = [CollectSemaphore EXCEPT ![r] = @ - 1]
    /\ UNCHANGED <<SaveSemaphore, fileVars>>

\* SMEXMLWriter calls ToXElement on every part: a part that is still null, or
\* a null value in the exception's Data, throws.
SaveBuild(r) ==
    \/ /\ r \in m_exceptioninfo \cap m_callstackinfo
       /\ SaveStep(r, "build", "open")
       /\ UNCHANGED <<CollectSemaphore, SaveSemaphore, fileVars>>
    \/ SaveThrows(r, "build")

\* Mutant: the file is opened although senders are reading it.
SaveOpenShared(r) ==
    LET file == m_currentTime[r] IN
    IF folder /\ writer[file] = NoReport
    THEN /\ SaveStep(r, "open", "write")
         /\ disk' = [disk EXCEPT ![file] = "torn"]
         /\ writer' = [writer EXCEPT ![file] = r]
         /\ UNCHANGED <<CollectSemaphore, SaveSemaphore, readers>>
    ELSE SaveThrows(r, "open")

\* XDocument.Save creates the file for writing and shares it with readers
\* only, so any stream already open on it makes the open fail.
SaveOpen(r) ==
    LET file == m_currentTime[r] IN
    IF folder /\ writer[file] = NoReport /\ readers[file] = {}
    THEN /\ SaveStep(r, "open", "write")
         /\ disk' = [disk EXCEPT ![file] = "torn"]
         /\ writer' = [writer EXCEPT ![file] = r]
         /\ UNCHANGED <<CollectSemaphore, SaveSemaphore, readers>>
    ELSE SaveThrows(r, "open")

\* Mutant: the last buffer is not flushed.
SaveWriteUnflushed(r) ==
    /\ SaveStep(r, "write", "release")
    /\ writer' = [writer EXCEPT ![m_currentTime[r]] = NoReport]
    /\ UNCHANGED <<CollectSemaphore, SaveSemaphore, disk, readers>>

SaveWrite(r) ==
    LET file == m_currentTime[r] IN
    /\ SaveStep(r, "write", "release")
    /\ disk' = [disk EXCEPT ![file] = r]
    /\ writer' = [writer EXCEPT ![file] = NoReport]
    /\ UNCHANGED <<CollectSemaphore, SaveSemaphore, readers>>

\* A write error: Save closes the file on its way out.
SaveWriteThrows(r) ==
    /\ alive
    /\ exc[Save(r)] = "none"
    /\ savepc[r] = "write"
    /\ exc' = [exc EXCEPT ![Save(r)] = Thrown]
    /\ writer' = [writer EXCEPT ![m_currentTime[r]] = NoReport]
    /\ UNCHANGED <<configVars, folder, alive, now, eventVars, threadVars, disk,
                   readers, netVars>>

\* Mutant: only CollectSemaphore is released.
SaveReleaseHalf(r) ==
    /\ SaveStep(r, "release", "done")
    /\ CollectSemaphore' = [CollectSemaphore EXCEPT ![r] = @ + 1]
    /\ UNCHANGED <<SaveSemaphore, fileVars>>

SaveRelease(r) ==
    /\ SaveStep(r, "release", "done")
    /\ CollectSemaphore' = [CollectSemaphore EXCEPT ![r] = @ + 1]
    /\ SaveSemaphore' = [SaveSemaphore EXCEPT ![r] = @ + 1]
    /\ UNCHANGED fileVars

-----------------------------------------------------------------------------
(* SendToServer and TCPSender, on the thread that runs the handler.        *)

HandlerStep(r, from, to) ==
    /\ alive
    /\ exc[Handler(r)] = "none"
    /\ handlerpc[r] = from
    /\ handlerpc' = [handlerpc EXCEPT ![r] = to]
    /\ UNCHANGED <<configVars, folder, alive, now, eventVars, collectpc, savepc,
                   CollectSemaphore, m_exceptioninfo, m_callstackinfo, disk,
                   writer>>

\* TCPSender's constructor catches everything, but the first-chance handler
\* still runs before the catch block does.
SenderThrows(r, from) ==
    /\ HandlerStep(r, from, IF IsCatchHE THEN from ELSE "return")
    /\ exc' = [exc EXCEPT ![Handler(r)] = IF IsCatchHE THEN "first" ELSE "none"]
    /\ UNCHANGED <<SaveSemaphore, readers, netVars>>

\* Mutant: the wait times out at once.
SendWaitTimeout(r) ==
    /\ HandlerStep(r, "wait", "connect")
    /\ UNCHANGED <<exc, SaveSemaphore, readers, netVars>>

\* Mutant: the count is taken without waiting for it.
SendWaitUnguarded(r) ==
    /\ HandlerStep(r, "wait", "connect")
    /\ SaveSemaphore' = [SaveSemaphore EXCEPT ![r] = @ - 1]
    /\ UNCHANGED <<exc, readers, netVars>>

SendWait(r) ==
    /\ SaveSemaphore[r] > 0
    /\ HandlerStep(r, "wait", "connect")
    /\ SaveSemaphore' = [SaveSemaphore EXCEPT ![r] = @ - 1]
    /\ UNCHANGED <<exc, readers, netVars>>

SendConnect(r) ==
    \/ /\ HandlerStep(r, "connect", "open")
       /\ conn' = [conn EXCEPT ![r] = "open"]
       /\ UNCHANGED <<exc, SaveSemaphore, readers, sent>>
    \/ SenderThrows(r, "connect")

\* File.OpenRead needs the file and shares it with readers only.
SendOpen(r) ==
    LET file == m_currentTime[r] IN
    IF disk[file] # NoReport /\ writer[file] = NoReport
    THEN /\ HandlerStep(r, "open", "send")
         /\ readers' = [readers EXCEPT ![file] = @ \cup {r}]
         /\ UNCHANGED <<exc, SaveSemaphore, netVars>>
    ELSE SenderThrows(r, "open")

\* The headers and FileSend.  FileSend closes the connection, not the file.
FileSend(r) ==
    \/ /\ HandlerStep(r, "send", "return")
       /\ sent' = [sent EXCEPT ![r] = disk[m_currentTime[r]]]
       /\ conn' = [conn EXCEPT ![r] = "closed"]
       /\ UNCHANGED <<exc, SaveSemaphore, readers>>
    \/ SenderThrows(r, "send")

\* The finalizer, once the handler has dropped the sender.
FinalizeSender(r) ==
    /\ alive
    /\ handlerpc[r] \in {"return", "done"}
    /\ exc[Handler(r)] = "none"
    /\ r \in readers[m_currentTime[r]] \/ conn[r] = "open"
    /\ readers' = [readers EXCEPT ![m_currentTime[r]] = @ \ {r}]
    /\ conn' = [conn EXCEPT ![r] = IF @ = "open" THEN "closed" ELSE @]
    /\ UNCHANGED <<configVars, folder, alive, now, exc, eventVars, threadVars,
                   disk, writer, sent>>

-----------------------------------------------------------------------------
(* A handler returns to the runtime.                                       *)

Returning(r, k) ==
    /\ alive
    /\ handlerpc[r] = "return"
    /\ kind[r] = k
    /\ handlerpc' = [handlerpc EXCEPT ![r] = "done"]
    /\ UNCHANGED <<configVars, folder, now, eventVars, collectpc, savepc,
                   CollectSemaphore, SaveSemaphore, m_exceptioninfo,
                   m_callstackinfo, disk, sent>>

\* The application catches its exception, or does not.
FirstChanceReturnsToApp(r) ==
    /\ thrower[r] \in AppThreads
    /\ Returning(r, "FirstChance")
    /\ \E next \in {"none", "second"} : exc' = [exc EXCEPT ![thrower[r]] = next]
    /\ UNCHANGED <<alive, writer, readers, conn>>

\* Nothing in a reporter thread catches.
FirstChanceReturnsToReporter(r) ==
    /\ \E q \in Reports : thrower[r] \in {Collect(q), Save(q)}
    /\ Returning(r, "FirstChance")
    /\ exc' = [exc EXCEPT ![thrower[r]] = "second"]
    /\ UNCHANGED <<alive, writer, readers, conn>>

\* The catch block of TCPSender's constructor: SendToServer and the handler it
\* was called from return.
FirstChanceReturnsToSender(r, q) ==
    /\ alive
    /\ handlerpc[r] = "return" /\ kind[r] = "FirstChance"
    /\ thrower[r] = Handler(q)
    /\ handlerpc' = [handlerpc EXCEPT ![r] = "done", ![q] = "return"]
    /\ exc' = [exc EXCEPT ![thrower[r]] = "none"]
    /\ UNCHANGED <<configVars, folder, alive, now, eventVars, collectpc, savepc,
                   CollectSemaphore, SaveSemaphore, m_exceptioninfo,
                   m_callstackinfo, fileVars, netVars>>

\* Application.ThreadException: the message loop goes on.
ThreadReturns(r) ==
    /\ Returning(r, "Thread")
    /\ exc' = [exc EXCEPT ![thrower[r]] = "none"]
    /\ UNCHANGED <<alive, writer, readers, conn>>

\* AppDomain.UnhandledException: the runtime ends the process.
UnhandledReturns(r) ==
    /\ Returning(r, "Unhandled")
    /\ Terminate
    /\ UNCHANGED exc

-----------------------------------------------------------------------------
CollectThread(r) ==
    \/ CollectExceptionInfo(r)
    \/ CollectCallStack(r)
    \/ CollectThrows(r)
    \/ CollectRelease(r)

SaveThread(r) ==
    \/ SaveWait(r)
    \/ SaveBuild(r)
    \/ SaveOpen(r)
    \/ SaveWrite(r)
    \/ SaveWriteThrows(r)
    \/ SaveRelease(r)

HandlerThread(r) ==
    \/ SendWait(r)
    \/ SendConnect(r)
    \/ SendOpen(r)
    \/ FileSend(r)
    \/ FirstChanceReturnsToApp(r)
    \/ FirstChanceReturnsToReporter(r)
    \/ \E q \in Reports : FirstChanceReturnsToSender(r, q)
    \/ ThreadReturns(r)
    \/ UnhandledReturns(r)

EnterHandlers(r) ==
    \/ \E t \in Threads : SMEFirstChanceExceptionHandler(r, t)
    \/ \E t \in Threads : SMEUnHandledExceptionHandler(r, t)
    \/ SMEThreadExceptionHandler(r)

Next ==
    \/ \E send, catchne, catchhe \in BOOLEAN : SMEClient(send, catchne, catchhe)
    \/ Tick
    \/ \E t \in AppThreads : AppThrow(t)
    \/ \E r \in Reports :
          \/ \E t \in AppThreads : CollectError(r, t)
          \/ EnterHandlers(r)
          \/ CollectThread(r)
          \/ SaveThread(r)
          \/ HandlerThread(r)
          \/ FinalizeSender(r)

Spec == Init /\ [][Next]_vars

\* Threads that can run do run; nothing is assumed of the application, the
\* clock or the garbage collector.
FairSpec ==
    /\ Spec
    /\ \A r \in Reports :
          /\ WF_vars(CollectThread(r))
          /\ WF_vars(SaveThread(r))
          /\ WF_vars(HandlerThread(r))
          /\ WF_vars(EnterHandlers(r))

-----------------------------------------------------------------------------
(* Properties.                                                             *)

\* No Release of either semaphore is made at its maximum count of 1, so the
\* three Release calls of a collector never throw SemaphoreFullException.
SemaphoreWithinMaximum ==
    \A r \in Reports : CollectSemaphore[r] <= 1 /\ SaveSemaphore[r] <= 1

\* SaveToXML gets past CollectSemaphore.WaitOne only when CollectErrorInformation
\* has stored both the exception and the call stack: a report is never built
\* while it is being collected.
SaveAfterCollect ==
    \A r \in Reports : savepc[r] \notin {"idle", "wait"} =>
        r \in m_exceptioninfo \cap m_callstackinfo

\* A handler of a sending client gets past SaveSemaphore.WaitOne, and so returns
\* to the runtime, which may end the process, only when its report is on disk.
SendAfterSave ==
    \A r \in Reports :
        \/ handlerpc[r] \in {"connect", "open", "send"}
        \/ IsSend /\ handlerpc[r] \in {"return", "done"}
        => savepc[r] = "done"

\* No other collector was created in the same second.
OwnsFileName(r) ==
    \A q \in Reports \ {r} :
        kind[q] # "none" => m_currentTime[q] # m_currentTime[r]

\* What a handler sends in full is its own report, complete, as long as no other
\* report was named in the same second by DateToFileName.
OwnReportSent ==
    \A r \in Reports : OwnsFileName(r) => sent[r] \in {r, NoReport}

\* A saved report stays in its file, also when the process ends, as long as no
\* other report was named in the same second by DateToFileName.
SavedReportStays ==
    \A r \in Reports :
        OwnsFileName(r) /\ savepc[r] \in {"release", "done"}
        => disk[m_currentTime[r]] = r

\* The handlers are also entered for what is thrown inside them.  In a sending
\* client that watches first-chance exceptions, a handler that gets back to the
\* runtime without having sent its report was kept from it by an exception that
\* TCPSender caught, and that exception has a saved report of its own: a failure
\* to report is never lost in the catch block.
FailedSendIsReported ==
    \A r \in Reports :
        /\ IsSend /\ IsCatchHE
        /\ handlerpc[r] \in {"return", "done"}
        /\ sent[r] = NoReport
        => \E q \in Reports :
              thrower[q] = Handler(r) /\ kind[q] = "FirstChance" /\ savepc[q] = "done"

\* A file does not change while a TCPSender has it open: what FileSend puts on
\* the wire is one version of the file.
FileStableWhileRead ==
    [][\A s \in Seconds : readers[s] # {} => disk'[s] = disk[s]]_vars

\* A collect or save thread has thrown.
ReporterFailed ==
    \E r \in Reports : exc[Collect(r)] # "none" \/ exc[Save(r)] # "none"

\* The model has no collector left for a first-chance event.
OutOfReports ==
    /\ \A r \in Reports : kind[r] # "none"
    /\ \E t \in Threads : exc[t] = "first"

\* A handler that waits for its report to be saved returns, unless the process
\* ends or a collect or save thread has thrown (which leaves SaveSemaphore at
\* zero for good).
HandlerReturns ==
    \A r \in Reports :
        handlerpc[r] = "wait" ~>
            (handlerpc[r] = "done" \/ ~alive \/ ReporterFailed \/ OutOfReports)

\* The XML form in the header of SMECollector.cs has an InnerException element
\* that holds the nested exception: in a sending client, a report of such an
\* exception is saved unless its collect or save thread throws.
InnerExceptionReported ==
    \A r \in Reports :
        r \in inner /\ IsSend ~> (savepc[r] = "done" \/ ReporterFailed)

-----------------------------------------------------------------------------
LOCAL INSTANCE TLC

\* Reports are interchangeable; for instances without liveness.
Symmetry == Permutations(Reports)
=============================================================================
