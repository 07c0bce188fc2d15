------------------------------ MODULE SMEServer -----------------------------
(***************************************************************************)
(* The report server: SMEListener and its listen thread, one               *)
(* SMEAsyncReceiver per connection on the thread pool, the folder of       *)
(* received files, the Dumps table (DumpsDBM), the tables of a report      *)
(* (SMEDBManager) and the pool of SqlConnections.                          *)
(*                                                                         *)
(* A receiver stands for its connection and for the report sent over it.   *)
(* How the bytes of a report arrive is the subject of SMETransfer: here a  *)
(* header or a body arrives or the receiver is thrown out, and a body      *)
(* whose sender went away may never end.                                   *)
(***************************************************************************)
EXTENDS Naturals, Sequences, FiniteSetsExt

CONSTANTS
    Receivers,      \* connections (bounds the model)
    Names,          \* file names
    DumpNames,      \* those that contain ".dmp"; the others contain ".xml"
    NameOf,         \* the file name sent over each connection
    PoolSize,       \* connections the SqlConnection pool hands out at a time
    NoReceiver

ASSUME ServerAssumption ==
    /\ NoReceiver \notin Receivers /\ "torn" \notin Receivers /\ NoReceiver # "torn"
    /\ DumpNames \subseteq Names
    /\ NameOf \in [Receivers -> Names]
    /\ PoolSize \in Nat \ {0}

VARIABLES
    alive,          \* the server process is running
    tcpListener,    \* "listening", "stopped" or "null"
    listenThread,   \* "accepting", or "ended" once aborted
    pc,             \* per receiver: place in Receive
    files,          \* per name: the report the file holds, "torn" or NoReceiver
    writing,        \* per name: the receiver whose fileStream is open on it
    mapped          \* per name: the receiver whose dump reader has it mapped

VARIABLES
    held,           \* per receiver: SqlConnections it has not given back
    did,            \* per receiver: the Dump_ID it found
    content,        \* per receiver: the report its SMEDBManager has loaded
    streams,        \* per receiver: the optional parts of that report
    todo,           \* per receiver: tables still to be written
    exception_id,   \* per receiver: what GetExcetpionID returned
    Dumps,          \* the Dumps table: the Dump_ID of a row is its place
    tables          \* all rows of the report tables, in the order of insertion

fileVars == <<files, writing, mapped>>
dbVars == <<Dumps, tables>>
loadVars == <<content, streams, todo>>
listenVars == <<tcpListener, listenThread>>
vars == <<alive, listenVars, pc, fileVars, held, did, loadVars, exception_id, dbVars>>

CSTables == <<"ProjectInfo", "SystemInfo", "ExceptionInfo", "InnerException",
              "CallStackInfo">>
NativeTables == <<"NExceptionInfo", "NModule", "NMiscInfo", "NBreakpad", "NAssertion">>

\* What a file may or may not have: an inner exception, the streams of a dump.
NativeStreams == {"NExceptionInfo", "NMiscInfo", "NBreakpad", "NAssertion"}
Optional(c) == IF NameOf[c] \in DumpNames THEN NativeStreams ELSE {"InnerException"}

\* The tables SaveNativeDumpData and SaveCSDumpData write, in their order: only
\* an inner exception is tested for.
TablesOf(c, parts) ==
    IF NameOf[c] \in DumpNames THEN NativeTables
    ELSE IF "InnerException" \in parts THEN CSTables
    ELSE <<"ProjectInfo", "SystemInfo", "ExceptionInfo", "CallStackInfo">>

Places == {"none", "queued", "create", "body", "connect", "insert", "select",
           "load", "open", "exception_id", "reopen", "save", "caught", "complete",
           "disposed"}

TableNames == {"ProjectInfo", "SystemInfo", "ExceptionInfo", "InnerException",
               "CallStackInfo", "NExceptionInfo", "NModule", "NMiscInfo", "NBreakpad",
               "NAssertion"}
DumpRow == [name : Names, owner : Receivers]
Row == [table : TableNames, dump : Nat, of : Receivers \cup {"torn"}, InnerExp : Nat]

ProcessTypeOK ==
    /\ alive \in BOOLEAN
    /\ tcpListener \in {"listening", "stopped", "null"}
    /\ listenThread \in {"accepting", "ended"}
    /\ pc \in [Receivers -> Places]

FileTypeOK ==
    /\ files \in [Names -> Receivers \cup {NoReceiver, "torn"}]
    /\ writing \in [Names -> Receivers \cup {NoReceiver}]
    /\ mapped \in [Names -> Receivers \cup {NoReceiver}]

LoadTypeOK ==
    /\ content \in [Receivers -> Receivers \cup {NoReceiver, "torn"}]
    /\ streams \in [Receivers -> SUBSET ({"InnerException"} \cup NativeStreams)]
    /\ todo \in [Receivers -> Seq(TableNames)]

SqlTypeOK ==
    /\ held \in [Receivers -> Nat]
    /\ did \in [Receivers -> Nat]
    /\ exception_id \in [Receivers -> Nat]

TypeOK ==
    /\ ProcessTypeOK /\ FileTypeOK /\ LoadTypeOK /\ SqlTypeOK
    /\ Dumps \in Seq(DumpRow)
    /\ tables \in Seq(Row)

Init ==
    /\ alive = TRUE
    /\ tcpListener = "listening" /\ listenThread = "accepting"
    /\ pc = [c \in Receivers |-> "none"]
    /\ files = [n \in Names |-> NoReceiver]
    /\ writing = [n \in Names |-> NoReceiver]
    /\ mapped = [n \in Names |-> NoReceiver]
    /\ held = [c \in Receivers |-> 0]
    /\ did = [c \in Receivers |-> 0]
    /\ content = [c \in Receivers |-> NoReceiver]
    /\ streams = [c \in Receivers |-> {}]
    /\ todo = [c \in Receivers |-> <<>>]
    /\ exception_id = [c \in Receivers |-> 0]
    /\ Dumps = <<>> /\ tables = <<>>

-----------------------------------------------------------------------------
(* The listener.                                                           *)

\* The process ends; what it had open is closed as it is.
Terminate ==
    /\ alive' = FALSE
    /\ writing' = [n \in Names |-> NoReceiver]
    /\ mapped' = [n \in Names |-> NoReceiver]
    /\ UNCHANGED <<pc, files, held, did, loadVars, exception_id, dbVars>>

\* One round of Accepting's loop.
Accepting(c) ==
    /\ alive /\ listenThread = "accepting"
    /\ tcpListener = "listening"
    /\ pc[c] = "none"
    /\ pc' = [pc EXCEPT ![c] = "queued"]
    /\ UNCHANGED <<alive, listenVars, fileVars, held, did, loadVars, exception_id,
                   dbVars>>

\* AcceptTcpClient throws on a stopped listener, and on a null reference: the
\* listen thread has no handler and the process ends.
AcceptingThrows ==
    /\ alive /\ listenThread = "accepting"
    /\ tcpListener # "listening"
    /\ Terminate
    /\ UNCHANGED listenVars

\* SMEServer.Close: SMEListener.Dispose stops the listener, drops it and aborts
\* the listen thread, in three steps that the listen thread can come between.
Listener(from, to, thread) ==
    /\ alive /\ tcpListener = from
    /\ listenThread = "accepting"
    /\ tcpListener' = to
    /\ listenThread' = thread
    /\ UNCHANGED <<alive, pc, fileVars, held, did, loadVars, exception_id, dbVars>>

Stop == Listener("listening", "stopped", "accepting")
Drop == Listener("stopped", "null", "accepting")
Abort == Listener("null", "null", "ended")

-----------------------------------------------------------------------------
(* Receive, up to the closed file.                                         *)

Step(c, from, to) ==
    /\ alive
    /\ pc[c] = from
    /\ pc' = [pc EXCEPT ![c] = to]
    /\ UNCHANGED <<alive, listenVars>>

\* The catch block; a fileStream that is open is closed in the finally block.
Throws(c, from) ==
    /\ Step(c, from, "caught")
    /\ UNCHANGED <<fileVars, held, did, loadVars, exception_id, dbVars>>

ReceiveHeader(c) ==
    \/ /\ Step(c, "queued", "create")
       /\ UNCHANGED <<fileVars, held, did, loadVars, exception_id, dbVars>>
    \/ Throws(c, "queued")

\* Nobody has the file open.
Free(n) == writing[n] = NoReceiver /\ mapped[n] = NoReceiver

\* Mutant: FileShare.Write.
CreateFileShared(c) ==
    LET n == NameOf[c] IN
    /\ mapped[n] = NoReceiver
    /\ Step(c, "create", "body")
    /\ files' = [files EXCEPT ![n] = "torn"]
    /\ writing' = [writing EXCEPT ![n] = c]
    /\ UNCHANGED <<mapped, held, did, loadVars, exception_id, dbVars>>

\* Mutant: a mapped file is not in the way.
CreateFileMapped(c) ==
    LET n == NameOf[c] IN
    /\ writing[n] = NoReceiver
    /\ Step(c, "create", "body")
    /\ files' = [files EXCEPT ![n] = "torn"]
    /\ writing' = [writing EXCEPT ![n] = c]
    /\ UNCHANGED <<mapped, held, did, loadVars, exception_id, dbVars>>

\* new FileStream(fileName, FileMode.Create) truncates a file that exists, and
\* throws when it is open for writing or mapped.
CreateFile(c) ==
    LET n == NameOf[c] IN
    \/ /\ Free(n)
       /\ Step(c, "create", "body")
       /\ files' = [files EXCEPT ![n] = "torn"]
       /\ writing' = [writing EXCEPT ![n] = c]
       /\ UNCHANGED <<mapped, held, did, loadVars, exception_id, dbVars>>
    \/ Throws(c, "create")

\* The whole body has arrived and the file is closed.
ReceiveBody(c) ==
    LET n == NameOf[c] IN
    /\ Step(c, "body", "connect")
    /\ files' = [files EXCEPT ![n] = c]
    /\ writing' = [writing EXCEPT ![n] = NoReceiver]
    /\ UNCHANGED <<mapped, held, did, loadVars, exception_id, dbVars>>

-----------------------------------------------------------------------------
(* The Dumps table.                                                        *)

InUse == MapThenSumSet(LAMBDA c : held[c], Receivers)

\* Mutant: the wait for a connection has no timeout.
OpenWaits(c, from, to) ==
    /\ InUse < PoolSize
    /\ Step(c, from, to)
    /\ held' = [held EXCEPT ![c] = @ + 1]
    /\ UNCHANGED <<fileVars, did, loadVars, exception_id, dbVars>>

\* SqlConnection.Open: a connection from the pool, or a timeout.
Open(c, from, to) ==
    \/ /\ InUse < PoolSize
       /\ Step(c, from, to)
       /\ held' = [held EXCEPT ![c] = @ + 1]
       /\ UNCHANGED <<fileVars, did, loadVars, exception_id, dbVars>>
    \/ Throws(c, from)

\* The DumpsDBM is never disposed: its connection stays out of the pool.
DumpsDBM(c) == Open(c, "connect", "insert")

Insert(c) ==
    \/ /\ Step(c, "insert", "select")
       /\ Dumps' = Append(Dumps, [name |-> NameOf[c], owner |-> c])
       /\ UNCHANGED <<fileVars, held, did, loadVars, exception_id, tables>>
    \/ Throws(c, "insert")

\* Mutant: the last row is taken for the one just inserted, as in GetDumpID.
SelectLast(c) ==
    /\ Step(c, "select", "load")
    /\ did' = [did EXCEPT ![c] = Len(Dumps)]
    /\ UNCHANGED <<fileVars, held, loadVars, exception_id, dbVars>>

\* Row 0 of a SELECT by name that asks for no order.
SelectExp_ID(c) ==
    \/ \E d \in 1 .. Len(Dumps) :
          /\ Dumps[d].name = NameOf[c]
          /\ Step(c, "select", "load")
          /\ did' = [did EXCEPT ![c] = d]
          /\ UNCHANGED <<fileVars, held, loadVars, exception_id, dbVars>>
    \/ Throws(c, "select")

-----------------------------------------------------------------------------
(* SMEDBManager.                                                           *)

\* Mutant: whichever file was stored is loaded.
LoadAny(c) ==
    \E n \in Names :
        /\ files[n] \in Receivers
        /\ Step(c, "load", "open")
        /\ content' = [content EXCEPT ![c] = files[n]]
        /\ todo' = [todo EXCEPT ![c] = TablesOf(c, {})]
        /\ UNCHANGED <<fileVars, streams, held, did, exception_id, dbVars>>

\* SMEXMLReader reads the file by its name and closes it; a torn one is not XML.
\* SMEMiniDumpReader maps it, for itself alone, torn or not, and never unmaps it,
\* not even when a stream it reads afterwards makes its constructor throw.
Load(c) ==
    LET n == NameOf[c] IN
    \/ /\ Free(n)
       /\ files[n] \in Receivers \/ (n \in DumpNames /\ files[n] = "torn")
       /\ \/ /\ Step(c, "load", "open")
             /\ content' = [content EXCEPT ![c] = files[n]]
             /\ \E parts \in SUBSET Optional(c) :
                   /\ streams' = [streams EXCEPT ![c] = parts]
                   /\ todo' = [todo EXCEPT ![c] = TablesOf(c, parts)]
          \/ /\ Step(c, "load", "caught")
             /\ UNCHANGED loadVars
       /\ mapped' = IF n \in DumpNames THEN [mapped EXCEPT ![n] = c] ELSE mapped
       /\ UNCHANGED <<files, writing, held, did, exception_id, dbVars>>
    \/ Throws(c, "load")

\* The query for the next table is built: a stream the dump does not have is a
\* null reference, except that NAssertion and NModule do without.
Missing(c) == Head(todo[c]) \in {"NExceptionInfo", "NMiscInfo", "NBreakpad"} \ streams[c]

\* The line and type getters of MiniDumpAssertionInfo call themselves.
Overflows(c) == Head(todo[c]) = "NAssertion" /\ "NAssertion" \in streams[c]

\* An inner exception needs the Exp_ID of the outer one first.
OpenForTable(c) ==
    /\ todo[c] # <<>>
    /\ ~Overflows(c)
    /\ \/ ~Missing(c) /\ Open(c, "open", IF Head(todo[c]) = "InnerException"
                                         THEN "exception_id" ELSE "save")
       \/ Missing(c) /\ Throws(c, "open")

StackOverflow(c) ==
    /\ alive /\ pc[c] = "open"
    /\ todo[c] # <<>> /\ Overflows(c)
    /\ Terminate
    /\ UNCHANGED listenVars

\* The last row of a SELECT by Dump_ID that asks for no order.
ExceptionRows(d) ==
    {k \in 1 .. Len(tables) :
        tables[k].dump = d /\ tables[k].table \in {"ExceptionInfo", "InnerException"}}

GetExcetpionID(c) ==
    \/ /\ Step(c, "exception_id", "reopen")
       /\ \E k \in IF ExceptionRows(did[c]) = {} THEN {0} ELSE ExceptionRows(did[c]) :
             exception_id' = [exception_id EXCEPT ![c] = k]
       /\ held' = [held EXCEPT ![c] = @ - 1]
       /\ UNCHANGED <<fileVars, did, loadVars, dbVars>>
    \/ Throws(c, "exception_id")

OpenForInner(c) == Open(c, "reopen", "save")

\* Mutant: a statement that fails is passed over.
InsertDatabaseLenient(c) ==
    /\ Step(c, "save", "open")
    /\ todo' = [todo EXCEPT ![c] = Tail(@)]
    /\ held' = [held EXCEPT ![c] = @ - 1]
    /\ UNCHANGED <<fileVars, did, content, streams, exception_id, dbVars>>

\* The rest of InsertDatabase: a statement of its own, no transaction.  When it
\* throws, the connection is not closed.
InsertDatabase(c) ==
    LET table == Head(todo[c]) IN
    \/ /\ Step(c, "save", "open")
       /\ tables' = Append(tables,
              [table |-> table, dump |-> did[c], of |-> content[c],
               InnerExp |-> IF table = "InnerException" THEN exception_id[c] ELSE 0])
       /\ todo' = [todo EXCEPT ![c] = Tail(@)]
       /\ held' = [held EXCEPT ![c] = @ - 1]
       /\ UNCHANGED <<fileVars, did, content, streams, exception_id, Dumps>>
    \/ Throws(c, "save")

Saved(c) ==
    /\ todo[c] = <<>>
    /\ Step(c, "open", "complete")
    /\ UNCHANGED <<fileVars, held, did, loadVars, exception_id, dbVars>>

-----------------------------------------------------------------------------
(* The end of a receiver.                                                  *)

\* The finally block.
Dispose(c) ==
    LET n == NameOf[c] IN
    /\ \E from \in {"caught", "complete"} : Step(c, from, "disposed")
    /\ writing' = [writing EXCEPT ![n] = IF @ = c THEN NoReceiver ELSE @]
    /\ UNCHANGED <<files, mapped, held, did, loadVars, exception_id, dbVars>>

\* The garbage collector finds the connections and the mapping a receiver left.
CollectGarbage(c) ==
    LET n == NameOf[c] IN
    /\ alive /\ pc[c] = "disposed"
    /\ held[c] > 0 \/ mapped[n] = c
    /\ held' = [held EXCEPT ![c] = 0]
    /\ mapped' = [mapped EXCEPT ![n] = IF @ = c THEN NoReceiver ELSE @]
    /\ UNCHANGED <<alive, listenVars, pc, files, writing, did, loadVars, exception_id,
                   dbVars>>

-----------------------------------------------------------------------------
\* Mutant: what has arrived is taken for the report.
BodyThrowsIgnored(c) ==
    LET n == NameOf[c] IN
    /\ Step(c, "body", "connect")
    /\ writing' = [writing EXCEPT ![n] = NoReceiver]
    /\ UNCHANGED <<files, mapped, held, did, loadVars, exception_id, dbVars>>

\* A body that is still coming in may break off.
BodyThrows(c) == Throws(c, "body")

Receive(c) ==
    \/ ReceiveHeader(c) \/ CreateFile(c)
    \/ DumpsDBM(c) \/ Insert(c) \/ SelectExp_ID(c)
    \/ Load(c) \/ OpenForTable(c) \/ StackOverflow(c)
    \/ GetExcetpionID(c) \/ OpenForInner(c) \/ InsertDatabase(c) \/ Saved(c)
    \/ Dispose(c)

Next ==
    \/ AcceptingThrows \/ Stop \/ Drop \/ Abort
    \/ \E c \in Receivers :
          \/ Accepting(c) \/ Receive(c) \/ ReceiveBody(c) \/ BodyThrows(c)
          \/ CollectGarbage(c)

Spec == Init /\ [][Next]_vars

\* A pool thread that can go on does; nothing is assumed of the clients, whose
\* body may never end, or of the garbage collector.
FairSpec == Spec /\ \A c \in Receivers : WF_vars(Receive(c))

-----------------------------------------------------------------------------
(* Properties.                                                             *)

\* No other connection sends a file of the same name.
UniqueName(c) == \A b \in Receivers \ {c} : pc[b] # "none" => NameOf[b] # NameOf[c]

\* What a receiver reads back and saves is the report it received: between the
\* Close of the file and the constructors of SMEXMLReader and SMEMiniDumpReader
\* no other receiver can have put something else under that name, if the name is
\* not used twice.
OwnReportLoaded ==
    \A c \in Receivers : UniqueName(c) => content[c] \in {c, NoReceiver}

\* Every row of a report table hangs on the row of Dumps that was inserted for
\* the same report, if its name is not used twice.
RowsOfOwnDump ==
    \A k \in 1 .. Len(tables) :
        tables[k].of \in Receivers /\ UniqueName(tables[k].of) =>
            /\ tables[k].dump \in 1 .. Len(Dumps)
            /\ Dumps[tables[k].dump].owner = tables[k].of

\* The rows under a Dump_ID, the place of a row among some rows, and the row at
\* a place.
RowsUnder(d) == {k \in 1 .. Len(tables) : tables[k].dump = d}
Place(rows, k) == Cardinality({j \in rows : j <= k})
Nth(rows, i) == CHOOSE k \in rows : Place(rows, k) = i

\* A receiver that got to the end of Receive without an exception has written
\* each table of its report once, in order, and an inner exception refers to the
\* outer exception of the same report, if the name is not used twice.
CompleteReport ==
    \A c \in Receivers :
        pc[c] = "complete" /\ UniqueName(c) =>
            LET own == RowsUnder(did[c])
                layout == TablesOf(c, streams[c])
            IN  /\ Cardinality(own) = Len(layout)
                /\ \A k \in own :
                      /\ tables[k].table = layout[Place(own, k)]
                      /\ tables[k].table = "InnerException" =>
                            /\ tables[tables[k].InnerExp].table = "ExceptionInfo"
                            /\ tables[tables[k].InnerExp].dump = did[c]

\* A file is written by one receiver at a time, also when names are used twice:
\* the body of one report never runs into another, and a file that is closed
\* after its body holds that report.
OneWriterPerFile ==
    \A c \in Receivers : pc[c] = "body" /\ alive => writing[NameOf[c]] = c

\* A dump stays as it is while an SMEMiniDumpReader has it mapped, also when a
\* second dump of the same name comes in.
DumpStableWhileMapped ==
    [][\A n \in Names : mapped[n] # NoReceiver => files'[n] = files[n]]_vars

\* The steps of Receive as SMEReportStore sees them.
PhaseAt(p) ==
    CASE p \in {"none", "queued", "create", "body", "connect", "insert"} -> "new"
      [] p \in {"caught", "complete", "disposed"} -> "ended"
      [] OTHER -> "registered"

\* The rows of a report, wherever they hang.
OwnRows(c) == {k \in 1 .. Len(tables) : tables[k].of = c}

RowsOf(c) ==
    [i \in 1 .. Cardinality(OwnRows(c)) |->
        LET row == tables[Nth(OwnRows(c), i)] IN
        [table |-> row.table, under |-> Dumps[row.dump].owner]]

\* What the server's state is to SMEReportStore.
Layouts == [c \in Receivers |-> {TablesOf(c, parts) : parts \in SUBSET Optional(c)}]
phase == [c \in Receivers |-> PhaseAt(pc[c])]
whole == {c \in Receivers : files[NameOf[c]] = c}
saved == [c \in Receivers |-> RowsOf(c)]

Store == INSTANCE SMEReportStore WITH Reports <- Receivers

\* With a name of its own for every report, the receivers implement
\* SMEReportStore: their files, the Dumps table and the report tables change only
\* as it allows, although no transaction or lock ties the three together.
ImplementsStore == Store!Spec

\* A receiver whose file has been closed ends, although it may have to wait for
\* SqlConnections that other receivers hold and do not give back, unless the
\* process ends first.
ReceiverEnds ==
    \A c \in Receivers : pc[c] = "connect" ~> (pc[c] = "disposed" \/ ~alive)

\* "the Dump_ID that has the dump name just saved can be fetched": the Dump_ID a
\* receiver looks up by the name it has just inserted is the one of that row.
OwnDumpID ==
    \A c \in Receivers :
        did[c] # 0 => Dumps[did[c]].owner = c

-----------------------------------------------------------------------------
(* Small instances.                                                        *)

LOCAL INSTANCE TLC

\* A name of its own for every receiver; one XML file, and one dump, for all.
OwnNames ==
    CHOOSE f \in [Receivers -> Names] :
        \A b, c \in Receivers : f[b] = f[c] => b = c
OneXml == [c \in Receivers |-> CHOOSE n \in Names \ DumpNames : TRUE]
OneDump == [c \in Receivers |-> CHOOSE n \in DumpNames : TRUE]

\* Sound where all receivers have the same name.
Symmetry == Permutations(Receivers)
=============================================================================
