--------------------------- MODULE SMEServerProofs --------------------------
(***************************************************************************)
(* Proofs about SMEServer, for every set of receivers and names, every     *)
(* assignment of names to receivers and every size of the pool.            *)
(***************************************************************************)
EXTENDS SMEServer, TLAPS

\* The places of Receive before the insertion into Dumps, before the lookup of
\* the Dump_ID and before the file is read back.
BeforeStored == {"none", "queued", "create", "body"}
BeforeInsert == BeforeStored \cup {"connect", "insert"}
BeforeSelect == BeforeInsert \cup {"select"}
BeforeLoad == BeforeSelect \cup {"load"}

\* The places in which an SMEDBManager is at work or has finished.
Saving == {"open", "exception_id", "reopen", "save", "complete"}

\* A connection is given back only where one was taken out.
HeldOK == \A c \in Receivers : pc[c] \in {"exception_id", "save"} => held[c] >= 1

\* A table is taken from the front of the list only where there is one, and the
\* detour over GetExcetpionID is made for inner exceptions alone; in the end
\* nothing is left to do.
TodoOK ==
    \A c \in Receivers :
        /\ pc[c] \in {"exception_id", "reopen", "save"} => todo[c] # <<>>
        /\ pc[c] \in {"exception_id", "reopen"} => Head(todo[c]) = "InnerException"
        /\ pc[c] = "complete" => todo[c] = <<>>

\* What has been loaded is there while it is saved and not before.
LoadedOK ==
    \A c \in Receivers :
        /\ pc[c] \in Saving => content[c] # NoReceiver
        /\ content[c] # NoReceiver => pc[c] \notin BeforeLoad

ServerTypeInv == TypeOK /\ HeldOK /\ TodoOK /\ LoadedOK

-----------------------------------------------------------------------------
(* Files.                                                                  *)

\* A file that is mapped is not being written.
MappedNotWritten == \A n \in Names : mapped[n] # NoReceiver => writing[n] = NoReceiver

\* A file holds a report sent under its name, whose body has arrived.
FilesNamed ==
    \A n \in Names :
        files[n] \in Receivers =>
            NameOf[files[n]] = n /\ pc[files[n]] \notin BeforeStored

\* What was loaded was sent under the same name.
ContentNamed ==
    \A c \in Receivers :
        content[c] \in Receivers =>
            NameOf[content[c]] = NameOf[c] /\ pc[content[c]] \notin BeforeStored

\* From the Close of the file to the read, a name that is used once holds the
\* report of its receiver.
OwnFile ==
    \A c \in Receivers :
        UniqueName(c) /\ pc[c] \in {"connect", "insert", "select", "load"} =>
            files[NameOf[c]] = c

-----------------------------------------------------------------------------
(* Rows.                                                                   *)

\* A row of Dumps carries the name of the receiver that inserted it.
DumpsNamed ==
    \A d \in 1 .. Len(Dumps) :
        /\ Dumps[d].name = NameOf[Dumps[d].owner]
        /\ pc[Dumps[d].owner] \notin BeforeInsert

\* A Dump_ID that was looked up is that of a row with the receiver's name.
DidNamed ==
    \A c \in Receivers :
        /\ did[c] # 0 => /\ did[c] \in 1 .. Len(Dumps)
                         /\ Dumps[did[c]].name = NameOf[c]
                         /\ pc[c] \notin BeforeSelect
        /\ pc[c] \in Saving \cup {"load"} => did[c] # 0

\* Every row of a report table was written by a receiver that had loaded what
\* the row is of and had looked up the Dump_ID the row has.
Written ==
    \A k \in 1 .. Len(tables) :
        \E b \in Receivers :
            /\ did[b] = tables[k].dump /\ did[b] # 0
            /\ content[b] = tables[k].of /\ content[b] # NoReceiver

RowsInv == DumpsNamed /\ DidNamed /\ Written

-----------------------------------------------------------------------------
(* Reports.                                                                *)

\* How far the tables of a report have been written: what is under the Dump_ID
\* of c is the first part of its tables, in their order, and what is to do the
\* rest.
IsPrefix(own, rows, left, layout) ==
    /\ Cardinality(own) + Len(left) = Len(layout)
    /\ \A i \in 1 .. Len(left) : left[i] = layout[Cardinality(own) + i]
    /\ \A k \in own : rows[k].table = layout[Place(own, k)]
    /\ \A i \in 1 .. Cardinality(own) : \E k \in own : Place(own, k) = i

Prefix(c) == IsPrefix(RowsUnder(did[c]), tables, todo[c], TablesOf(c, streams[c]))

\* An inner exception refers to the outer one under the same Dump_ID.
InnerRefers(c) ==
    \A k \in RowsUnder(did[c]) :
        tables[k].table = "InnerException" =>
            /\ tables[k].InnerExp \in RowsUnder(did[c])
            /\ tables[tables[k].InnerExp].table = "ExceptionInfo"

\* So does the Exp_ID that is about to be inserted.
ExceptionIdRight(c) ==
    /\ exception_id[c] \in RowsUnder(did[c])
    /\ tables[exception_id[c]].table = "ExceptionInfo"

ReportInv ==
    \A c \in Receivers :
        UniqueName(c) =>
            /\ pc[c] = "load" => RowsUnder(did[c]) = {}
            /\ pc[c] \in Saving => Prefix(c) /\ InnerRefers(c)
            /\ pc[c] \in {"reopen", "save"} /\ Head(todo[c]) = "InnerException" =>
                  ExceptionIdRight(c)

-----------------------------------------------------------------------------
(* What a step can change.                                                 *)

\* The way of a receiver through Receive.
Flow(from, to) ==
    \/ from = "none" /\ to = "queued"
    \/ from = "queued" /\ to = "create"
    \/ from = "create" /\ to = "body"
    \/ from = "body" /\ to = "connect"
    \/ from = "connect" /\ to = "insert"
    \/ from = "insert" /\ to = "select"
    \/ from = "select" /\ to = "load"
    \/ from = "load" /\ to = "open"
    \/ from = "open" /\ to \in {"exception_id", "save", "complete"}
    \/ from = "exception_id" /\ to = "reopen"
    \/ from = "reopen" /\ to = "save"
    \/ from = "save" /\ to = "open"
    \/ from \notin {"none", "caught", "complete", "disposed"} /\ to = "caught"
    \/ from \in {"caught", "complete"} /\ to = "disposed"

Moves(c) == \E to \in Places : Flow(pc[c], to) /\ pc' = [pc EXCEPT ![c] = to]

PcFrame == UNCHANGED pc \/ \E c \in Receivers : Moves(c)

\* Some receiver goes from one place to another.
Passes(from, to) == \E c \in Receivers : pc[c] = from /\ pc'[c] = to

ControlFrame ==
    /\ alive' \in {alive, FALSE}
    /\ tcpListener' \in {tcpListener, "stopped", "null"}
    /\ listenThread' \in {listenThread, "accepting", "ended"}

FileFrame ==
    \/ UNCHANGED fileVars /\ ~Passes("create", "body") /\ ~Passes("body", "connect")
    \/ Terminate
    \/ \E c \in Receivers :
          CreateFile(c) \/ ReceiveBody(c) \/ Load(c) \/ Dispose(c) \/ CollectGarbage(c)

DumpsFrame == UNCHANGED Dumps \/ \E c \in Receivers : Insert(c)

DidFrame ==
    \/ UNCHANGED did /\ ~Passes("select", "load")
    \/ \E c \in Receivers : SelectExp_ID(c)

LoadFrame ==
    \/ UNCHANGED <<content, streams>> /\ ~Passes("load", "open")
    \/ \E c \in Receivers : Load(c)

TablesFrame == UNCHANGED tables \/ \E c \in Receivers : InsertDatabase(c)

TodoFrame ==
    \/ UNCHANGED todo /\ ~Passes("load", "open") /\ ~Passes("save", "open")
    \/ \E c \in Receivers : Load(c) \/ InsertDatabase(c)

ExceptionIdFrame ==
    \/ UNCHANGED exception_id /\ ~Passes("exception_id", "reopen")
    \/ \E c \in Receivers : GetExcetpionID(c)

OpenFrame ==
    \/ ~Passes("open", "exception_id") /\ ~Passes("open", "save")
    \/ \E c \in Receivers : OpenForTable(c)

SavedFrame == ~Passes("open", "complete") \/ \E c \in Receivers : Saved(c)

HeldFrame ==
    \/ /\ UNCHANGED held
       /\ ~Passes("open", "exception_id") /\ ~Passes("open", "save")
       /\ ~Passes("reopen", "save")
    \/ \E c \in Receivers :
          \/ DumpsDBM(c) \/ OpenForTable(c) \/ GetExcetpionID(c) \/ OpenForInner(c)
          \/ InsertDatabase(c) \/ CollectGarbage(c)

Frames ==
    /\ PcFrame /\ FileFrame /\ DumpsFrame /\ DidFrame /\ LoadFrame /\ TablesFrame
    /\ TodoFrame /\ ExceptionIdFrame /\ HeldFrame /\ ControlFrame
    /\ OpenFrame /\ SavedFrame

LEMMA StepFrames == TypeOK /\ [Next]_vars => Frames
<1>. SUFFICES ASSUME TypeOK, [Next]_vars PROVE Frames
    OBVIOUS
<1>1. pc \in [Receivers -> Places]
    BY DEF TypeOK, ProcessTypeOK
<1>. USE <1>1 DEF Frames, PcFrame, FileFrame, DumpsFrame, DidFrame, LoadFrame,
                  TablesFrame, TodoFrame, ExceptionIdFrame, HeldFrame, ControlFrame, OpenFrame,
                  SavedFrame, Passes, fileVars, dbVars, loadVars, listenVars
<1>2. CASE AcceptingThrows
    BY <1>2, Zenon DEF AcceptingThrows, Terminate
<1>3. CASE Stop
    BY <1>3 DEF Stop, Listener
<1>4. CASE Drop
    BY <1>4 DEF Drop, Listener
<1>5. CASE Abort
    BY <1>5 DEF Abort, Listener
<1>6. CASE UNCHANGED vars
    BY <1>6 DEF vars
<1>7. ASSUME NEW c \in Receivers,
             \/ Accepting(c) \/ Receive(c) \/ ReceiveBody(c) \/ BodyThrows(c)
             \/ CollectGarbage(c)
      PROVE  Frames
    <2>. USE DEF Moves, Flow, Places
    <2>1. CASE Accepting(c)
        BY <2>1, Zenon DEF Accepting
    <2>2. CASE ReceiveHeader(c)
        BY <2>2, Zenon DEF ReceiveHeader, Step, Throws
    <2>3. CASE CreateFile(c)
        <3>1. FileFrame
            BY <2>3
        <3>2. /\ PcFrame /\ DumpsFrame /\ DidFrame /\ LoadFrame /\ TablesFrame
              /\ TodoFrame /\ ExceptionIdFrame /\ HeldFrame /\ ControlFrame /\ OpenFrame /\ SavedFrame
            BY <2>3, Zenon DEF CreateFile, Step, Throws
        <3>. QED
            BY <3>1, <3>2, Zenon
    <2>4. CASE DumpsDBM(c)
        <3>1. HeldFrame
            BY <2>4
        <3>2. /\ PcFrame /\ FileFrame /\ DumpsFrame /\ DidFrame /\ LoadFrame
              /\ TablesFrame /\ TodoFrame /\ ExceptionIdFrame /\ ControlFrame /\ OpenFrame /\ SavedFrame
            BY <2>4, Zenon DEF DumpsDBM, Open, Step, Throws
        <3>. QED
            BY <3>1, <3>2, Zenon
    <2>5. CASE Insert(c)
        <3>1. DumpsFrame
            BY <2>5
        <3>2. /\ PcFrame /\ FileFrame /\ DidFrame /\ LoadFrame /\ TablesFrame
              /\ TodoFrame /\ ExceptionIdFrame /\ HeldFrame /\ ControlFrame /\ OpenFrame /\ SavedFrame
            BY <2>5, Zenon DEF Insert, Step, Throws
        <3>. QED
            BY <3>1, <3>2, Zenon
    <2>6. CASE SelectExp_ID(c)
        <3>1. DidFrame
            BY <2>6
        <3>2. /\ PcFrame /\ FileFrame /\ DumpsFrame /\ LoadFrame /\ TablesFrame
              /\ TodoFrame /\ ExceptionIdFrame /\ HeldFrame /\ ControlFrame /\ OpenFrame /\ SavedFrame
            BY <2>6, Zenon DEF SelectExp_ID, Step, Throws
        <3>. QED
            BY <3>1, <3>2, Zenon
    <2>7. CASE Load(c)
        <3>1. FileFrame /\ LoadFrame /\ TodoFrame
            BY <2>7
        <3>2. /\ PcFrame /\ DumpsFrame /\ DidFrame /\ TablesFrame /\ ExceptionIdFrame
              /\ HeldFrame /\ ControlFrame /\ OpenFrame /\ SavedFrame
            BY <2>7, Zenon DEF Load, Step, Throws
        <3>. QED
            BY <3>1, <3>2, Zenon
    <2>8. CASE OpenForTable(c)
        <3>1. HeldFrame /\ OpenFrame
            BY <2>8
        <3>2. /\ PcFrame /\ FileFrame /\ DumpsFrame /\ DidFrame /\ LoadFrame
              /\ TablesFrame /\ TodoFrame /\ ExceptionIdFrame /\ ControlFrame /\ SavedFrame
            BY <2>8, Zenon DEF OpenForTable, Open, Step, Throws
        <3>. QED
            BY <3>1, <3>2, Zenon
    <2>9. CASE StackOverflow(c)
        BY <2>9, Zenon DEF StackOverflow, Terminate
    <2>10. CASE GetExcetpionID(c)
        <3>1. ExceptionIdFrame /\ HeldFrame
            BY <2>10
        <3>2. /\ PcFrame /\ FileFrame /\ DumpsFrame /\ DidFrame /\ LoadFrame
              /\ TablesFrame /\ TodoFrame /\ ControlFrame /\ OpenFrame /\ SavedFrame
            BY <2>10, Zenon DEF GetExcetpionID, Step, Throws
        <3>. QED
            BY <3>1, <3>2, Zenon
    <2>11. CASE OpenForInner(c)
        <3>1. HeldFrame
            BY <2>11
        <3>2. /\ PcFrame /\ FileFrame /\ DumpsFrame /\ DidFrame /\ LoadFrame
              /\ TablesFrame /\ TodoFrame /\ ExceptionIdFrame /\ ControlFrame /\ OpenFrame /\ SavedFrame
            BY <2>11, Zenon DEF OpenForInner, Open, Step, Throws
        <3>. QED
            BY <3>1, <3>2, Zenon
    <2>12. CASE InsertDatabase(c)
        <3>1. TablesFrame /\ TodoFrame /\ HeldFrame
            BY <2>12
        <3>2. /\ PcFrame /\ FileFrame /\ DumpsFrame /\ DidFrame /\ LoadFrame
              /\ ExceptionIdFrame /\ ControlFrame /\ OpenFrame /\ SavedFrame
            BY <2>12, Zenon DEF InsertDatabase, Step, Throws
        <3>. QED
            BY <3>1, <3>2, Zenon
    <2>13. CASE Saved(c)
        <3>1. SavedFrame
            BY <2>13
        <3>2. /\ PcFrame /\ FileFrame /\ DumpsFrame /\ DidFrame /\ LoadFrame
              /\ TablesFrame /\ TodoFrame /\ ExceptionIdFrame /\ HeldFrame /\ ControlFrame /\ OpenFrame
            BY <2>13, Zenon DEF Saved, Step
        <3>. QED
            BY <3>1, <3>2, Zenon
    <2>14. CASE Dispose(c)
        <3>1. FileFrame
            BY <2>14
        <3>2. /\ PcFrame /\ DumpsFrame /\ DidFrame /\ LoadFrame /\ TablesFrame
              /\ TodoFrame /\ ExceptionIdFrame /\ HeldFrame /\ ControlFrame /\ OpenFrame /\ SavedFrame
            BY <2>14, Zenon DEF Dispose, Step
        <3>. QED
            BY <3>1, <3>2, Zenon
    <2>15. CASE ReceiveBody(c)
        <3>1. FileFrame
            BY <2>15
        <3>2. /\ PcFrame /\ DumpsFrame /\ DidFrame /\ LoadFrame /\ TablesFrame
              /\ TodoFrame /\ ExceptionIdFrame /\ HeldFrame /\ ControlFrame /\ OpenFrame /\ SavedFrame
            BY <2>15, Zenon DEF ReceiveBody, Step
        <3>. QED
            BY <3>1, <3>2, Zenon
    <2>16. CASE BodyThrows(c)
        BY <2>16, Zenon DEF BodyThrows, Throws, Step
    <2>17. CASE CollectGarbage(c)
        <3>1. FileFrame /\ HeldFrame
            BY <2>17
        <3>2. /\ PcFrame /\ DumpsFrame /\ DidFrame /\ LoadFrame /\ TablesFrame
              /\ TodoFrame /\ ExceptionIdFrame /\ ControlFrame /\ OpenFrame /\ SavedFrame
            BY <2>17, Zenon DEF CollectGarbage
        <3>. QED
            BY <3>1, <3>2, Zenon
    <2>. QED
        BY Zenon, <1>7, <2>1, <2>2, <2>3, <2>4, <2>5, <2>6, <2>7, <2>8,
           <2>9, <2>10, <2>11, <2>12, <2>13, <2>14, <2>15, <2>16, <2>17
        DEF Receive
<1>. QED
    BY <1>2, <1>3, <1>4, <1>5, <1>6, <1>7, Zenon DEF Next

-----------------------------------------------------------------------------
(* Types.                                                                  *)

LEMMA TablesOfType ==
    ASSUME NEW c \in Receivers, NEW parts
    PROVE  /\ TablesOf(c, parts) \in Seq(TableNames)
           /\ TablesOf(c, parts) # <<>>
<1>1. CSTables \in Seq(TableNames) /\ CSTables # <<>>
    BY DEF CSTables, TableNames
<1>2. NativeTables \in Seq(TableNames) /\ NativeTables # <<>>
    BY DEF NativeTables, TableNames
<1>3. /\ <<"ProjectInfo", "SystemInfo", "ExceptionInfo", "CallStackInfo">> \in Seq(TableNames)
      /\ <<"ProjectInfo", "SystemInfo", "ExceptionInfo", "CallStackInfo">> # <<>>
    BY DEF TableNames
<1>. QED
    BY <1>1, <1>2, <1>3 DEF TablesOf

LEMMA TypeInit == Init => ServerTypeInv
<1>. SUFFICES ASSUME Init PROVE ServerTypeInv
    OBVIOUS
<1>1. ProcessTypeOK /\ FileTypeOK /\ LoadTypeOK /\ SqlTypeOK
    BY DEF Init, ProcessTypeOK, Places, FileTypeOK, LoadTypeOK, SqlTypeOK
<1>2. /\ Dumps \in Seq(DumpRow)
      /\ tables \in Seq(Row)
    BY DEF Init
<1>3. HeldOK /\ TodoOK /\ LoadedOK
    BY DEF Init, HeldOK, TodoOK, LoadedOK, Saving
<1>. QED
    BY <1>1, <1>2, <1>3 DEF ServerTypeInv, TypeOK

LEMMA TypeNext == ServerTypeInv /\ [Next]_vars => ServerTypeInv'
<1>. SUFFICES ASSUME ServerTypeInv, [Next]_vars PROVE ServerTypeInv'
    OBVIOUS
<1>0. Dumps \in Seq(DumpRow) /\ tables \in Seq(Row)
    BY DEF ServerTypeInv, TypeOK
<1>1. /\ ProcessTypeOK /\ FileTypeOK /\ LoadTypeOK /\ SqlTypeOK
      /\ HeldOK /\ TodoOK /\ LoadedOK
    BY DEF ServerTypeInv, TypeOK
<1>2. Frames
    BY StepFrames DEF ServerTypeInv
<1>3. ProcessTypeOK'
    <2>1. pc' \in [Receivers -> Places]
        BY <1>1, <1>2 DEF Frames, PcFrame, Moves, ProcessTypeOK
    <2>. QED
        BY <1>1, <1>2, <2>1, Zenon DEF Frames, ControlFrame, ProcessTypeOK
<1>4. FileTypeOK'
    <2>1. CASE UNCHANGED fileVars
        BY <1>1, <2>1 DEF FileTypeOK, fileVars
    <2>2. CASE Terminate
        BY <1>1, <2>2 DEF FileTypeOK, Terminate
    <2>3. ASSUME NEW c \in Receivers,
                 CreateFile(c) \/ ReceiveBody(c) \/ Load(c) \/ Dispose(c) \/ CollectGarbage(c)
          PROVE  FileTypeOK'
        <3>1. CASE CreateFile(c)
            <4>1. \/ /\ files' = [files EXCEPT ![NameOf[c]] = "torn"]
                     /\ writing' = [writing EXCEPT ![NameOf[c]] = c]
                     /\ mapped' = mapped
                  \/ UNCHANGED fileVars
                BY <3>1 DEF CreateFile, Step, Throws
            <4>. QED
                BY <1>1, <4>1 DEF FileTypeOK, fileVars
        <3>2. CASE ReceiveBody(c)
            BY <1>1, <3>2, Zenon DEF FileTypeOK, fileVars, ReceiveBody, Step
        <3>3. CASE Load(c)
            BY <1>1, <3>3 DEF FileTypeOK, fileVars, Load, Step, Throws
        <3>4. CASE Dispose(c)
            BY <1>1, <3>4, Zenon DEF FileTypeOK, fileVars, Dispose, Step
        <3>5. CASE CollectGarbage(c)
            BY <1>1, <3>5, Zenon DEF FileTypeOK, fileVars, CollectGarbage
        <3>. QED
            BY <2>3, <3>1, <3>2, <3>3, <3>4, <3>5
    <2>. QED
        BY <1>2, <2>1, <2>2, <2>3 DEF Frames, FileFrame
<1>5. Dumps' \in Seq(DumpRow)
    <2>1. ASSUME NEW c \in Receivers, Insert(c)
          PROVE  Dumps' \in Seq(DumpRow)
        <3>1. [name |-> NameOf[c], owner |-> c] \in DumpRow
            BY ServerAssumption DEF DumpRow
        <3>2. \/ Dumps' = Append(Dumps, [name |-> NameOf[c], owner |-> c])
              \/ Dumps' = Dumps
            BY <2>1 DEF Insert, Step, Throws, dbVars
        <3>. QED
            BY <1>0, <3>1, <3>2
    <2>. QED
        BY <1>0, <1>2, <2>1 DEF Frames, DumpsFrame
<1>6. SqlTypeOK'
    <2>1. held' \in [Receivers -> Nat]
        <3>1. ASSUME NEW c \in Receivers,
                     \/ DumpsDBM(c) \/ OpenForTable(c) \/ GetExcetpionID(c)
                     \/ OpenForInner(c) \/ InsertDatabase(c) \/ CollectGarbage(c)
              PROVE  held' \in [Receivers -> Nat]
            <4>1. \/ held' = held
                  \/ held' = [held EXCEPT ![c] = @ + 1]
                  \/ held' = [held EXCEPT ![c] = @ - 1] /\ pc[c] \in {"exception_id", "save"}
                  \/ held' = [held EXCEPT ![c] = 0]
                BY <3>1 DEF DumpsDBM, OpenForTable, OpenForInner, Open, GetExcetpionID,
                            InsertDatabase, CollectGarbage, Step, Throws
            <4>. QED
                BY <1>1, <4>1 DEF SqlTypeOK, HeldOK
        <3>. QED
            BY <1>1, <1>2, <3>1 DEF Frames, HeldFrame, SqlTypeOK
    <2>2. did' \in [Receivers -> Nat]
        <3>1. ASSUME NEW c \in Receivers, SelectExp_ID(c)
              PROVE  did' \in [Receivers -> Nat]
            <4>1. did' = did \/ \E d \in 1 .. Len(Dumps) : did' = [did EXCEPT ![c] = d]
                BY <3>1 DEF SelectExp_ID, Step, Throws
            <4>. QED
                BY <1>1, <4>1 DEF SqlTypeOK
        <3>. QED
            BY <1>1, <1>2, <3>1 DEF Frames, DidFrame, SqlTypeOK
    <2>3. exception_id' \in [Receivers -> Nat]
        <3>1. ASSUME NEW c \in Receivers, GetExcetpionID(c)
              PROVE  exception_id' \in [Receivers -> Nat]
            <4>1. \/ exception_id' = exception_id
                  \/ \E k \in Nat : exception_id' = [exception_id EXCEPT ![c] = k]
                BY <1>0, <3>1 DEF GetExcetpionID, ExceptionRows, Step, Throws
            <4>. QED
                BY Zenon, <1>1, <4>1 DEF SqlTypeOK
        <3>. QED
            BY <1>1, <1>2, <3>1 DEF Frames, ExceptionIdFrame, SqlTypeOK
    <2>. QED
        BY <2>1, <2>2, <2>3 DEF SqlTypeOK
<1>7. LoadTypeOK'
    <2>1. ASSUME NEW c \in Receivers, Load(c) PROVE LoadTypeOK'
        <3>1. CASE UNCHANGED loadVars
            BY <1>1, <3>1 DEF LoadTypeOK, loadVars
        <3>2. ASSUME NEW parts \in SUBSET Optional(c),
                     content' = [content EXCEPT ![c] = files[NameOf[c]]],
                     streams' = [streams EXCEPT ![c] = parts],
                     todo' = [todo EXCEPT ![c] = TablesOf(c, parts)]
              PROVE  LoadTypeOK'
            <4>1. files[NameOf[c]] \in Receivers \cup {NoReceiver, "torn"}
                BY <1>1, ServerAssumption DEF FileTypeOK
            <4>2. parts \in SUBSET ({"InnerException"} \cup NativeStreams)
                BY DEF Optional
            <4>3. TablesOf(c, parts) \in Seq(TableNames)
                BY TablesOfType
            <4>. QED
                BY <1>1, <3>2, <4>1, <4>2, <4>3 DEF LoadTypeOK
        <3>. QED
            BY Zenon, <2>1, <3>1, <3>2 DEF Load, Step, Throws, loadVars
    <2>2. ASSUME NEW c \in Receivers, InsertDatabase(c)
          PROVE  todo' \in [Receivers -> Seq(TableNames)]
        <3>1. todo' = todo \/ (pc[c] = "save" /\ todo' = [todo EXCEPT ![c] = Tail(todo[c])])
            BY <1>1, <2>2 DEF InsertDatabase, Step, Throws, loadVars, LoadTypeOK
        <3>2. pc[c] = "save" => Tail(todo[c]) \in Seq(TableNames)
            <4>1. todo[c] \in Seq(TableNames) /\ (pc[c] = "save" => todo[c] # <<>>)
                BY <1>1 DEF LoadTypeOK, TodoOK
            <4>. QED
                BY <4>1
        <3>. QED
            BY <1>1, <3>1, <3>2, Zenon DEF LoadTypeOK
    <2>. QED
        BY Zenon, <1>1, <1>2, <2>1, <2>2 DEF Frames, LoadFrame, TodoFrame, LoadTypeOK
<1>8. tables' \in Seq(Row)
    <2>1. ASSUME NEW c \in Receivers, InsertDatabase(c) PROVE tables' \in Seq(Row)
        <3>. DEFINE row == [table |-> Head(todo[c]), dump |-> did[c], of |-> content[c],
                            InnerExp |-> IF Head(todo[c]) = "InnerException"
                                         THEN exception_id[c] ELSE 0]
        <3>1. CASE UNCHANGED tables
            BY <1>0, <3>1
        <3>2. CASE pc[c] = "save" /\ tables' = Append(tables, row)
            <4>1. content[c] \in Receivers \cup {"torn"}
                BY <1>1, <3>2 DEF LoadTypeOK, LoadedOK, Saving
            <4>2. Head(todo[c]) \in TableNames
                BY <1>1, <3>2 DEF LoadTypeOK, TodoOK
            <4>3. row \in Row
                BY Zenon, <1>1, <4>1, <4>2 DEF Row, SqlTypeOK
            <4>. HIDE DEF row
            <4>. QED
                BY <1>0, <3>2, <4>3
        <3>. QED
            BY <2>1, <3>1, <3>2 DEF InsertDatabase, Step, Throws, dbVars
    <2>. QED
        BY Zenon, <1>0, <1>2, <2>1 DEF Frames, TablesFrame
<1>9. HeldOK'
    <2>. SUFFICES ASSUME NEW b \in Receivers, pc'[b] \in {"exception_id", "save"}
                  PROVE  held'[b] >= 1
        BY DEF HeldOK
    <2>1. ASSUME NEW c \in Receivers,
                 \/ DumpsDBM(c) \/ OpenForTable(c) \/ GetExcetpionID(c)
                 \/ OpenForInner(c) \/ InsertDatabase(c) \/ CollectGarbage(c)
          PROVE  held'[b] >= 1
        <3>1. \/ held' = [held EXCEPT ![c] = @ + 1] /\ pc' = [pc EXCEPT ![c] = pc'[c]]
              \/ /\ held'[c] >= 1 \/ pc'[c] \notin {"exception_id", "save"}
                 /\ \A a \in Receivers \ {c} : held'[a] = held[a] /\ pc'[a] = pc[a]
            BY <1>1, <2>1, Zenon
            DEF DumpsDBM, OpenForTable, OpenForInner, Open, GetExcetpionID, InsertDatabase,
                CollectGarbage, Step, Throws, ProcessTypeOK, SqlTypeOK
        <3>. QED
            BY <1>1, <3>1 DEF HeldOK, ProcessTypeOK, SqlTypeOK
    <2>2. CASE /\ UNCHANGED held
               /\ ~Passes("open", "exception_id") /\ ~Passes("open", "save")
               /\ ~Passes("reopen", "save")
        <3>1. pc'[b] = pc[b]
            BY <1>1, <1>2, <2>2 DEF Frames, PcFrame, Moves, Flow, Passes, ProcessTypeOK
        <3>. QED
            BY Zenon, <1>1, <2>2, <3>1 DEF HeldOK
    <2>. QED
        BY Zenon, <1>2, <2>1, <2>2 DEF Frames, HeldFrame
<1>10. TodoOK'
    <2>. SUFFICES ASSUME NEW b \in Receivers
                  PROVE  /\ pc'[b] \in {"exception_id", "reopen", "save"} => todo'[b] # <<>>
                         /\ pc'[b] \in {"exception_id", "reopen"} =>
                               Head(todo'[b]) = "InnerException"
                         /\ pc'[b] = "complete" => todo'[b] = <<>>
        BY Zenon DEF TodoOK
    <2>1. CASE UNCHANGED todo
        <3>1. CASE pc'[b] = pc[b]
            BY Zenon, <1>1, <2>1, <3>1 DEF TodoOK
        <3>2. CASE pc'[b] # pc[b] /\ pc'[b] \in {"exception_id", "save"} /\ pc[b] = "open"
            <4>1. PICK c \in Receivers : OpenForTable(c)
                BY Zenon, <1>2, <3>2 DEF Frames, OpenFrame, Passes
            <4>2. b = c
                BY Zenon, <1>1, <3>2, <4>1 DEF OpenForTable, Open, Step, Throws, ProcessTypeOK
            <4>3. todo[b] # <<>> /\ (pc'[b] = "exception_id" => Head(todo[b]) = "InnerException")
                BY Zenon, <1>1, <3>2, <4>1, <4>2 DEF OpenForTable, Open, Step, Throws, ProcessTypeOK
            <4>. QED
                BY Zenon, <2>1, <3>2, <4>3
        <3>3. CASE pc'[b] = "complete" /\ pc[b] = "open"
            <4>1. PICK c \in Receivers : Saved(c)
                BY Zenon, <1>2, <3>3 DEF Frames, SavedFrame, Passes
            <4>. QED
                BY <1>1, <2>1, <3>3, <4>1 DEF Saved, Step, ProcessTypeOK
        <3>. QED
            BY Zenon, <1>1, <1>2, <2>1, <3>1, <3>2, <3>3
            DEF Frames, PcFrame, Moves, Flow, ProcessTypeOK, TodoOK
    <2>2. ASSUME NEW c \in Receivers, Load(c) \/ InsertDatabase(c), todo' # todo
          PROVE  /\ pc'[c] = "open"
                 /\ \A a \in Receivers \ {c} : todo'[a] = todo[a] /\ pc'[a] = pc[a]
        BY Zenon, <1>1, <2>2 DEF Load, InsertDatabase, Step, Throws, loadVars, ProcessTypeOK, LoadTypeOK
    <2>. QED
        BY <1>1, <1>2, <2>1, <2>2 DEF Frames, TodoFrame, TodoOK
<1>11. LoadedOK'
    <2>. SUFFICES ASSUME NEW b \in Receivers
                  PROVE  /\ pc'[b] \in Saving => content'[b] # NoReceiver
                         /\ content'[b] # NoReceiver => pc'[b] \notin BeforeLoad
        BY Zenon DEF LoadedOK
    <2>1. CASE UNCHANGED content /\ ~Passes("load", "open")
        BY Zenon, <1>1, <1>2, <2>1
        DEF Frames, PcFrame, Moves, Flow, Passes, ProcessTypeOK, LoadedOK, Saving, BeforeLoad,
            BeforeSelect, BeforeInsert, BeforeStored
    <2>2. ASSUME NEW c \in Receivers, Load(c)
          PROVE  /\ \/ pc'[c] = "caught" /\ content'[c] = content[c]
                    \/ pc'[c] = "open" /\ content'[c] # NoReceiver
                 /\ \A a \in Receivers \ {c} : content'[a] = content[a] /\ pc'[a] = pc[a]
        BY <1>1, <2>2, ServerAssumption
        DEF Load, Step, Throws, loadVars, ProcessTypeOK, LoadTypeOK
    <2>. QED
        BY Zenon, <1>1, <1>2, <2>1, <2>2
        DEF Frames, LoadFrame, LoadedOK, Saving, BeforeLoad, BeforeSelect, BeforeInsert,
            BeforeStored
<1>. QED
    BY <1>3, <1>4, <1>5, <1>6, <1>7, <1>8, <1>9, <1>10, <1>11 DEF ServerTypeInv, TypeOK

\* The types of SMEServer, with what Head, Tail and the counts of the pool need.
THEOREM ServerTypes == Spec => []ServerTypeInv
BY TypeInit, TypeNext, PTL DEF Spec

-----------------------------------------------------------------------------
(* A receiver does not go back.                                            *)

LEMMA Forward ==
    ASSUME ServerTypeInv, PcFrame, NEW c \in Receivers
    PROVE  /\ pc'[c] \in BeforeStored => pc[c] \in BeforeStored
           /\ pc'[c] \in BeforeInsert => pc[c] \in BeforeInsert
           /\ pc'[c] \in BeforeSelect => pc[c] \in BeforeSelect
           /\ pc'[c] \in BeforeLoad => pc[c] \in BeforeLoad
           /\ pc'[c] = "none" => pc[c] = "none"
<1>1. pc \in [Receivers -> Places]
    BY Zenon DEF ServerTypeInv, TypeOK, ProcessTypeOK
<1>. QED
    BY <1>1 DEF PcFrame, Moves, Flow, BeforeLoad, BeforeSelect, BeforeInsert, BeforeStored

LEMMA UniqueBefore ==
    ASSUME ServerTypeInv, PcFrame, NEW c \in Receivers, UniqueName(c)'
    PROVE  UniqueName(c)
BY Forward DEF UniqueName

-----------------------------------------------------------------------------
(* Files.                                                                  *)

LEMMA FileInit == Init => OneWriterPerFile /\ MappedNotWritten
BY DEF Init, OneWriterPerFile, MappedNotWritten

LEMMA FileNext ==
    ServerTypeInv /\ OneWriterPerFile /\ MappedNotWritten /\ [Next]_vars
        => OneWriterPerFile' /\ MappedNotWritten'
<1>. SUFFICES ASSUME ServerTypeInv, OneWriterPerFile, MappedNotWritten, [Next]_vars
              PROVE  OneWriterPerFile' /\ MappedNotWritten'
    OBVIOUS
<1>1. ProcessTypeOK /\ FileTypeOK
    BY DEF ServerTypeInv, TypeOK
<1>2. Frames
    BY Zenon, StepFrames DEF ServerTypeInv
<1>3. CASE UNCHANGED fileVars /\ ~Passes("create", "body") /\ ~Passes("body", "connect")
    <2>1. \A c \in Receivers : pc'[c] = "body" => pc[c] = "body"
        BY <1>1, <1>2, <1>3 DEF Frames, PcFrame, Moves, Flow, Passes, ProcessTypeOK
    <2>2. alive' => alive
        BY <1>2, Zenon DEF Frames, ControlFrame
    <2>. QED
        BY Zenon, <1>3, <2>1, <2>2 DEF fileVars, OneWriterPerFile, MappedNotWritten
<1>4. CASE Terminate
    BY Zenon, <1>4 DEF Terminate, OneWriterPerFile, MappedNotWritten
<1>5. ASSUME NEW c \in Receivers,
             CreateFile(c) \/ ReceiveBody(c) \/ Load(c) \/ Dispose(c) \/ CollectGarbage(c)
      PROVE  OneWriterPerFile' /\ MappedNotWritten'
    <2>. USE <1>1, ServerAssumption
         DEF ProcessTypeOK, FileTypeOK, fileVars, listenVars, OneWriterPerFile,
             MappedNotWritten, Step, Throws, Free
    <2>1. CASE CreateFile(c)
        BY <2>1 DEF CreateFile
    <2>2. CASE ReceiveBody(c)
        BY Zenon, <2>2 DEF ReceiveBody
    <2>3. CASE Load(c)
        BY Zenon, <2>3 DEF Load
    <2>4. CASE Dispose(c)
        BY Zenon, <2>4 DEF Dispose
    <2>5. CASE CollectGarbage(c)
        BY <2>5 DEF CollectGarbage
    <2>. QED
        BY Zenon, <1>5, <2>1, <2>2, <2>3, <2>4, <2>5
<1>. QED
    BY <1>2, <1>3, <1>4, <1>5 DEF Frames, FileFrame

\* Also when a name is used by several connections, CreateFile and ReceiveBody
\* never have two receivers write one file.
THEOREM WritersExclude == Spec => []OneWriterPerFile
<1>1. ServerTypeInv /\ OneWriterPerFile /\ MappedNotWritten /\ [Next]_vars
        => (ServerTypeInv /\ OneWriterPerFile /\ MappedNotWritten)'
    BY TypeNext, FileNext
<1>. QED
    BY TypeInit, FileInit, <1>1, PTL DEF Spec

\* Nor does a file change that SMEMiniDumpReader has mapped.
THEOREM MappedDumpsStable == Spec => DumpStableWhileMapped
<1>. DEFINE Inv == ServerTypeInv /\ OneWriterPerFile /\ MappedNotWritten
<1>1. Inv /\ [Next]_vars => Inv'
    BY Zenon, TypeNext, FileNext
<1>2. Inv /\ [Next]_vars
        => [\A n \in Names : mapped[n] # NoReceiver => files'[n] = files[n]]_vars
    <2>. SUFFICES ASSUME Inv, [Next]_vars, NEW n \in Names, mapped[n] # NoReceiver
                  PROVE  files'[n] = files[n]
        OBVIOUS
    <2>1. ProcessTypeOK /\ FileTypeOK
        BY DEF ServerTypeInv, TypeOK
    <2>2. FileFrame
        BY Zenon, StepFrames DEF ServerTypeInv, Frames
    <2>3. ASSUME NEW c \in Receivers, CreateFile(c) PROVE files'[n] = files[n]
        BY Zenon, <2>1, <2>3 DEF CreateFile, Step, Throws, Free, fileVars, FileTypeOK
    <2>4. ASSUME NEW c \in Receivers, ReceiveBody(c) PROVE files'[n] = files[n]
        BY <2>1, <2>4, ServerAssumption
        DEF ReceiveBody, Step, FileTypeOK, OneWriterPerFile, MappedNotWritten
    <2>5. ASSUME NEW c \in Receivers, Load(c) \/ Dispose(c) \/ CollectGarbage(c)
          PROVE  files' = files
        BY <2>5, Zenon DEF Load, Dispose, CollectGarbage, Step, Throws, fileVars
    <2>. QED
        BY Zenon, <2>2, <2>3, <2>4, <2>5 DEF FileFrame, fileVars, Terminate
<1>. QED
    BY TypeInit, FileInit, <1>1, <1>2, PTL DEF Spec, DumpStableWhileMapped

-----------------------------------------------------------------------------
(* The report that is read back.                                           *)

ContentInv == FilesNamed /\ ContentNamed /\ OwnFile /\ OwnReportLoaded

LEMMA ContentInit == Init => ContentInv
BY ServerAssumption DEF Init, ContentInv, FilesNamed, ContentNamed, OwnFile, OwnReportLoaded

LEMMA ContentNext == ServerTypeInv /\ ContentInv /\ [Next]_vars => ContentInv'
<1>. SUFFICES ASSUME ServerTypeInv, ContentInv, [Next]_vars PROVE ContentInv'
    OBVIOUS
<1>1. ProcessTypeOK /\ FileTypeOK /\ LoadTypeOK
    BY DEF ServerTypeInv, TypeOK
<1>2. PcFrame /\ FileFrame /\ LoadFrame
    BY Zenon, StepFrames DEF ServerTypeInv, Frames
<1>3. \A c \in Receivers : pc'[c] \in BeforeStored => pc[c] \in BeforeStored
    BY <1>2, Forward
<1>4. \A c \in Receivers : UniqueName(c)' => UniqueName(c)
    BY Zenon, <1>2, UniqueBefore
<1>5. \/ UNCHANGED files /\ ~Passes("body", "connect")
      \/ \E c \in Receivers :
            \/ /\ pc[c] = "create" /\ pc' = [pc EXCEPT ![c] = "body"]
               /\ files' = [files EXCEPT ![NameOf[c]] = "torn"]
            \/ /\ pc[c] = "body" /\ pc' = [pc EXCEPT ![c] = "connect"]
               /\ files' = [files EXCEPT ![NameOf[c]] = c]
    <2>1. ASSUME NEW c \in Receivers, CreateFile(c)
          PROVE  \/ UNCHANGED files /\ ~Passes("body", "connect")
                 \/ /\ pc[c] = "create" /\ pc' = [pc EXCEPT ![c] = "body"]
                    /\ files' = [files EXCEPT ![NameOf[c]] = "torn"]
        BY Zenon, <1>1, <2>1 DEF CreateFile, Step, Throws, fileVars, Passes, ProcessTypeOK
    <2>2. ASSUME NEW c \in Receivers, ReceiveBody(c)
          PROVE  /\ pc[c] = "body" /\ pc' = [pc EXCEPT ![c] = "connect"]
                 /\ files' = [files EXCEPT ![NameOf[c]] = c]
        BY <2>2 DEF ReceiveBody, Step
    <2>3. ASSUME NEW c \in Receivers, Load(c) \/ Dispose(c) \/ CollectGarbage(c)
          PROVE  UNCHANGED files /\ ~Passes("body", "connect")
        BY <1>1, <2>3, Zenon
        DEF Load, Dispose, CollectGarbage, Step, Throws, fileVars, Passes, ProcessTypeOK
    <2>4. CASE Terminate
        BY <2>4 DEF Terminate, Passes
    <2>. QED
        BY Zenon, <1>2, <2>1, <2>2, <2>3, <2>4 DEF FileFrame, fileVars
<1>6. \/ UNCHANGED content
      \/ \E c \in Receivers :
            /\ pc[c] = "load" /\ content' = [content EXCEPT ![c] = files[NameOf[c]]]
            /\ UNCHANGED files
    <2>1. ASSUME NEW c \in Receivers, Load(c)
          PROVE  \/ UNCHANGED content
                 \/ /\ pc[c] = "load" /\ content' = [content EXCEPT ![c] = files[NameOf[c]]]
                    /\ UNCHANGED files
        BY <2>1, Zenon DEF Load, Step, Throws, fileVars, loadVars
    <2>. QED
        BY <1>2, <2>1, Zenon DEF LoadFrame
<1>7. FilesNamed'
    BY <1>1, <1>3, <1>5, ServerAssumption
    DEF ContentInv, FilesNamed, ProcessTypeOK, FileTypeOK, BeforeStored
<1>8. ContentNamed'
    <2>. SUFFICES ASSUME NEW b \in Receivers, content'[b] \in Receivers
                  PROVE  /\ NameOf[content'[b]] = NameOf[b]
                         /\ pc'[content'[b]] \notin BeforeStored
        BY Zenon DEF ContentNamed
    <2>1. content'[b] = content[b] \/ content'[b] = files[NameOf[b]]
        BY Zenon, <1>1, <1>6 DEF LoadTypeOK
    <2>2. NameOf[content'[b]] = NameOf[b] /\ pc[content'[b]] \notin BeforeStored
        BY Zenon, <2>1, ServerAssumption DEF ContentInv, ContentNamed, FilesNamed
    <2>. QED
        BY <1>3, <2>2, Zenon
<1>9. OwnFile'
    <2>. SUFFICES ASSUME NEW b \in Receivers, UniqueName(b)',
                         pc'[b] \in {"connect", "insert", "select", "load"}
                  PROVE  files'[NameOf[b]] = b
        BY DEF OwnFile
    <2>1. UniqueName(b)
        BY Zenon, <1>4
    <2>2. CASE UNCHANGED files /\ ~Passes("body", "connect")
        <3>1. pc[b] \in {"connect", "insert", "select", "load"}
            BY Zenon, <1>1, <1>2, <2>2 DEF PcFrame, Moves, Flow, Passes, ProcessTypeOK
        <3>. QED
            BY Zenon, <2>1, <2>2, <3>1 DEF ContentInv, OwnFile
    <2>3. ASSUME NEW c \in Receivers, pc[c] \in {"create", "body"},
                 NEW to \in {"body", "connect"}, pc' = [pc EXCEPT ![c] = to],
                 NEW f, files' = [files EXCEPT ![NameOf[c]] = f],
                 to = "connect" => f = c
          PROVE  files'[NameOf[b]] = b
        <3>1. CASE b = c
            BY <1>1, <2>3, <3>1, ServerAssumption, Zenon DEF ProcessTypeOK, FileTypeOK
        <3>2. CASE b # c
            BY <1>1, <2>1, <2>3, <3>2
            DEF ProcessTypeOK, FileTypeOK, ContentInv, OwnFile, UniqueName
        <3>. QED
            BY <3>1, <3>2
    <2>. QED
        BY Zenon, <1>5, <2>2, <2>3
<1>10. OwnReportLoaded'
    <2>. SUFFICES ASSUME NEW b \in Receivers, UniqueName(b)'
                  PROVE  content'[b] \in {b, NoReceiver}
        BY DEF OwnReportLoaded
    <2>1. UniqueName(b)
        BY <1>4
    <2>. QED
        BY Zenon, <1>1, <1>6, <2>1 DEF ContentInv, OwnReportLoaded, OwnFile, LoadTypeOK
<1>. QED
    BY <1>7, <1>8, <1>9, <1>10 DEF ContentInv

\* What SMEXMLReader and SMEMiniDumpReader read back is what the same receiver
\* stored, for every receiver whose file name no other connection has sent.
THEOREM LoadsOwnReport == Spec => []OwnReportLoaded
<1>1. ServerTypeInv /\ ContentInv /\ [Next]_vars => (ServerTypeInv /\ ContentInv)'
    BY TypeNext, ContentNext
<1>2. ContentInv => OwnReportLoaded
    BY DEF ContentInv
<1>. QED
    BY TypeInit, ContentInit, <1>1, <1>2, PTL DEF Spec

-----------------------------------------------------------------------------
(* The rows of a report.                                                   *)

\* A row is added to Dumps at most; those that are there stay.
DumpsGrow ==
    /\ Len(Dumps) \in Nat /\ Len(Dumps') \in Nat /\ Len(Dumps) <= Len(Dumps')
    /\ \A d \in 1 .. Len(Dumps) : Dumps'[d] = Dumps[d]
    /\ \A d \in 1 .. Len(Dumps') :
          d \notin 1 .. Len(Dumps) =>
              \E c \in Receivers : /\ Dumps'[d] = [name |-> NameOf[c], owner |-> c]
                                   /\ pc'[c] = "select"

\* So it is with the tables of the reports.
Inserted(c) ==
    [table |-> Head(todo[c]), dump |-> did[c], of |-> content[c],
     InnerExp |-> IF Head(todo[c]) = "InnerException" THEN exception_id[c] ELSE 0]

RowAdded(c) ==
    /\ pc[c] = "save" /\ todo' = [todo EXCEPT ![c] = Tail(todo[c])]
    /\ pc' = [pc EXCEPT ![c] = "open"]
    /\ UNCHANGED <<did, content, streams, Dumps>>
    /\ Len(tables') = Len(tables) + 1
    /\ tables'[Len(tables) + 1] = Inserted(c)

TablesGrow ==
    /\ Len(tables) \in Nat /\ Len(tables') \in Nat
    /\ \A k \in 1 .. Len(tables) : tables'[k] = tables[k]
    /\ UNCHANGED tables \/ \E c \in Receivers : RowAdded(c)

LEMMA AppendFacts ==
    ASSUME NEW S, NEW s \in Seq(S), NEW e \in S
    PROVE  /\ Len(s) \in Nat /\ Len(Append(s, e)) = Len(s) + 1
           /\ \A i \in 1 .. Len(s) : Append(s, e)[i] = s[i]
           /\ Append(s, e)[Len(s) + 1] = e
OBVIOUS

LEMMA DumpOwner ==
    ASSUME ServerTypeInv, NEW d \in 1 .. Len(Dumps)
    PROVE  Dumps[d].owner \in Receivers
<1>1. Dumps \in Seq(DumpRow)
    BY DEF ServerTypeInv, TypeOK
<1>2. Dumps[d] \in DumpRow
    BY <1>1
<1>. QED
    BY <1>2 DEF DumpRow

LEMMA DumpsStep == ServerTypeInv /\ Frames => DumpsGrow
<1>. SUFFICES ASSUME ServerTypeInv, Frames PROVE DumpsGrow
    OBVIOUS
<1>1. Dumps \in Seq(DumpRow) /\ pc \in [Receivers -> Places]
    BY Zenon DEF ServerTypeInv, TypeOK, ProcessTypeOK
<1>2. CASE UNCHANGED Dumps
    BY <1>1, <1>2 DEF DumpsGrow
<1>3. ASSUME NEW c \in Receivers, Insert(c), Dumps' # Dumps PROVE DumpsGrow
    <2>. DEFINE e == [name |-> NameOf[c], owner |-> c]
    <2>1. Dumps' = Append(Dumps, e) /\ pc'[c] = "select"
        BY Zenon, <1>1, <1>3 DEF Insert, Step, Throws, dbVars
    <2>2. e \in DumpRow
        BY Zenon, ServerAssumption DEF DumpRow
    <2>3. /\ Len(Dumps) \in Nat /\ Len(Dumps') = Len(Dumps) + 1
          /\ \A i \in 1 .. Len(Dumps) : Dumps'[i] = Dumps[i]
          /\ Dumps'[Len(Dumps) + 1] = e
        <3>. HIDE DEF e
        <3>. QED
            BY <1>1, <2>1, <2>2, AppendFacts
    <2>. QED
        BY <2>1, <2>3 DEF DumpsGrow
<1>. QED
    BY <1>2, <1>3 DEF Frames, DumpsFrame

LEMMA InsertStep ==
    ASSUME ServerTypeInv, NEW c \in Receivers, InsertDatabase(c)
    PROVE  \/ /\ RowAdded(c)
              /\ Len(tables) \in Nat /\ \A i \in 1 .. Len(tables) : tables'[i] = tables[i]
           \/ UNCHANGED <<tables, todo>> /\ pc' = [pc EXCEPT ![c] = "caught"]
<1>1. \/ UNCHANGED <<tables, todo>> /\ pc' = [pc EXCEPT ![c] = "caught"]
      \/ /\ tables' = Append(tables, Inserted(c))
         /\ pc[c] = "save" /\ todo' = [todo EXCEPT ![c] = Tail(todo[c])]
         /\ pc' = [pc EXCEPT ![c] = "open"]
         /\ UNCHANGED <<did, content, streams, Dumps>>
    BY DEF InsertDatabase, Inserted, Step, Throws, dbVars, loadVars
<1>2. ASSUME pc[c] = "save" PROVE Inserted(c) \in Row
    <2>1. content[c] \in Receivers \cup {"torn"}
        BY <1>2 DEF ServerTypeInv, TypeOK, LoadTypeOK, LoadedOK, Saving
    <2>2. todo[c] \in Seq(TableNames) /\ todo[c] # <<>>
        BY Zenon, <1>2 DEF ServerTypeInv, TypeOK, LoadTypeOK, TodoOK
    <2>3. Head(todo[c]) \in TableNames
        BY <2>2
    <2>4. did[c] \in Nat /\ exception_id[c] \in Nat
        BY Zenon DEF ServerTypeInv, TypeOK, SqlTypeOK
    <2>. QED
        BY <2>1, <2>3, <2>4, Zenon DEF Row, Inserted
<1>3. ASSUME pc[c] = "save", tables' = Append(tables, Inserted(c))
      PROVE  /\ Len(tables) \in Nat /\ Len(tables') = Len(tables) + 1
             /\ \A i \in 1 .. Len(tables) : tables'[i] = tables[i]
             /\ tables'[Len(tables) + 1] = Inserted(c)
    <2>1. tables \in Seq(Row)
        BY DEF ServerTypeInv, TypeOK
    <2>. QED
        BY <1>2, <1>3, <2>1, AppendFacts
<1>. QED
    BY Zenon, <1>1, <1>3 DEF RowAdded

LEMMA TablesStep == ServerTypeInv /\ Frames => TablesGrow
<1>. SUFFICES ASSUME ServerTypeInv, Frames PROVE TablesGrow
    OBVIOUS
<1>1. CASE UNCHANGED tables
    <2>1. tables \in Seq(Row)
        BY Zenon DEF ServerTypeInv, TypeOK
    <2>. QED
        BY <1>1, <2>1 DEF TablesGrow
<1>2. ASSUME NEW c \in Receivers, InsertDatabase(c), tables' # tables PROVE TablesGrow
    BY <1>2, InsertStep DEF TablesGrow, RowAdded
<1>. QED
    BY <1>1, <1>2 DEF Frames, TablesFrame

\* A Dump_ID is looked up once and by name, and what has been loaded stays.
LEMMA DidStep ==
    ASSUME ServerTypeInv, Frames, NEW b \in Receivers
    PROVE  \/ did'[b] = did[b] /\ ~(pc[b] = "select" /\ pc'[b] = "load")
           \/ /\ pc[b] = "select" /\ pc'[b] = "load" /\ UNCHANGED <<Dumps, tables>>
              /\ did'[b] \in 1 .. Len(Dumps) /\ Dumps[did'[b]].name = NameOf[b]
              /\ \A a \in Receivers \ {b} : pc'[a] = pc[a]
<1>1. pc \in [Receivers -> Places] /\ did \in [Receivers -> Nat]
    BY Zenon DEF ServerTypeInv, TypeOK, ProcessTypeOK, SqlTypeOK
<1>2. ASSUME NEW c \in Receivers, SelectExp_ID(c)
      PROVE  \/ UNCHANGED did /\ pc'[c] # "load" /\ \A a \in Receivers \ {c} : pc'[a] = pc[a]
             \/ /\ pc[c] = "select" /\ pc'[c] = "load" /\ UNCHANGED <<Dumps, tables>>
                /\ \E d \in 1 .. Len(Dumps) :
                      did' = [did EXCEPT ![c] = d] /\ Dumps[d].name = NameOf[c]
                /\ \A a \in Receivers \ {c} : pc'[a] = pc[a]
    BY Zenon, <1>1, <1>2 DEF SelectExp_ID, Step, Throws, dbVars
<1>. QED
    BY <1>1, <1>2 DEF Frames, DidFrame, Passes

LEMMA ContentStep ==
    ASSUME ServerTypeInv, Frames, NEW b \in Receivers, pc[b] # "load"
    PROVE  content'[b] = content[b] /\ streams'[b] = streams[b]
<1>1. /\ content \in [Receivers -> Receivers \cup {NoReceiver, "torn"}]
      /\ streams \in [Receivers -> SUBSET ({"InnerException"} \cup NativeStreams)]
    BY DEF ServerTypeInv, TypeOK, LoadTypeOK
<1>2. ASSUME NEW c \in Receivers, Load(c)
      PROVE  \A a \in Receivers : pc[a] # "load" =>
                 content'[a] = content[a] /\ streams'[a] = streams[a]
    BY <1>1, <1>2, Zenon DEF Load, Step, Throws, loadVars
<1>. QED
    BY Zenon, <1>2 DEF Frames, LoadFrame

LEMMA RowsInit == Init => RowsInv
BY DEF Init, RowsInv, DumpsNamed, DidNamed, Written, Saving

LEMMA RowsNext == ServerTypeInv /\ RowsInv /\ [Next]_vars => RowsInv'
<1>. SUFFICES ASSUME ServerTypeInv, RowsInv, [Next]_vars PROVE RowsInv'
    OBVIOUS
<1>1. Frames
    BY StepFrames DEF ServerTypeInv
<1>2. DumpsGrow /\ TablesGrow
    BY Zenon, <1>1, DumpsStep, TablesStep
<1>3. \A c \in Receivers :
          /\ pc'[c] \in BeforeInsert => pc[c] \in BeforeInsert
          /\ pc'[c] \in BeforeSelect => pc[c] \in BeforeSelect
    BY Zenon, <1>1, Forward DEF Frames
<1>4. DumpsNamed'
    <2>. SUFFICES ASSUME NEW d \in 1 .. Len(Dumps')
                  PROVE  /\ Dumps'[d].name = NameOf[Dumps'[d].owner]
                         /\ pc'[Dumps'[d].owner] \notin BeforeInsert
        BY Zenon DEF DumpsNamed
    <2>1. CASE d \in 1 .. Len(Dumps)
        <3>1. Dumps[d].owner \in Receivers
            BY Zenon, <2>1, DumpOwner
        <3>. QED
            BY <1>2, <1>3, <2>1, <3>1 DEF DumpsGrow, RowsInv, DumpsNamed
    <2>2. CASE d \notin 1 .. Len(Dumps)
        <3>1. PICK c \in Receivers : /\ Dumps'[d] = [name |-> NameOf[c], owner |-> c]
                                     /\ pc'[c] = "select"
            BY Zenon, <1>2, <2>2 DEF DumpsGrow
        <3>2. Dumps'[d].name = NameOf[c] /\ Dumps'[d].owner = c
            BY <3>1
        <3>. QED
            BY Zenon, <3>1, <3>2 DEF BeforeInsert, BeforeStored
    <2>. QED
        BY Zenon, <2>1, <2>2
<1>5. DidNamed'
    <2>. SUFFICES ASSUME NEW c \in Receivers
                  PROVE  /\ did'[c] # 0 => /\ did'[c] \in 1 .. Len(Dumps')
                                           /\ Dumps'[did'[c]].name = NameOf[c]
                                           /\ pc'[c] \notin BeforeSelect
                         /\ pc'[c] \in Saving \cup {"load"} => did'[c] # 0
        BY Zenon DEF DidNamed
    <2>1. CASE did'[c] = did[c] /\ ~(pc[c] = "select" /\ pc'[c] = "load")
        <3>1. pc'[c] \in Saving \cup {"load"} => pc[c] \in Saving \cup {"load"}
            BY <1>1, <2>1
            DEF Frames, PcFrame, Moves, Flow, Saving, ServerTypeInv, TypeOK, ProcessTypeOK
        <3>. QED
            BY <1>2, <1>3, <2>1, <3>1 DEF RowsInv, DidNamed, DumpsGrow
    <2>2. CASE /\ pc[c] = "select" /\ pc'[c] = "load"
               /\ did'[c] \in 1 .. Len(Dumps) /\ Dumps[did'[c]].name = NameOf[c]
        BY <1>2, <2>2 DEF DumpsGrow, BeforeSelect, BeforeInsert, BeforeStored
    <2>. QED
        BY Zenon, <1>1, <2>1, <2>2, DidStep
<1>6. Written'
    <2>. SUFFICES ASSUME NEW k \in 1 .. Len(tables')
                  PROVE  \E b \in Receivers :
                             /\ did'[b] = tables'[k].dump /\ did'[b] # 0
                             /\ content'[b] = tables'[k].of /\ content'[b] # NoReceiver
        BY Zenon DEF Written
    <2>1. CASE k \in 1 .. Len(tables)
        <3>1. PICK b \in Receivers :
                  /\ did[b] = tables[k].dump /\ did[b] # 0
                  /\ content[b] = tables[k].of /\ content[b] # NoReceiver
            BY Zenon, <2>1 DEF RowsInv, Written
        <3>2. pc[b] \notin BeforeLoad
            BY Zenon, <3>1 DEF ServerTypeInv, LoadedOK
        <3>3. did'[b] = did[b] /\ content'[b] = content[b]
            BY Zenon, <1>1, <3>2, DidStep, ContentStep
            DEF BeforeLoad, BeforeSelect, BeforeInsert, BeforeStored
        <3>. QED
            BY Zenon, <1>2, <2>1, <3>1, <3>3 DEF TablesGrow
    <2>2. CASE k \notin 1 .. Len(tables)
        <3>1. PICK c \in Receivers :
                  /\ pc[c] = "save" /\ UNCHANGED <<did, content>>
                  /\ tables'[k] = Inserted(c)
            BY <1>2, <2>2 DEF TablesGrow, RowAdded
        <3>2. did[c] # 0 /\ content[c] # NoReceiver
            BY <3>1, Zenon DEF RowsInv, DidNamed, ServerTypeInv, LoadedOK, Saving
        <3>. QED
            BY <3>1, <3>2 DEF Inserted
    <2>. QED
        BY Zenon, <2>1, <2>2
<1>. QED
    BY <1>4, <1>5, <1>6 DEF RowsInv

\* A Dump_ID is looked up by name: where the name is used once, it is the one of
\* the row the receiver has inserted.
LEMMA OwnDumps == ServerTypeInv /\ ContentInv /\ RowsInv => RowsOfOwnDump
<1>. SUFFICES ASSUME ServerTypeInv, ContentInv, RowsInv, NEW k \in 1 .. Len(tables),
                     tables[k].of \in Receivers, UniqueName(tables[k].of)
              PROVE  /\ tables[k].dump \in 1 .. Len(Dumps)
                     /\ Dumps[tables[k].dump].owner = tables[k].of
    BY Zenon DEF RowsOfOwnDump
<1>1. PICK b \in Receivers : /\ did[b] = tables[k].dump /\ did[b] # 0
                             /\ content[b] = tables[k].of /\ content[b] # NoReceiver
    BY Zenon DEF RowsInv, Written
<1>2. NameOf[tables[k].of] = NameOf[b]
    BY Zenon, <1>1 DEF ContentInv, ContentNamed
<1>3. did[b] \in 1 .. Len(Dumps) /\ Dumps[did[b]].name = NameOf[b]
    BY Zenon, <1>1 DEF RowsInv, DidNamed
<1>4. Dumps[did[b]].owner \in Receivers
    BY Zenon, <1>3, DumpOwner
<1>5. /\ NameOf[Dumps[did[b]].owner] = NameOf[b]
      /\ pc[Dumps[did[b]].owner] # "none"
    BY <1>3 DEF RowsInv, DumpsNamed, BeforeInsert, BeforeStored
<1>. QED
    BY <1>1, <1>2, <1>3, <1>4, <1>5, Zenon DEF UniqueName

\* The rows of a report hang on the row of Dumps that was inserted for it, for
\* every receiver whose file name no other connection has sent, although
\* SelectExp_ID looks it up by name and without a transaction.
THEOREM RowsUnderOwnDump == Spec => []RowsOfOwnDump
<1>. DEFINE Inv == ServerTypeInv /\ ContentInv /\ RowsInv
<1>1. Inv /\ [Next]_vars => Inv'
    BY Zenon, TypeNext, ContentNext, RowsNext
<1>. QED
    BY TypeInit, ContentInit, RowsInit, OwnDumps, <1>1, PTL DEF Spec

-----------------------------------------------------------------------------
(* What a step does to the rows, the files and the phase of a report.      *)

\* Two receivers that looked up the same row of Dumps were sent the same name.
LEMMA OwnDid ==
    ASSUME RowsInv, NEW b \in Receivers, UniqueName(b), NEW c \in Receivers,
           did[c] # 0, did[c] \in 1 .. Len(Dumps), Dumps[did[c]].name = NameOf[b]
    PROVE  c = b
<1>1. Dumps[did[c]].name = NameOf[c] /\ pc[c] \notin BeforeSelect
    BY Zenon DEF RowsInv, DidNamed
<1>. QED
    BY Zenon, <1>1 DEF UniqueName, BeforeSelect, BeforeInsert, BeforeStored

\* Under the Dump_ID of a receiver whose name is not used twice, rows are added
\* by that receiver alone.
LEMMA RowsUnderStep ==
    ASSUME ServerTypeInv, RowsInv, Frames, NEW b \in Receivers, UniqueName(b),
           did[b] # 0, did'[b] = did[b]
    PROVE  /\ RowsUnder(did[b]) \in SUBSET (1 .. Len(tables)) /\ Len(tables) \in Nat
           /\ \A k \in RowsUnder(did[b]) : tables'[k] = tables[k]
           /\ \/ RowsUnder(did[b])' = RowsUnder(did[b]) /\ ~RowAdded(b)
              \/ /\ RowsUnder(did[b])' = RowsUnder(did[b]) \cup {Len(tables) + 1}
                 /\ RowAdded(b)
<1>1. TablesGrow
    BY Zenon, TablesStep
<1>2. did[b] \in 1 .. Len(Dumps) /\ Dumps[did[b]].name = NameOf[b]
    BY Zenon DEF RowsInv, DidNamed
<1>3. CASE UNCHANGED tables
    <2>1. Len(tables) \in Nat
        BY Zenon, <1>1 DEF TablesGrow
    <2>2. ~RowAdded(b)
        BY <1>3, <2>1 DEF RowAdded
    <2>3. RowsUnder(did[b])' = RowsUnder(did[b])
        BY Zenon, <1>3 DEF RowsUnder
    <2>4. RowsUnder(did[b]) \in SUBSET (1 .. Len(tables))
        BY DEF RowsUnder
    <2>. QED
        BY Zenon, <1>3, <2>1, <2>2, <2>3, <2>4
<1>4. ASSUME NEW c \in Receivers, RowAdded(c)
      PROVE  \/ RowsUnder(did[b])' = RowsUnder(did[b]) /\ ~RowAdded(b)
             \/ /\ RowsUnder(did[b])' = RowsUnder(did[b]) \cup {Len(tables) + 1}
                /\ RowAdded(b)
    <2>1. tables'[Len(tables) + 1].dump = did[c]
        <3>1. tables'[Len(tables) + 1] = Inserted(c)
            BY Zenon, <1>4 DEF RowAdded
        <3>2. Inserted(c).dump = did[c]
            BY Zenon DEF Inserted
        <3>. QED
            BY Zenon, <3>1, <3>2
    <2>2. /\ Len(tables) \in Nat /\ Len(tables') = Len(tables) + 1
          /\ \A k \in 1 .. Len(tables) : tables'[k] = tables[k]
        BY Zenon, <1>1, <1>4 DEF TablesGrow, RowAdded
    <2>3. CASE c = b
        BY <1>4, <2>1, <2>2, <2>3 DEF RowsUnder
    <2>4. CASE c # b
        <3>1. did[c] # did[b]
            BY Zenon, <1>2, <2>4, OwnDid
        <3>2. RowsUnder(did[b])' = RowsUnder(did[b])
            BY <2>1, <2>2, <3>1 DEF RowsUnder
        <3>3. ~RowAdded(b)
            <4>1. pc \in [Receivers -> Places]
                BY DEF ServerTypeInv, TypeOK, ProcessTypeOK
            <4>. QED
                BY Zenon, <1>4, <2>4, <4>1 DEF RowAdded
        <3>. QED
            BY Zenon, <3>2, <3>3
    <2>. QED
        BY <2>3, <2>4, Zenon
<1>. QED
    BY Zenon, <1>1, <1>3, <1>4 DEF TablesGrow, RowsUnder

\* What is left to do changes only when a row is added or a report is loaded.
LEMMA TodoStep ==
    ASSUME ServerTypeInv, Frames, NEW b \in Receivers, pc[b] # "load", ~RowAdded(b)
    PROVE  todo'[b] = todo[b] /\ ~(pc[b] = "save" /\ pc'[b] = "open")
<1>1. pc \in [Receivers -> Places] /\ todo \in [Receivers -> Seq(TableNames)]
    BY DEF ServerTypeInv, TypeOK, ProcessTypeOK, LoadTypeOK
<1>2. ASSUME NEW c \in Receivers, Load(c)
      PROVE  todo'[b] = todo[b] /\ ~(pc[b] = "save" /\ pc'[b] = "open")
    BY <1>1, <1>2, Zenon DEF Load, Step, Throws, loadVars
<1>3. ASSUME NEW c \in Receivers, InsertDatabase(c)
      PROVE  todo'[b] = todo[b] /\ ~(pc[b] = "save" /\ pc'[b] = "open")
    BY Zenon, <1>1, <1>3, InsertStep DEF RowAdded
<1>. QED
    BY <1>2, <1>3, Zenon DEF Frames, TodoFrame, Passes

LEMMA LoadStep ==
    ASSUME ServerTypeInv, Frames, NEW b \in Receivers, pc[b] = "load", pc'[b] = "open"
    PROVE  todo'[b] = TablesOf(b, streams'[b]) /\ streams'[b] \in SUBSET Optional(b)
<1>1. /\ pc \in [Receivers -> Places] /\ todo \in [Receivers -> Seq(TableNames)]
      /\ streams \in [Receivers -> SUBSET ({"InnerException"} \cup NativeStreams)]
    BY Zenon DEF ServerTypeInv, TypeOK, ProcessTypeOK, LoadTypeOK
<1>2. PICK c \in Receivers : Load(c)
    BY DEF Frames, LoadFrame, Passes
<1>3. PICK parts \in SUBSET Optional(c) :
          /\ b = c /\ streams' = [streams EXCEPT ![c] = parts]
          /\ todo' = [todo EXCEPT ![c] = TablesOf(c, parts)]
    BY <1>1, <1>2, Zenon DEF Load, Step, Throws
<1>. QED
    BY Zenon, <1>1, <1>3

LEMMA OpenStep ==
    ASSUME ServerTypeInv, Frames, NEW b \in Receivers, pc[b] = "open", pc'[b] = "save"
    PROVE  Head(todo[b]) # "InnerException"
<1>1. pc \in [Receivers -> Places]
    BY DEF ServerTypeInv, TypeOK, ProcessTypeOK
<1>2. PICK c \in Receivers : OpenForTable(c)
    BY Zenon DEF Frames, OpenFrame, Passes
<1>. QED
    BY <1>1, <1>2, Zenon DEF OpenForTable, Open, Step, Throws

LEMMA ExceptionIdStep ==
    ASSUME ServerTypeInv, Frames, NEW b \in Receivers
    PROVE  \/ /\ exception_id'[b] = exception_id[b]
              /\ ~(pc[b] = "exception_id" /\ pc'[b] = "reopen")
           \/ /\ pc[b] = "exception_id" /\ pc'[b] = "reopen"
              /\ UNCHANGED <<tables, todo, did>>
              /\ exception_id'[b] \in IF ExceptionRows(did[b]) = {} THEN {0}
                                       ELSE ExceptionRows(did[b])
<1>1. pc \in [Receivers -> Places] /\ exception_id \in [Receivers -> Nat]
    BY Zenon DEF ServerTypeInv, TypeOK, ProcessTypeOK, SqlTypeOK
<1>2. ASSUME NEW c \in Receivers, GetExcetpionID(c)
      PROVE  \/ UNCHANGED exception_id /\ pc' = [pc EXCEPT ![c] = "caught"]
             \/ /\ pc[c] = "exception_id" /\ pc' = [pc EXCEPT ![c] = "reopen"]
                /\ UNCHANGED <<tables, todo, did>>
                /\ \E k \in IF ExceptionRows(did[c]) = {} THEN {0}
                             ELSE ExceptionRows(did[c]) :
                      exception_id' = [exception_id EXCEPT ![c] = k]
    BY Zenon, <1>2 DEF GetExcetpionID, Step, Throws, loadVars, dbVars
<1>. QED
    BY <1>1, <1>2, Zenon DEF Frames, ExceptionIdFrame, Passes

\* Files change in CreateFile and when a body is complete, and nowhere else.
LEMMA FilesStep ==
    ASSUME ServerTypeInv, Frames
    PROVE  \/ UNCHANGED files
           \/ \E c \in Receivers :
                 /\ pc[c] = "create" /\ pc' = [pc EXCEPT ![c] = "body"]
                 /\ files' = [files EXCEPT ![NameOf[c]] = "torn"]
           \/ \E c \in Receivers :
                 /\ pc[c] = "body" /\ pc' = [pc EXCEPT ![c] = "connect"]
                 /\ files' = [files EXCEPT ![NameOf[c]] = c]
<1>1. ASSUME NEW c \in Receivers, CreateFile(c)
      PROVE  \/ UNCHANGED files
             \/ /\ pc[c] = "create" /\ pc' = [pc EXCEPT ![c] = "body"]
                /\ files' = [files EXCEPT ![NameOf[c]] = "torn"]
    BY Zenon, <1>1 DEF CreateFile, Step, Throws, fileVars
<1>2. ASSUME NEW c \in Receivers, ReceiveBody(c)
      PROVE  /\ pc[c] = "body" /\ pc' = [pc EXCEPT ![c] = "connect"]
             /\ files' = [files EXCEPT ![NameOf[c]] = c]
    BY <1>2 DEF ReceiveBody, Step
<1>3. ASSUME NEW c \in Receivers, Load(c) \/ Dispose(c) \/ CollectGarbage(c)
      PROVE  UNCHANGED files
    BY <1>3, Zenon DEF Load, Dispose, CollectGarbage, Throws, fileVars
<1>4. Terminate \/ UNCHANGED fileVars => UNCHANGED files
    BY DEF Terminate, fileVars
<1>. QED
    BY Zenon, <1>1, <1>2, <1>3, <1>4 DEF Frames, FileFrame

LEMMA PhaseStep ==
    ASSUME ServerTypeInv, NEW c \in Receivers, NEW to, pc' = [pc EXCEPT ![c] = to]
    PROVE  phase' = [phase EXCEPT ![c] = PhaseAt(to)] /\ phase[c] = PhaseAt(pc[c])
<1>1. pc \in [Receivers -> Places]
    BY DEF ServerTypeInv, TypeOK, ProcessTypeOK
<1>. QED
    BY <1>1, Zenon DEF phase

=============================================================================
