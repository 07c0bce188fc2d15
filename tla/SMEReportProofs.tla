-------------------------- MODULE SMEReportProofs ---------------------------
(***************************************************************************)
(* Proofs that a report SMEServer is done with is whole, and that the      *)
(* receivers together implement SMEReportStore.  They build on the         *)
(* invariants and the step lemmas of SMEServerProofs and on counting the   *)
(* rows of a report.                                                       *)
(***************************************************************************)
EXTENDS SMEServerProofs, FiniteSetTheorems, TLAPS

-----------------------------------------------------------------------------
(* The order of the rows.                                                  *)

\* A row that is added behind all others.
LEMMA PlaceFacts ==
    ASSUME NEW n \in Nat, NEW own \in SUBSET (1 .. n)
    PROVE  /\ IsFiniteSet(own) /\ Cardinality(own) \in Nat
           /\ \A k \in own : Place(own, k) \in 1 .. Cardinality(own)
           /\ Cardinality(own \cup {n + 1}) = Cardinality(own) + 1
           /\ \A k \in own : Place(own \cup {n + 1}, k) = Place(own, k)
           /\ Place(own \cup {n + 1}, n + 1) = Cardinality(own) + 1
<1>1. IsFiniteSet(own) /\ Cardinality(own) \in Nat
    BY FS_Interval, FS_Subset, FS_CardinalityType, 1 \in Int, n \in Int, Zenon
<1>2. ASSUME NEW k \in own PROVE Place(own, k) \in 1 .. Cardinality(own)
    <2>. DEFINE below == {j \in own : j <= k}
    <2>1. IsFiniteSet(below) /\ Cardinality(below) <= Cardinality(own)
        BY <1>1, FS_Subset
    <2>2. Cardinality(below) \in Nat
        BY <2>1, FS_CardinalityType
    <2>3. Cardinality(below) # 0
        <3>1. k \in below
            OBVIOUS
        <3>. QED
            BY <2>1, <3>1, FS_EmptySet
    <2>. QED
        BY <1>1, <2>1, <2>2, <2>3 DEF Place
<1>3. Cardinality(own \cup {n + 1}) = Cardinality(own) + 1
    BY <1>1, FS_AddElement, n + 1 \notin own
<1>4. ASSUME NEW k \in own PROVE Place(own \cup {n + 1}, k) = Place(own, k)
    <2>1. {j \in own \cup {n + 1} : j <= k} = {j \in own : j <= k}
        OBVIOUS
    <2>. QED
        BY <2>1 DEF Place
<1>5. Place(own \cup {n + 1}, n + 1) = Cardinality(own) + 1
    <2>0. \A j \in own \cup {n + 1} : j <= n + 1
        OBVIOUS
    <2>1. {j \in own \cup {n + 1} : j <= n + 1} = own \cup {n + 1}
        BY <2>0, Zenon
    <2>. QED
        BY <1>3, <2>1 DEF Place
<1>. QED
    BY <1>1, <1>2, <1>3, <1>4, <1>5

LEMMA PrefixSame ==
    ASSUME NEW own, NEW rows, NEW rows2, NEW left, NEW layout,
           IsPrefix(own, rows, left, layout), \A k \in own : rows2[k] = rows[k]
    PROVE  IsPrefix(own, rows2, left, layout)
BY Zenon DEF IsPrefix

LEMMA PrefixEmpty ==
    ASSUME NEW rows, NEW layout \in Seq(TableNames)
    PROVE  IsPrefix({}, rows, layout, layout)
<1>1. Cardinality({}) = 0
    BY FS_EmptySet
<1>. QED
    BY <1>1 DEF IsPrefix

\* InsertDatabase writes the table that comes next.
LEMMA PrefixGrows ==
    ASSUME NEW n \in Nat, NEW own \in SUBSET (1 .. n), NEW rows, NEW rows2,
           NEW left \in Seq(TableNames), left # <<>>, NEW layout \in Seq(TableNames),
           IsPrefix(own, rows, left, layout),
           \A k \in own : rows2[k] = rows[k], rows2[n + 1].table = Head(left)
    PROVE  IsPrefix(own \cup {n + 1}, rows2, Tail(left), layout)
<1>. DEFINE m == Cardinality(own)
            own2 == own \cup {n + 1}
<1>1. /\ m \in Nat /\ Cardinality(own2) = m + 1
      /\ \A k \in own : Place(own, k) \in 1 .. m /\ Place(own2, k) = Place(own, k)
      /\ Place(own2, n + 1) = m + 1
    BY PlaceFacts, Zenon
<1>2. /\ Len(left) \in Nat \ {0} /\ Head(left) = left[1] /\ Len(Tail(left)) = Len(left) - 1
      /\ \A i \in 1 .. Len(left) - 1 : Tail(left)[i] = left[i + 1]
    OBVIOUS
<1>3. /\ m + Len(left) = Len(layout)
      /\ \A i \in 1 .. Len(left) : left[i] = layout[m + i]
      /\ \A k \in own : rows[k].table = layout[Place(own, k)]
      /\ \A i \in 1 .. m : \E k \in own : Place(own, k) = i
    BY Zenon DEF IsPrefix
<1>. HIDE DEF m, own2
<1>4. Cardinality(own2) + Len(Tail(left)) = Len(layout)
    BY <1>1, <1>2, <1>3
<1>5. ASSUME NEW i \in 1 .. Len(Tail(left))
      PROVE  Tail(left)[i] = layout[Cardinality(own2) + i]
    <2>1. i + 1 \in 1 .. Len(left) /\ Tail(left)[i] = left[i + 1]
        BY <1>2
    <2>2. left[i + 1] = layout[m + (i + 1)]
        BY <1>3, <2>1
    <2>3. m + (i + 1) = (m + 1) + i
        BY <1>1
    <2>. QED
        BY <1>1, <2>1, <2>2, <2>3
<1>6. ASSUME NEW k \in own2 PROVE rows2[k].table = layout[Place(own2, k)]
    <2>1. CASE k \in own
        BY <1>1, <1>3, <2>1, Zenon
    <2>2. CASE k = n + 1
        <3>1. left[1] = layout[m + 1]
            BY <1>2, <1>3
        <3>. QED
            BY <1>1, <1>2, <2>2, <3>1
    <2>. QED
        BY <2>1, <2>2 DEF own2
<1>7. ASSUME NEW i \in 1 .. Cardinality(own2) PROVE \E k \in own2 : Place(own2, k) = i
    <2>1. CASE i = m + 1
        BY <1>1, <2>1 DEF own2
    <2>2. CASE i \in 1 .. m
        BY <1>1, <1>3, <2>2, Zenon DEF own2
    <2>. QED
        BY <1>1, <2>1, <2>2
<1>. QED
    BY <1>4, <1>5, <1>6, <1>7, Zenon DEF IsPrefix, own2

-----------------------------------------------------------------------------
(* Whole reports.                                                          *)

\* Only an outer exception can be under the Dump_ID when the inner one is next.
LEMMA ExceptionRowsRight ==
    ASSUME ServerTypeInv, NEW b \in Receivers, Prefix(b), todo[b] # <<>>,
           Head(todo[b]) = "InnerException"
    PROVE  /\ ExceptionRows(did[b]) # {}
           /\ \A k \in ExceptionRows(did[b]) :
                 k \in RowsUnder(did[b]) /\ tables[k].table = "ExceptionInfo"
<1>. DEFINE own == RowsUnder(did[b])
            m == Cardinality(own)
            layout == TablesOf(b, streams[b])
<1>1. todo[b] \in Seq(TableNames) /\ tables \in Seq(Row)
    BY DEF ServerTypeInv, TypeOK, LoadTypeOK
<1>2. Len(tables) \in Nat /\ own \in SUBSET (1 .. Len(tables))
    BY <1>1 DEF RowsUnder
<1>3. m \in Nat /\ \A k \in own : Place(own, k) \in 1 .. m
    BY <1>2, PlaceFacts, Zenon
<1>4. /\ m + Len(todo[b]) = Len(layout) /\ layout[m + 1] = "InnerException"
      /\ Len(todo[b]) \in Nat \ {0}
    BY <1>1 DEF Prefix, IsPrefix
<1>5. /\ \A k \in own : tables[k].table = layout[Place(own, k)]
      /\ \A i \in 1 .. m : \E k \in own : Place(own, k) = i
    BY Zenon DEF Prefix, IsPrefix
<1>. HIDE DEF own, m, layout
<1>6. m = 3 /\ layout[1] = "ProjectInfo" /\ layout[2] = "SystemInfo" /\ layout[3] = "ExceptionInfo"
    <2>1. CASE layout = CSTables
        BY <1>3, <1>4, <2>1 DEF CSTables
    <2>2. CASE layout = NativeTables
        BY <1>3, <1>4, <2>2 DEF NativeTables
    <2>3. CASE layout = <<"ProjectInfo", "SystemInfo", "ExceptionInfo", "CallStackInfo">>
        BY <1>3, <1>4, <2>3
    <2>. QED
        BY <2>1, <2>2, <2>3, Zenon DEF layout, TablesOf
<1>7. \A k \in own : tables[k].table \in {"ProjectInfo", "SystemInfo", "ExceptionInfo"}
    BY <1>3, <1>5, <1>6
<1>8. \E k \in own : tables[k].table = "ExceptionInfo"
    BY <1>5, <1>6
<1>. QED
    BY <1>7, <1>8, Zenon DEF own, RowsUnder, ExceptionRows

LEMMA ReportInit == Init => ReportInv
BY DEF Init, ReportInv, Saving

LEMMA ReportNext == ServerTypeInv /\ RowsInv /\ ReportInv /\ [Next]_vars => ReportInv'
<1>. SUFFICES ASSUME ServerTypeInv, RowsInv, ReportInv, [Next]_vars,
                     NEW b \in Receivers, UniqueName(b)'
              PROVE  /\ pc'[b] = "load" => RowsUnder(did[b])' = {}
                     /\ pc'[b] \in Saving => Prefix(b)' /\ InnerRefers(b)'
                     /\ pc'[b] \in {"reopen", "save"} /\ Head(todo'[b]) = "InnerException" =>
                           ExceptionIdRight(b)'
    BY Zenon DEF ReportInv
<1>1. Frames
    BY StepFrames DEF ServerTypeInv
<1>2. UniqueName(b)
    BY <1>1, UniqueBefore DEF Frames
<1>3. CASE did'[b] # did[b] \/ (pc[b] = "select" /\ pc'[b] = "load")
    <2>1. /\ pc[b] = "select" /\ pc'[b] = "load" /\ UNCHANGED <<Dumps, tables>>
          /\ did'[b] \in 1 .. Len(Dumps) /\ Dumps[did'[b]].name = NameOf[b]
        BY Zenon, <1>1, <1>3, DidStep
    <2>2. ASSUME NEW k \in 1 .. Len(tables), tables[k].dump = did'[b] PROVE FALSE
        <3>1. PICK a \in Receivers : did[a] = tables[k].dump /\ did[a] # 0
            BY Zenon DEF RowsInv, Written
        <3>2. a = b
            BY <1>2, <2>1, <2>2, <3>1, OwnDid
        <3>. QED
            BY Zenon, <2>1, <3>1, <3>2 DEF RowsInv, DidNamed, BeforeSelect, BeforeInsert
    <2>3. RowsUnder(did[b])' = {}
        BY <2>1, <2>2 DEF RowsUnder
    <2>. QED
        BY <2>1, <2>3, Zenon DEF Saving
<1>4. CASE did'[b] = did[b] /\ ~(pc[b] = "select" /\ pc'[b] = "load")
           /\ pc'[b] \in Saving \cup {"load"}
    <2>. DEFINE own == RowsUnder(did[b])
                layout == TablesOf(b, streams[b])
    <2>1. pc[b] \in Saving \cup {"load"}
        BY <1>1, <1>4
        DEF Frames, PcFrame, Moves, Flow, Saving, ServerTypeInv, TypeOK, ProcessTypeOK
    <2>2. did[b] # 0
        BY Zenon, <2>1 DEF RowsInv, DidNamed
    <2>3. /\ own \in SUBSET (1 .. Len(tables)) /\ Len(tables) \in Nat
          /\ \A k \in own : tables'[k] = tables[k]
          /\ \/ own' = own /\ ~RowAdded(b)
             \/ own' = own \cup {Len(tables) + 1} /\ RowAdded(b)
        BY <1>1, <1>2, <1>4, <2>2, RowsUnderStep
    <2>4. CASE pc[b] = "load"
        <3>1. own = {}
            BY <1>2, <2>4 DEF ReportInv
        <3>2. own' = {}
            BY <2>3, <2>4, <3>1, Zenon DEF RowAdded
        <3>3. pc'[b] \in {"load", "open"}
            BY <1>1, <1>4, <2>4
            DEF Frames, PcFrame, Moves, Flow, Saving, ServerTypeInv, TypeOK, ProcessTypeOK
        <3>4. CASE pc'[b] = "open"
            <4>1. todo'[b] = TablesOf(b, streams'[b])
                BY <1>1, <2>4, <3>4, LoadStep
            <4>2. TablesOf(b, streams'[b]) \in Seq(TableNames)
                BY TablesOfType
            <4>3. Prefix(b)'
                BY <3>2, <4>1, <4>2, PrefixEmpty, Zenon DEF Prefix
            <4>4. InnerRefers(b)'
                BY <3>2 DEF InnerRefers
            <4>. QED
                BY Zenon, <3>4, <4>3, <4>4 DEF Saving
        <3>. QED
            BY <3>2, <3>3, <3>4, Zenon DEF Saving
    <2>5. CASE pc[b] \in Saving /\ RowAdded(b)
        <3>1. Prefix(b) /\ InnerRefers(b)
            BY <1>2, <2>5, Zenon DEF ReportInv
        <3>2. /\ pc \in [Receivers -> Places] /\ todo \in [Receivers -> Seq(TableNames)]
              /\ todo[b] # <<>>
            BY Zenon, <2>5 DEF RowAdded, ServerTypeInv, TypeOK, ProcessTypeOK, LoadTypeOK, TodoOK
        <3>3. /\ pc[b] = "save" /\ pc'[b] = "open" /\ todo'[b] = Tail(todo[b])
              /\ streams' = streams /\ tables'[Len(tables) + 1] = Inserted(b)
            BY <2>5, <3>2 DEF RowAdded
        <3>4. own' = own \cup {Len(tables) + 1}
            BY <2>3, <2>5, Zenon
        <3>5. tables'[Len(tables) + 1].table = Head(todo[b])
            BY <3>3 DEF Inserted
        <3>6. Prefix(b)'
            <4>1. layout \in Seq(TableNames) /\ todo[b] \in Seq(TableNames)
                BY <3>2, TablesOfType
            <4>2. IsPrefix(own, tables, todo[b], layout)
                BY <3>1, Zenon DEF Prefix
            <4>. HIDE DEF own, layout
            <4>3. IsPrefix(own \cup {Len(tables) + 1}, tables', Tail(todo[b]), layout)
                BY <2>3, <3>2, <3>5, <4>1, <4>2, PrefixGrows
            <4>. QED
                BY <1>4, <3>3, <3>4, <4>3, Zenon DEF Prefix, own, layout
        <3>7. InnerRefers(b)'
            <4>. SUFFICES ASSUME NEW k \in own', tables'[k].table = "InnerException"
                          PROVE  /\ tables'[k].InnerExp \in own'
                                 /\ tables'[tables'[k].InnerExp].table = "ExceptionInfo"
                BY <1>4 DEF InnerRefers
            <4>1. CASE k \in own
                <5>1. tables[k].InnerExp \in own /\ tables[tables[k].InnerExp].table = "ExceptionInfo"
                    BY <2>3, <3>1, <4>1 DEF InnerRefers
                <5>. QED
                    BY <2>3, <3>4, <4>1, <5>1, Zenon
            <4>2. CASE k = Len(tables) + 1
                <5>1. Head(todo[b]) = "InnerException"
                    BY <3>5, <4>2
                <5>2. ExceptionIdRight(b)
                    BY <1>2, <3>3, <5>1, Zenon DEF ReportInv
                <5>3. tables'[k].InnerExp = exception_id[b]
                    BY <3>3, <4>2, <5>1 DEF Inserted
                <5>. QED
                    BY <2>3, <3>4, <5>2, <5>3, Zenon DEF ExceptionIdRight
            <4>. QED
                BY <3>4, <4>1, <4>2, Zenon
        <3>. QED
            BY <3>3, <3>6, <3>7, Zenon
    <2>6. CASE pc[b] \in Saving /\ ~RowAdded(b)
        <3>1. Prefix(b) /\ InnerRefers(b)
            BY <1>2, <2>6 DEF ReportInv
        <3>2. own' = own
            BY <2>3, <2>6, Zenon
        <3>3. pc[b] # "load"
            BY <2>6 DEF Saving
        <3>4. todo'[b] = todo[b] /\ streams'[b] = streams[b]
            BY <1>1, <2>6, <3>3, TodoStep, ContentStep, Zenon
        <3>5. Prefix(b)'
            <4>1. IsPrefix(own, tables, todo[b], layout)
                BY <3>1, Zenon DEF Prefix
            <4>. HIDE DEF own, layout
            <4>2. IsPrefix(own, tables', todo[b], layout)
                BY <2>3, <4>1, PrefixSame, Zenon
            <4>. QED
                BY <1>4, <3>2, <3>4, <4>2, Zenon DEF Prefix, own, layout
        <3>6. InnerRefers(b)'
            BY <1>4, <2>3, <3>1, <3>2 DEF InnerRefers
        <3>7. ASSUME pc'[b] \in {"reopen", "save"}, Head(todo'[b]) = "InnerException"
              PROVE  ExceptionIdRight(b)'
            <4>1. ASSUME exception_id'[b] \in own,
                         tables[exception_id'[b]].table = "ExceptionInfo"
                  PROVE  ExceptionIdRight(b)'
                BY <1>4, <2>3, <3>2, <4>1, Zenon DEF ExceptionIdRight
            <4>2. CASE pc[b] = "exception_id" /\ pc'[b] = "reopen"
                <5>1. exception_id'[b] \in IF ExceptionRows(did[b]) = {} THEN {0}
                                           ELSE ExceptionRows(did[b])
                    BY <1>1, <4>2, ExceptionIdStep, Zenon
                <5>2. todo[b] # <<>> /\ Head(todo[b]) = "InnerException"
                    BY Zenon, <4>2 DEF ServerTypeInv, TodoOK
                <5>. QED
                    BY <3>1, <4>1, <5>1, <5>2, ExceptionRowsRight
            <4>3. CASE pc[b] \in {"reopen", "save"}
                <5>1. exception_id'[b] = exception_id[b]
                    BY <1>1, <4>3, ExceptionIdStep
                <5>2. ExceptionIdRight(b)
                    BY <1>2, <3>4, <3>7, <4>3, Zenon DEF ReportInv
                <5>. QED
                    BY Zenon, <4>1, <5>1, <5>2 DEF ExceptionIdRight
            <4>4. ~(pc[b] = "open" /\ pc'[b] = "save")
                BY <1>1, <3>4, <3>7, OpenStep, Zenon
            <4>5. \/ pc[b] \in {"reopen", "save"}
                  \/ pc[b] = "exception_id" /\ pc'[b] = "reopen"
                BY Zenon, <1>1, <2>6, <3>7, <4>4
                DEF Frames, PcFrame, Moves, Flow, Saving, ServerTypeInv, TypeOK, ProcessTypeOK
            <4>. QED
                BY <4>2, <4>3, <4>5
        <3>8. pc'[b] # "load"
            BY <1>1, <2>6
            DEF Frames, PcFrame, Moves, Flow, Saving, ServerTypeInv, TypeOK, ProcessTypeOK
        <3>. QED
            BY Zenon, <3>5, <3>6, <3>7, <3>8
    <2>. QED
        BY <2>1, <2>3, <2>4, <2>5, <2>6, Zenon
<1>5. CASE pc'[b] \notin Saving \cup {"load"}
    BY <1>5 DEF Saving
<1>. QED
    BY <1>3, <1>4, <1>5, Zenon

\* A receiver that gets to the end of Receive has written every table of its
\* report once and in order, and an inner exception refers to the outer one of
\* the same report, whatever the other receivers, the pool of connections and
\* the end of the process do in between, if its name is not used twice.
THEOREM ReportsComplete == Spec => []CompleteReport
<1>. DEFINE Inv == ServerTypeInv /\ RowsInv /\ ReportInv
<1>1. Inv /\ [Next]_vars => Inv'
    BY TypeNext, RowsNext, ReportNext
<1>2. Inv => CompleteReport
    <2>. SUFFICES ASSUME Inv, NEW c \in Receivers, pc[c] = "complete", UniqueName(c)
                  PROVE  LET own == RowsUnder(did[c])
                             layout == TablesOf(c, streams[c])
                         IN  /\ Cardinality(own) = Len(layout)
                             /\ \A k \in own :
                                   /\ tables[k].table = layout[Place(own, k)]
                                   /\ tables[k].table = "InnerException" =>
                                         /\ tables[tables[k].InnerExp].table = "ExceptionInfo"
                                         /\ tables[tables[k].InnerExp].dump = did[c]
        BY Zenon DEF CompleteReport
    <2>1. Prefix(c) /\ InnerRefers(c)
        BY Zenon DEF ReportInv, Saving
    <2>2. todo[c] = <<>>
        BY Zenon DEF ServerTypeInv, TodoOK
    <2>3. Cardinality(RowsUnder(did[c])) \in Nat
        <3>1. tables \in Seq(Row)
            BY DEF ServerTypeInv, TypeOK
        <3>2. Len(tables) \in Nat /\ RowsUnder(did[c]) \in SUBSET (1 .. Len(tables))
            BY <3>1 DEF RowsUnder
        <3>. QED
            BY <3>2, PlaceFacts, Zenon
    <2>4. Cardinality(RowsUnder(did[c])) = Len(TablesOf(c, streams[c]))
        BY <2>1, <2>2, <2>3 DEF Prefix, IsPrefix
    <2>5. ASSUME NEW k \in RowsUnder(did[c]), tables[k].table = "InnerException"
          PROVE  /\ tables[tables[k].InnerExp].table = "ExceptionInfo"
                 /\ tables[tables[k].InnerExp].dump = did[c]
        BY <2>1, <2>5, Zenon DEF InnerRefers, RowsUnder
    <2>. QED
        BY <2>1, <2>4, <2>5, Zenon DEF Prefix, IsPrefix
<1>. QED
    BY TypeInit, RowsInit, ReportInit, <1>1, <1>2, PTL DEF Spec

-----------------------------------------------------------------------------
(* The server implements SMEReportStore.                                   *)

\* No two reports are sent under one name, as the time stamps in the names the
\* clients give make it unless two are made in the same second.
DistinctNames == \A b, c \in Receivers : NameOf[b] = NameOf[c] => b = c

\* Every place among the rows of a report is taken.
Onto(own) == \A i \in 1 .. Cardinality(own) : \E k \in own : Place(own, k) = i

\* So it is with the rows of every report, and what is taken for the parts of a
\* report are parts it can have.
StoreInv ==
    \A c \in Receivers : Onto(OwnRows(c)) /\ streams[c] \in SUBSET Optional(c)

\* The invariants of the sections above together.
ServerInv == ServerTypeInv /\ ContentInv /\ RowsInv /\ ReportInv

LEMMA ServerNext == ServerInv /\ [Next]_vars => ServerInv'
BY TypeNext, ContentNext, RowsNext, ReportNext DEF ServerInv

LEMMA AllUnique == DistinctNames => \A c \in Receivers : UniqueName(c)
BY DEF DistinctNames, UniqueName

\* The rows of a report are the rows under its Dump_ID.
LEMMA OwnRowsUnder ==
    ASSUME DistinctNames, ServerInv, NEW c \in Receivers
    PROVE  /\ Len(tables) \in Nat /\ OwnRows(c) \in SUBSET (1 .. Len(tables))
           /\ did[c] = 0 => OwnRows(c) = {}
           /\ did[c] # 0 => OwnRows(c) = RowsUnder(did[c])
           /\ \A k \in OwnRows(c) : /\ tables[k].dump \in 1 .. Len(Dumps)
                                    /\ Dumps[tables[k].dump].owner = c
<1>1. tables \in Seq(Row)
    BY DEF ServerInv, ServerTypeInv, TypeOK
<1>2. Len(tables) \in Nat /\ OwnRows(c) \in SUBSET (1 .. Len(tables))
    BY <1>1 DEF OwnRows
<1>3. \A b \in Receivers : UniqueName(b) /\ content[b] \in {b, NoReceiver}
    BY Zenon, AllUnique DEF ServerInv, ContentInv, OwnReportLoaded
<1>4. ASSUME NEW k \in OwnRows(c)
      PROVE  /\ did[c] # 0 /\ tables[k].dump = did[c]
             /\ tables[k].dump \in 1 .. Len(Dumps) /\ Dumps[tables[k].dump].owner = c
    <2>1. k \in 1 .. Len(tables) /\ tables[k].of = c
        BY Zenon DEF OwnRows
    <2>2. PICK b \in Receivers : /\ did[b] = tables[k].dump /\ did[b] # 0
                                 /\ content[b] = tables[k].of /\ content[b] # NoReceiver
        BY Zenon, <2>1 DEF ServerInv, RowsInv, Written
    <2>3. b = c
        BY <1>3, <2>1, <2>2
    <2>4. RowsOfOwnDump
        BY Zenon, OwnDumps DEF ServerInv
    <2>. QED
        BY Zenon, <1>3, <2>1, <2>2, <2>3, <2>4 DEF RowsOfOwnDump
<1>5. ASSUME did[c] # 0, NEW k \in 1 .. Len(tables), tables[k].dump = did[c]
      PROVE  tables[k].of = c
    <2>1. PICK b \in Receivers : /\ did[b] = tables[k].dump /\ did[b] # 0
                                 /\ content[b] = tables[k].of /\ content[b] # NoReceiver
        BY Zenon DEF ServerInv, RowsInv, Written
    <2>2. did[b] \in 1 .. Len(Dumps) /\ Dumps[did[b]].name = NameOf[c]
        BY Zenon, <1>5, <2>1 DEF ServerInv, RowsInv, DidNamed
    <2>3. b = c
        BY Zenon, <1>3, <2>1, <2>2, OwnDid DEF ServerInv
    <2>. QED
        BY Zenon, <1>3, <2>1, <2>3
<1>. QED
    BY <1>2, <1>4, <1>5, Zenon DEF OwnRows, RowsUnder

\* Under a name of its own, only the receiver of a report adds to its rows.
LEMMA OwnRowsStep ==
    ASSUME DistinctNames, ServerInv, Frames, NEW c \in Receivers
    PROVE  /\ \A k \in OwnRows(c) : tables'[k] = tables[k]
           /\ ~RowAdded(c) => OwnRows(c)' = OwnRows(c)
           /\ RowAdded(c) => OwnRows(c)' = OwnRows(c) \cup {Len(tables) + 1}
<1>1. TablesGrow
    BY TablesStep DEF ServerInv
<1>2. \A k \in OwnRows(c) : tables'[k] = tables[k]
    BY Zenon, <1>1 DEF TablesGrow, OwnRows
<1>3. ASSUME UNCHANGED tables PROVE OwnRows(c)' = OwnRows(c) /\ ~RowAdded(c)
    BY <1>1, <1>3 DEF OwnRows, RowAdded, TablesGrow
<1>4. ASSUME NEW b \in Receivers, RowAdded(b)
      PROVE  /\ b = c => OwnRows(c)' = OwnRows(c) \cup {Len(tables) + 1}
             /\ b # c => OwnRows(c)' = OwnRows(c) /\ ~RowAdded(c)
    <2>1. content[b] = b
        <3>1. content[b] # NoReceiver
            BY Zenon, <1>4 DEF RowAdded, ServerInv, ServerTypeInv, LoadedOK, Saving
        <3>. QED
            BY Zenon, <3>1, AllUnique DEF ServerInv, ContentInv, OwnReportLoaded
    <2>2. /\ Len(tables') = Len(tables) + 1 /\ tables'[Len(tables) + 1].of = b
          /\ Len(tables) \in Nat /\ \A k \in 1 .. Len(tables) : tables'[k] = tables[k]
        BY <1>1, <1>4, <2>1 DEF RowAdded, Inserted, TablesGrow
    <2>3. ASSUME b # c PROVE ~RowAdded(c)
        BY Zenon, <1>4, <2>3 DEF RowAdded, ServerInv, ServerTypeInv, TypeOK, ProcessTypeOK
    <2>. QED
        BY <2>2, <2>3 DEF OwnRows
<1>. QED
    BY <1>1, <1>2, <1>3, <1>4 DEF TablesGrow

LEMMA StoreInit == Init => StoreInv
<1>. SUFFICES ASSUME Init, NEW c \in Receivers
              PROVE  Onto(OwnRows(c)) /\ streams[c] \in SUBSET Optional(c)
    BY Zenon DEF StoreInv
<1>1. OwnRows(c) = {} /\ streams[c] = {}
    BY DEF Init, OwnRows
<1>2. Cardinality({}) = 0
    BY Zenon, FS_EmptySet
<1>. QED
    BY <1>1, <1>2 DEF Onto

LEMMA StoreNext ==
    ASSUME DistinctNames, ServerInv, StoreInv, [Next]_vars
    PROVE  StoreInv'
<1>. SUFFICES ASSUME NEW c \in Receivers
              PROVE  Onto(OwnRows(c))' /\ streams'[c] \in SUBSET Optional(c)
    BY Zenon DEF StoreInv, Optional
<1>1. Frames
    BY Zenon, StepFrames DEF ServerInv, ServerTypeInv
<1>2. streams'[c] \in SUBSET Optional(c)
    <2>1. CASE pc[c] = "load" /\ pc'[c] = "open"
        BY Zenon, <1>1, <2>1, LoadStep DEF ServerInv
    <2>2. CASE ~(pc[c] = "load" /\ pc'[c] = "open")
        <3>1. streams'[c] = streams[c]
            <4>1. /\ pc \in [Receivers -> Places]
                  /\ streams \in [Receivers -> SUBSET ({"InnerException"} \cup NativeStreams)]
                BY DEF ServerInv, ServerTypeInv, TypeOK, ProcessTypeOK, LoadTypeOK
            <4>2. ASSUME NEW b \in Receivers, Load(b) PROVE streams'[c] = streams[c]
                BY <2>2, <4>1, <4>2, Zenon DEF Load, Step, Throws, loadVars
            <4>. QED
                BY Zenon, <1>1, <4>2 DEF Frames, LoadFrame
        <3>. QED
            BY Zenon, <3>1 DEF StoreInv
    <2>. QED
        BY Zenon, <2>1, <2>2
<1>3. Onto(OwnRows(c))'
    <2>. DEFINE own == OwnRows(c)
                n == Len(tables)
    <2>1. n \in Nat /\ own \in SUBSET (1 .. n) /\ Onto(own)
        BY OwnRowsUnder, Zenon DEF StoreInv
    <2>2. own' = own \/ own' = own \cup {n + 1}
        BY Zenon, <1>1, OwnRowsStep
    <2>. HIDE DEF own, n
    <2>3. Onto(own \cup {n + 1})
        <3>1. /\ Cardinality(own) \in Nat
              /\ Cardinality(own \cup {n + 1}) = Cardinality(own) + 1
              /\ \A k \in own : Place(own \cup {n + 1}, k) = Place(own, k)
              /\ Place(own \cup {n + 1}, n + 1) = Cardinality(own) + 1
            BY <2>1, PlaceFacts
        <3>. SUFFICES ASSUME NEW i \in 1 .. Cardinality(own) + 1
                      PROVE  \E k \in own \cup {n + 1} : Place(own \cup {n + 1}, k) = i
            BY <3>1, Zenon DEF Onto
        <3>2. CASE i = Cardinality(own) + 1
            BY Zenon, <3>1, <3>2
        <3>3. CASE i \in 1 .. Cardinality(own)
            BY Zenon, <2>1, <3>1, <3>3 DEF Onto
        <3>4. i = Cardinality(own) + 1 \/ i \in 1 .. Cardinality(own)
            BY <3>1
        <3>. QED
            BY Zenon, <3>2, <3>3, <3>4
    <2>4. Onto(own')
        BY <2>1, <2>2, <2>3
    <2>. QED
        BY <2>4 DEF own, Onto, Place
<1>. QED
    BY Zenon, <1>2, <1>3

-----------------------------------------------------------------------------

\* The first m tables of a report, filed under it.
Filed(c, layout, m) == [i \in 1 .. m |-> [table |-> layout[i], under |-> c]]

\* The row of a report at a place.
NthRow(c, i) == tables[Nth(OwnRows(c), i)]

\* All rows of a report are filed under the report itself.
RowsFiled ==
    \A c \in Receivers :
        RowsOf(c) = [i \in 1 .. Cardinality(OwnRows(c)) |->
                        [table |-> NthRow(c, i).table, under |-> c]]

\* While they are written they are its first tables, and what is to do comes next.
RowsInOrder ==
    \A c \in Receivers :
        pc[c] \in Saving =>
            LET own == OwnRows(c)
                layout == TablesOf(c, streams[c])
            IN  /\ Cardinality(own) + Len(todo[c]) = Len(layout)
                /\ todo[c] # <<>> => Head(todo[c]) = layout[Cardinality(own) + 1]
                /\ RowsOf(c) = Filed(c, layout, Cardinality(own))

LEMMA RowsAreFiled ==
    ASSUME DistinctNames
    PROVE  ServerInv /\ StoreInv => RowsFiled /\ RowsInOrder
<1>. SUFFICES ASSUME ServerInv, StoreInv PROVE RowsFiled /\ RowsInOrder
    OBVIOUS
<1>1. ASSUME NEW c \in Receivers, NEW i \in 1 .. Cardinality(OwnRows(c))
      PROVE  \E k \in OwnRows(c) : Place(OwnRows(c), k) = i /\ NthRow(c, i) = tables[k]
    <2>1. \E k \in OwnRows(c) : Place(OwnRows(c), k) = i
        BY DEF StoreInv, Onto
    <2>. QED
        BY <2>1, Zenon DEF NthRow, Nth
<1>2. RowsFiled
    <2>. SUFFICES ASSUME NEW c \in Receivers
                  PROVE  RowsOf(c) = [i \in 1 .. Cardinality(OwnRows(c)) |->
                                         [table |-> NthRow(c, i).table, under |-> c]]
        BY Zenon DEF RowsFiled
    <2>1. ASSUME NEW i \in 1 .. Cardinality(OwnRows(c))
          PROVE  Dumps[NthRow(c, i).dump].owner = c
        BY <1>1, OwnRowsUnder
    <2>. QED
        BY <2>1, Zenon DEF RowsOf, NthRow
<1>3. RowsInOrder
    <2>. SUFFICES ASSUME NEW c \in Receivers, pc[c] \in Saving
                  PROVE  LET own == OwnRows(c)
                             layout == TablesOf(c, streams[c])
                         IN  /\ Cardinality(own) + Len(todo[c]) = Len(layout)
                             /\ todo[c] # <<>> => Head(todo[c]) = layout[Cardinality(own) + 1]
                             /\ RowsOf(c) = Filed(c, layout, Cardinality(own))
        BY Zenon DEF RowsInOrder
    <2>. DEFINE own == OwnRows(c)
                layout == TablesOf(c, streams[c])
    <2>1. IsPrefix(own, tables, todo[c], layout)
        <3>1. did[c] # 0
            BY Zenon DEF ServerInv, RowsInv, DidNamed
        <3>2. own = RowsUnder(did[c])
            BY <3>1, OwnRowsUnder, Zenon
        <3>. QED
            BY <3>2, AllUnique, Zenon DEF ServerInv, ReportInv, Prefix
    <2>2. todo[c] \in Seq(TableNames)
        BY Zenon DEF ServerInv, ServerTypeInv, TypeOK, LoadTypeOK
    <2>3. todo[c] # <<>> => Len(todo[c]) >= 1 /\ Head(todo[c]) = todo[c][1]
        BY <2>2
    <2>4. Len(todo[c]) \in Nat
        BY <2>2
    <2>5. \A i \in 1 .. Cardinality(own) : NthRow(c, i).table = layout[i]
        BY <1>1, <2>1 DEF IsPrefix
    <2>6. RowsOf(c) = Filed(c, layout, Cardinality(own))
        BY <1>2, <2>5, Zenon DEF RowsFiled, Filed
    <2>7. todo[c] # <<>> => Head(todo[c]) = layout[Cardinality(own) + 1]
        BY <2>1, <2>3, <2>4 DEF IsPrefix
    <2>. QED
        BY <2>1, <2>6, <2>7, Zenon DEF IsPrefix
<1>. QED
    BY <1>2, <1>3

LEMMA SameElements ==
    ASSUME NEW S, NEW s \in Seq(S), NEW t \in Seq(S), Len(s) = Len(t),
           \A i \in 1 .. Len(s) : s[i] = t[i]
    PROVE  s = t
OBVIOUS

LEMMA FunctionIsSeq ==
    ASSUME NEW S, NEW m \in Nat, NEW s \in [1 .. m -> S]
    PROVE  s \in Seq(S) /\ Len(s) = m
OBVIOUS

LEMMA FiledGrows ==
    ASSUME NEW c, NEW layout \in Seq(TableNames), NEW m \in Nat, m + 1 <= Len(layout)
    PROVE  /\ Len(Filed(c, layout, m)) = m
           /\ \A i \in 1 .. m : Filed(c, layout, m)[i].table = layout[i]
           /\ Filed(c, layout, m + 1) = Append(Filed(c, layout, m),
                                               [table |-> layout[m + 1], under |-> c])
<1>. DEFINE T == [table : TableNames, under : {c}]
            s == Filed(c, layout, m)
            e == [table |-> layout[m + 1], under |-> c]
            s2 == Filed(c, layout, m + 1)
<1>1. s \in [1 .. m -> T] /\ s2 \in [1 .. m + 1 -> T] /\ e \in T
    BY DEF Filed
<1>2. /\ \A i \in 1 .. m : s[i].table = layout[i] /\ s2[i] = s[i]
      /\ s2[m + 1] = e
    BY DEF Filed
<1>. HIDE DEF s, s2, T, e
<1>3. s \in Seq(T) /\ Len(s) = m /\ s2 \in Seq(T) /\ Len(s2) = m + 1
    BY <1>1, FunctionIsSeq
<1>4. /\ Append(s, e) \in Seq(T) /\ Len(Append(s, e)) = m + 1
      /\ \A i \in 1 .. m : Append(s, e)[i] = s[i]
      /\ Append(s, e)[m + 1] = e
    BY <1>1, <1>3, AppendFacts
<1>5. \A i \in 1 .. m + 1 : Append(s, e)[i] = s2[i]
    BY <1>2, <1>4
<1>6. s2 = Append(s, e)
    BY <1>3, <1>4, <1>5, SameElements
<1>. QED
    BY <1>2, <1>3, <1>6, Zenon DEF s, s2, e

\* Everything a step is looked at with.
Full == ServerInv /\ StoreInv /\ RowsFiled /\ RowsInOrder

\* A step that adds no row to a report leaves what SMEReportStore sees of it.
LEMMA RowsSame ==
    ASSUME DistinctNames, Full, Full', Frames, NEW c \in Receivers, ~RowAdded(c)
    PROVE  RowsOf(c)' = RowsOf(c)
<1>1. OwnRows(c)' = OwnRows(c) /\ \A k \in OwnRows(c) : tables'[k] = tables[k]
    BY OwnRowsStep, Zenon DEF Full
<1>2. ASSUME NEW i \in 1 .. Cardinality(OwnRows(c))
      PROVE  NthRow(c, i)' = NthRow(c, i)
    <2>1. Nth(OwnRows(c), i) \in OwnRows(c)
        BY Zenon DEF Full, StoreInv, Onto, Nth
    <2>. QED
        BY <1>1, <2>1 DEF NthRow
<1>3. RowsOf(c)' = [i \in 1 .. Cardinality(OwnRows(c)') |->
                        [table |-> NthRow(c, i)'.table, under |-> c]]
    BY Zenon DEF Full, RowsFiled
<1>4. RowsOf(c) = [i \in 1 .. Cardinality(OwnRows(c)) |->
                        [table |-> NthRow(c, i).table, under |-> c]]
    BY DEF Full, RowsFiled
<1>. QED
    BY <1>1, <1>2, <1>3, <1>4, Zenon

\* A statement of InsertDatabase that succeeds is one SaveRow.
LEMMA RowStep ==
    ASSUME DistinctNames, Full, Full', Frames, NEW b \in Receivers, RowAdded(b)
    PROVE  Store!SaveRow(b)
<1>. DEFINE own == OwnRows(b)
            m == Cardinality(own)
            layout == TablesOf(b, streams[b])
<1>0. ServerTypeInv /\ pc \in [Receivers -> Places]
    BY Zenon DEF Full, ServerInv, ServerTypeInv, TypeOK, ProcessTypeOK
<1>1. pc[b] = "save" /\ pc' = [pc EXCEPT ![b] = "open"] /\ UNCHANGED streams
    BY DEF RowAdded
<1>2. phase[b] = "registered" /\ UNCHANGED phase
    <2>1. PhaseAt("save") = "registered" /\ PhaseAt("open") = "registered"
        BY DEF PhaseAt
    <2>2. phase' = [phase EXCEPT ![b] = "registered"] /\ phase[b] = "registered"
        BY <1>0, <1>1, <2>1, PhaseStep, Zenon
    <2>. QED
        BY <2>2, Zenon DEF phase
<1>3. UNCHANGED whole
    <2>1. UNCHANGED files
        BY <1>0, <1>1, FilesStep, Zenon
    <2>. QED
        BY <2>1 DEF whole
<1>4. layout \in Layouts[b] /\ layout \in Seq(TableNames)
    BY TablesOfType DEF Full, StoreInv, Layouts
<1>5. /\ m \in Nat /\ Cardinality(own') = m + 1
    <2>1. Len(tables) \in Nat /\ own \in SUBSET (1 .. Len(tables))
        BY Zenon, OwnRowsUnder DEF Full
    <2>2. own' = own \cup {Len(tables) + 1}
        BY OwnRowsStep DEF Full
    <2>. HIDE DEF own
    <2>3. m \in Nat /\ Cardinality(own \cup {Len(tables) + 1}) = m + 1
        BY <2>1, PlaceFacts, Zenon
    <2>. QED
        BY Zenon, <2>2, <2>3
<1>6. /\ m + Len(todo[b]) = Len(layout) /\ RowsOf(b) = Filed(b, layout, m)
    BY <1>1, Zenon DEF Full, RowsInOrder, Saving
<1>7. m + 1 <= Len(layout)
    <2>1. todo[b] \in Seq(TableNames) /\ todo[b] # <<>>
        BY Zenon, <1>0, <1>1 DEF ServerTypeInv, TypeOK, LoadTypeOK, TodoOK
    <2>2. Len(todo[b]) \in Nat \ {0}
        BY <2>1
    <2>. QED
        BY <1>5, <1>6, <2>2
<1>8. RowsOf(b)' = Filed(b, layout, m + 1)
    <2>1. pc'[b] \in Saving
        BY <1>0, <1>1 DEF Saving
    <2>2. RowsOf(b)' = Filed(b, TablesOf(b, streams'[b]), Cardinality(own'))
        BY <2>1, Zenon DEF Full, RowsInOrder
    <2>. QED
        BY Zenon, <1>1, <1>5, <2>2
<1>9. \A c \in Receivers \ {b} : RowsOf(c)' = RowsOf(c)
    <2>1. \A c \in Receivers \ {b} : ~RowAdded(c)
        BY <1>0, <1>1 DEF RowAdded
    <2>. QED
        BY Zenon, <2>1, RowsSame
<1>. HIDE DEF own, m, layout
<1>10. /\ Len(Filed(b, layout, m)) = m
       /\ \A i \in 1 .. m : Filed(b, layout, m)[i].table = layout[i]
       /\ Filed(b, layout, m + 1) = Append(Filed(b, layout, m),
                                           [table |-> layout[m + 1], under |-> b])
    BY <1>4, <1>5, <1>7, FiledGrows, Zenon
<1>11. saved[b] = Filed(b, layout, m)
    BY <1>6 DEF saved
<1>12. saved' = [saved EXCEPT ![b] = Append(Filed(b, layout, m),
                                           [table |-> layout[m + 1], under |-> b])]
    BY <1>8, <1>9, <1>10, Zenon DEF saved
<1>. DEFINE n == Len(saved[b]) + 1
<1>13. n = m + 1 /\ n - 1 = m
    BY <1>5, <1>10, <1>11
<1>14. /\ n <= Len(layout)
       /\ \A k \in 1 .. n - 1 : saved[b][k].table = layout[k]
       /\ saved' = [saved EXCEPT ![b] = Append(@, [table |-> layout[n], under |-> b])]
    BY <1>7, <1>10, <1>11, <1>12, <1>13, Zenon
<1>. QED
    BY <1>2, <1>3, <1>4, <1>14, Zenon DEF Store!SaveRow

\* The other steps of the server are seen in the files and the phases alone.
LEMMA OtherStep ==
    ASSUME DistinctNames, Full, Full', Frames, \A b \in Receivers : ~RowAdded(b)
    PROVE  Store!Next \/ UNCHANGED Store!vars
<1>0. /\ ServerTypeInv /\ pc \in [Receivers -> Places]
      /\ files \in [Names -> Receivers \cup {NoReceiver, "torn"}]
    BY Zenon DEF Full, ServerInv, ServerTypeInv, TypeOK, ProcessTypeOK, FileTypeOK
<1>1. UNCHANGED saved
    BY RowsSame DEF saved
<1>2. \A c \in Receivers : pc[c] \in BeforeStored => c \notin whole
    BY ServerAssumption, Zenon DEF Full, ServerInv, ContentInv, FilesNamed, whole
<1>3. ASSUME NEW c \in Receivers, pc[c] = "create", pc' = [pc EXCEPT ![c] = "body"],
             files' = [files EXCEPT ![NameOf[c]] = "torn"]
      PROVE  UNCHANGED Store!vars
    <2>1. UNCHANGED whole
        <3>1. c \notin whole /\ c \notin whole'
            BY Zenon, <1>0, <1>2, <1>3, ServerAssumption DEF BeforeStored, whole
        <3>2. \A d \in Receivers \ {c} : files'[NameOf[d]] = files[NameOf[d]]
            BY <1>0, <1>3, ServerAssumption DEF DistinctNames
        <3>. QED
            BY Zenon, <3>1, <3>2 DEF whole
    <2>2. PhaseAt("create") = "new" /\ PhaseAt("body") = "new"
        BY Zenon DEF PhaseAt
    <2>3. UNCHANGED phase
        BY Zenon, <1>0, <1>3, <2>2, PhaseStep DEF phase
    <2>. QED
        BY Zenon, <1>1, <2>1, <2>3 DEF Store!vars
<1>4. ASSUME NEW c \in Receivers, pc[c] = "body", pc' = [pc EXCEPT ![c] = "connect"],
             files' = [files EXCEPT ![NameOf[c]] = c]
      PROVE  Store!Store(c)
    <2>1. c \notin whole /\ whole' = whole \cup {c}
        <3>1. c \notin whole /\ c \in whole'
            BY <1>0, <1>2, <1>4, ServerAssumption, Zenon DEF BeforeStored, whole
        <3>2. \A d \in Receivers \ {c} : files'[NameOf[d]] = files[NameOf[d]]
            BY <1>0, <1>4, ServerAssumption DEF DistinctNames
        <3>. QED
            BY <3>1, <3>2 DEF whole
    <2>2. PhaseAt("body") = "new" /\ PhaseAt("connect") = "new"
        BY Zenon DEF PhaseAt
    <2>3. UNCHANGED phase /\ phase[c] = "new"
        BY Zenon, <1>0, <1>4, <2>2, PhaseStep DEF phase
    <2>. QED
        BY Zenon, <1>1, <2>1, <2>3 DEF Store!Store
<1>5. ASSUME UNCHANGED files, NEW c \in Receivers, Moves(c)
      PROVE  \/ UNCHANGED Store!vars
             \/ Store!Register(c) \/ Store!End(c)
    <2>1. PICK to \in Places : Flow(pc[c], to) /\ pc' = [pc EXCEPT ![c] = to]
        BY <1>5, Zenon DEF Moves
    <2>2. UNCHANGED whole
        BY <1>5 DEF whole
    <2>3. phase' = [phase EXCEPT ![c] = PhaseAt(to)] /\ phase[c] = PhaseAt(pc[c])
        BY <1>0, <2>1, PhaseStep, Zenon
    <2>4. CASE PhaseAt(to) = PhaseAt(pc[c])
        BY <1>1, <2>2, <2>3, <2>4, Zenon DEF Store!vars, phase
    <2>5. CASE pc[c] = "insert" /\ to = "select"
        <3>1. PhaseAt("insert") = "new" /\ PhaseAt("select") = "registered"
            BY Zenon DEF PhaseAt
        <3>2. c \in whole
            BY Zenon, <2>5, AllUnique DEF Full, ServerInv, ContentInv, OwnFile, whole
        <3>. QED
            BY <1>1, <2>2, <2>3, <2>5, <3>1, <3>2, Zenon DEF Store!Register
    <2>6. CASE PhaseAt(pc[c]) # "ended" /\ PhaseAt(to) = "ended"
        BY Zenon, <1>1, <2>2, <2>3, <2>6 DEF Store!End
    <2>7. \/ PhaseAt(to) = PhaseAt(pc[c])
          \/ pc[c] = "insert" /\ to = "select"
          \/ PhaseAt(pc[c]) # "ended" /\ PhaseAt(to) = "ended"
        BY Zenon, <1>0, <2>1 DEF Flow, PhaseAt, Places
    <2>. QED
        BY <2>4, <2>5, <2>6, <2>7
<1>6. ASSUME UNCHANGED files, UNCHANGED pc PROVE UNCHANGED Store!vars
    BY <1>1, <1>6 DEF Store!vars, phase, whole
<1>. QED
    BY <1>0, <1>3, <1>4, <1>5, <1>6, FilesStep DEF Frames, PcFrame, Store!Next

LEMMA StoreInitial == Init => Store!Init
<1>. SUFFICES ASSUME Init PROVE Store!Init
    BY Zenon
<1>1. phase = [r \in Receivers |-> "new"]
    BY Zenon DEF Init, phase, PhaseAt
<1>2. whole = {}
    BY Zenon, ServerAssumption DEF Init, whole
<1>3. ASSUME NEW c \in Receivers PROVE RowsOf(c) = <<>>
    <2>1. OwnRows(c) = {}
        BY DEF Init, OwnRows
    <2>2. Cardinality({}) = 0
        BY FS_EmptySet
    <2>. QED
        BY <2>1, <2>2 DEF RowsOf
<1>4. saved = [r \in Receivers |-> <<>>]
    BY <1>3 DEF saved
<1>. QED
    BY <1>1, <1>2, <1>4 DEF Store!Init

\* With a name of its own for every report the receivers implement SMEReportStore,
\* for any number of them, any size of the pool and with the process ending at any
\* point: files, Dumps and report tables never show anything but whole files,
\* registered reports and their first rows in order, although no transaction or
\* lock ties the three together.
THEOREM ServerImplementsStore == DistinctNames => (Spec => ImplementsStore)
<1>. SUFFICES ASSUME DistinctNames PROVE Spec => ImplementsStore
    BY Zenon
<1>. DEFINE Inv == ServerInv /\ StoreInv
<1>1. Init => Inv
    BY Zenon, TypeInit, ContentInit, RowsInit, ReportInit, StoreInit DEF ServerInv
<1>2. Inv /\ [Next]_vars => Inv'
    BY ServerNext, StoreNext
<1>3. Inv => Full
    BY Zenon, RowsAreFiled DEF Full
<1>4. Full /\ Full' /\ [Next]_vars => Store!Next \/ UNCHANGED Store!vars
    <2>. SUFFICES ASSUME Full, Full', [Next]_vars
                  PROVE  Store!Next \/ UNCHANGED Store!vars
        BY Zenon
    <2>1. Frames
        BY StepFrames DEF Full, ServerInv, ServerTypeInv
    <2>2. ASSUME NEW b \in Receivers, RowAdded(b) PROVE Store!Next
        BY <2>1, <2>2, RowStep DEF Store!Next
    <2>. QED
        BY Zenon, <2>1, <2>2, OtherStep
<1>. QED
    BY StoreInitial, <1>1, <1>2, <1>3, <1>4, PTL DEF Spec, ImplementsStore, Store!Spec
=============================================================================
