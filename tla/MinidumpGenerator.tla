-------------------------- MODULE MinidumpGenerator --------------------------
(***************************************************************************)
(* client/windows/crash_generation/minidump_generator.{h,cc}: the object   *)
(* that the exception handler and the crash server create for one dump.    *)
(* Its files are handles of the process's handle table, where other        *)
(* threads open and close handles of their own, so the number of a closed  *)
(* handle comes back as somebody else's.  DbgHelp, verifier.dll and the    *)
(* memory of the dumped process may fail in any call.  The callers' order  *)
(* of calls is free (the class is a public interface) but for the          *)
(* constants below.                                                        *)
(***************************************************************************)
EXTENDS Integers, Sequences, SequencesExt, FiniteSets

CONSTANTS
    Handles,          \* the handle table's numbers
    MaxExtra,         \* most additional streams of a caller
    MaxTrace,         \* longest trace of handle operations
    MaxCalls,         \* calls of the generator
    ReadsFail,        \* reading the dumped process may fail
    SetsAfterGenerate \* SetDumpFile may follow GenerateDumpFile

VARIABLES
    config,         \* what the constructor and SetAdditionalStreams were given
    dump_file_, full_dump_file_, dump_file_is_internal_, full_dump_file_is_internal_,
    write_dump_, create_uuid_,  \* the functions looked up so far
    table,          \* who holds each handle: free, ours, caller, other
    alive,          \* the generator is not destroyed
    calls,          \* calls made
    wronglyClosed,  \* a handle of somebody else's was closed
    written         \* the last WriteMinidump: result, files and their streams

vars == <<config, dump_file_, full_dump_file_, dump_file_is_internal_, full_dump_file_is_internal_,
          write_dump_, create_uuid_, table, alive, calls, wronglyClosed, written>>

fileVars == <<dump_file_, full_dump_file_, dump_file_is_internal_, full_dump_file_is_internal_>>
libVars == <<write_dump_, create_uuid_>>

INVALID_HANDLE_VALUE == 0
NULL == 0

-----------------------------------------------------------------------------
(* HandleTraceData. *)

Operation == [Handle : 1..2, bad : BOOLEAN]

Traces == UNION {[1..n -> Operation] : n \in 0..MaxTrace}

\* RecordHandleOperations, called for every operation of the trace in order.
RecordHandleOperation(handle, description) ==
    IF description.bad THEN description.Handle ELSE handle

\* handle_ when the enumeration has ended.
OffendingHandle(trace) == FoldLeft(RecordHandleOperation, NULL, trace)

\* The operations left once those of other handles are erased.
Purged(trace) == SelectSeq(trace, LAMBDA i : i.Handle = OffendingHandle(trace))

NoStream == [kind |-> "none"]

\* What CollectHandleData may do: the value it returns and the stream it leaves.
CollectHandleData(c) ==
    (IF ReadsFail THEN {[ok |-> FALSE, stream |-> NoStream]} ELSE {})     \* ReadExceptionCode
    \cup IF ~c.invalidHandle THEN {[ok |-> TRUE, stream |-> NoStream]}
         ELSE {[ok |-> TRUE, stream |-> NoStream],                        \* no trace is kept
               [ok |-> TRUE, stream |-> [kind |-> "handles", operations |-> Purged(c.trace)]]}
              \cup (IF ReadsFail THEN {[ok |-> FALSE, stream |-> NoStream]} ELSE {}) \* no verifier

-----------------------------------------------------------------------------
Configs ==
    [full : BOOLEAN, handleData : BOOLEAN, client : BOOLEAN, exception : BOOLEAN,
     assert : BOOLEAN, extra : 0..MaxExtra, invalidHandle : BOOLEAN, trace : Traces]

NothingWritten == [result |-> FALSE, mini |-> NULL, full |-> NULL, allocated |-> 0, streams |-> << >>]

\* A configuration whose trace cannot be read has none.
Init ==
    /\ config \in {c \in Configs :
          /\ c.invalidHandle => c.exception /\ ~c.handleData
          /\ ~c.invalidHandle => c.trace = << >>}
    /\ dump_file_ = INVALID_HANDLE_VALUE /\ full_dump_file_ = INVALID_HANDLE_VALUE
    /\ dump_file_is_internal_ = FALSE /\ full_dump_file_is_internal_ = FALSE
    /\ write_dump_ = FALSE /\ create_uuid_ = FALSE
    /\ table = [h \in Handles |-> "free"]
    /\ alive = TRUE /\ calls = 0 /\ wronglyClosed = FALSE /\ written = NothingWritten

Call == alive /\ calls < MaxCalls /\ calls' = calls + 1 /\ UNCHANGED <<config, alive>>

\* CloseHandle of every handle in hs: each is free from then on.
CloseHandles(hs) ==
    /\ table' = [h \in Handles |-> IF h \in hs THEN "free" ELSE table[h]]
    /\ wronglyClosed' = (wronglyClosed \/ \E h \in hs : table[h] # "ours")

\* A caller opens a file of its own and hands it over.
SetDumpFile(h) ==
    /\ Call
    /\ table[h] = "free" /\ table' = [table EXCEPT ![h] = "caller"]
    /\ SetsAfterGenerate \/ ~dump_file_is_internal_
    /\ dump_file_' = h
    /\ UNCHANGED <<full_dump_file_, dump_file_is_internal_, full_dump_file_is_internal_,
                   libVars, wronglyClosed, written>>

SetFullDumpFile(h) ==
    /\ Call
    /\ table[h] = "free" /\ table' = [table EXCEPT ![h] = "caller"]
    /\ SetsAfterGenerate \/ ~full_dump_file_is_internal_
    /\ full_dump_file_' = h
    /\ UNCHANGED <<dump_file_, dump_file_is_internal_, full_dump_file_is_internal_,
                   libVars, wronglyClosed, written>>

\* GetCreateUuid and GetWriteDump: looked up until found once.
GetCreateUuid == create_uuid_' \in {TRUE} \cup (IF create_uuid_ THEN {} ELSE {FALSE})
GetWriteDump == write_dump_' \in {TRUE} \cup (IF write_dump_ THEN {} ELSE {FALSE})

NotYetSet(file) == file = INVALID_HANDLE_VALUE

GenerateDumpFile(h) ==
    /\ Call
    /\ NotYetSet(dump_file_)
    /\ GetCreateUuid
    /\ (/\ create_uuid_' /\ table[h] = "free"
        /\ dump_file_' = h /\ table' = [table EXCEPT ![h] = "ours"]
        /\ dump_file_is_internal_' = TRUE)
       \/ UNCHANGED <<dump_file_, dump_file_is_internal_, table>>
    /\ UNCHANGED <<full_dump_file_, full_dump_file_is_internal_, write_dump_, wronglyClosed, written>>

GenerateFullDumpFile(h) ==
    /\ Call
    /\ config.full /\ NotYetSet(full_dump_file_)
    /\ GetCreateUuid
    /\ (/\ create_uuid_' /\ table[h] = "free"
        /\ full_dump_file_' = h /\ table' = [table EXCEPT ![h] = "ours"]
        /\ full_dump_file_is_internal_' = TRUE)
       \/ UNCHANGED <<full_dump_file_, full_dump_file_is_internal_, table>>
    /\ UNCHANGED <<dump_file_, dump_file_is_internal_, write_dump_, wronglyClosed, written>>

-----------------------------------------------------------------------------
(* WriteMinidump. *)

StreamArraySize(c) == 3 + c.extra

\* The user streams before the handle operations are known.
UserStreams(c) ==
    << [kind |-> "breakpad"] >>
    \o (IF c.assert THEN << [kind |-> "assert"] >> ELSE << >>)
    \o [i \in 1..c.extra |-> [kind |-> "extra", number |-> i]]

\* GetUserStream
WithHandles(streams, trace) == IF trace = NoStream THEN streams ELSE Append(streams, trace)

\* The closing of the files on the error paths, which leaves the members.
CloseInternal ==
    (IF dump_file_is_internal_ THEN {dump_file_} ELSE {})
    \cup (IF full_dump_file_is_internal_ /\ full_dump_file_ # INVALID_HANDLE_VALUE
          THEN {full_dump_file_} ELSE {})

FilesSet ==
    /\ dump_file_ # INVALID_HANDLE_VALUE
    /\ config.full => full_dump_file_ # INVALID_HANDLE_VALUE

WriteMinidumpRefused ==
    /\ Call
    /\ written' = NothingWritten
    /\ \/ ~FilesSet /\ UNCHANGED write_dump_
       \/ FilesSet /\ GetWriteDump /\ ~write_dump_'
    /\ UNCHANGED <<fileVars, create_uuid_, table, wronglyClosed>>

\* The assertion, or the exception code, cannot be read.
WriteMinidumpUnread ==
    /\ Call
    /\ FilesSet /\ GetWriteDump /\ write_dump_'
    /\ \/ config.assert /\ config.client /\ ReadsFail
       \/ /\ config.exception /\ ~config.handleData
          /\ \E d \in CollectHandleData(config) : ~d.ok
    /\ CloseHandles(CloseInternal)
    /\ written' = NothingWritten
    /\ UNCHANGED <<fileVars, create_uuid_>>

BothResults(full, mini) == mini /\ full

\* Both files are written; each write may fail.
WriteMinidump ==
    /\ Call
    /\ FilesSet /\ GetWriteDump /\ write_dump_'
    /\ \E d \in IF config.exception /\ ~config.handleData THEN CollectHandleData(config)
                ELSE {[ok |-> TRUE, stream |-> NoStream]},
          result_full_memory \in IF config.full THEN BOOLEAN ELSE {TRUE}, result_minidump \in BOOLEAN :
          /\ d.ok
          /\ written' = [result |-> BothResults(result_full_memory, result_minidump),
                         mini |-> IF result_minidump THEN dump_file_ ELSE NULL,
                         full |-> IF config.full /\ result_full_memory THEN full_dump_file_ ELSE NULL,
                         allocated |-> StreamArraySize(config),
                         streams |-> WithHandles(UserStreams(config), d.stream)]
    /\ UNCHANGED <<fileVars, create_uuid_, table, wronglyClosed>>

\* Mutant: the full dump's file is left to the process.
CloseOne == IF dump_file_is_internal_ THEN {dump_file_} ELSE {}

\* ~MinidumpGenerator closes the files it made.
DestructorCloses ==
    (IF dump_file_is_internal_ /\ dump_file_ # INVALID_HANDLE_VALUE THEN {dump_file_} ELSE {})
    \cup (IF full_dump_file_is_internal_ /\ full_dump_file_ # INVALID_HANDLE_VALUE
          THEN {full_dump_file_} ELSE {})

Destructor ==
    /\ alive /\ alive' = FALSE
    /\ CloseHandles(DestructorCloses)
    /\ write_dump_' = FALSE /\ create_uuid_' = FALSE
    /\ UNCHANGED <<config, fileVars, calls, written>>

\* Another thread opens a handle of its own.
OtherOpens(h) ==
    /\ alive /\ table[h] = "free" /\ \A g \in Handles : table[g] # "other"
    /\ table' = [table EXCEPT ![h] = "other"]
    /\ UNCHANGED <<config, fileVars, libVars, alive, calls, wronglyClosed, written>>

Over == ~alive /\ UNCHANGED vars

Next ==
    \/ \E h \in Handles :
          \/ SetDumpFile(h) \/ SetFullDumpFile(h)
          \/ GenerateDumpFile(h) \/ GenerateFullDumpFile(h)
          \/ OtherOpens(h)
    \/ WriteMinidumpRefused \/ WriteMinidumpUnread \/ WriteMinidump
    \/ Destructor \/ Over

Spec == Init /\ [][Next]_vars

-----------------------------------------------------------------------------
(* Properties. *)

\* WriteMinidump fills its array of user streams one after another - Breakpad's
\* own, the assertion, the caller's, the handle operations - within the room it
\* allocated for them.
StreamsFit == Len(written.streams) <= written.allocated

\* When WriteMinidump returns true, the minidump is in a file, and so is the
\* full dump where one was asked for, and not in the same file.
TrueMeansWritten ==
    written.result =>
        /\ written.mini # NULL
        /\ config.full => written.full # NULL /\ written.full # written.mini

\* The operations that CollectHandleData keeps are those of the handle of the
\* trace's last bad reference: all of them, in their order, and no others.
TraceOfLastBadHandle ==
    \A i \in DOMAIN written.streams :
        written.streams[i].kind = "handles" =>
            LET t == config.trace
                bad == {k \in DOMAIN t : t[k].bad}
                last == CHOOSE k \in bad : \A j \in bad : j <= k
                kept == written.streams[i].operations
            IN  IF bad = {} THEN kept = << >>
                ELSE /\ \A k \in DOMAIN kept : kept[k].Handle = t[last].Handle
                     /\ \A o \in Operation :
                           o.Handle = t[last].Handle =>
                               Cardinality({k \in DOMAIN t : t[k] = o})
                                 = Cardinality({k \in DOMAIN kept : kept[k] = o})

\* The generator closes its own files, each once, and nobody else's handle,
\* whatever handles other threads open meanwhile.
ClosesOnlyItsOwn == ~wronglyClosed

\* A destroyed generator leaves no file of its own open.
NoFileLeaked == ~alive => \A h \in Handles : table[h] # "ours"
=============================================================================
