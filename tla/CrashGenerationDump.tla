------------------------- MODULE CrashGenerationDump -------------------------
(* A dump requested from the crash generation server: the threads of one      *)
(* registered client in RequestDump (crash_generation_client.cc), and the     *)
(* server's OnDumpRequest, which reads the crash out of the client's memory,  *)
(* writes a dump and signals the client (crash_generation_server.cc).         *)
(*                                                                            *)
(* The client's crash variables are one word each, written and read without a *)
(* lock.  Each thread of the client makes at most MaxRequests requests.       *)
EXTENDS Naturals, FiniteSets

CONSTANTS
    Threads,        \* threads of the client that call RequestDump
    None,
    MaxRequests,    \* bound: requests per thread
    TimesOut,       \* kWaitForServerTimeoutMs is finite (it is, but in debug builds)
    DumpsFail,      \* GenerateDump may fail while the client lives
    ClientDies, ServerStops

VARIABLES
    exception_pointers, thread_id,      \* the client's crash variables
    crash_event, crash_generated,       \* the two manual-reset events
    pc, made,                           \* each thread: where it is, requests made
    server,                             \* where OnDumpRequest is
    crash,                              \* what the server has read of the crash
    dumps, failed,                      \* what dumps were made of, and could not be
    answers,                            \* what RequestDump returned
    overlapped,                         \* requests made while another was under way
    client_alive, server_alive

clientVars == <<exception_pointers, thread_id, pc, made, answers, overlapped>>
serverVars == <<server, crash, dumps, failed>>
aliveVars == <<client_alive, server_alive>>
vars == <<clientVars, crash_event, crash_generated, serverVars, aliveVars>>

NoRequest == [thread |-> None, n |-> 0]
Current(t) == [thread |-> t, n |-> made[t]]

NoCrash == [exception |-> NoRequest, thread |-> None]

InitialThread == None

Init ==
    /\ exception_pointers = NoRequest /\ thread_id = InitialThread
    /\ crash_event = FALSE /\ crash_generated = FALSE
    /\ pc = [t \in Threads |-> "run"] /\ made = [t \in Threads |-> 0]
    /\ server = "idle" /\ crash = NoCrash /\ dumps = {} /\ failed = {}
    /\ answers = {} /\ overlapped = {}
    /\ client_alive = TRUE /\ server_alive = TRUE

-----------------------------------------------------------------------------
(* The client.                                                             *)

Goes(t, from, to) == client_alive /\ pc[t] = from /\ pc' = [pc EXCEPT ![t] = to]

\* Requests of other threads that have not returned.
Others(t) == {Current(u) : u \in {v \in Threads \ {t} : pc[v] # "run"}}

\* The server has yet to answer the request before, which timed out.
ServerLate == crash_event /\ server # "reset"

\* RequestDump stores the exception ...
RequestDump(t) ==
    /\ Goes(t, "run", "thread") /\ made[t] < MaxRequests
    /\ made' = [made EXCEPT ![t] = @ + 1]
    /\ exception_pointers' = [thread |-> t, n |-> made[t] + 1]
    /\ overlapped' = overlapped \cup Others(t)
          \cup (IF ServerLate THEN {exception_pointers} ELSE {})
          \cup (IF ServerLate \/ Others(t) # {} THEN {exception_pointers'} ELSE {})
    /\ UNCHANGED <<thread_id, answers, crash_event, crash_generated, serverVars, aliveVars>>

CurrentThreadId(t) == t

\* ... and the thread.
StoreThread(t) ==
    /\ Goes(t, "thread", "reset") /\ thread_id' = CurrentThreadId(t)
    /\ UNCHANGED <<exception_pointers, made, answers, overlapped, crash_event, crash_generated, serverVars, aliveVars>>

\* Mutant: the event of an earlier dump is left signalled.
EventLeft == crash_generated

EventReset == FALSE

\* SignalCrashEventAndWait: the answer is reset before the request is signalled.
ResetGenerated(t) ==
    /\ Goes(t, "reset", "signal") /\ crash_generated' = EventReset
    /\ UNCHANGED <<exception_pointers, thread_id, made, answers, overlapped, crash_event, serverVars, aliveVars>>

SignalCrashEvent(t) ==
    /\ Goes(t, "signal", "wait") /\ crash_event' = TRUE
    /\ UNCHANGED <<exception_pointers, thread_id, made, answers, overlapped, crash_generated, serverVars, aliveVars>>

Return(t, b) ==
    /\ Goes(t, "wait", "run")
    /\ answers' = answers \cup {[request |-> Current(t), ok |-> b]}
    /\ UNCHANGED <<exception_pointers, thread_id, made, overlapped, crash_event, crash_generated, serverVars, aliveVars>>

Signalled == crash_generated \/ ~server_alive

FiniteWait == TimesOut

\* WaitForMultipleObjects ends with the first handle that is signalled: the dump
\* is generated; or the server's mutex is released or abandoned; or too late.
Wait(t) == Signalled /\ Return(t, crash_generated)
TimeOut(t) == FiniteWait /\ ~crash_generated /\ Return(t, FALSE)

-----------------------------------------------------------------------------
(* The server.                                                             *)

Serves(from, to) == server_alive /\ server = from /\ server' = to

\* The pool calls OnDumpRequest; PopulateCustomInfo changes only the ClientInfo.
OnDumpRequest ==
    /\ Serves("idle", "read_exception") /\ crash_event
    /\ UNCHANGED <<crash, dumps, failed, clientVars, crash_event, crash_generated, aliveVars>>

\* GetClientExceptionInfo and GetClientThreadId read the client's memory.
GetClientExceptionInfo ==
    /\ \/ client_alive /\ Serves("read_exception", "read_thread")
          /\ crash' = [NoCrash EXCEPT !.exception = exception_pointers]
       \/ ~client_alive /\ Serves("read_exception", "signal") /\ UNCHANGED crash
    /\ UNCHANGED <<dumps, failed, clientVars, crash_event, crash_generated, aliveVars>>

GetClientThreadId ==
    /\ \/ client_alive /\ Serves("read_thread", "write")
          /\ crash' = [crash EXCEPT !.thread = thread_id]
       \/ ~client_alive /\ Serves("read_thread", "signal") /\ UNCHANGED crash
    /\ UNCHANGED <<dumps, failed, clientVars, crash_event, crash_generated, aliveVars>>

\* GenerateDump: GenerateDumpFile and WriteMinidump.
GenerateDump ==
    /\ Serves("write", "signal")
    /\ \/ client_alive /\ dumps' = dumps \cup {crash} /\ UNCHANGED failed
       \/ (DumpsFail \/ ~client_alive) /\ failed' = failed \cup {crash} /\ UNCHANGED dumps
    /\ UNCHANGED <<crash, clientVars, crash_event, crash_generated, aliveVars>>

\* HandleDumpRequest signals the client whether there is a dump or not.
SignalGenerated ==
    /\ Serves("signal", "reset") /\ crash_generated' = TRUE
    /\ UNCHANGED <<crash, dumps, failed, clientVars, crash_event, aliveVars>>

\* OnDumpRequest resets the request last.
ResetRequest ==
    /\ Serves("reset", "idle") /\ crash_event' = FALSE /\ crash' = NoCrash
    /\ UNCHANGED <<dumps, failed, clientVars, crash_generated, aliveVars>>

\* The client process ends, whatever its threads are doing; the server stops.
Die ==
    /\ ClientDies /\ client_alive /\ client_alive' = FALSE
    /\ UNCHANGED <<clientVars, crash_event, crash_generated, serverVars, server_alive>>

Stop ==
    /\ ServerStops /\ server_alive /\ server_alive' = FALSE /\ server' = "stopped"
    /\ UNCHANGED <<crash, dumps, failed, clientVars, crash_event, crash_generated, client_alive>>

\* Every thread is back from its last request.
Over == (~client_alive \/ \A t \in Threads : pc[t] = "run" /\ made[t] = MaxRequests) /\ UNCHANGED vars

Client(t) ==
    StoreThread(t) \/ ResetGenerated(t) \/ SignalCrashEvent(t) \/ Wait(t) \/ TimeOut(t)

Server ==
    \/ OnDumpRequest \/ GetClientExceptionInfo \/ GetClientThreadId \/ GenerateDump
    \/ SignalGenerated \/ ResetRequest

Next == Server \/ Die \/ Stop \/ Over \/ \E t \in Threads : RequestDump(t) \/ Client(t)

Spec == Init /\ [][Next]_vars

-----------------------------------------------------------------------------
(* Properties.                                                             *)

\* A request that is answered with true has its dump, made from its exception and
\* its thread, or the server tried in vain to write that dump and says nothing of
\* it (HandleDumpRequest, crash_generation_server.cc:896).  Requests that overlap
\* are left out: two threads in RequestDump share the crash variables and the
\* events (crash_generation_client.cc:327, 356), and the answer to a request that
\* timed out may be taken for that to the next.
AnswerHasDump ==
    \A a \in answers : a.ok =>
        \/ [exception |-> a.request, thread |-> a.request.thread] \in dumps \cup failed
        \/ a.request \in overlapped

\* Every dump is of one crash: its exception and its thread belong together, unless
\* requests overlapped.
DumpOfOneCrash == \A d \in dumps : d.exception.thread = d.thread \/ d.exception \in overlapped

\* A thread of a live client waits for its dump.
Waiting(t) == pc[t] = "wait" /\ client_alive
=============================================================================
