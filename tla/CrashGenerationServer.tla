------------------------ MODULE CrashGenerationServer ------------------------
(* The crash generation server: the pipe state machine that registers client *)
(* processes (crash_generation_server.cc), the ClientInfo objects and the    *)
(* wait callbacks that use and delete them, the destructor, and the client's *)
(* side of the handshake (crash_generation_client.cc).                       *)
(*                                                                           *)
(* Pipe callbacks and dump callbacks run in a wait thread of the thread pool *)
(* (WT_EXECUTEINWAITTHREAD), exit callbacks in worker threads.  A wait       *)
(* thread serves 63 waits; OneWaitThread says whether one serves them all.   *)
(* Calls on valid event handles do not fail.  Each client process registers, *)
(* or requests an upload, once.                                              *)
EXTENDS Naturals, Sequences, FiniteSets

CONSTANTS
    Clients,        \* client processes, and the ClientInfo made for each
    None,
    Kind,           \* what each client sends first: "register", "upload", "invalid"
    OneWaitThread,  \* all waits are in one wait thread
    WaitsFail,      \* RegisterWaitForSingleObject may fail
    Prompt          \* the destructor's second is enough for callbacks to run

\* kPipeConnectMaxAttempts.
MaxAttempts == 2

VARIABLES
    server_state, event,    \* server_state_, overlapped_.hEvent
    pipe_wait,              \* pipe_wait_handle_ is registered
    pipe, peer,             \* the one pipe instance and the client at its other end
    io,                     \* the overlapped operation: none, pending or its result
    inbox, reply,           \* written and not yet read: to the server, to the client
    msg,                    \* msg_
    worker,                 \* where OnPipeConnected is
    shutting_down, dtor,    \* where ~CrashGenerationServer is
    clients, client_info,   \* clients_, client_info_
    connected,              \* clients connect_callback_ was called for
    info,                   \* each ClientInfo: none, live, deleted, or deleted twice
    dump_wait, exit_wait,   \* infos whose wait is registered
    dump_cb, exit_cb,       \* where OnDumpRequest and OnClientEnd are
    requested,              \* clients that have signalled dump_requested_handle_
    proc, attempts,         \* client processes
    overtaken               \* history: OnClientEnd removed a client AddClient had yet to list

pipeVars == <<pipe, peer, io, inbox, reply>>
poolVars == <<dump_wait, exit_wait, dump_cb, exit_cb, requested>>
listVars == <<clients, client_info, info, connected, overtaken>>
procVars == <<proc, attempts>>
vars == <<server_state, event, pipe_wait, pipeVars, msg, worker, shutting_down, dtor,
          listVars, poolVars, procVars>>

Init ==
    /\ server_state = "UNINITIALIZED" /\ event = FALSE /\ pipe_wait = FALSE
    /\ pipe = "closed" /\ peer = None /\ io = "none" /\ inbox = <<>> /\ reply = FALSE
    /\ msg = "none" /\ worker = "idle" /\ shutting_down = FALSE /\ dtor = "none"
    /\ clients = {} /\ connected = {} /\ client_info = None /\ overtaken = FALSE
    /\ info = [c \in Clients |-> "none"]
    /\ dump_wait = {} /\ exit_wait = {} /\ requested = {}
    /\ dump_cb = [c \in Clients |-> "idle"] /\ exit_cb = [c \in Clients |-> "idle"]
    /\ proc = [c \in Clients |-> "start"] /\ attempts = [c \in Clients |-> 0]

Dead(c) == proc[c] = "dead"

\* A callback of the wait thread can start.
WaitThreadFree == OneWaitThread => worker = "idle" /\ \A c \in Clients : dump_cb[c] = "idle"

\* Start: the pipe exists, and listens, before the first callback runs.
Start ==
    /\ server_state = "UNINITIALIZED" /\ dtor = "none"
    /\ server_state' = "INITIAL"
    /\ pipe_wait' = TRUE /\ pipe' = "listening" /\ event' = TRUE
    /\ UNCHANGED <<peer, io, inbox, reply, msg, worker, shutting_down, dtor, listVars,
                   poolVars, procVars>>

\* The other returns of Start: there is no mutex, event or wait, or no pipe.  The
\* state is INITIAL, so that Start is not tried again.
StartFails ==
    /\ server_state = "UNINITIALIZED" /\ dtor = "none"
    /\ server_state' = "INITIAL"
    /\ \/ UNCHANGED pipe_wait        \* CreateMutex, CreateEvent, RegisterWaitForSingleObject
       \/ pipe_wait' = TRUE          \* CreateNamedPipe
    /\ UNCHANGED <<event, pipeVars, msg, worker, shutting_down, dtor, listVars, poolVars,
                   procVars>>

-----------------------------------------------------------------------------
(* OnPipeConnected and the state machine.                                  *)

\* HandleConnectionRequest: the flag is read before the state's handler runs.
HandleConnectionRequest ==
    /\ worker = "idle" /\ pipe_wait /\ event /\ WaitThreadFree
    /\ \/ /\ shutting_down
          /\ server_state' = "ERROR" /\ event' = FALSE /\ UNCHANGED worker
       \/ /\ ~shutting_down
          /\ worker' = "handler" /\ UNCHANGED <<server_state, event>>
    /\ UNCHANGED <<pipe_wait, pipeVars, msg, shutting_down, dtor, listVars, poolVars, procVars>>

Handling(s) == worker = "handler" /\ server_state = s

\* Mutant: the state changes and the event stays as it is reset.
EnterStateUnsignaled(s) == server_state' = s /\ event' = FALSE /\ worker' = "idle"

\* EnterStateImmediately and EnterErrorState: the event is signalled again.
EnterStateImmediately(s) == server_state' = s /\ event' = TRUE /\ worker' = "idle"

\* EnterStateWhenSignaled: the operation just issued signals the event.
EnterStateWhenSignaled(s) == server_state' = s /\ event' = (io' = "ok") /\ worker' = "idle"

HandleErrorState ==
    /\ Handling("ERROR")
    /\ \/ shutting_down /\ worker' = "idle" /\ UNCHANGED pipe_wait
       \/ ~shutting_down /\ worker' = "error" /\ pipe_wait' = FALSE
    /\ UNCHANGED <<server_state, event, pipeVars, msg, shutting_down, dtor, listVars,
                   poolVars, procVars>>

\* The rest of HandleErrorState: the pipe and the event are closed.
CloseInErrorState ==
    /\ worker = "error"
    /\ pipe' = "closed" /\ peer' = None /\ event' = FALSE /\ worker' = "idle"
    /\ UNCHANGED <<server_state, pipe_wait, io, inbox, reply, msg, shutting_down, dtor,
                   listVars, poolVars, procVars>>

HandleInitialState ==
    /\ Handling("INITIAL")
    /\ \/ /\ pipe \in {"listening", "disconnected"}         \* ERROR_IO_PENDING
          /\ pipe' = "listening" /\ io' = "connect"
          /\ EnterStateWhenSignaled("CONNECTING")
       \/ /\ pipe = "open"                                  \* ERROR_PIPE_CONNECTED
          /\ EnterStateImmediately("CONNECTED") /\ UNCHANGED <<pipe, io>>
       \/ /\ pipe \in {"broken", "closed"}                  \* the client has left already
          /\ EnterStateImmediately("ERROR") /\ UNCHANGED <<pipe, io>>
    /\ UNCHANGED <<pipe_wait, peer, inbox, reply, msg, shutting_down, dtor, listVars,
                   poolVars, procVars>>

HandleConnectingState ==
    /\ Handling("CONNECTING")
    /\ EnterStateImmediately(IF io = "ok" THEN "CONNECTED" ELSE "DISCONNECTING")
    /\ UNCHANGED <<pipe_wait, pipeVars, msg, shutting_down, dtor, listVars, poolVars, procVars>>

Rest == Tail(inbox)

\* ReadFile on the pipe: what is there is read at once, a dead end is an error.
ReadFile(s) ==
    \/ /\ inbox # <<>> /\ pipe \in {"open", "broken"}
       /\ msg' = Head(inbox) /\ inbox' = Rest /\ io' = "ok"
       /\ EnterStateWhenSignaled(s)
    \/ /\ inbox = <<>> /\ pipe = "open"
       /\ io' = "read" /\ EnterStateWhenSignaled(s) /\ UNCHANGED <<msg, inbox>>
    \/ /\ pipe # "open" /\ (pipe = "broken" => inbox = <<>>)
       /\ EnterStateImmediately("DISCONNECTING") /\ UNCHANGED <<io, msg, inbox>>

HandleConnectedState ==
    /\ Handling("CONNECTED")
    /\ ReadFile("READING")
    /\ UNCHANGED <<pipe_wait, pipe, peer, reply, shutting_down, dtor, listVars, poolVars, procVars>>

HandleReadingState ==
    /\ Handling("READING")
    /\ EnterStateImmediately(IF io = "ok" THEN "READ_DONE" ELSE "DISCONNECTING")
    /\ UNCHANGED <<pipe_wait, pipeVars, msg, shutting_down, dtor, listVars, poolVars, procVars>>

IsClientRequestValid == msg \in {"register", "upload"}

\* An invalid request, or an upload request, which is answered by a callback.
HandleOtherRequest ==
    /\ Handling("READ_DONE") /\ (~IsClientRequestValid \/ msg = "upload")
    /\ EnterStateImmediately("DISCONNECTING")
    /\ UNCHANGED <<pipe_wait, pipeVars, msg, shutting_down, dtor, listVars, poolVars, procVars>>

\* The process is opened and the events are made.
Initialize(c) == c # None /\ ~Dead(c)

\* The three handles are duplicated into the process.
CreateClientHandles(c) == ~Dead(c)

\* The reply is written to the pipe before AddClient is called.
RespondToClient(c) == CreateClientHandles(c) /\ pipe = "open"

\* A registration: the ClientInfo is deleted again when a step fails.
HandleReadDoneState ==
    /\ Handling("READ_DONE") /\ IsClientRequestValid /\ msg = "register"
    /\ \/ /\ Initialize(peer) /\ RespondToClient(peer)
          /\ info' = [info EXCEPT ![peer] = "live"] /\ client_info' = peer
          /\ reply' = TRUE /\ io' = "ok" /\ event' = TRUE /\ worker' = "add_dump"
          /\ UNCHANGED server_state
       \/ /\ ~(Initialize(peer) /\ RespondToClient(peer))
          /\ EnterStateImmediately("DISCONNECTING")
          /\ UNCHANGED <<info, client_info, reply, io>>
    /\ UNCHANGED <<pipe_wait, pipe, peer, inbox, msg, shutting_down, dtor, clients, connected,
                   overtaken, poolVars, procVars>>

\* AddClient: the dump request wait, the process exit wait, then the list.
AddDumpWait ==
    /\ worker = "add_dump"
    /\ \/ dump_wait' = dump_wait \cup {client_info} /\ worker' = "add_exit"
       \/ WaitsFail /\ worker' = "add_fail" /\ UNCHANGED dump_wait
    /\ UNCHANGED <<server_state, event, pipe_wait, pipeVars, msg, shutting_down, dtor, listVars,
                   exit_wait, dump_cb, exit_cb, requested, procVars>>

AddExitWait ==
    /\ worker = "add_exit"
    /\ \/ exit_wait' = exit_wait \cup {client_info} /\ worker' = "add_list"
       \/ WaitsFail /\ worker' = "add_fail" /\ UNCHANGED exit_wait
    /\ UNCHANGED <<server_state, event, pipe_wait, pipeVars, msg, shutting_down, dtor, listVars,
                   dump_wait, dump_cb, exit_cb, requested, procVars>>

\* The list is changed in the critical section, with the flag checked in it.
AddToList ==
    /\ worker = "add_list"
    /\ \/ /\ shutting_down /\ worker' = "add_fail" /\ UNCHANGED <<server_state, clients>>
       \/ /\ ~shutting_down /\ clients' = clients \cup {client_info}
          /\ server_state' = "WRITING" /\ worker' = "idle"
    /\ UNCHANGED <<event, pipe_wait, pipeVars, msg, shutting_down, dtor, client_info, info,
                   connected, overtaken, poolVars, procVars>>

\* delete: a second one is noted.
Deleted(c) == [info EXCEPT ![c] = IF @ = "live" THEN "deleted" ELSE "deleted twice"]

\* ~ClientInfo and the destructor's loop wait for the callbacks of c to finish.
NoCallback(c) == dump_cb[c] = "idle" /\ exit_cb[c] \in {"idle", "done"}

\* AddClient returned false: the scoped pointer deletes the object.
AddFail ==
    /\ worker = "add_fail" /\ NoCallback(client_info)
    /\ dump_wait' = dump_wait \ {client_info} /\ exit_wait' = exit_wait \ {client_info}
    /\ info' = Deleted(client_info) /\ client_info' = None
    /\ EnterStateImmediately("DISCONNECTING")
    /\ UNCHANGED <<pipe_wait, pipeVars, msg, shutting_down, dtor, clients, connected, overtaken,
                   dump_cb, exit_cb, requested, procVars>>

HandleWritingState ==
    /\ Handling("WRITING")
    /\ EnterStateImmediately(IF io = "ok" THEN "WRITE_DONE" ELSE "DISCONNECTING")
    /\ UNCHANGED <<pipe_wait, pipeVars, msg, shutting_down, dtor, listVars, poolVars, procVars>>

HandleWriteDoneState ==
    /\ Handling("WRITE_DONE")
    /\ ReadFile("READING_ACK")
    /\ UNCHANGED <<pipe_wait, pipe, peer, reply, shutting_down, dtor, listVars, poolVars, procVars>>

\* connect_callback_ is called only for a client that is in the list.
StillAlive == client_info \in clients

HandleReadingAckState ==
    /\ Handling("READING_ACK")
    /\ connected' = IF io = "ok" /\ StillAlive THEN connected \cup {client_info} ELSE connected
    /\ EnterStateImmediately("DISCONNECTING")
    /\ UNCHANGED <<pipe_wait, pipeVars, msg, shutting_down, dtor, clients, client_info, info,
                   overtaken, poolVars, procVars>>

HandleDisconnectingState ==
    /\ Handling("DISCONNECTING")
    /\ client_info' = None
    /\ pipe' = "disconnected" /\ peer' = None /\ io' = "none" /\ inbox' = <<>> /\ reply' = FALSE
    /\ \/ /\ shutting_down /\ event' = FALSE /\ worker' = "idle" /\ UNCHANGED server_state
       \/ ~shutting_down /\ EnterStateImmediately("INITIAL")
    /\ UNCHANGED <<pipe_wait, msg, shutting_down, dtor, clients, info, connected, overtaken,
                   poolVars, procVars>>

-----------------------------------------------------------------------------
(* The other callbacks.                                                    *)

\* OnDumpRequest, and its end, where the request is reset.
OnDumpRequest(c) ==
    /\ c \in dump_wait \cap requested /\ dump_cb[c] = "idle" /\ WaitThreadFree
    /\ dump_cb' = [dump_cb EXCEPT ![c] = "running"]
    /\ UNCHANGED <<server_state, event, pipe_wait, pipeVars, msg, worker, shutting_down, dtor,
                   listVars, dump_wait, exit_wait, exit_cb, requested, procVars>>

EndDumpRequest(c) ==
    /\ dump_cb[c] = "running"
    /\ dump_cb' = [dump_cb EXCEPT ![c] = "idle"] /\ requested' = requested \ {c}
    /\ UNCHANGED <<server_state, event, pipe_wait, pipeVars, msg, worker, shutting_down, dtor,
                   listVars, dump_wait, exit_wait, exit_cb, procVars>>

\* OnClientEnd is called once, when the process has ended.
OnClientEnd(c) ==
    /\ c \in exit_wait /\ Dead(c) /\ exit_cb[c] = "idle" /\ WaitThreadFree
    /\ exit_cb' = [exit_cb EXCEPT ![c] = "started"]
    /\ UNCHANGED <<server_state, event, pipe_wait, pipeVars, msg, worker, shutting_down, dtor,
                   listVars, dump_wait, exit_wait, dump_cb, requested, procVars>>

\* HandleClientProcessExit first waits for a dump request being served.
DumpRequestOver(c) == dump_cb[c] = "idle"

UnregisterDumpRequestWait(c) ==
    /\ exit_cb[c] = "started" /\ DumpRequestOver(c)
    /\ dump_wait' = dump_wait \ {c}
    /\ exit_cb' = [exit_cb EXCEPT ![c] = "lock"]
    /\ UNCHANGED <<server_state, event, pipe_wait, pipeVars, msg, worker, shutting_down, dtor,
                   listVars, exit_wait, dump_cb, requested, procVars>>

\* Mutants: the list is left as it is, or emptied.
ListKept(c) == clients

ListWithout(c) == clients \ {c}

\* AddClient has registered the waits of c and has not put it in the list.
NotYetListed(c) == worker = "add_list" /\ client_info = c

\* The client leaves the list, unless the destructor will delete it.
RemoveClient(c) ==
    /\ exit_cb[c] = "lock"
    /\ \/ /\ shutting_down /\ exit_cb' = [exit_cb EXCEPT ![c] = "done"]
          /\ UNCHANGED <<clients, overtaken>>
       \/ /\ ~shutting_down /\ exit_cb' = [exit_cb EXCEPT ![c] = "delete"]
          /\ clients' = ListWithout(c)
          /\ overtaken' = (overtaken \/ NotYetListed(c))
    /\ UNCHANGED <<server_state, event, pipe_wait, pipeVars, msg, worker, shutting_down, dtor,
                   client_info, info, connected, dump_wait, exit_wait, dump_cb, requested, procVars>>

DeleteClient(c) ==
    /\ exit_cb[c] = "delete"
    /\ exit_wait' = exit_wait \ {c} /\ info' = Deleted(c)
    /\ exit_cb' = [exit_cb EXCEPT ![c] = "done"]
    /\ UNCHANGED <<server_state, event, pipe_wait, pipeVars, msg, worker, shutting_down, dtor,
                   clients, client_info, connected, overtaken, dump_wait, dump_cb, requested, procVars>>

-----------------------------------------------------------------------------
(* ~CrashGenerationServer.                                                 *)

Shutdown ==
    /\ dtor = "none"
    /\ shutting_down' = TRUE /\ dtor' = "disconnect"
    /\ UNCHANGED <<server_state, event, pipe_wait, pipeVars, msg, worker, listVars, poolVars, procVars>>

\* DisconnectNamedPipe fails a pending operation, which signals the event.
Disconnect ==
    /\ dtor = "disconnect" /\ dtor' = "wait"
    /\ pipe' = IF pipe = "closed" THEN "closed" ELSE "disconnected"
    /\ peer' = None /\ inbox' = <<>> /\ reply' = FALSE
    /\ io' = IF io \in {"connect", "read"} THEN "fail" ELSE io
    /\ event' = (event \/ io \in {"connect", "read"})
    /\ UNCHANGED <<server_state, pipe_wait, msg, worker, shutting_down, listVars, poolVars, procVars>>

AfterTries == "unregister"

\* A hundred looks at server_state_, ten milliseconds apart.
WaitForErrorState ==
    /\ dtor = "wait" /\ dtor' = AfterTries
    /\ server_state = "ERROR" \/ (Prompt => worker = "idle" /\ ~(event /\ pipe_wait))
    /\ UNCHANGED <<server_state, event, pipe_wait, pipeVars, msg, worker, shutting_down, listVars,
                   poolVars, procVars>>

\* UnregisterWaitEx waits for a running callback; there is nothing to wait for
\* when pipe_wait_handle_ is NULL.
UnregisterPipeWait ==
    /\ dtor = "unregister" /\ dtor' = "close"
    /\ pipe_wait => worker = "idle"
    /\ pipe_wait' = FALSE
    /\ UNCHANGED <<server_state, event, pipeVars, msg, worker, shutting_down, listVars, poolVars, procVars>>

ClosePipe ==
    /\ dtor = "close" /\ dtor' = "clients"
    /\ pipe' = "closed" /\ peer' = None
    /\ UNCHANGED <<server_state, event, pipe_wait, io, inbox, reply, msg, worker, shutting_down,
                   listVars, poolVars, procVars>>

\* The loop over clients_.
DestroyClient(c) ==
    /\ dtor = "clients" /\ c \in clients /\ NoCallback(c)
    /\ dump_wait' = dump_wait \ {c} /\ exit_wait' = exit_wait \ {c}
    /\ info' = Deleted(c) /\ clients' = clients \ {c}
    /\ UNCHANGED <<server_state, event, pipe_wait, pipeVars, msg, worker, shutting_down, dtor,
                   client_info, connected, overtaken, dump_cb, exit_cb, requested, procVars>>

Destroyed ==
    /\ dtor = "clients" /\ clients = {}
    /\ dtor' = "done" /\ event' = FALSE
    /\ UNCHANGED <<server_state, pipe_wait, pipeVars, msg, worker, shutting_down, listVars,
                   poolVars, procVars>>

-----------------------------------------------------------------------------
(* The client processes.                                                   *)

\* ConnectToPipe: CreateFile succeeds when the instance listens.
Open(c) ==
    /\ proc[c] = "start" /\ pipe = "listening"
    /\ pipe' = "open" /\ peer' = c /\ proc' = [proc EXCEPT ![c] = "open"]
    /\ io' = IF io = "connect" THEN "ok" ELSE io
    /\ event' = (event \/ io = "connect")
    /\ UNCHANGED <<server_state, pipe_wait, inbox, reply, msg, worker, shutting_down, dtor,
                   listVars, poolVars, attempts>>

\* The pipe is busy, or there is none.
OpenFails(c) ==
    /\ proc[c] = "start" /\ pipe # "listening"
    /\ proc' = [proc EXCEPT ![c] = IF pipe = "closed" THEN "failed" ELSE "busy"]
    /\ UNCHANGED <<server_state, event, pipe_wait, pipeVars, msg, worker, shutting_down, dtor,
                   listVars, poolVars, attempts>>

\* for (i = 0; i < kPipeConnectMaxAttempts; ++i)
Again(c) == attempts[c] + 1 < MaxAttempts

\* WaitNamedPipe ends with an instance to try, at most kPipeConnectMaxAttempts
\* times, or with a timeout.
WaitNamedPipe(c) ==
    /\ proc[c] = "busy"
    /\ \/ /\ pipe = "listening" /\ attempts' = [attempts EXCEPT ![c] = @ + 1]
          /\ proc' = [proc EXCEPT ![c] = IF Again(c) THEN "start" ELSE "failed"]
       \/ proc' = [proc EXCEPT ![c] = "failed"] /\ UNCHANGED attempts
    /\ UNCHANGED <<server_state, event, pipe_wait, pipeVars, msg, worker, shutting_down, dtor,
                   listVars, poolVars>>

\* A message written to the pipe completes the server's pending read.
Written(m) ==
    \/ /\ io = "read" /\ io' = "ok" /\ msg' = m /\ event' = TRUE /\ UNCHANGED inbox
    \/ /\ io # "read" /\ inbox' = Append(inbox, m) /\ UNCHANGED <<io, msg, event>>

\* RequestUpload writes and closes its end; a registration waits for the reply.
SendRequest(c) ==
    /\ proc[c] = "open"
    /\ \/ /\ peer = c /\ Written(Kind[c])
          /\ pipe' = IF Kind[c] = "upload" THEN "broken" ELSE pipe
          /\ proc' = [proc EXCEPT ![c] = IF Kind[c] = "upload" THEN "uploaded" ELSE "sent"]
       \/ /\ peer # c /\ proc' = [proc EXCEPT ![c] = "failed"]
          /\ UNCHANGED <<io, msg, event, inbox, pipe>>
    /\ UNCHANGED <<server_state, pipe_wait, peer, reply, worker, shutting_down, dtor, listVars,
                   poolVars, attempts>>

\* TransactNamedPipe ends with the reply, or fails when the server disconnects.
GetReply(c) ==
    /\ proc[c] = "sent"
    /\ \/ /\ peer = c /\ reply /\ reply' = FALSE
          /\ proc' = [proc EXCEPT ![c] = "replied"]
       \/ /\ peer # c /\ proc' = [proc EXCEPT ![c] = "failed"] /\ UNCHANGED reply
    /\ UNCHANGED <<server_state, event, pipe_wait, pipe, peer, io, inbox, msg, worker,
                   shutting_down, dtor, listVars, poolVars, attempts>>

\* The client has its handles once the acknowledgement is written.
SendAck(c) ==
    /\ proc[c] = "replied"
    /\ \/ /\ peer = c /\ Written("ack") /\ pipe' = "broken"
          /\ proc' = [proc EXCEPT ![c] = "registered"]
       \/ /\ peer # c /\ proc' = [proc EXCEPT ![c] = "failed"]
          /\ UNCHANGED <<io, msg, event, inbox, pipe>>
    /\ UNCHANGED <<server_state, pipe_wait, peer, reply, worker, shutting_down, dtor, listVars,
                   poolVars, attempts>>

\* SignalCrashEventAndWait, once.
RequestDump(c) ==
    /\ proc[c] = "registered" /\ proc' = [proc EXCEPT ![c] = "crashing"]
    /\ requested' = requested \cup {c}
    /\ UNCHANGED <<server_state, event, pipe_wait, pipeVars, msg, worker, shutting_down, dtor,
                   listVars, dump_wait, exit_wait, dump_cb, exit_cb, attempts>>

\* A client process ends at any point; its end of the pipe closes.
Die(c) ==
    /\ ~Dead(c)
    /\ proc' = [proc EXCEPT ![c] = "dead"]
    /\ pipe' = IF peer = c THEN "broken" ELSE pipe
    /\ io' = IF peer = c /\ io = "read" THEN "fail" ELSE io
    /\ event' = (event \/ (peer = c /\ io = "read"))
    /\ UNCHANGED <<server_state, pipe_wait, peer, inbox, reply, msg, worker, shutting_down, dtor,
                   listVars, poolVars, attempts>>

\* The server is gone and no client is left.
Over == dtor = "done" /\ (\A c \in Clients : Dead(c)) /\ UNCHANGED vars

-----------------------------------------------------------------------------
StateMachine ==
    \/ HandleConnectionRequest \/ HandleErrorState \/ CloseInErrorState \/ HandleInitialState
    \/ HandleConnectingState \/ HandleConnectedState \/ HandleReadingState
    \/ HandleOtherRequest \/ HandleReadDoneState \/ AddDumpWait \/ AddExitWait \/ AddToList
    \/ AddFail \/ HandleWritingState \/ HandleWriteDoneState \/ HandleReadingAckState
    \/ HandleDisconnectingState

Callbacks(c) ==
    \/ OnDumpRequest(c) \/ EndDumpRequest(c) \/ OnClientEnd(c)
    \/ UnregisterDumpRequestWait(c) \/ RemoveClient(c) \/ DeleteClient(c)

Destructor ==
    \/ Disconnect \/ WaitForErrorState \/ UnregisterPipeWait \/ ClosePipe
    \/ (\E c \in Clients : DestroyClient(c)) \/ Destroyed

Register(c) ==
    \/ Open(c) \/ OpenFails(c) \/ WaitNamedPipe(c) \/ SendRequest(c) \/ GetReply(c) \/ SendAck(c)

Next ==
    \/ Start \/ StartFails \/ StateMachine \/ Shutdown \/ Destructor \/ Over
    \/ \E c \in Clients : Callbacks(c) \/ Register(c) \/ RequestDump(c) \/ Die(c)

Spec == Init /\ [][Next]_vars

-----------------------------------------------------------------------------
(* Properties.                                                             *)

\* AddClient registers the waits before it puts the client in the list: where another
\* thread runs OnClientEnd, it may remove and delete the client in between, and the
\* list gets a pointer to nothing (crash_generation_server.cc:787).  As long as one wait
\* thread serves all waits, the callback is not queued before AddClient is through.
OvertakenOnlyByThreads == OneWaitThread => ~overtaken

\* The comment in HandleReadingAckState: a ClientInfo that clients_ refers to is
\* valid; and none is deleted twice.  Until AddClient was overtaken.
ClientInfoValid ==
    ~overtaken => \A c \in Clients : (c \in clients => info[c] = "live") /\ info[c] # "deleted twice"

\* A callback in progress has a ClientInfo to work on: nobody deletes it under
\* OnDumpRequest or OnClientEnd.
CallbackHasClient ==
    \A c \in Clients :
        dump_cb[c] = "running" \/ exit_cb[c] \in {"started", "lock", "delete"} => info[c] = "live"

\* When the destructor is done no ClientInfo is left to leak and no wait is
\* registered, but for a client whose last callback is past the list.
ShutdownLeavesNothing ==
    dtor = "done" => \A c \in Clients : exit_cb[c] # "delete" =>
        info[c] # "live" /\ c \notin dump_wait \cup exit_wait

\* The client has the pipe open and does not know yet whether it is registered.
Registering(c) == proc[c] \in {"open", "sent", "replied"}

\* The destructor has begun and has not returned.
Stopping == shutting_down /\ dtor # "done"
=============================================================================
