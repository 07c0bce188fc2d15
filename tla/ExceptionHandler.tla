-------------------------- MODULE ExceptionHandler --------------------------
(***************************************************************************)
(* breakpad's ExceptionHandler for Windows: the static stack of handlers   *)
(* that a crash is routed through, and the thread of each handler that     *)
(* writes the dump while the crashed thread waits.                         *)
(*                                                                         *)
(* An actor is a thread that can run a handler function: a thread of the   *)
(* program, or the handler thread of an ExceptionHandler, named by its     *)
(* handler, when the callback it runs faults.  The three slots that the    *)
(* system calls (exception filter, invalid parameter handler, purecall     *)
(* handler) hold breakpad's function or something else; something else     *)
(* ends the process.                                                       *)
(***************************************************************************)
EXTENDS Integers, Sequences

CONSTANTS
    Handlers, Threads, None,
    Types,              \* handler_types of each handler, a set of Kinds
    OutOfProcess,       \* handlers registered with a crash generation server
    HasFilter,          \* handlers with a filter callback
    AlwaysTrue,         \* handlers whose callback returns true whatever it is told
    MayFault,           \* handlers whose callback may fault
    HandleDebug,        \* handlers with handle_debug_exceptions_
    ConsumeInvalid,     \* handlers with consume_invalid_handle_exceptions_
    Creators,           \* threads that create and delete handlers
    Destroyable,        \* handlers that get deleted
    CleanNesting,       \* they are deleted in the reverse order of creation
    Users,              \* threads that call WriteMinidump
    Events,             \* what may happen to a thread
    MaxIds              \* bound on the ids UuidCreate makes for WriteMinidump

\* Threads of the program and handlers, which name their threads, are not confused.
ASSUME Distinct ==
    /\ Threads \cap Handlers = {}
    /\ None \notin Threads \cup Handlers

Kinds == {"exception", "invalid_parameter", "purecall"}

KindOf(e) == IF e \in {"invalid_parameter", "purecall"} THEN e ELSE "exception"

Actors == Threads \cup Handlers

\* The path strings while UpdateNextID replaces them.
Torn == 0

VARIABLES
    handler_stack, handler_stack_index,
    stack_owner,        \* owner of handler_stack_critical_section_
    instance_count, ready,  \* ready: the critical section is initialized
    registered,         \* the slots that hold breakpad's function
    previous,           \* of each handler: the slots that held it before
    life,               \* of each handler object
    pc, event, frames, target, action,  \* of each actor
    owner,              \* of each handler_critical_section_
    start, finish,      \* the two semaphores of each handler
    requester,          \* requesting_thread_id_
    returned,           \* handlers whose handler_return_value_ is true
    thread, out, succeeded,  \* of each handler thread; out: the dump it wrote
    next_id, loaded,    \* next_minidump_id_; handlers that hold dbghelp loaded
    files, uuid, reports,    \* dumps on disk, ids made, calls of the callback
    alive

stackVars == <<handler_stack, handler_stack_index, stack_owner, registered>>
lifeVars == <<instance_count, ready, previous, life, loaded>>
actorVars == <<pc, event, frames, target, action>>
handshake == <<owner, start, finish, requester>>
dumpVars == <<returned, thread, out, succeeded>>
diskVars == <<next_id, files, uuid, reports>>
vars == <<stackVars, lifeVars, actorVars, handshake, dumpVars, diskVars, alive>>

Init ==
    /\ handler_stack = <<>> /\ handler_stack_index = 0 /\ stack_owner = None
    /\ instance_count = 0 /\ ready = FALSE
    /\ registered = {} /\ previous = [h \in Handlers |-> {}]
    /\ life = [h \in Handlers |-> "unborn"]
    /\ pc = [a \in Actors |-> IF a \in Threads THEN "run" ELSE "idle"]
    /\ event = [a \in Actors |-> None] /\ frames = [a \in Actors |-> <<>>]
    /\ target = [a \in Actors |-> None] /\ action = [a \in Actors |-> None]
    /\ owner = [h \in Handlers |-> None] /\ requester = [h \in Handlers |-> None]
    /\ start = [h \in Handlers |-> 0] /\ finish = [h \in Handlers |-> 0]
    /\ returned = {} /\ succeeded = {}
    /\ thread = [h \in Handlers |-> "none"]
    /\ out = [h \in Handlers |-> None] /\ next_id = [h \in Handlers |-> Torn]
    /\ loaded = {} /\ files = {} /\ uuid = 0 /\ reports = {}
    /\ alive = TRUE

-----------------------------------------------------------------------------
(* Initialize and ~ExceptionHandler.                                       *)

\* Mutant: the handler stack has no lock.
MayEnterUnlocked(a) == TRUE

\* EnterCriticalSection on the static section lets its owner in again.
MayEnter(a) == stack_owner \in {None, a}

\* Initialize up to the handler stack: count, handler thread, libraries and
\* first dump id.  The thread may not start.  A handler that registered out of
\* process gets none of them.
Construct(a, h) ==
    /\ a \in Creators /\ pc[a] = "run" /\ life[h] = "unborn"
    /\ instance_count' = instance_count + 1
    /\ life' = [life EXCEPT ![h] = IF instance_count = 0 THEN "first" ELSE "built"]
    /\ pc' = [pc EXCEPT ![a] = "ctor"]
    /\ target' = [target EXCEPT ![a] = h]
    /\ IF h \in OutOfProcess
       THEN UNCHANGED <<thread, loaded, uuid, next_id>>
       ELSE /\ \E t \in {"wait", "none"} : thread' = [thread EXCEPT ![h] = t]
            /\ loaded' = loaded \cup {h}
            /\ uuid' = uuid + 1
            /\ next_id' = [next_id EXCEPT ![h] = uuid + 1]
    /\ UNCHANGED <<stackVars, ready, previous, event, frames, action, handshake,
                   returned, out, succeeded, files, reports, alive>>

\* The first instance initializes the section; the stack is only touched by a
\* handler that installs something.  Using the section before that is undefined.
Install(a) ==
    LET h == target[a] IN
    /\ pc[a] = "ctor" /\ MayEnter(a)
    /\ ready' = (ready \/ life[h] = "first")
    /\ IF Types[h] # {} /\ ~ready'
       THEN /\ pc' = [pc EXCEPT ![a] = "stray"]
            /\ UNCHANGED <<handler_stack, registered, previous, life>>
       ELSE /\ pc' = [pc EXCEPT ![a] = "run"]
            /\ life' = [life EXCEPT ![h] = "alive"]
            /\ handler_stack' = IF Types[h] = {} THEN handler_stack
                                                 ELSE Append(handler_stack, h)
            /\ previous' = [previous EXCEPT ![h] = registered \cap Types[h]]
            /\ registered' = registered \cup Types[h]
    /\ target' = [target EXCEPT ![a] = None]
    /\ UNCHANGED <<handler_stack_index, stack_owner, instance_count, loaded, event,
                   frames, action, handshake, dumpVars, diskVars, alive>>

\* b is inside its own call of h's WriteMinidump.
Calling(b, h) ==
    /\ frames[b] = <<>> /\ target[b] = h
    /\ pc[b] \in {"direct", "request", "await", "update", "updating"}

\* ~ExceptionHandler begins by giving up its libraries.  Its owner does not
\* delete a handler that a thread has called WriteMinidump on, and should delete
\* handlers in the reverse order (exception_handler.h:48).
Destroy(a, h) ==
    /\ a \in Creators /\ pc[a] = "run" /\ h \in Destroyable /\ life[h] = "alive"
    /\ CleanNesting /\ Types[h] # {} => handler_stack[Len(handler_stack)] = h
    /\ \A b \in Threads : ~Calling(b, h)
    /\ loaded' = loaded \ {h}
    /\ life' = [life EXCEPT ![h] = "leaving"]
    /\ pc' = [pc EXCEPT ![a] = IF Types[h] = {} THEN "terminate" ELSE "dtor"]
    /\ target' = [target EXCEPT ![a] = h]
    /\ UNCHANGED <<stackVars, instance_count, ready, previous, event, frames, action,
                   handshake, dumpVars, diskVars, alive>>

\* The slots of h's types get back what they held.
SlotsWithout(h) == (registered \ Types[h]) \cup previous[h]

\* The stack without h, which is in it once: pop_back, or erase where h stands.
StackWithout(h) ==
    LET at == CHOOSE i \in 1 .. Len(handler_stack) : handler_stack[i] = h IN
    [j \in 1 .. Len(handler_stack) - 1 |-> handler_stack[IF j < at THEN j ELSE j + 1]]

\* The part under the lock.
Uninstall(a) ==
    LET h == target[a] IN
    /\ pc[a] = "dtor" /\ MayEnter(a)
    /\ registered' = SlotsWithout(h)
    /\ handler_stack' = StackWithout(h)
    /\ pc' = [pc EXCEPT ![a] = "terminate"]
    /\ UNCHANGED <<handler_stack_index, stack_owner, lifeVars, event, frames, target,
                   action, handshake, dumpVars, diskVars, alive>>

\* TerminateThread, the closing of the handles, the last instance's section.
Terminate(a) ==
    LET h == target[a] IN
    /\ pc[a] = "terminate"
    /\ thread' = [thread EXCEPT ![h] = "gone"]
    /\ instance_count' = instance_count - 1
    /\ ready' = (ready /\ instance_count > 1)
    /\ life' = [life EXCEPT ![h] = "dead"]
    /\ pc' = [pc EXCEPT ![a] = "run"] /\ target' = [target EXCEPT ![a] = None]
    /\ UNCHANGED <<stackVars, previous, loaded, event, frames, action,
                   handshake, returned, out, succeeded, diskVars, alive>>

-----------------------------------------------------------------------------
(* HandleException, HandleInvalidParameter and HandlePureVirtualCall.      *)

\* Something happens to a thread: the system calls the slot of its kind, and an
\* empty slot ends the process.
Raise(a, e) ==
    /\ event' = [event EXCEPT ![a] = e]
    /\ pc' = [pc EXCEPT ![a] = IF KindOf(e) \in registered THEN "enter" ELSE "dying"]

Crash(a, e) ==
    /\ pc[a] = "run"
    /\ Raise(a, e)
    /\ UNCHANGED <<stackVars, lifeVars, frames, target, action, handshake, dumpVars,
                   diskVars, alive>>

\* ++handler_stack_index_: the position, counted from the top, of the handler to use.
PreIncrement == handler_stack_index + 1

\* AutoExceptionHandler(): the next handler down the stack, whose previous
\* functions are put in place while it works.  There may be no such handler
\* any more: vector::at throws, with the index incremented, or the stack itself
\* is gone, and reading its size may come first.
AutoEnter(a) ==
    /\ pc[a] = "enter" /\ MayEnter(a)
    /\ stack_owner' = a
    /\ IF PreIncrement \in 1 .. Len(handler_stack)
       THEN LET h == handler_stack[Len(handler_stack) - PreIncrement + 1] IN
            /\ handler_stack_index' = PreIncrement
            /\ registered' = previous[h]
            /\ frames' = [frames EXCEPT ![a] = Append(@, h)]
            /\ pc' = [pc EXCEPT ![a] = "decide"]
       ELSE /\ pc' = [pc EXCEPT ![a] = "stray"]
            /\ \/ handler_stack_index' = PreIncrement
               \/ handler_stack = <<>> /\ UNCHANGED handler_stack_index
            /\ UNCHANGED <<registered, frames>>
    /\ UNCHANGED <<handler_stack, lifeVars, event, target, action, handshake, dumpVars,
                   diskVars, alive>>

\* The handler an actor is in: of its innermost AutoExceptionHandler, or the one
\* it called WriteMinidump on.
Current(a) == IF frames[a] = <<>> THEN target[a] ELSE frames[a][Len(frames[a])]

\* A handler function asks for a dump: out of process on its own thread.
AskForDump(a) ==
    pc' = [pc EXCEPT ![a] = IF Current(a) \in OutOfProcess THEN "direct" ELSE "request"]

\* HandleException up to its request: an invalid handle may be ignored, and a
\* breakpoint is left to others unless the handler wants it.
HandleException(a) ==
    LET consumed == event[a] = "invalid_handle" /\ Current(a) \in ConsumeInvalid
        ignored == event[a] = "breakpoint" /\ Current(a) \notin HandleDebug
    IN
    /\ pc[a] = "decide" /\ KindOf(event[a]) = "exception"
    /\ \/ /\ consumed
          /\ action' = [action EXCEPT ![a] = "resume"]
          /\ pc' = [pc EXCEPT ![a] = "leave"]
       \/ ignored /\ pc' = [pc EXCEPT ![a] = "pass"] /\ UNCHANGED action
       \/ ~consumed /\ ~ignored /\ AskForDump(a) /\ UNCHANGED action
    /\ UNCHANGED <<stackVars, lifeVars, event, frames, target, handshake, dumpVars,
                   diskVars, alive>>

HandleInvalidParameter(a) ==
    /\ pc[a] = "decide" /\ event[a] = "invalid_parameter"
    /\ AskForDump(a)
    /\ UNCHANGED <<stackVars, lifeVars, event, frames, target, action, handshake, dumpVars,
                   diskVars, alive>>

HandlePureVirtualCall(a) ==
    /\ pc[a] = "decide" /\ event[a] = "purecall"
    /\ AskForDump(a)
    /\ UNCHANGED <<stackVars, lifeVars, event, frames, target, action, handshake, dumpVars,
                   diskVars, alive>>

\* Where the answer of a dump request leads.
Answer(a, ok) ==
    pc' = [pc EXCEPT ![a] = IF frames[a] = <<>>
                            THEN IF target[a] \in OutOfProcess THEN "run" ELSE "update"
                            ELSE IF ok THEN "execute" ELSE "pass"]

\* WriteMinidumpWithException of an out-of-process handler runs on the crashed
\* thread; the filter, the server and the callback decide its result.
Direct(a) ==
    /\ pc[a] = "direct"
    /\ \E ok \in BOOLEAN : Answer(a, ok)
    /\ UNCHANGED <<stackVars, lifeVars, event, frames, target, action, handshake,
                   dumpVars, diskVars, alive>>

\* EnterCriticalSection on handler_critical_section_.
SectionFree(h) == owner[h] = None

\* WriteMinidumpOnHandlerThread up to its wait.  A semaphore counts to one.
Request(a) ==
    LET h == Current(a) IN
    /\ pc[a] = "request" /\ SectionFree(h)
    /\ IF thread[h] = "none"
       THEN Answer(a, FALSE) /\ UNCHANGED <<owner, start, requester>>
       ELSE /\ owner' = [owner EXCEPT ![h] = a]
            /\ requester' = [requester EXCEPT ![h] = a]
            /\ start' = [start EXCEPT ![h] = 1]
            /\ pc' = [pc EXCEPT ![a] = "await"]
    /\ UNCHANGED <<stackVars, lifeVars, event, frames, target, action, finish, dumpVars,
                   diskVars, alive>>

\* The rest of WriteMinidumpOnHandlerThread.
Await(a) ==
    LET h == Current(a) IN
    /\ pc[a] = "await" /\ finish[h] = 1
    /\ finish' = [finish EXCEPT ![h] = 0]
    /\ requester' = [requester EXCEPT ![h] = None]
    /\ owner' = [owner EXCEPT ![h] = None]
    /\ Answer(a, h \in returned)
    /\ UNCHANGED <<stackVars, lifeVars, event, frames, target, action, start, dumpVars,
                   diskVars, alive>>

\* The function that was in the slot before gets its chance, on this thread.
HasPrevious(a) == KindOf(event[a]) \in previous[Current(a)]

\* HandleException after its request: what it returns to the system, unless it
\* calls the previous filter to find out.
ExceptionAction(a) ==
    /\ KindOf(event[a]) = "exception"
    /\ \/ /\ pc[a] = "execute" \/ (pc[a] = "pass" /\ ~HasPrevious(a))
          /\ action' = [action EXCEPT ![a] = IF pc[a] = "execute" THEN "execute" ELSE "search"]
          /\ pc' = [pc EXCEPT ![a] = "leave"]
       \/ /\ pc[a] = "pass" /\ HasPrevious(a)
          /\ pc' = [pc EXCEPT ![a] = "enter"]
          /\ UNCHANGED action
    /\ UNCHANGED <<stackVars, lifeVars, event, frames, target, handshake, dumpVars,
                   diskVars, alive>>

\* HandleInvalidParameter after its request ends the process, by exit or, with
\* neither dump nor previous function, by the CRT.  The lock is not given back.
InvalidParameterEnd(a) ==
    /\ event[a] = "invalid_parameter"
    /\ \/ /\ pc[a] = "execute" \/ (pc[a] = "pass" /\ ~HasPrevious(a))
          /\ alive' = FALSE
          /\ UNCHANGED pc
       \/ /\ pc[a] = "pass" /\ HasPrevious(a)
          /\ pc' = [pc EXCEPT ![a] = "enter"]
          /\ UNCHANGED alive
    /\ UNCHANGED <<stackVars, lifeVars, event, frames, target, action, handshake, dumpVars,
                   diskVars>>

\* HandlePureVirtualCall after its request: exit, the previous function, or a
\* return to the CRT, which puts up a dialog and aborts.
PureVirtualCallEnd(a) ==
    /\ event[a] = "purecall"
    /\ \/ pc[a] = "execute" /\ alive' = FALSE /\ UNCHANGED <<pc, action>>
       \/ /\ pc[a] = "pass" /\ HasPrevious(a)
          /\ pc' = [pc EXCEPT ![a] = "enter"]
          /\ UNCHANGED <<action, alive>>
       \/ /\ pc[a] = "pass" /\ ~HasPrevious(a)
          /\ action' = [action EXCEPT ![a] = "search"]
          /\ pc' = [pc EXCEPT ![a] = "leave"]
          /\ UNCHANGED alive
    /\ UNCHANGED <<stackVars, lifeVars, event, frames, target, handshake, dumpVars, diskVars>>

PostDecrement == handler_stack_index - 1

\* ~AutoExceptionHandler, and the return to the handler that passed this on: it
\* returns the same action, or exits when the event was a pure virtual call.
AutoLeave(a) ==
    /\ pc[a] = "leave"
    /\ registered' = Kinds
    /\ handler_stack_index' = PostDecrement
    /\ frames' = [frames EXCEPT ![a] = SubSeq(@, 1, Len(@) - 1)]
    /\ IF Len(frames[a]) = 1
       THEN /\ stack_owner' = None
            /\ pc' = [pc EXCEPT ![a] = IF action[a] = "resume" THEN "run" ELSE "dying"]
            /\ event' = [event EXCEPT ![a] = None] /\ action' = [action EXCEPT ![a] = None]
            /\ UNCHANGED alive
       ELSE /\ alive' = (alive /\ event[a] # "purecall")
            /\ UNCHANGED <<stack_owner, pc, event, action>>
    /\ UNCHANGED <<handler_stack, lifeVars, target, handshake, dumpVars, diskVars>>

-----------------------------------------------------------------------------
(* ExceptionHandlerThreadMain: WriteMinidumpWithException and what it calls. *)

Wake(h) ==
    /\ thread[h] = "wait" /\ start[h] = 1
    /\ start' = [start EXCEPT ![h] = 0]
    /\ thread' = [thread EXCEPT ![h] = "filter"]
    /\ UNCHANGED <<stackVars, lifeVars, actorVars, owner, finish, requester, returned, out,
                   succeeded, diskVars, alive>>

\* filter_ returns false.
Decline(h) ==
    /\ thread[h] = "filter" /\ h \in HasFilter
    /\ returned' = returned \ {h}
    /\ thread' = [thread EXCEPT ![h] = "release"]
    /\ UNCHANGED <<stackVars, lifeVars, actorVars, handshake, out, succeeded, diskVars, alive>>

\* CREATE_NEW.
NameFree(h) == next_id[h] \notin files

\* CreateFile with CREATE_NEW: it fails when the name is taken, or for reasons
\* of the system.
CreateDump(h) ==
    /\ thread[h] = "filter"
    /\ \/ /\ NameFree(h)
          /\ files' = files \cup {next_id[h]}
          /\ out' = [out EXCEPT ![h] = next_id[h]]
          /\ thread' = [thread EXCEPT ![h] = "dump"]
       \/ /\ out' = [out EXCEPT ![h] = None]
          /\ thread' = [thread EXCEPT ![h] = "callback"]
          /\ UNCHANGED files
    /\ UNCHANGED <<stackVars, lifeVars, actorVars, handshake, returned, succeeded, next_id,
                   uuid, reports, alive>>

\* dbghelp stays in the process as long as one handler holds it.
LibraryLoaded == loaded # {}

\* MiniDumpWriteDump.  Its code is gone when the library was freed meanwhile.
WriteDump(h) ==
    /\ thread[h] = "dump"
    /\ \E ok \in BOOLEAN : succeeded' = IF ok THEN succeeded \cup {h} ELSE succeeded
    /\ alive' = LibraryLoaded
    /\ thread' = [thread EXCEPT ![h] = "callback"]
    /\ UNCHANGED <<stackVars, lifeVars, actorVars, handshake, returned, out, diskVars>>

\* callback_ is told the id that is next now, and answers for the dump.
Callback(h) ==
    /\ thread[h] = "callback"
    /\ reports' = reports \cup {[id |-> next_id[h], file |-> out[h],
                                 ok |-> h \in succeeded, by |-> requester[h]]}
    /\ \E ok \in IF h \in AlwaysTrue THEN {TRUE} ELSE BOOLEAN :
          returned' = IF ok THEN returned \cup {h} ELSE returned \ {h}
    /\ thread' = [thread EXCEPT ![h] = "release"]
    /\ out' = [out EXCEPT ![h] = None] /\ succeeded' = succeeded \ {h}
    /\ UNCHANGED <<stackVars, lifeVars, actorVars, handshake, next_id, files, uuid, alive>>

\* An exception on the handler thread itself.
CallbackFaults(h) ==
    /\ thread[h] = "callback" /\ h \in MayFault
    /\ thread' = [thread EXCEPT ![h] = "faulted"]
    /\ Raise(h, "fault")
    /\ UNCHANGED <<stackVars, lifeVars, frames, target, action, handshake, returned, out,
                   succeeded, diskVars, alive>>

Release(h) ==
    /\ thread[h] = "release"
    /\ finish' = [finish EXCEPT ![h] = 1]
    /\ thread' = [thread EXCEPT ![h] = "wait"]
    /\ UNCHANGED <<stackVars, lifeVars, actorVars, owner, start, requester, returned, out,
                   succeeded, diskVars, alive>>

-----------------------------------------------------------------------------
(* WriteMinidump, and the end of the process.                              *)

WriteMinidump(a, h) ==
    /\ a \in Users /\ pc[a] = "run" /\ life[h] = "alive" /\ uuid < MaxIds
    /\ target' = [target EXCEPT ![a] = h]
    /\ pc' = [pc EXCEPT ![a] = IF h \in OutOfProcess THEN "direct" ELSE "request"]
    /\ UNCHANGED <<stackVars, lifeVars, event, frames, action, handshake, dumpVars,
                   diskVars, alive>>

\* UpdateNextID, after the handler's section has been left: while the strings
\* are replaced another thread may read either of them half way.
UpdateNextID(a) ==
    LET h == target[a] IN
    /\ \/ /\ pc[a] = "update"
          /\ next_id' = [next_id EXCEPT ![h] = Torn]
          /\ pc' = [pc EXCEPT ![a] = "updating"]
          /\ UNCHANGED <<uuid, target>>
       \/ /\ pc[a] = "updating"
          /\ uuid' = uuid + 1
          /\ next_id' = [next_id EXCEPT ![h] = uuid + 1]
          /\ pc' = [pc EXCEPT ![a] = "run"] /\ target' = [target EXCEPT ![a] = None]
    /\ UNCHANGED <<stackVars, lifeVars, event, frames, action, handshake, dumpVars, files,
                   reports, alive>>

\* An unhandled exception ends the process, handled by a dump or not.
ProcessExit ==
    /\ \E a \in Actors : pc[a] \in {"dying", "stray"}
    /\ alive' = FALSE
    /\ UNCHANGED <<stackVars, lifeVars, actorVars, handshake, dumpVars, diskVars>>

Ended == ~alive /\ UNCHANGED vars

HandlerThread(h) ==
    alive /\ (Wake(h) \/ Decline(h) \/ CreateDump(h) \/ WriteDump(h) \/ Callback(h) \/ Release(h))

InHandler(a) ==
    alive /\ (AutoEnter(a) \/ HandleException(a) \/ HandleInvalidParameter(a)
                 \/ HandlePureVirtualCall(a) \/ Direct(a) \/ Request(a) \/ Await(a)
                 \/ ExceptionAction(a) \/ InvalidParameterEnd(a)
                 \/ PureVirtualCallEnd(a) \/ AutoLeave(a))

Lifetime(a) ==
    alive /\ (\/ \E h \in Handlers : Construct(a, h) \/ Destroy(a, h)
              \/ Install(a) \/ Uninstall(a) \/ Terminate(a))

Program(a) ==
    alive /\ (\/ \E e \in Events : Crash(a, e)
              \/ \E h \in Handlers : WriteMinidump(a, h)
              \/ UpdateNextID(a))

\* What a thread goes on with once it has begun it.
Working(a) == alive /\ (Install(a) \/ Uninstall(a) \/ Terminate(a) \/ UpdateNextID(a))

Next ==
    \/ \E h \in Handlers : HandlerThread(h) \/ (alive /\ CallbackFaults(h))
    \/ \E a \in Actors : InHandler(a)
    \/ \E a \in Threads : Lifetime(a) \/ Program(a)
    \/ alive /\ ProcessExit
    \/ Ended

Spec == Init /\ [][Next]_vars

-----------------------------------------------------------------------------
(* Properties.                                                             *)

Busy(h) == thread[h] \in {"filter", "dump", "callback", "release", "faulted"}

Waiting(a, h) == pc[a] = "await" /\ Current(a) = h

\* The handshake of WriteMinidumpOnHandlerThread: a request is in exactly one
\* place (signalled, being handled, answered) while the one thread that made it
\* waits inside the handler's section, and in none otherwise, so no thread takes
\* the answer of another and no semaphore is signalled twice.
OneRequestInFlight ==
    \A h \in Handlers :
        /\ start[h] + finish[h] + (IF Busy(h) THEN 1 ELSE 0)
                = IF owner[h] = None THEN 0 ELSE 1
        /\ owner[h] = requester[h]
        /\ \A a \in Actors : Waiting(a, h) <=> owner[h] = a

\* Crashes go down the handler stack: the thread that holds its lock is in the
\* topmost handlers, each once and in order, the index counts them, and nobody
\* else is in one.  (AutoExceptionHandler with the lock held across the handling.)
\* A thread that found no handler at the index has moved it all the same.
RoutedDownTheStack ==
    /\ \A a \in Actors : frames[a] # <<>> => stack_owner = a
    /\ stack_owner # None =>
          /\ frames[stack_owner] = [i \in 1 .. Len(frames[stack_owner]) |->
                                        handler_stack[Len(handler_stack) - i + 1]]
          /\ pc[stack_owner] # "stray" => handler_stack_index = Len(frames[stack_owner])
    /\ stack_owner = None => handler_stack_index = 0

\* ~ExceptionHandler waits for the lock that a crash holds: no handler is taken
\* off the stack, or its thread ended, while a crashed thread is in it.
UsedHandlerLives ==
    \A a \in Actors : \A i \in DOMAIN frames[a] :
        /\ life[frames[a][i]] \in {"alive", "leaving"}
        /\ thread[frames[a][i]] # "gone"

\* HandleException and WriteMinidumpOnHandlerThread: a dump request is with one
\* handler thread while the thread that made it waits for it and no other does;
\* crashes go down the handler stack one handler after the other, also when the
\* handlers fault; and ~ExceptionHandler ends no handler that a crash is in.
CrashIsHandled == OneRequestInFlight /\ RoutedDownTheStack /\ UsedHandlerLives

\* Of what a handler uses, ~ExceptionHandler gives up its libraries before it waits
\* for the lock (exception_handler.cc:296): a dump finds dbghelp gone only when the
\* destructor of its own handler has begun.
LibraryGoesWithItsHandler ==
    \A h \in Handlers : thread[h] = "dump" /\ ~LibraryLoaded => life[h] = "leaving"

\* The callback of a handler in use has faulted, and its exception waits for the
\* lock that the thread which waits for the callback holds (exception_handler.cc:436).
CallbackBlocked ==
    \E h \in Handlers : thread[h] = "faulted" /\ pc[h] = "enter" /\ ~MayEnter(h)

\* The system has called the slot of a's event, and a has not come out of the
\* handlers yet.
InHandling(a) == alive /\ pc[a] \notin {"run", "ctor", "dtor", "terminate", "dying", "stray", "idle"}
=============================================================================
