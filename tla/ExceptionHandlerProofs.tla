----------------------- MODULE ExceptionHandlerProofs -----------------------
(***************************************************************************)
(* CrashIsHandled, for any handlers, threads and events.  None of its      *)
(* parts is inductive alone: the thread of a handler is idle when it is    *)
(* ended (HandshakeInv) because whoever waits for it is in the handler,    *)
(* which is then still on the stack (RouteInv, StackInv), or has called    *)
(* its WriteMinidump, and it is not deleted under such a call (LifeInv).   *)
(***************************************************************************)
EXTENDS ExceptionHandler, TLAPS

\* What a thread is doing: in a handler function or one it calls, in its own call
\* of WriteMinidump, creating or deleting a handler.
InFrame == {"decide", "pass", "execute", "leave"}
Dumping == {"direct", "request", "await"}
Handling == {"enter", "stray"} \cup InFrame \cup Dumping
Updating == {"update", "updating"}
Deleting == {"dtor", "terminate"}
Places == {"run", "idle", "ctor", "dying"} \cup Handling \cup Updating \cup Deleting

TypeInv ==
    /\ handler_stack \in Seq(Handlers) /\ handler_stack_index \in Nat
    /\ stack_owner \in Actors \cup {None}
    /\ life \in [Handlers -> {"unborn", "first", "built", "alive", "leaving", "dead"}]
    /\ pc \in [Actors -> Places] /\ frames \in [Actors -> Seq(Handlers)]
    /\ target \in [Actors -> Handlers \cup {None}]
    /\ owner \in [Handlers -> Actors \cup {None}]
    /\ requester \in [Handlers -> Actors \cup {None}]
    /\ start \in [Handlers -> {0, 1}] /\ finish \in [Handlers -> {0, 1}]
    /\ thread \in [Handlers -> {"none", "wait", "filter", "dump", "callback", "faulted",
                                "release", "gone"}]

\* Where a thread is tells what it holds: AutoExceptionHandlers while it is in a
\* handler function, and a handler where it needs one.  Only a handler thread
\* that faulted runs a handler function.
PlaceInv ==
    \A a \in Actors :
        /\ frames[a] # <<>> => pc[a] \in Handling
        /\ pc[a] \in InFrame => frames[a] # <<>>
        /\ pc[a] \in Dumping => frames[a] # <<>> \/ target[a] \in Handlers
        /\ pc[a] \in {"ctor"} \cup Deleting \cup Updating => target[a] \in Handlers
        /\ a \in Handlers =>
              /\ target[a] = None
              /\ thread[a] \notin {"faulted", "gone"} => pc[a] = "idle"

\* The thread that owns the lock is in the topmost handlers.
RouteInv ==
    /\ \A a \in Actors : frames[a] # <<>> => stack_owner = a
    /\ stack_owner = None => handler_stack_index = 0
    /\ stack_owner # None =>
          /\ frames[stack_owner] # <<>> \/ pc[stack_owner] = "stray"
          /\ pc[stack_owner] # "stray" => handler_stack_index = Len(frames[stack_owner])
          /\ Len(frames[stack_owner]) <= Len(handler_stack)
          /\ \A i \in 1 .. Len(frames[stack_owner]) :
                frames[stack_owner][i] = handler_stack[Len(handler_stack) - i + 1]

\* A handler is created once and deleted once, by one thread, and not under a
\* thread that called its WriteMinidump.
LifeInv ==
    /\ \A h \in Handlers : life[h] = "unborn" => thread[h] = "none"
    /\ \A h \in Handlers : thread[h] = "gone" => life[h] = "dead"
    /\ \A a \in Actors :
          /\ pc[a] = "ctor" => life[target[a]] \in {"first", "built"}
          /\ pc[a] \in Deleting => life[target[a]] = "leaving"
          /\ \A h \in Handlers : Calling(a, h) => life[h] = "alive"
    /\ \A a, b \in Actors :
          pc[a] \in {"ctor"} \cup Deleting /\ pc[b] \in {"ctor"} \cup Deleting /\ target[a] = target[b]
              => a = b

OnStack(h) == \E i \in 1 .. Len(handler_stack) : handler_stack[i] = h

\* The stack holds, once each, the handlers that live and install something, and
\* a handler is off it before its thread is ended.
StackInv ==
    /\ \A i \in 1 .. Len(handler_stack) :
          /\ life[handler_stack[i]] \in {"alive", "leaving"}
          /\ Types[handler_stack[i]] # {}
    /\ \A i, j \in 1 .. Len(handler_stack) : handler_stack[i] = handler_stack[j] => i = j
    /\ \A h \in Handlers : life[h] = "alive" /\ Types[h] # {} => OnStack(h)
    /\ \A a \in Actors : pc[a] = "dtor" => OnStack(target[a])
    /\ \A a \in Actors : pc[a] = "terminate" => ~OnStack(target[a])

\* OneRequestInFlight, whether the process still runs or not.
HandshakeInv ==
    \A h \in Handlers :
        /\ start[h] + finish[h] + (IF Busy(h) THEN 1 ELSE 0) = IF owner[h] = None THEN 0 ELSE 1
        /\ owner[h] = requester[h]
        /\ \A a \in Actors : Waiting(a, h) <=> owner[h] = a

IInv == TypeInv /\ PlaceInv /\ RouteInv /\ LifeInv /\ StackInv /\ HandshakeInv

-----------------------------------------------------------------------------
LEMMA Initially == Init => IInv
<1> SUFFICES ASSUME Init PROVE IInv
  BY Zenon
<1> USE DEF Init
<1>1. TypeInv
  BY DEF TypeInv, Actors, Places
<1>2. PlaceInv
  BY Zenon, Distinct DEF PlaceInv, Actors, Handling, InFrame, Dumping, Updating, Deleting
<1>3. RouteInv
  BY DEF RouteInv, Actors
<1>4. LifeInv
  BY Zenon DEF LifeInv, Actors, Calling, Deleting
<1>5. StackInv
  <2>1. 1 .. Len(handler_stack) = {}
    OBVIOUS
  <2>2. \A h \in Handlers : life[h] # "alive"
    BY Zenon
  <2>3. \A a \in Actors : pc[a] \notin {"dtor", "terminate"}
    BY Zenon
  <2> QED
    BY <2>1, <2>2, <2>3, Zenon DEF StackInv
<1>6. HandshakeInv
  <2>1. \A h \in Handlers : ~Busy(h) /\ \A a \in Actors : ~Waiting(a, h) /\ owner[h] # a
    BY Zenon, Distinct DEF Actors, Waiting, Busy
  <2>2. \A h \in Handlers : owner[h] = None /\ requester[h] = None /\ start[h] = 0 /\ finish[h] = 0
    BY Zenon
  <2>3. \A h \in Handlers : (IF Busy(h) THEN 1 ELSE 0) = 0
    BY <2>1, Zenon
  <2> HIDE DEF Init
  <2>4. \A h \in Handlers : start[h] + finish[h] + (IF Busy(h) THEN 1 ELSE 0) = 0
    <3> TAKE h \in Handlers
    <3> DEFINE busy == IF Busy(h) THEN 1 ELSE 0
    <3>1. busy = 0
      BY Zenon, <2>3
    <3> HIDE DEF busy
    <3>2. start[h] + finish[h] + busy = 0
      BY <2>2, <3>1
    <3> QED
      BY <3>2, Zenon DEF busy
  <2> QED
    BY <2>1, <2>2, <2>4, Zenon DEF HandshakeInv
<1> QED
  BY Zenon, <1>1, <1>2, <1>3, <1>4, <1>5, <1>6 DEF IInv

\* The members of the stack are handlers.
LEMMA StackMembers ==
    ASSUME TypeInv
    PROVE  /\ \A i \in 1 .. Len(handler_stack) : handler_stack[i] \in Handlers
           /\ \A h : OnStack(h) => h \in Handlers
BY DEF TypeInv, OnStack

\* What the invariant of the stack asks of a step that leaves the stack alone.
LEMMA StackKept ==
    ASSUME TypeInv, StackInv, handler_stack' = handler_stack,
           \A h \in Handlers : OnStack(h) => life'[h] \in {"alive", "leaving"},
           \A h \in Handlers : life'[h] = "alive" /\ Types[h] # {} => OnStack(h),
           \A b \in Actors : pc'[b] = "dtor" => OnStack(target'[b]),
           \A b \in Actors : pc'[b] = "terminate" => ~OnStack(target'[b])
    PROVE  StackInv'
<1>1. \A g : OnStack(g)' <=> OnStack(g)
  BY Zenon DEF OnStack
<1>2. \A i \in 1 .. Len(handler_stack) : handler_stack[i] \in Handlers /\ OnStack(handler_stack[i])
  BY Zenon, StackMembers DEF OnStack
<1> QED
  BY Zenon, <1>1, <1>2 DEF StackInv

\* Nor does it mind a thread that goes elsewhere, except to delete a handler.
LEMMA StackSteady ==
    ASSUME TypeInv, StackInv, UNCHANGED <<handler_stack, life>>, NEW a \in Actors,
           NEW p, p \notin Deleting, pc' = [pc EXCEPT ![a] = p],
           \A b \in Actors : b # a => target'[b] = target[b]
    PROVE  StackInv'
<1>1. \A h \in Handlers : OnStack(h) => life[h] \in {"alive", "leaving"}
  BY Zenon DEF StackInv, OnStack
<1>2. \A b \in Actors : pc'[b] \in Deleting => pc[b] = pc'[b] /\ target[b] = target'[b]
  BY Zenon DEF TypeInv
<1> QED
  BY Zenon, <1>1, <1>2, StackKept DEF StackInv, Deleting

\* A thread goes from one place to another, possibly taking or leaving the handler
\* it called WriteMinidump on.
LEMMA Moves ==
    ASSUME IInv, NEW a \in Actors, NEW p \in Places \ ({"await", "ctor"} \cup Deleting),
           NEW g \in Handlers \cup {None},
           pc[a] \notin {"idle", "await", "stray", "ctor"} \cup Deleting,
           pc' = [pc EXCEPT ![a] = p], target' = [target EXCEPT ![a] = g],
           UNCHANGED <<handler_stack, handler_stack_index, stack_owner, life, frames, owner,
                       start, finish, requester, thread>>,
           a \in Handlers => g = None,
           frames[a] # <<>> => p \in Handling,
           p \in InFrame => frames[a] # <<>>,
           p \in Dumping \cup Updating /\ frames[a] = <<>> => g \in Handlers /\ life[g] = "alive"
    PROVE  IInv'
<1> USE DEF IInv
<1>1. TypeInv'
  BY Zenon DEF TypeInv
<1>2. PlaceInv'
  BY Zenon DEF TypeInv, PlaceInv, Handling, InFrame, Dumping, Updating, Deleting
<1>3. RouteInv'
  BY Zenon DEF TypeInv, RouteInv
<1>4. LifeInv'
  BY DEF TypeInv, LifeInv, Calling, Deleting, Dumping, Updating
<1>5. StackInv'
  BY Zenon, StackSteady DEF TypeInv
<1>6. HandshakeInv'
  BY DEF TypeInv, HandshakeInv, Waiting, Busy, Current
<1> QED
  BY Zenon, <1>1, <1>2, <1>3, <1>4, <1>5, <1>6

\* The thread of a handler goes on: the request it works on is still one.
LEMMA ThreadMoves ==
    ASSUME IInv, NEW h \in Handlers, NEW s \in {0, 1}, NEW f \in {0, 1},
           NEW t \in {"wait", "filter", "dump", "callback", "release"},
           thread[h] \in {"wait", "filter", "dump", "callback", "release"},
           thread' = [thread EXCEPT ![h] = t],
           start' = [start EXCEPT ![h] = s], finish' = [finish EXCEPT ![h] = f],
           s + f + (IF t = "wait" THEN 0 ELSE 1)
                = start[h] + finish[h] + (IF thread[h] = "wait" THEN 0 ELSE 1),
           UNCHANGED <<handler_stack, handler_stack_index, stack_owner, life, pc, frames,
                       target, owner, requester>>
    PROVE  IInv'
<1> USE DEF IInv
<1>1. TypeInv'
  BY Zenon DEF TypeInv
<1>2. PlaceInv'
  BY Zenon DEF TypeInv, PlaceInv
<1>3. RouteInv'
  BY Zenon DEF RouteInv
<1>4. LifeInv'
  BY Zenon DEF TypeInv, LifeInv, Calling
<1>5. StackInv'
  BY Zenon DEF StackInv, OnStack
<1>6. HandshakeInv'
  <2> SUFFICES ASSUME NEW g \in Handlers
               PROVE  /\ start'[g] + finish'[g] + (IF Busy(g)' THEN 1 ELSE 0)
                           = IF owner'[g] = None THEN 0 ELSE 1
                      /\ owner'[g] = requester'[g]
                      /\ \A a \in Actors : Waiting(a, g)' <=> owner'[g] = a
    BY Zenon DEF HandshakeInv
  <2>1. \A a \in Actors : Waiting(a, g)' <=> Waiting(a, g)
    BY Zenon DEF Waiting, Current
  <2>2. CASE g = h
    BY Zenon, <2>1, <2>2 DEF TypeInv, HandshakeInv, Busy
  <2>3. CASE g # h
    BY Zenon, <2>1, <2>3 DEF TypeInv, HandshakeInv, Busy
  <2> QED
    BY Zenon, <2>2, <2>3
<1> QED
  BY Zenon, <1>1, <1>2, <1>3, <1>4, <1>5, <1>6

-----------------------------------------------------------------------------
(* Initialize and ~ExceptionHandler.                                       *)

\* A handler that starts its thread is in no use yet.
LEMMA ConstructKeeps ==
    ASSUME IInv, NEW a \in Threads, NEW h \in Handlers, Construct(a, h)
    PROVE  IInv'
<1> DEFINE l == IF instance_count = 0 THEN "first" ELSE "built"
<1> USE DEF IInv
<1>1. /\ pc[a] = "run" /\ life[h] = "unborn" /\ a \in Actors /\ a \notin Handlers
      /\ life' = [life EXCEPT ![h] = l] /\ l \in {"first", "built"}
      /\ pc' = [pc EXCEPT ![a] = "ctor"] /\ target' = [target EXCEPT ![a] = h]
      /\ UNCHANGED <<handler_stack, handler_stack_index, stack_owner, frames, owner, start,
                     finish, requester>>
  BY Zenon, Distinct DEF Construct, stackVars, handshake, Actors
<1>2. PICK t \in {"wait", "none"} : thread' = [thread EXCEPT ![h] = t]
  <2>1. CASE h \in OutOfProcess
    BY <2>1 DEF Construct, TypeInv, LifeInv
  <2>2. CASE h \notin OutOfProcess
    BY Zenon, <2>2 DEF Construct
  <2> QED
    BY Zenon, <2>1, <2>2
<1>3. thread[h] = "none" /\ frames[a] = <<>>
  BY Zenon, <1>1 DEF LifeInv, PlaceInv, Handling, InFrame, Dumping
<1> HIDE DEF l
<1>4. TypeInv'
  BY Zenon, <1>1, <1>2 DEF TypeInv, Places
<1>5. PlaceInv'
  BY Zenon, <1>1, <1>2, <1>3 DEF TypeInv, PlaceInv, Handling, InFrame, Dumping, Updating, Deleting
<1>6. RouteInv'
  BY Zenon, <1>1, <1>3 DEF TypeInv, RouteInv
<1>7. LifeInv'
  <2>1. \A b \in Actors : pc[b] \in {"ctor"} \cup Deleting => target[b] # h
    BY Zenon, <1>1 DEF LifeInv, Deleting
  <2>2. \A b \in Actors : ~Calling(b, h)
    BY Zenon, <1>1 DEF LifeInv
  <2>3. \A g \in Handlers : ~Calling(a, g)'
    BY Zenon, <1>1 DEF TypeInv, Calling
  <2>4. \A b \in Actors \ {a}, g \in Handlers : Calling(b, g)' <=> Calling(b, g)
    BY Zenon, <1>1 DEF TypeInv, Calling
  <2> QED
    BY <1>1, <1>2, <1>3, <2>1, <2>2, <2>3, <2>4 DEF TypeInv, LifeInv, Deleting
<1>8. StackInv'
  <2>2. ~OnStack(h)
    BY Zenon, <1>1 DEF StackInv, OnStack
  <2>3. \A g \in Handlers : OnStack(g) => life[g] \in {"alive", "leaving"}
    BY Zenon DEF StackInv, OnStack
  <2> QED
    BY Zenon, <1>1, <2>2, <2>3, StackKept DEF TypeInv, StackInv
<1>9. HandshakeInv'
  BY <1>1, <1>2, <1>3 DEF TypeInv, HandshakeInv, Waiting, Busy, Current
<1> QED
  BY Zenon, <1>4, <1>5, <1>6, <1>7, <1>8, <1>9

\* A thread that creates or deletes a handler finds nobody in a handler function
\* when it holds the lock.
LEMMA NobodyInside ==
    ASSUME IInv, NEW a \in Actors, MayEnter(a), pc[a] \notin Handling
    PROVE  /\ stack_owner = None /\ handler_stack_index = 0
           /\ \A b \in Actors : frames[b] = <<>>
<1>1. stack_owner # a
  BY Zenon, Distinct DEF IInv, PlaceInv, RouteInv, Handling, Actors
<1>2. stack_owner = None
  BY Zenon, <1>1 DEF MayEnter
<1> QED
  BY Zenon, <1>2, Distinct DEF IInv, RouteInv, Actors

\* Initialize pushes its handler under the section, when nobody is in a handler.
LEMMA InstallKeeps ==
    ASSUME IInv, NEW a \in Threads, Install(a)
    PROVE  IInv'
<1> DEFINE h == target[a]
<1> USE DEF IInv
<1>1. /\ pc[a] = "ctor" /\ a \in Actors /\ a \notin Handlers /\ h \in Handlers
      /\ life[h] \in {"first", "built"}
  BY Zenon, Distinct DEF Install, Actors, PlaceInv, LifeInv
<1>2. /\ stack_owner = None /\ handler_stack_index = 0
      /\ \A b \in Actors : frames[b] = <<>>
  BY Zenon, <1>1, NobodyInside DEF Install, Handling, InFrame, Dumping
<1>3. /\ target' = [target EXCEPT ![a] = None]
      /\ UNCHANGED <<handler_stack_index, stack_owner, frames, owner, start, finish, requester,
                     thread>>
  BY Zenon DEF Install, handshake, dumpVars
<1>4. CASE /\ pc' = [pc EXCEPT ![a] = "stray"]
           /\ UNCHANGED <<handler_stack, life>>
  <2>1. TypeInv'
    BY Zenon, <1>1, <1>3, <1>4 DEF TypeInv, Places, Handling
  <2>2. PlaceInv'
    BY Zenon, <1>1, <1>2, <1>3, <1>4 DEF TypeInv, PlaceInv, Handling, InFrame, Dumping, Updating, Deleting
  <2>3. RouteInv'
    BY Zenon, <1>1, <1>2, <1>3, <1>4 DEF RouteInv
  <2>4. LifeInv'
    BY <1>1, <1>2, <1>3, <1>4 DEF TypeInv, LifeInv, Calling, Deleting
  <2>5. StackInv'
    BY Zenon, <1>1, <1>3, <1>4, StackSteady DEF TypeInv, Deleting
  <2>6. HandshakeInv'
    BY <1>1, <1>2, <1>3, <1>4 DEF TypeInv, HandshakeInv, Waiting, Busy, Current
  <2> QED
    BY Zenon, <2>1, <2>2, <2>3, <2>4, <2>5, <2>6
<1>5. CASE /\ pc' = [pc EXCEPT ![a] = "run"] /\ life' = [life EXCEPT ![h] = "alive"]
           /\ handler_stack' = IF Types[h] = {} THEN handler_stack ELSE Append(handler_stack, h)
  <2>1. TypeInv'
    BY <1>1, <1>3, <1>5 DEF TypeInv, Places
  <2>2. PlaceInv'
    BY Zenon, <1>1, <1>2, <1>3, <1>5 DEF TypeInv, PlaceInv, Handling, InFrame, Dumping, Updating, Deleting
  <2>3. RouteInv'
    BY <1>1, <1>2, <1>3, <1>5, <2>1 DEF TypeInv, RouteInv
  <2>4. LifeInv'
    <3>1. \A b \in Actors \ {a} : pc[b] \in {"ctor"} \cup Deleting => target[b] # h
      BY Zenon, <1>1 DEF LifeInv, Deleting
    <3>2. \A b \in Actors, g \in Handlers : Calling(b, g)' => b # a /\ Calling(b, g)
      BY Zenon, <1>1, <1>3, <1>5 DEF TypeInv, Calling
    <3> QED
      BY <1>1, <1>3, <1>5, <3>1, <3>2 DEF TypeInv, LifeInv, Deleting
  <2>5. StackInv'
    <3>1. ~OnStack(h) /\ Len(handler_stack) \in Nat
      BY <1>1 DEF TypeInv, StackInv, OnStack
    <3>2. \A b \in Actors \ {a} : pc[b] \in Deleting => target[b] # h
      BY Zenon, <1>1 DEF LifeInv, Deleting
    <3>3. CASE Types[h] = {}
      <4>1. handler_stack' = handler_stack
        BY Zenon, <1>5, <3>3
      <4>2. \A g \in Handlers : OnStack(g) => life[g] \in {"alive", "leaving"}
        BY Zenon DEF StackInv, OnStack
      <4> QED
        BY Zenon, <1>1, <1>3, <1>5, <3>1, <3>2, <3>3, <4>1, <4>2, StackKept DEF TypeInv, StackInv, Deleting
    <3>4. CASE Types[h] # {}
      <4>1. /\ Len(handler_stack') = Len(handler_stack) + 1
            /\ handler_stack'[Len(handler_stack) + 1] = h
            /\ \A i \in 1 .. Len(handler_stack) : handler_stack'[i] = handler_stack[i]
        BY <1>1, <1>5, <3>4 DEF TypeInv
      <4>2. \A g : OnStack(g)' <=> OnStack(g) \/ g = h
        BY <3>1, <4>1 DEF OnStack
      <4>3. \A i \in 1 .. Len(handler_stack') :
               /\ life'[handler_stack'[i]] \in {"alive", "leaving"}
               /\ Types[handler_stack'[i]] # {}
        <5>1. TAKE i \in 1 .. Len(handler_stack')
        <5>2. CASE i = Len(handler_stack) + 1
          BY Zenon, <1>1, <1>5, <3>4, <4>1, <5>2 DEF TypeInv
        <5>3. CASE i \in 1 .. Len(handler_stack)
          BY Zenon, <1>1, <1>5, <4>1, <5>3, StackMembers DEF TypeInv, StackInv
        <5> QED
          BY <3>1, <4>1, <5>2, <5>3
      <4>4. \A i, j \in 1 .. Len(handler_stack') : handler_stack'[i] = handler_stack'[j] => i = j
        BY <3>1, <4>1 DEF StackInv, OnStack
      <4> QED
        BY Zenon, <1>1, <1>3, <1>5, <3>2, <4>2, <4>3, <4>4 DEF TypeInv, StackInv, Deleting
    <3> QED
      BY Zenon, <3>3, <3>4
  <2>6. HandshakeInv'
    BY <1>1, <1>2, <1>3, <1>5 DEF TypeInv, HandshakeInv, Waiting, Busy, Current
  <2> QED
    BY Zenon, <2>1, <2>2, <2>3, <2>4, <2>5, <2>6
<1> QED
  BY Zenon, <1>4, <1>5 DEF Install

\* ~ExceptionHandler begins: the handler stays where it is on the stack.
LEMMA DestroyKeeps ==
    ASSUME IInv, NEW a \in Threads, NEW h \in Handlers, Destroy(a, h)
    PROVE  IInv'
<1> DEFINE p == IF Types[h] = {} THEN "terminate" ELSE "dtor"
<1> USE DEF IInv
<1>1. /\ pc[a] = "run" /\ life[h] = "alive" /\ a \in Actors /\ a \notin Handlers
      /\ \A b \in Threads : ~Calling(b, h)
      /\ life' = [life EXCEPT ![h] = "leaving"]
      /\ pc' = [pc EXCEPT ![a] = p] /\ target' = [target EXCEPT ![a] = h]
      /\ p \in Deleting
      /\ UNCHANGED <<handler_stack, handler_stack_index, stack_owner, frames, owner, start,
                     finish, requester, thread>>
  BY Zenon, Distinct DEF Destroy, stackVars, handshake, dumpVars, Actors, Deleting
<1>2. frames[a] = <<>>
  BY Zenon, <1>1 DEF PlaceInv, Handling, InFrame, Dumping
<1>3. p = "terminate" <=> Types[h] = {}
  BY Zenon
<1> HIDE DEF p
<1>4. TypeInv'
  BY Zenon, <1>1 DEF TypeInv, Places
<1>5. PlaceInv'
  BY Zenon, <1>1, <1>2 DEF TypeInv, PlaceInv, Handling, InFrame, Dumping, Updating, Deleting
<1>6. RouteInv'
  BY Zenon, <1>1, <1>2 DEF TypeInv, RouteInv
<1>7. LifeInv'
  <2>1. \A b \in Actors : pc[b] \in {"ctor"} \cup Deleting => target[b] # h
    BY Zenon, <1>1 DEF LifeInv, Deleting
  <2>2. \A b \in Actors : ~Calling(b, h)
    BY <1>1, Distinct DEF PlaceInv, Calling, Actors
  <2>3. \A b \in Actors, g \in Handlers : Calling(b, g)' => b # a /\ Calling(b, g)
    BY Zenon, <1>1 DEF TypeInv, Calling, Deleting
  <2> QED
    BY <1>1, <1>2, <2>1, <2>2, <2>3 DEF TypeInv, LifeInv, Deleting
<1>8. StackInv'
  <2>1. \A g \in Handlers : OnStack(g) => life[g] \in {"alive", "leaving"}
    BY Zenon DEF StackInv, OnStack
  <2>2. IF p = "terminate" THEN ~OnStack(h) ELSE OnStack(h)
    BY Zenon, <1>1, <1>3 DEF StackInv, OnStack
  <2> QED
    BY Zenon, <1>1, <2>1, <2>2, StackKept DEF TypeInv, StackInv
<1>9. HandshakeInv'
  BY <1>1, <1>2 DEF TypeInv, HandshakeInv, Waiting, Busy, Current, Deleting
<1> QED
  BY Zenon, <1>4, <1>5, <1>6, <1>7, <1>8, <1>9

\* What is left of the stack when a handler is taken out of it.
LEMMA TakenOut ==
    ASSUME TypeInv, StackInv, NEW h, OnStack(h)
    PROVE  LET s == StackWithout(h) IN
           /\ s \in Seq(Handlers)
           /\ \A i \in 1 .. Len(s) : s[i] # h /\ \E j \in 1 .. Len(handler_stack) : s[i] = handler_stack[j]
           /\ \A i \in 1 .. Len(handler_stack) : handler_stack[i] # h => \E j \in 1 .. Len(s) : s[j] = handler_stack[i]
           /\ \A i, j \in 1 .. Len(s) : s[i] = s[j] => i = j
<1> DEFINE n == Len(handler_stack)
           at == CHOOSE i \in 1 .. Len(handler_stack) : handler_stack[i] = h
           s == [j \in 1 .. n - 1 |-> handler_stack[IF j < at THEN j ELSE j + 1]]
<1>1. n \in Nat /\ at \in 1 .. n /\ handler_stack[at] = h
  <2>1. n \in Nat
    BY DEF TypeInv
  <2>2. \E i \in 1 .. Len(handler_stack) : handler_stack[i] = h
    BY Zenon DEF OnStack
  <2>3. at \in 1 .. Len(handler_stack) /\ handler_stack[at] = h
    BY <2>2, Zenon
  <2> QED
    BY Zenon, <2>1, <2>3
<1>2. \A i \in 1 .. n : handler_stack[i] \in Handlers /\ (handler_stack[i] = h => i = at)
  BY Zenon, <1>1, StackMembers DEF StackInv
<1>3. StackWithout(h) = s
  BY Zenon DEF StackWithout
<1> HIDE DEF n, at
<1>4. s \in Seq(Handlers) /\ Len(s) = n - 1
  <2>1. \A j \in 1 .. n - 1 : (IF j < at THEN j ELSE j + 1) \in 1 .. n
    BY <1>1
  <2> QED
    BY <1>1, <1>2, <2>1
<1>5. \A i \in 1 .. n - 1 :
         /\ i < at => s[i] = handler_stack[i]
         /\ i >= at => s[i] = handler_stack[i + 1]
  BY <1>1
<1> HIDE DEF s
<1>6. \A i \in 1 .. n - 1 : s[i] # h /\ \E j \in 1 .. n : s[i] = handler_stack[j]
  BY <1>1, <1>2, <1>5
<1>7. \A i \in 1 .. n : handler_stack[i] # h => \E j \in 1 .. n - 1 : s[j] = handler_stack[i]
  <2> SUFFICES ASSUME NEW i \in 1 .. n, handler_stack[i] # h
               PROVE  \E j \in 1 .. n - 1 : s[j] = handler_stack[i]
    BY Zenon
  <2>1. CASE i < at
    BY <1>1, <1>5, <2>1
  <2>2. CASE i > at
    <3>1. i - 1 \in 1 .. n - 1 /\ i - 1 >= at /\ (i - 1) + 1 = i
      BY <1>1, <2>2
    <3> QED
      BY Zenon, <1>5, <3>1
  <2> QED
    BY <1>1, <2>1, <2>2
<1>8. \A i, j \in 1 .. n - 1 : s[i] = s[j] => i = j
  BY <1>1, <1>5 DEF StackInv, n
<1> QED
  BY Zenon, <1>3, <1>4, <1>6, <1>7, <1>8 DEF n

\* ~ExceptionHandler takes its handler out under the section, when nobody is in it.
LEMMA UninstallKeeps ==
    ASSUME IInv, NEW a \in Threads, Uninstall(a)
    PROVE  IInv'
<1> DEFINE h == target[a]
<1> USE DEF IInv
<1>1. /\ pc[a] = "dtor" /\ a \in Actors /\ a \notin Handlers /\ h \in Handlers
      /\ life[h] = "leaving" /\ OnStack(h)
      /\ pc' = [pc EXCEPT ![a] = "terminate"]
      /\ UNCHANGED <<handler_stack_index, stack_owner, life, frames, target, owner, start, finish,
                     requester, thread>>
  BY Zenon, Distinct DEF Uninstall, Actors, PlaceInv, LifeInv, StackInv, Deleting, lifeVars, handshake, dumpVars
<1>2. /\ stack_owner = None /\ handler_stack_index = 0
      /\ \A b \in Actors : frames[b] = <<>>
  BY Zenon, <1>1, NobodyInside DEF Uninstall, Handling, InFrame, Dumping
<1>3. /\ handler_stack' \in Seq(Handlers)
      /\ \A i \in 1 .. Len(handler_stack') :
            handler_stack'[i] # h /\ \E j \in 1 .. Len(handler_stack) : handler_stack'[i] = handler_stack[j]
      /\ \A i \in 1 .. Len(handler_stack) :
            handler_stack[i] # h => \E j \in 1 .. Len(handler_stack') : handler_stack'[j] = handler_stack[i]
      /\ \A i, j \in 1 .. Len(handler_stack') : handler_stack'[i] = handler_stack'[j] => i = j
  BY <1>1, TakenOut DEF Uninstall
<1>4. TypeInv'
  BY Zenon, <1>1, <1>3 DEF TypeInv, Places, Deleting
<1>5. PlaceInv'
  BY Zenon, <1>1, <1>2 DEF TypeInv, PlaceInv, Handling, InFrame, Dumping, Updating, Deleting
<1>6. RouteInv'
  BY <1>1, <1>2, <1>4 DEF TypeInv, RouteInv
<1>7. LifeInv'
  BY <1>1 DEF TypeInv, LifeInv, Calling, Deleting
<1>8. StackInv'
  <2>1. \A g : OnStack(g)' <=> OnStack(g) /\ g # h
    <3> TAKE g
    <3>1. ASSUME OnStack(g)' PROVE OnStack(g) /\ g # h
      <4>1. PICK i \in 1 .. Len(handler_stack') : handler_stack'[i] = g
        BY Zenon, <3>1 DEF OnStack
      <4>2. PICK j \in 1 .. Len(handler_stack) : handler_stack'[i] = handler_stack[j]
        BY Zenon, <1>3
      <4>3. handler_stack'[i] # h
        BY Zenon, <1>3
      <4> QED
        BY Zenon, <4>1, <4>2, <4>3 DEF OnStack
    <3>2. ASSUME OnStack(g), g # h PROVE OnStack(g)'
      <4>1. PICK i \in 1 .. Len(handler_stack) : handler_stack[i] = g
        BY <3>2, Zenon DEF OnStack
      <4>2. PICK j \in 1 .. Len(handler_stack') : handler_stack'[j] = handler_stack[i]
        BY <1>3, <3>2, <4>1, Zenon
      <4> QED
        BY <4>1, <4>2, Zenon DEF OnStack
    <3> QED
      BY Zenon, <3>1, <3>2
  <2>2. \A b \in Actors \ {a} : pc[b] \in Deleting => target[b] # h
    BY Zenon, <1>1 DEF LifeInv, Deleting
  <2>3. \A i \in 1 .. Len(handler_stack') :
           /\ life'[handler_stack'[i]] \in {"alive", "leaving"}
           /\ Types[handler_stack'[i]] # {}
    BY <1>1, <1>3 DEF StackInv
  <2>4. \A g \in Handlers : life[g] = "alive" => g # h
    BY Zenon, <1>1
  <2> QED
    BY Zenon, <1>1, <1>3, <2>1, <2>2, <2>3, <2>4 DEF TypeInv, StackInv, Deleting
<1>9. HandshakeInv'
  BY <1>1, <1>2 DEF TypeInv, HandshakeInv, Waiting, Busy, Current
<1> QED
  BY Zenon, <1>4, <1>5, <1>6, <1>7, <1>8, <1>9

\* The thread of a handler that is off the stack has no request: who waits for
\* it is in the handler, or called its WriteMinidump.
LEMMA TerminatedIsIdle ==
    ASSUME IInv, NEW a \in Actors, pc[a] = "terminate"
    PROVE  ~Busy(target[a])
<1> DEFINE h == target[a]
<1> USE DEF IInv
<1>1. h \in Handlers /\ life[h] = "leaving"
  BY Zenon DEF PlaceInv, LifeInv, Deleting
<1>2. SUFFICES ASSUME Busy(h) PROVE FALSE
  BY Zenon
<1>3. owner[h] # None
  <2>1. (IF Busy(h) THEN 1 ELSE 0) = 1
    BY <1>2, Zenon
  <2>2. start[h] \in {0, 1} /\ finish[h] \in {0, 1}
    BY Zenon, <1>1 DEF TypeInv
  <2>3. start[h] + finish[h] + 1 = IF owner[h] = None THEN 0 ELSE 1
    BY <1>1, <2>1, Zenon DEF HandshakeInv
  <2> QED
    BY <2>2, <2>3
<1>4. PICK b \in Actors : owner[h] = b
  BY Zenon, <1>1, <1>3 DEF TypeInv
<1>5. Waiting(b, h)
  BY Zenon, <1>1, <1>4 DEF HandshakeInv
<1>6. CASE frames[b] = <<>>
  BY Zenon, <1>1, <1>5, <1>6 DEF Waiting, Current, LifeInv, Calling
<1>7. CASE frames[b] # <<>>
  <2>1. stack_owner = b /\ b # None
    BY Zenon, <1>7, Distinct DEF RouteInv, Actors
  <2>2. Len(frames[b]) \in 1 .. Len(handler_stack)
    BY <1>7, <2>1 DEF TypeInv, RouteInv
  <2>3. h = handler_stack[Len(handler_stack) - Len(frames[b]) + 1]
    <3>1. /\ h = frames[b][Len(frames[b])]
          /\ \A i \in 1 .. Len(frames[b]) : frames[b][i] = handler_stack[Len(handler_stack) - i + 1]
      BY Zenon, <1>5, <1>7, <2>1 DEF Waiting, Current, RouteInv
    <3>2. Len(frames[b]) \in 1 .. Len(frames[b])
      BY <2>2 DEF TypeInv
    <3> QED
      BY Zenon, <3>1, <3>2
  <2>4. Len(handler_stack) - Len(frames[b]) + 1 \in 1 .. Len(handler_stack)
    BY <2>2 DEF TypeInv
  <2> QED
    BY Zenon, <2>3, <2>4 DEF StackInv, OnStack
<1> QED
  BY Zenon, <1>6, <1>7

\* ~ExceptionHandler ends a handler thread that nobody waits for.
LEMMA TerminateKeeps ==
    ASSUME IInv, NEW a \in Threads, Terminate(a)
    PROVE  IInv'
<1> DEFINE h == target[a]
<1> USE DEF IInv
<1>1. /\ pc[a] = "terminate" /\ a \in Actors /\ a \notin Handlers /\ h \in Handlers
      /\ life[h] = "leaving"
  BY Zenon, Distinct DEF Terminate, Actors, PlaceInv, LifeInv, Deleting
<1>2. /\ thread' = [thread EXCEPT ![h] = "gone"] /\ life' = [life EXCEPT ![h] = "dead"]
      /\ pc' = [pc EXCEPT ![a] = "run"] /\ target' = [target EXCEPT ![a] = None]
      /\ UNCHANGED <<handler_stack, handler_stack_index, stack_owner, frames, owner, start, finish,
                     requester>>
  BY Zenon DEF Terminate, stackVars, handshake
<1>3. ~Busy(h)
  BY Zenon, <1>1, TerminatedIsIdle
<1>4. frames[a] = <<>>
  BY Zenon, <1>1 DEF PlaceInv, Handling, InFrame, Dumping
<1>5. TypeInv'
  BY Zenon, <1>1, <1>2 DEF TypeInv, Places
<1>6. PlaceInv'
  BY Zenon, <1>1, <1>2, <1>4 DEF TypeInv, PlaceInv, Handling, InFrame, Dumping, Updating, Deleting
<1>7. RouteInv'
  BY Zenon, <1>1, <1>2, <1>4 DEF TypeInv, RouteInv
<1>8. LifeInv'
  <2>1. \A b \in Actors \ {a} : pc[b] \in {"ctor"} \cup Deleting => target[b] # h
    BY Zenon, <1>1 DEF LifeInv, Deleting
  <2>2. \A b \in Actors, g \in Handlers : Calling(b, g)' => b # a /\ Calling(b, g) /\ g # h
    BY Zenon, <1>1, <1>2 DEF TypeInv, Calling, LifeInv
  <2> QED
    BY <1>1, <1>2, <2>1, <2>2 DEF TypeInv, LifeInv, Deleting
<1>9. StackInv'
  <2>1. \A g \in Handlers : OnStack(g) => life[g] \in {"alive", "leaving"}
    BY Zenon DEF StackInv, OnStack
  <2>2. ~OnStack(h)
    BY Zenon, <1>1 DEF StackInv
  <2>3. \A b \in Actors : pc'[b] \in Deleting => pc[b] = pc'[b] /\ target[b] = target'[b]
    BY Zenon, <1>2 DEF TypeInv, Deleting
  <2>4. \A g \in Handlers : g # h => life'[g] = life[g]
    BY Zenon, <1>2 DEF TypeInv
  <2>5. life'[h] = "dead"
    BY Zenon, <1>1, <1>2 DEF TypeInv
  <2> QED
    BY Zenon, <1>2, <2>1, <2>2, <2>3, <2>4, <2>5, StackKept DEF StackInv, Deleting
<1>10. HandshakeInv'
  <2>1. \A b \in Actors, g \in Handlers : Waiting(b, g)' <=> Waiting(b, g)
    BY Zenon, <1>1, <1>2, <1>4 DEF TypeInv, Waiting, Current
  <2>2. \A g \in Handlers : Busy(g)' <=> Busy(g)
    BY Zenon, <1>1, <1>2, <1>3 DEF TypeInv, Busy
  <2> QED
    BY Zenon, <1>2, <2>1, <2>2 DEF HandshakeInv
<1> QED
  BY Zenon, <1>5, <1>6, <1>7, <1>8, <1>9, <1>10

-----------------------------------------------------------------------------
(* HandleException, HandleInvalidParameter and HandlePureVirtualCall.      *)

\* A handler more, and one less, on the stack of a thread's AutoExceptionHandlers.
LEMMA OneMore ==
    ASSUME NEW s \in Seq(Handlers), NEW h \in Handlers
    PROVE  LET r == Append(s, h) IN
           /\ r \in Seq(Handlers) /\ r # <<>> /\ Len(r) = Len(s) + 1 /\ r[Len(s) + 1] = h
           /\ \A i \in 1 .. Len(s) : r[i] = s[i]
OBVIOUS

\* What taking the last handler off a thread's frames does.
LEMMA OneLess ==
    ASSUME NEW s \in Seq(Handlers), s # <<>>
    PROVE  LET r == SubSeq(s, 1, Len(s) - 1) IN
           /\ Len(s) \in Nat \ {0}
           /\ r \in Seq(Handlers) /\ Len(r) = Len(s) - 1
           /\ r = <<>> <=> Len(s) = 1
           /\ \A i \in 1 .. Len(s) - 1 : r[i] = s[i]
<1> DEFINE m == Len(s) - 1
           r == SubSeq(s, 1, m)
<1>1. Len(s) \in Nat \ {0} /\ m \in Nat /\ (m = 0 <=> Len(s) = 1)
  OBVIOUS
<1>2. \A i \in 1 .. m : s[i] \in Handlers
  BY <1>1
<1>3. r = [i \in 1 .. m |-> s[i]]
  BY <1>1
<1> HIDE DEF m, r
<1>4. r \in Seq(Handlers) /\ Len(r) = m
  BY <1>1, <1>2, <1>3
<1>5. r = <<>> <=> m = 0
  BY <1>1, <1>4
<1>6. \A i \in 1 .. m : r[i] = s[i]
  BY Zenon, <1>3
<1> QED
  BY Zenon, <1>1, <1>4, <1>5, <1>6 DEF m, r

\* AutoExceptionHandler takes the next handler down the stack.
LEMMA AutoEnterKeeps ==
    ASSUME IInv, NEW a \in Actors, AutoEnter(a)
    PROVE  IInv'
<1> DEFINE n == Len(handler_stack)
           k == handler_stack_index + 1
           h == handler_stack[n - k + 1]
<1> USE DEF IInv
<1>1. /\ pc[a] = "enter" /\ stack_owner \in {None, a} /\ stack_owner' = a /\ a # None
      /\ UNCHANGED <<handler_stack, life, target, owner, start, finish, requester, thread>>
  BY Zenon, Distinct DEF AutoEnter, MayEnter, lifeVars, handshake, dumpVars, Actors
<1>2. \A b \in Actors : b # a => frames[b] = <<>>
  BY Zenon, <1>1, Distinct DEF RouteInv, Actors
<1>3. /\ n \in Nat /\ handler_stack_index \in 0 .. n
      /\ Len(frames[a]) = handler_stack_index
      /\ \A i \in 1 .. handler_stack_index : frames[a][i] = handler_stack[n - i + 1]
  <2>1. CASE stack_owner = a
    <3>1. /\ handler_stack_index = Len(frames[a]) /\ Len(frames[a]) <= n
          /\ \A i \in 1 .. Len(frames[a]) : frames[a][i] = handler_stack[n - i + 1]
      BY Zenon, <1>1, <2>1 DEF RouteInv
    <3>2. n \in Nat /\ handler_stack_index \in Nat
      BY DEF TypeInv
    <3>3. handler_stack_index \in 0 .. n
      BY <3>1, <3>2
    <3> QED
      BY Zenon, <3>1, <3>2, <3>3
  <2>2. CASE stack_owner = None
    <3>1. frames[a] = <<>> /\ handler_stack_index = 0
      BY Zenon, <1>1, <2>2 DEF RouteInv
    <3> QED
      BY <3>1 DEF TypeInv
  <2> QED
    BY Zenon, <1>1, <2>1, <2>2
<1>4. a \in Handlers => thread[a] \in {"faulted", "gone"}
  BY Zenon, <1>1 DEF PlaceInv
<1>5. CASE /\ pc' = [pc EXCEPT ![a] = "stray"]
           /\ handler_stack_index' \in {handler_stack_index, k}
           /\ UNCHANGED frames
  <2>1. TypeInv'
    BY <1>1, <1>3, <1>5 DEF TypeInv, Places, Handling
  <2>2. PlaceInv'
    BY Zenon, <1>1, <1>4, <1>5 DEF TypeInv, PlaceInv, Handling, InFrame, Dumping, Updating, Deleting
  <2>3. RouteInv'
    <3>1. pc'[a] = "stray" /\ Len(frames[a]) <= n
      BY <1>3, <1>5 DEF TypeInv
    <3> QED
      BY Zenon, <1>1, <1>2, <1>3, <1>5, <3>1 DEF RouteInv
  <2>4. LifeInv'
    BY <1>1, <1>5 DEF TypeInv, LifeInv, Calling, Deleting
  <2>5. StackInv'
    BY Zenon, <1>1, <1>5, StackSteady DEF Deleting
  <2>6. HandshakeInv'
    BY <1>1, <1>5 DEF TypeInv, HandshakeInv, Waiting, Busy, Current
  <2> QED
    BY Zenon, <2>1, <2>2, <2>3, <2>4, <2>5, <2>6
<1>6. CASE /\ k \in 1 .. n
           /\ handler_stack_index' = k
           /\ frames' = [frames EXCEPT ![a] = Append(frames[a], h)]
           /\ pc' = [pc EXCEPT ![a] = "decide"]
  <2>1. h \in Handlers
    BY <1>3, <1>6 DEF TypeInv
  <2>2. /\ frames'[a] = Append(frames[a], h) /\ frames[a] \in Seq(Handlers)
        /\ \A b \in Actors \ {a} : frames'[b] = frames[b]
    BY Zenon, <1>6 DEF TypeInv
  <2>3. /\ Len(frames'[a]) = k /\ frames'[a] # <<>>
        /\ \A i \in 1 .. k : frames'[a][i] = handler_stack[n - i + 1]
    <3>1. /\ Len(frames'[a]) = k /\ frames'[a] # <<>> /\ frames'[a][k] = h
          /\ \A i \in 1 .. handler_stack_index : frames'[a][i] = frames[a][i]
      <4>1. /\ Len(frames'[a]) = Len(frames[a]) + 1 /\ frames'[a] # <<>>
            /\ frames'[a][Len(frames[a]) + 1] = h
            /\ \A i \in 1 .. Len(frames[a]) : frames'[a][i] = frames[a][i]
        BY <2>1, <2>2, OneMore
      <4> QED
        BY <1>3, <4>1, Zenon
    <3>2. \A i \in 1 .. k : i = k \/ i \in 1 .. handler_stack_index
      BY <1>3
    <3> QED
      BY Zenon, <1>3, <3>1, <3>2
  <2> HIDE DEF h
  <2>4. TypeInv'
    BY <1>1, <1>3, <1>6, <2>1 DEF TypeInv, Places, Handling, InFrame
  <2>5. PlaceInv'
    BY Zenon, <1>1, <1>4, <1>6, <2>2, <2>3 DEF TypeInv, PlaceInv, Handling, InFrame, Dumping, Updating, Deleting
  <2>6. RouteInv'
    BY <1>1, <1>2, <1>6, <2>2, <2>3 DEF RouteInv
  <2>7. LifeInv'
    <3>1. \A b \in Actors, g \in Handlers : Calling(b, g)' => Calling(b, g)
      BY Zenon, <1>1, <1>6, <2>2, <2>3 DEF TypeInv, Calling
    <3> QED
      BY <1>1, <1>6, <3>1 DEF TypeInv, LifeInv, Deleting
  <2>8. StackInv'
    BY Zenon, <1>1, <1>6, StackSteady DEF Deleting
  <2>9. HandshakeInv'
    <3>1. \A b \in Actors, g \in Handlers : Waiting(b, g)' <=> Waiting(b, g)
      BY Zenon, <1>1, <1>6, <2>2 DEF TypeInv, Waiting, Current
    <3> QED
      BY Zenon, <1>1, <3>1 DEF HandshakeInv, Busy
  <2> QED
    BY Zenon, <2>4, <2>5, <2>6, <2>7, <2>8, <2>9
<1> QED
  BY Zenon, <1>5, <1>6 DEF AutoEnter, PreIncrement

\* ~AutoExceptionHandler gives the index back.
LEMMA AutoLeaveKeeps ==
    ASSUME IInv, NEW a \in Actors, AutoLeave(a)
    PROVE  IInv'
<1> DEFINE n == Len(frames[a])
<1> USE DEF IInv
<1>1. /\ pc[a] = "leave" /\ frames[a] # <<>> /\ stack_owner = a /\ a # None
      /\ handler_stack_index' = handler_stack_index - 1
      /\ frames' = [frames EXCEPT ![a] = SubSeq(frames[a], 1, n - 1)]
      /\ UNCHANGED <<handler_stack, life, target, owner, start, finish, requester, thread>>
  BY Zenon, Distinct DEF AutoLeave, PostDecrement, PlaceInv, RouteInv, InFrame, lifeVars, handshake,
     dumpVars, Actors
<1>2. /\ frames[a] \in Seq(Handlers) /\ n \in Nat \ {0} /\ n = handler_stack_index
      /\ n <= Len(handler_stack) /\ Len(handler_stack) \in Nat
      /\ \A i \in 1 .. n : frames[a][i] = handler_stack[Len(handler_stack) - i + 1]
      /\ \A b \in Actors : b # a => frames[b] = <<>>
  BY <1>1 DEF TypeInv, RouteInv
<1>3. /\ frames'[a] \in Seq(Handlers) /\ Len(frames'[a]) = n - 1
      /\ n # 1 => frames'[a] # <<>>
      /\ n = 1 => frames'[a] = <<>>
      /\ \A i \in 1 .. n - 1 : frames'[a][i] = frames[a][i]
      /\ \A b \in Actors \ {a} : frames'[b] = frames[b]
  <2>1. frames'[a] = SubSeq(frames[a], 1, n - 1) /\ \A b \in Actors \ {a} : frames'[b] = frames[b]
    BY Zenon, <1>1 DEF TypeInv
  <2>2. frames[a] \in Seq(Handlers) /\ frames[a] # <<>>
    BY Zenon, <1>1, <1>2
  <2> QED
    BY Zenon, <2>1, <2>2, OneLess
<1>4. a \in Handlers => thread[a] \in {"faulted", "gone"}
  BY Zenon, <1>1 DEF PlaceInv
<1>5. PICK p \in {"run", "dying", "leave"} :
         /\ pc' = [pc EXCEPT ![a] = p]
         /\ IF n = 1 THEN p # "leave" /\ stack_owner' = None ELSE p = "leave" /\ stack_owner' = a
  <2>1. CASE n = 1
    BY Zenon, <2>1 DEF AutoLeave
  <2>2. CASE n # 1
    BY Zenon, <1>1, <2>2 DEF AutoLeave, TypeInv
  <2> QED
    BY Zenon, <2>1, <2>2
<1>6. TypeInv'
  BY <1>1, <1>2, <1>3, <1>5 DEF TypeInv, Places, Handling, InFrame
<1>7. PlaceInv'
  BY Zenon, <1>1, <1>3, <1>4, <1>5 DEF TypeInv, PlaceInv, Handling, InFrame, Dumping, Updating, Deleting
<1>8. RouteInv'
  <2>1. handler_stack_index' = n - 1 /\ handler_stack_index' <= Len(handler_stack)
    BY <1>1, <1>2
  <2> DEFINE At(i) == handler_stack[Len(handler_stack) - i + 1]
  <2>2. \A i \in 1 .. n - 1 : frames'[a][i] = At(i)
    <3>1. \A i \in 1 .. n : frames[a][i] = At(i)
      BY Zenon, <1>2
    <3> HIDE DEF At
    <3>2. \A i \in 1 .. n - 1 : i \in 1 .. n
      BY <1>2
    <3> QED
      BY Zenon, <1>3, <3>1, <3>2
  <2> QED
    BY Zenon, <1>1, <1>2, <1>3, <1>5, <2>1, <2>2 DEF RouteInv
<1>9. LifeInv'
  <2>1. \A b \in Actors, g \in Handlers : Calling(b, g)' => Calling(b, g)
    BY Zenon, <1>1, <1>3, <1>5 DEF TypeInv, Calling
  <2> QED
    BY <1>1, <1>5, <2>1 DEF TypeInv, LifeInv, Deleting
<1>10. StackInv'
  BY Zenon, <1>1, <1>5, StackSteady DEF Deleting
<1>11. HandshakeInv'
  <2>1. \A b \in Actors, g \in Handlers : Waiting(b, g)' <=> Waiting(b, g)
    BY Zenon, <1>1, <1>3, <1>5 DEF TypeInv, Waiting, Current
  <2> QED
    BY Zenon, <1>1, <2>1 DEF HandshakeInv, Busy
<1> QED
  BY Zenon, <1>6, <1>7, <1>8, <1>9, <1>10, <1>11

\* The handler that a dump is asked of is one, and it lives where the thread called
\* its WriteMinidump.
LEMMA AskedHandler ==
    ASSUME IInv, NEW a \in Actors, pc[a] \in Dumping
    PROVE  /\ Current(a) \in Handlers
           /\ frames[a] = <<>> => target[a] \in Handlers /\ life[target[a]] = "alive"
<1> USE DEF IInv
<1>1. CASE frames[a] = <<>>
  BY Zenon, <1>1 DEF PlaceInv, LifeInv, Calling, Current, Dumping
<1>2. CASE frames[a] # <<>>
  <2>1. frames[a] \in Seq(Handlers) /\ Len(frames[a]) \in 1 .. Len(frames[a])
    BY <1>2 DEF TypeInv
  <2> QED
    BY <1>2, <2>1 DEF Current
<1> QED
  BY Zenon, <1>1, <1>2

\* A request is in one of its places at most, and in none while nobody is in the
\* handler's section.
LEMMA OnePlace ==
    ASSUME TypeInv, HandshakeInv, NEW h \in Handlers
    PROVE  /\ owner[h] = None => start[h] = 0 /\ finish[h] = 0 /\ ~Busy(h)
           /\ Busy(h) => start[h] = 0 /\ finish[h] = 0
           /\ finish[h] = 1 => start[h] = 0 /\ ~Busy(h)
<1> DEFINE busy == IF Busy(h) THEN 1 ELSE 0
<1>1. start[h] \in {0, 1} /\ finish[h] \in {0, 1} /\ busy \in {0, 1}
  BY Zenon DEF TypeInv
<1>2. start[h] + finish[h] + busy = IF owner[h] = None THEN 0 ELSE 1
  BY Zenon DEF HandshakeInv
<1>3. Busy(h) <=> busy = 1
  OBVIOUS
<1> HIDE DEF busy
<1>4. /\ owner[h] = None => start[h] = 0 /\ finish[h] = 0 /\ busy = 0
      /\ busy = 1 => start[h] = 0 /\ finish[h] = 0
      /\ finish[h] = 1 => start[h] = 0 /\ busy = 0
  BY <1>1, <1>2
<1> QED
  BY <1>3, <1>4

\* A dump request is handed to a handler thread that has none.
LEMMA RequestKeeps ==
    ASSUME IInv, NEW a \in Actors, pc[a] = "request", NEW h, h = Current(a), SectionFree(h),
           thread[h] # "none",
           owner' = [owner EXCEPT ![h] = a], requester' = [requester EXCEPT ![h] = a],
           start' = [start EXCEPT ![h] = 1], pc' = [pc EXCEPT ![a] = "await"],
           UNCHANGED <<handler_stack, handler_stack_index, stack_owner, life, frames, target,
                       finish, thread>>
    PROVE  IInv'
<1> USE DEF IInv
<1>1. h \in Handlers /\ (frames[a] = <<>> => target[a] \in Handlers /\ life[target[a]] = "alive")
  BY Zenon, AskedHandler DEF Dumping
<1>2. a # None /\ owner[h] = None
  BY Zenon, Distinct DEF SectionFree, Actors
<1>3. TypeInv'
  BY Zenon, <1>1 DEF TypeInv, Places, Handling, Dumping
<1>4. PlaceInv'
  BY Zenon, <1>1 DEF TypeInv, PlaceInv, Handling, InFrame, Dumping, Updating, Deleting
<1>5. RouteInv'
  BY Zenon DEF TypeInv, RouteInv
<1>6. LifeInv'
  BY <1>1 DEF TypeInv, LifeInv, Calling, Deleting
<1>7. StackInv'
  BY Zenon, StackSteady DEF Deleting
<1>8. HandshakeInv'
  <2>1. /\ Waiting(a, h)' /\ \A g \in Handlers \ {h} : ~Waiting(a, g)' /\ ~Waiting(a, g)
        /\ \A b \in Actors \ {a}, g \in Handlers : Waiting(b, g)' <=> Waiting(b, g)
    BY Zenon, <1>1 DEF TypeInv, Waiting, Current
  <2>2. \A g \in Handlers : Busy(g)' <=> Busy(g)
    BY Zenon DEF Busy
  <2>3. start[h] = 0 /\ finish[h] = 0 /\ ~Busy(h)
    BY Zenon, <1>1, <1>2, OnePlace
  <2>4. \A b \in Actors : ~Waiting(b, h)
    BY Zenon, <1>1, <1>2, Distinct DEF HandshakeInv, Actors
  <2> QED
    <3> SUFFICES ASSUME NEW g \in Handlers
                 PROVE  /\ start'[g] + finish'[g] + (IF Busy(g)' THEN 1 ELSE 0)
                              = IF owner'[g] = None THEN 0 ELSE 1
                        /\ owner'[g] = requester'[g]
                        /\ \A b \in Actors : Waiting(b, g)' <=> owner'[g] = b
      BY Zenon DEF HandshakeInv
    <3>1. CASE g = h
      <4>1. start'[g] = 1 /\ finish'[g] = 0 /\ owner'[g] = a /\ requester'[g] = a
        BY Zenon, <1>1, <2>3, <3>1 DEF TypeInv
      <4>2. (IF Busy(g)' THEN 1 ELSE 0) = 0
        BY <2>2, <2>3, <3>1, Zenon
      <4>3. start'[g] + finish'[g] + 0 = 1
        BY <4>1
      <4> QED
        BY <1>2, <2>1, <2>4, <3>1, <4>1, <4>2, <4>3, Zenon
    <3>2. CASE g # h
      <4>1. /\ start'[g] = start[g] /\ finish'[g] = finish[g] /\ owner'[g] = owner[g]
            /\ requester'[g] = requester[g]
        BY Zenon, <1>1, <3>2 DEF TypeInv
      <4>2. \A b \in Actors : Waiting(b, g)' <=> Waiting(b, g)
        BY <2>1, <3>2, Zenon
      <4> QED
        BY <2>2, <4>1, <4>2, Zenon DEF HandshakeInv
    <3> QED
      BY Zenon, <3>1, <3>2
<1> QED
  BY Zenon, <1>3, <1>4, <1>5, <1>6, <1>7, <1>8

\* The places that an answer leads to.
LEMMA AnswerPlace ==
    ASSUME IInv, NEW a \in Actors, pc[a] \in Dumping, NEW ok, Answer(a, ok)
    PROVE  \E p \in {"run", "update", "execute", "pass"} :
              /\ pc' = [pc EXCEPT ![a] = p]
              /\ p \in InFrame <=> frames[a] # <<>>
BY Zenon DEF Answer, InFrame

\* The thread that made the request takes the answer to it.
LEMMA AwaitKeeps ==
    ASSUME IInv, NEW a \in Actors, Await(a)
    PROVE  IInv'
<1> DEFINE h == Current(a)
<1> USE DEF IInv
<1>1. /\ h \in Handlers /\ pc[a] = "await" /\ finish[h] = 1
      /\ frames[a] = <<>> => target[a] \in Handlers /\ life[target[a]] = "alive"
  BY Zenon, AskedHandler DEF Await, Dumping
<1>2. /\ finish' = [finish EXCEPT ![h] = 0] /\ requester' = [requester EXCEPT ![h] = None]
      /\ owner' = [owner EXCEPT ![h] = None]
      /\ UNCHANGED <<handler_stack, handler_stack_index, stack_owner, life, frames, target,
                     start, thread>>
  BY Zenon DEF Await, stackVars, lifeVars, dumpVars
<1>3. PICK p \in {"run", "update", "execute", "pass"} :
         /\ pc' = [pc EXCEPT ![a] = p]
         /\ p \in InFrame <=> frames[a] # <<>>
  <2>1. Answer(a, h \in returned)
    BY Zenon DEF Await
  <2> QED
    BY Zenon, <1>1, <2>1, AnswerPlace DEF Dumping
<1>4. a \in Handlers => target[a] = None /\ thread[a] \in {"faulted", "gone"}
  BY Zenon, <1>1 DEF PlaceInv
<1>5. TypeInv'
  BY Zenon, <1>1, <1>2, <1>3 DEF TypeInv, Places, Handling, InFrame, Updating
<1>6. PlaceInv'
  BY Zenon, <1>1, <1>2, <1>3, <1>4 DEF TypeInv, PlaceInv, Handling, InFrame, Dumping, Updating, Deleting
<1>7. RouteInv'
  BY Zenon, <1>1, <1>2, <1>3 DEF TypeInv, RouteInv
<1>8. LifeInv'
  BY <1>1, <1>2, <1>3 DEF TypeInv, LifeInv, Calling, Deleting
<1>9. StackInv'
  BY Zenon, <1>2, <1>3, StackSteady DEF Deleting
<1>10. HandshakeInv'
  <2>1. owner[h] = a /\ \A b \in Actors \ {a} : ~Waiting(b, h)
    BY <1>1 DEF HandshakeInv, Waiting
  <2>2. /\ \A g \in Handlers : ~Waiting(a, g)' /\ (g # h => ~Waiting(a, g))
        /\ \A b \in Actors \ {a}, g \in Handlers : Waiting(b, g)' <=> Waiting(b, g)
    BY Zenon, <1>1, <1>2, <1>3 DEF TypeInv, Waiting, Current
  <2>3. \A g \in Handlers : Busy(g)' <=> Busy(g)
    BY Zenon, <1>2 DEF Busy
  <2>4. start[h] = 0 /\ ~Busy(h)
    BY Zenon, <1>1, OnePlace
  <2>5. \A b \in Actors : b # None
    BY Zenon, Distinct DEF Actors
  <2> QED
    <3> SUFFICES ASSUME NEW g \in Handlers
                 PROVE  /\ start'[g] + finish'[g] + (IF Busy(g)' THEN 1 ELSE 0)
                              = IF owner'[g] = None THEN 0 ELSE 1
                        /\ owner'[g] = requester'[g]
                        /\ \A b \in Actors : Waiting(b, g)' <=> owner'[g] = b
      BY Zenon DEF HandshakeInv
    <3>1. CASE g = h
      <4>1. start'[g] = 0 /\ finish'[g] = 0 /\ owner'[g] = None /\ requester'[g] = None
        BY Zenon, <1>1, <1>2, <2>4, <3>1 DEF TypeInv
      <4>2. (IF Busy(g)' THEN 1 ELSE 0) = 0
        BY <2>3, <2>4, <3>1, Zenon
      <4>3. start'[g] + finish'[g] + 0 = 0
        BY <4>1
      <4> QED
        BY <2>1, <2>2, <2>5, <3>1, <4>1, <4>2, <4>3, Zenon
    <3>2. CASE g # h
      <4>1. /\ start'[g] = start[g] /\ finish'[g] = finish[g] /\ owner'[g] = owner[g]
            /\ requester'[g] = requester[g]
        BY Zenon, <1>1, <1>2, <3>2 DEF TypeInv
      <4>2. \A b \in Actors : Waiting(b, g)' <=> Waiting(b, g)
        BY <2>2, <3>2, Zenon
      <4> QED
        BY <2>3, <4>1, <4>2, Zenon DEF HandshakeInv
    <3> QED
      BY Zenon, <3>1, <3>2
<1> QED
  BY Zenon, <1>5, <1>6, <1>7, <1>8, <1>9, <1>10

\* A fault in the callback, on the handler thread, waits at the section.
LEMMA CallbackFaultsKeeps ==
    ASSUME IInv, NEW h \in Handlers, CallbackFaults(h)
    PROVE  IInv'
<1> USE DEF IInv
<1>1. /\ thread[h] = "callback" /\ pc[h] = "idle" /\ frames[h] = <<>> /\ h \in Actors
      /\ target[h] = None
      /\ thread' = [thread EXCEPT ![h] = "faulted"]
      /\ UNCHANGED <<handler_stack, handler_stack_index, stack_owner, life, frames, target,
                     owner, start, finish, requester>>
  BY Zenon DEF CallbackFaults, PlaceInv, Actors, Handling, InFrame, Dumping, stackVars, lifeVars, handshake
<1>2. PICK p \in {"enter", "dying"} : pc' = [pc EXCEPT ![h] = p]
  BY Zenon DEF CallbackFaults, Raise
<1>3. TypeInv'
  BY Zenon, <1>1, <1>2 DEF TypeInv, Places, Handling
<1>4. PlaceInv'
  BY Zenon, <1>1, <1>2 DEF TypeInv, PlaceInv, Handling, InFrame, Dumping, Updating, Deleting
<1>5. RouteInv'
  BY Zenon, <1>1, <1>2 DEF TypeInv, RouteInv
<1>6. LifeInv'
  BY <1>1, <1>2 DEF TypeInv, LifeInv, Calling, Deleting
<1>7. StackInv'
  BY Zenon, <1>1, <1>2, StackSteady DEF Deleting
<1>8. HandshakeInv'
  <2>1. \A g \in Handlers : Busy(g)' <=> Busy(g)
    BY Zenon, <1>1 DEF TypeInv, Busy
  <2>2. \A b \in Actors, g \in Handlers : Waiting(b, g)' <=> Waiting(b, g)
    BY Zenon, <1>1, <1>2 DEF TypeInv, Waiting, Current
  <2> QED
    BY <1>1, <2>1, <2>2, Zenon DEF HandshakeInv
<1> QED
  BY Zenon, <1>3, <1>4, <1>5, <1>6, <1>7, <1>8

\* The other steps of a handler function move a thread from place to place.
LEMMA HandlerStepKeeps ==
    ASSUME IInv, NEW a \in Actors,
           \/ HandleException(a) \/ HandleInvalidParameter(a) \/ HandlePureVirtualCall(a)
           \/ Direct(a) \/ (Request(a) /\ thread[Current(a)] = "none")
           \/ ExceptionAction(a) \/ InvalidParameterEnd(a) \/ PureVirtualCallEnd(a)
    PROVE  IInv'
<1> USE DEF IInv
<1>1. /\ UNCHANGED <<handler_stack, handler_stack_index, stack_owner, life, frames, target, owner,
                     start, finish, requester, thread>>
      /\ pc[a] \in {"decide", "direct", "request", "execute", "pass"}
  BY Zenon DEF HandleException, HandleInvalidParameter, HandlePureVirtualCall, Direct, Request,
     ExceptionAction, InvalidParameterEnd, PureVirtualCallEnd, stackVars, lifeVars, handshake, dumpVars
<1>2. /\ target \in [Actors -> Handlers \cup {None}] /\ target[a] \in Handlers \cup {None}
      /\ target' = [target EXCEPT ![a] = target[a]]
      /\ pc \in [Actors -> Places] /\ pc = [pc EXCEPT ![a] = pc[a]]
      /\ a \in Handlers => target[a] = None
  BY Zenon, <1>1 DEF TypeInv, PlaceInv
<1>3. pc[a] \in InFrame => frames[a] # <<>>
  BY Zenon DEF PlaceInv
<1>4. pc[a] \in Dumping /\ frames[a] = <<>> => target[a] \in Handlers /\ life[target[a]] = "alive"
  BY Zenon, AskedHandler
<1>5. ASSUME NEW p \in {"leave", "pass", "direct", "request", "enter", "execute"},
             frames[a] # <<>>, pc' = [pc EXCEPT ![a] = p]
      PROVE  IInv'
  BY Zenon, <1>1, <1>2, <1>5, Moves DEF Places, Handling, InFrame, Dumping, Deleting
<1>6. ASSUME NEW ok, pc[a] \in Dumping, Answer(a, ok)
      PROVE  IInv'
  <2>1. PICK p \in {"run", "update", "execute", "pass"} :
           pc' = [pc EXCEPT ![a] = p] /\ (p \in InFrame <=> frames[a] # <<>>)
    BY Zenon, <1>6, AnswerPlace
  <2> QED
    BY Zenon, <1>1, <1>2, <1>4, <1>6, <2>1, Moves DEF Places, Handling, InFrame, Dumping, Updating, Deleting
<1>7. CASE HandleException(a)
  <2>1. PICK p \in {"leave", "pass", "direct", "request"} : pc' = [pc EXCEPT ![a] = p]
    BY Zenon, <1>7 DEF HandleException, AskForDump
  <2> QED
    BY Zenon, <1>3, <1>5, <1>7, <2>1 DEF HandleException, InFrame
<1>8. CASE HandleInvalidParameter(a) \/ HandlePureVirtualCall(a)
  <2>1. PICK p \in {"direct", "request"} : pc' = [pc EXCEPT ![a] = p]
    BY Zenon, <1>8 DEF HandleInvalidParameter, HandlePureVirtualCall, AskForDump
  <2> QED
    BY Zenon, <1>3, <1>5, <1>8, <2>1 DEF HandleInvalidParameter, HandlePureVirtualCall, InFrame
<1>9. CASE Direct(a)
  BY <1>6, <1>9 DEF Direct, Dumping
<1>10. CASE Request(a) /\ thread[Current(a)] = "none"
  <2>1. Answer(a, FALSE) /\ pc[a] \in Dumping
    BY Zenon, <1>10 DEF Request, Dumping
  <2> QED
    BY Zenon, <1>6, <2>1
<1>11. CASE ExceptionAction(a) \/ InvalidParameterEnd(a) \/ PureVirtualCallEnd(a)
  <2>1. pc[a] \in {"execute", "pass"}
    BY Zenon, <1>11 DEF ExceptionAction, InvalidParameterEnd, PureVirtualCallEnd
  <2>2. PICK p \in {"leave", "enter", "execute", "pass"} : pc' = [pc EXCEPT ![a] = p]
    BY Zenon, <1>2, <1>11, <2>1 DEF ExceptionAction, InvalidParameterEnd, PureVirtualCallEnd
  <2> QED
    BY Zenon, <1>3, <1>5, <2>1, <2>2 DEF InFrame
<1> QED
  BY Zenon, <1>7, <1>8, <1>9, <1>10, <1>11

-----------------------------------------------------------------------------
(* ExceptionHandlerThreadMain, and the program's threads.                  *)

\* The steps of a handler thread.
LEMMA HandlerThreadKeeps ==
    ASSUME IInv, NEW h \in Handlers, HandlerThread(h)
    PROVE  IInv'
<1> USE DEF IInv
<1>1. UNCHANGED <<handler_stack, handler_stack_index, stack_owner, life, pc, frames, target, owner,
                  requester>>
  BY Zenon DEF HandlerThread, Wake, Decline, CreateDump, WriteDump, Callback, Release, stackVars, lifeVars,
     actorVars, handshake
<1>2. start[h] \in {0, 1} /\ finish[h] \in {0, 1}
  BY Zenon DEF TypeInv
<1>3. CASE Wake(h)
  <2>1. /\ thread[h] = "wait" /\ start[h] = 1 /\ start' = [start EXCEPT ![h] = 0]
        /\ finish' = [finish EXCEPT ![h] = finish[h]] /\ thread' = [thread EXCEPT ![h] = "filter"]
    BY Zenon, <1>3 DEF Wake, TypeInv
  <2>2. 0 + finish[h] + (IF "filter" = "wait" THEN 0 ELSE 1)
           = start[h] + finish[h] + (IF thread[h] = "wait" THEN 0 ELSE 1)
    BY <1>2, <2>1
  <2> QED
    BY <1>1, <1>2, <2>1, <2>2, ThreadMoves, Zenon
<1>4. CASE Release(h)
  <2>1. /\ thread[h] = "release" /\ finish' = [finish EXCEPT ![h] = 1]
        /\ start' = [start EXCEPT ![h] = start[h]] /\ thread' = [thread EXCEPT ![h] = "wait"]
    BY Zenon, <1>4 DEF Release, TypeInv
  <2>2. finish[h] = 0
    BY Zenon, <2>1, OnePlace DEF Busy
  <2>3. start[h] + 1 + (IF "wait" = "wait" THEN 0 ELSE 1)
           = start[h] + finish[h] + (IF thread[h] = "wait" THEN 0 ELSE 1)
    BY <1>2, <2>1, <2>2
  <2> QED
    BY <1>1, <1>2, <2>1, <2>3, ThreadMoves, Zenon
<1>5. CASE Decline(h) \/ CreateDump(h) \/ WriteDump(h) \/ Callback(h)
  <2>1. /\ thread[h] \in {"filter", "dump", "callback"}
        /\ \E t \in {"dump", "callback", "release"} : thread' = [thread EXCEPT ![h] = t]
        /\ start' = [start EXCEPT ![h] = start[h]] /\ finish' = [finish EXCEPT ![h] = finish[h]]
    BY Zenon, <1>5 DEF Decline, CreateDump, WriteDump, Callback, handshake, TypeInv
  <2>2. PICK t \in {"dump", "callback", "release"} : thread' = [thread EXCEPT ![h] = t]
    BY Zenon, <2>1
  <2> QED
    BY Zenon, <1>1, <1>2, <2>1, <2>2, ThreadMoves
<1> QED
  BY Zenon, <1>3, <1>4, <1>5 DEF HandlerThread

\* The steps of a thread of the program that touch neither stack nor requests.
LEMMA ProgramKeeps ==
    ASSUME IInv, NEW a \in Threads, Program(a)
    PROVE  IInv'
<1> USE DEF IInv
<1>1. /\ UNCHANGED <<handler_stack, handler_stack_index, stack_owner, life, frames, owner, start,
                     finish, requester, thread>>
      /\ a \in Actors /\ a \notin Handlers /\ pc[a] \in {"run", "update", "updating"}
  BY Zenon, Distinct DEF Program, Crash, WriteMinidump, UpdateNextID, stackVars, lifeVars, handshake,
     dumpVars, Actors
<1>2. frames[a] = <<>>
  BY Zenon, <1>1 DEF PlaceInv, Handling, InFrame, Dumping
<1>3. target[a] \in Handlers \cup {None} /\ target = [target EXCEPT ![a] = target[a]]
  BY Zenon, <1>1 DEF TypeInv
<1>4. CASE \E e \in Events : Crash(a, e)
  <2>1. PICK p \in {"enter", "dying"} : pc' = [pc EXCEPT ![a] = p]
    BY Zenon, <1>4 DEF Crash, Raise
  <2>2. target' = [target EXCEPT ![a] = target[a]]
    BY Zenon, <1>3, <1>4 DEF Crash
  <2> QED
    BY Zenon, <1>1, <1>2, <1>3, <2>1, <2>2, Moves DEF Places, Handling, InFrame, Dumping, Updating, Deleting
<1>5. CASE \E h \in Handlers : WriteMinidump(a, h)
  <2>1. PICK h \in Handlers : WriteMinidump(a, h)
    BY Zenon, <1>5
  <2>2. PICK p \in {"direct", "request"} : pc' = [pc EXCEPT ![a] = p]
    BY Zenon, <2>1 DEF WriteMinidump
  <2>3. life[h] = "alive" /\ target' = [target EXCEPT ![a] = h]
    BY Zenon, <2>1 DEF WriteMinidump
  <2> QED
    BY Zenon, <1>1, <1>2, <2>2, <2>3, Moves DEF Places, Handling, InFrame, Dumping, Updating, Deleting
<1>6. CASE UpdateNextID(a)
  <2>1. CASE pc[a] = "update" /\ pc' = [pc EXCEPT ![a] = "updating"] /\ UNCHANGED target
    <3>1. target[a] \in Handlers /\ life[target[a]] = "alive"
      BY Zenon, <1>1, <1>2, <2>1 DEF PlaceInv, LifeInv, Calling, Updating
    <3> QED
      BY Zenon, <1>1, <1>2, <1>3, <2>1, <3>1, Moves DEF Places, Handling, InFrame, Dumping, Updating, Deleting
  <2>2. CASE pc' = [pc EXCEPT ![a] = "run"] /\ target' = [target EXCEPT ![a] = None]
    BY Zenon, <1>1, <1>2, <2>2, Moves DEF Places, Handling, InFrame, Dumping, Updating, Deleting
  <2> QED
    BY Zenon, <1>6, <2>1, <2>2 DEF UpdateNextID
<1> QED
  BY Zenon, <1>4, <1>5, <1>6 DEF Program

-----------------------------------------------------------------------------
LEMMA Preserved == IInv /\ [Next]_vars => IInv'
<1> SUFFICES ASSUME IInv, [Next]_vars PROVE IInv'
  BY Zenon
<1>1. ASSUME NEW h \in Handlers, HandlerThread(h) \/ CallbackFaults(h) PROVE IInv'
  BY Zenon, <1>1, HandlerThreadKeeps, CallbackFaultsKeeps
<1>2. ASSUME NEW a \in Actors, InHandler(a) PROVE IInv'
  <2>1. CASE AutoEnter(a) \/ Await(a) \/ AutoLeave(a)
    BY Zenon, <2>1, AutoEnterKeeps, AwaitKeeps, AutoLeaveKeeps
  <2>2. CASE Request(a) /\ thread[Current(a)] # "none"
    <3>1. /\ pc[a] = "request" /\ SectionFree(Current(a))
          /\ owner' = [owner EXCEPT ![Current(a)] = a]
          /\ requester' = [requester EXCEPT ![Current(a)] = a]
          /\ start' = [start EXCEPT ![Current(a)] = 1]
          /\ pc' = [pc EXCEPT ![a] = "await"]
          /\ UNCHANGED <<handler_stack, handler_stack_index, stack_owner, life, frames, target,
                         finish, thread>>
      BY Zenon, <2>2 DEF Request, stackVars, lifeVars, dumpVars
    <3> QED
      BY Zenon, <2>2, <3>1, RequestKeeps
  <2>3. CASE \/ HandleException(a) \/ HandleInvalidParameter(a) \/ HandlePureVirtualCall(a)
             \/ Direct(a) \/ (Request(a) /\ thread[Current(a)] = "none")
             \/ ExceptionAction(a) \/ InvalidParameterEnd(a) \/ PureVirtualCallEnd(a)
    BY Zenon, <2>3, HandlerStepKeeps
  <2> QED
    BY <1>2, <2>1, <2>2, <2>3, Zenon DEF InHandler
<1>3. ASSUME NEW a \in Threads, Lifetime(a) PROVE IInv'
  BY Zenon, <1>3, ConstructKeeps, DestroyKeeps, InstallKeeps, UninstallKeeps, TerminateKeeps DEF Lifetime
<1>4. ASSUME NEW a \in Threads, Program(a) PROVE IInv'
  BY Zenon, <1>4, ProgramKeeps
<1>5. CASE ProcessExit \/ UNCHANGED vars
  <2>1. UNCHANGED <<handler_stack, handler_stack_index, stack_owner, life, pc, frames, target, owner,
                    start, finish, requester, thread>>
    BY Zenon, <1>5 DEF ProcessExit, vars, stackVars, lifeVars, actorVars, handshake, dumpVars
  <2>2. TypeInv' /\ PlaceInv' /\ RouteInv'
    BY Zenon, <2>1 DEF IInv, TypeInv, PlaceInv, RouteInv
  <2>3. LifeInv' /\ StackInv'
    BY <2>1 DEF IInv, LifeInv, StackInv, OnStack, Calling
  <2>4. HandshakeInv'
    <3>1. \A g \in Handlers : Busy(g)' <=> Busy(g)
      BY Zenon, <2>1 DEF Busy
    <3>2. \A b \in Actors, g \in Handlers : Waiting(b, g)' <=> Waiting(b, g)
      BY Zenon, <2>1 DEF Waiting, Current
    <3> QED
      BY <2>1, <3>1, <3>2, Zenon DEF IInv, HandshakeInv
  <2> QED
    BY Zenon, <2>2, <2>3, <2>4 DEF IInv
<1> QED
  BY Zenon, <1>1, <1>2, <1>3, <1>4, <1>5 DEF Next, Ended

\* The invariant says what the property asks for.
LEMMA Implied == IInv => CrashIsHandled
<1> SUFFICES ASSUME IInv PROVE CrashIsHandled
  BY Zenon
<1> USE DEF IInv
<1>1. OneRequestInFlight
  BY Zenon DEF OneRequestInFlight, HandshakeInv
<1>2. RoutedDownTheStack
  <2> DEFINE topmost == [i \in 1 .. Len(frames[stack_owner]) |->
                            handler_stack[Len(handler_stack) - i + 1]]
  <2>1. ASSUME stack_owner # None PROVE frames[stack_owner] = topmost
    <3>1. stack_owner \in Actors /\ frames[stack_owner] \in Seq(Handlers)
      BY Zenon, <2>1 DEF TypeInv
    <3>2. /\ DOMAIN frames[stack_owner] = 1 .. Len(frames[stack_owner])
          /\ \A i \in 1 .. Len(frames[stack_owner]) : frames[stack_owner][i] = topmost[i]
      BY <2>1, <3>1 DEF RouteInv
    <3>3. frames[stack_owner] = [i \in DOMAIN frames[stack_owner] |-> frames[stack_owner][i]]
      BY <3>1
    <3> QED
      BY Zenon, <3>2, <3>3
  <2> QED
    BY Zenon, <2>1 DEF RoutedDownTheStack, RouteInv
<1>3. UsedHandlerLives
  <2> SUFFICES ASSUME NEW a \in Actors, NEW i \in DOMAIN frames[a]
               PROVE  /\ life[frames[a][i]] \in {"alive", "leaving"}
                      /\ thread[frames[a][i]] # "gone"
    BY Zenon DEF UsedHandlerLives
  <2>1. frames[a] \in Seq(Handlers) /\ Len(frames[a]) \in Nat /\ i \in 1 .. Len(frames[a])
    BY DEF TypeInv
  <2>2. frames[a] # <<>> /\ stack_owner = a /\ a # None
    BY <2>1, Distinct DEF RouteInv, Actors
  <2>3. /\ Len(frames[a]) <= Len(handler_stack)
        /\ frames[a][i] = handler_stack[Len(handler_stack) - i + 1]
    BY Zenon, <2>1, <2>2 DEF RouteInv
  <2>4. Len(handler_stack) - i + 1 \in 1 .. Len(handler_stack)
    BY <2>1, <2>3 DEF TypeInv
  <2>5. life[frames[a][i]] \in {"alive", "leaving"} /\ frames[a][i] \in Handlers
    BY Zenon, <2>3, <2>4, StackMembers DEF StackInv
  <2> QED
    BY Zenon, <2>5 DEF LifeInv
<1> QED
  BY Zenon, <1>1, <1>2, <1>3 DEF CrashIsHandled

\* For any handlers, threads, callbacks that fault, events and order of deletion:
\* a dump request is with one handler thread while the thread that made it waits;
\* a crash goes down the handler stack under its lock; and ~ExceptionHandler ends
\* no handler that a crash is in.
THEOREM CrashesAreHandled == Spec => []CrashIsHandled
<1>1. IInv => CrashIsHandled
  BY Zenon, Implied
<1> QED
  BY <1>1, Initially, Preserved, PTL DEF Spec
=============================================================================
