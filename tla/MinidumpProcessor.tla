------------------------- MODULE MinidumpProcessor -------------------------
(***************************************************************************)
(* processor/minidump_processor.cc: from the streams of a dump to a        *)
(* ProcessState: who crashed, which stack is whose, and what the state may *)
(* still point to when the dump is gone.                                   *)
(*                                                                         *)
(* A dump gives what minidump.cc makes of its streams; an optional part is *)
(* a sequence of at most one value.  A thread is [got, id, context,        *)
(* memory, start]: got is "null" or "noid" for one that cannot be used     *)
(* (GetThreadAtIndex and GetThreadID are virtual); context is "null",      *)
(* "known" or "unknown" by its CPU; memory is whether the stack itself can *)
(* be read; start is where it begins, for the list of all memory regions.  *)
(***************************************************************************)
EXTENDS Integers, Sequences

CONSTANTS
    Dumps,                  \* the dumps that may be processed
    enable_exploitability_,
    Engines,                \* platforms that have an exploitability engine
    MaxProcess              \* bound: calls of Process

VARIABLES
    phase,      \* "idle" or, in Process, "threads"
    dump,       \* the dump last given to Process
    ours,       \* Process made the Minidump itself, and deletes it
    thread_index, found_requesting_thread, interrupted,
    state,      \* the ProcessState, which callers use again
    result,     \* what the last Process returned
    live,       \* the module lists that exist: <<"dump" or "state", call>>
    calls,      \* calls of Process
    carried     \* history: regions that were in the state when Process began

vars == <<phase, dump, ours, thread_index, found_requesting_thread, interrupted, state, result, live, calls, carried>>

None == <<>>

\* What ProcessState() leaves: the rating is not set by anyone.
Fresh == [crashed |-> FALSE, reason |-> "", address |-> "zero", requesting_thread |-> -1,
          threads |-> <<>>, regions |-> <<>>, modules |-> None, without_symbols |-> {},
          cpu |-> "", os_short |-> "", create_time |-> FALSE, exploitability |-> "unset"]

Init ==
    /\ phase = "idle" /\ dump = (CHOOSE d \in Dumps : TRUE) /\ ours = FALSE
    /\ thread_index = 0 /\ found_requesting_thread = FALSE /\ interrupted = FALSE
    /\ state = Fresh /\ result = "none" /\ live = {} /\ calls = 0 /\ carried = 0

-----------------------------------------------------------------------------
\* Neither the memory regions nor the rating are among what is cleared.
Clear(s) == [Fresh EXCEPT !.regions = s.regions, !.exploitability = s.exploitability]

\* GetCPUInfo names the processor, GetOS the system.
CPUName(arch) ==
    CASE arch \in {"x86", "amd64", "ppc", "ppc64", "sparc", "arm", "arm64", "mips"} -> arch
      [] OTHER -> "number"

GetOS(platform) ==
    CASE platform \in {"win32_nt", "win32_windows"} -> "windows"
      [] platform = "unknown" -> ""
      [] OTHER -> platform

\* On Windows the second parameter of an access violation and of an in-page
\* error is the address of the data.
Address(e, system) ==
    IF /\ system # <<>> /\ GetOS(system[1].platform) = "windows"
       /\ e.code \in {"access_violation", "in_page_error"} /\ e.parameters >= 2
    THEN "data" ELSE "code"

\* A number unless the platform names the code; NaCl has no names.
GetCrashReason(e, system) ==
    IF system = <<>> \/ GetOS(system[1].platform) \in {"", "nacl"} \/ e.code = "other" THEN "number" ELSE e.code

Has(opt) == opt # <<>>

\* The thread that asked for the dump: the one that crashed, if one did.
RequestingID(d) == IF Has(d.exception) THEN <<d.exception[1].thread>> ELSE d.requesting

\* Everything up to the threads.
Started(s, d) ==
    [Clear(s) EXCEPT !.create_time = d.create_time,
                     !.cpu = IF Has(d.system) THEN CPUName(d.system[1].arch) ELSE "",
                     !.os_short = IF Has(d.system) THEN GetOS(d.system[1].platform) ELSE "",
                     !.crashed = Has(d.exception),
                     !.reason = IF Has(d.exception) THEN GetCrashReason(d.exception[1], d.system) ELSE "",
                     !.address = IF Has(d.exception) THEN Address(d.exception[1], d.system) ELSE "zero",
                     !.modules = IF d.modules THEN <<"state", calls + 1>> ELSE None]

\* The module lists there are, once state s has let go of its own.
Left(s) == live \ {s.modules}

\* A Minidump that Process made goes with its lists.
Gone(L, o) == IF o THEN {m \in L : m[1] # "dump" \/ m[2] # calls} ELSE L

\* Process(Minidump*): no header, no thread list, or on to the threads.
Process(d, o) ==
    /\ calls' = calls + 1 /\ dump' = d /\ ours' = o /\ carried' = Len(state.regions)
    /\ thread_index' = 0 /\ found_requesting_thread' = FALSE /\ interrupted' = FALSE
    /\ \/ /\ o /\ ~d.readable
          /\ result' = "MINIDUMP_NOT_FOUND"
          /\ UNCHANGED <<phase, state, live>>
       \/ /\ ~d.readable /\ ~o
          /\ result' = "NO_MINIDUMP_HEADER"
          /\ state' = Clear(state) /\ live' = Left(state)
          /\ UNCHANGED phase
       \/ /\ d.readable
          /\ state' = Started(state, d)
          /\ LET lists == IF d.modules THEN {<<"state", calls + 1>>} \cup (IF o /\ ~Has(d.threads) THEN {} ELSE {<<"dump", calls + 1>>})
                          ELSE {}
             IN  live' = Left(state) \cup lists
          /\ IF Has(d.threads) THEN phase' = "threads" /\ UNCHANGED result
             ELSE result' = "NO_THREAD_LIST" /\ UNCHANGED phase

-----------------------------------------------------------------------------
Threads == dump.threads[1]
Thread == Threads[thread_index + 1]

Skipped(t) == dump.dump_thread = <<t.id>>

Requesting(t) == RequestingID(dump) = <<t.id>>

\* Mutant: where the thread is in the dump.
InTheDump(s) == thread_index

\* Where the thread will be in the state.
IndexOf(s) == Len(s.threads)

\* The context to walk from.
Context(t) ==
    IF Requesting(t) /\ state.crashed /\ dump.exception[1].context # "null"
    THEN [from |-> "exception", kind |-> dump.exception[1].context]
    ELSE [from |-> "thread", kind |-> t.context]

\* The stack, where it was read or in the list of all regions.
Memory(t) ==
    IF t.memory THEN <<"thread", calls, thread_index>>
    ELSE IF t.start \in dump.memory THEN <<"list", calls, t.start>> ELSE None

\* The walk uses the copy that the state owns.
WalkList(s) == s.modules

AppendRegion(regions, r) == Append(regions, r)

Return(r) ==
    /\ result' = r
    /\ phase' = "idle"
    /\ live' = Gone(live, ours)

\* One thread.  A walk is cut short when the symbol supplier asks for it.
WalkThread(cut, symbols) ==
    /\ phase = "threads" /\ thread_index < Len(Threads)
    /\ LET t == Thread
           c == Context(t)
           walks == c.kind = "known"
           stack == [id |-> t.id, from |-> IF walks THEN c.from ELSE "nowhere", cut |-> walks /\ cut,
                     module |-> IF walks THEN WalkList(state) ELSE None]
       IN  \/ /\ t.got # "ok"
              /\ Return(IF t.got = "null" THEN "GETTING_THREAD" ELSE "GETTING_THREAD_ID")
              /\ UNCHANGED <<state, thread_index, found_requesting_thread, interrupted>>
           \/ /\ t.got = "ok" /\ Skipped(t)
              /\ thread_index' = thread_index + 1
              /\ UNCHANGED <<phase, state, result, live, found_requesting_thread, interrupted>>
           \/ /\ t.got = "ok" /\ ~Skipped(t)
              /\ Requesting(t) /\ found_requesting_thread
              /\ Return("DUPLICATE_REQUESTING_THREADS")
              /\ UNCHANGED <<state, thread_index, found_requesting_thread, interrupted>>
           \/ /\ t.got = "ok" /\ ~Skipped(t)
              /\ ~(Requesting(t) /\ found_requesting_thread)
              /\ walks \/ (~cut /\ symbols)
              /\ thread_index' = thread_index + 1
              /\ found_requesting_thread' = (found_requesting_thread \/ Requesting(t))
              /\ interrupted' = (interrupted \/ (walks /\ cut))
              /\ state' = [state EXCEPT
                    !.requesting_thread = IF Requesting(t) THEN IndexOf(state) ELSE @,
                    !.threads = Append(@, stack),
                    !.regions = AppendRegion(@, Memory(t)),
                    !.without_symbols = IF symbols \/ stack.module = None THEN @ ELSE @ \cup {stack.module}]
              /\ UNCHANGED <<phase, result, live>>
    /\ UNCHANGED <<dump, ours, calls, carried>>

\* The rating of a crash, on platforms that have an engine.
Rating == IF ~enable_exploitability_ THEN "NOT_ANALYZED"
          ELSE IF Has(dump.system) /\ dump.system[1].platform \in Engines THEN "rated" ELSE "ERR_NOENGINE"

\* An interrupted walk leaves the rating alone.
Finish ==
    /\ phase = "threads" /\ thread_index = Len(Threads)
    /\ IF interrupted
       THEN Return("SYMBOL_SUPPLIER_INTERRUPTED") /\ UNCHANGED state
       ELSE /\ Return("OK")
            /\ state' = [state EXCEPT !.exploitability = Rating,
                                      !.requesting_thread = IF Has(RequestingID(dump)) /\ ~found_requesting_thread THEN -1 ELSE @]
    /\ UNCHANGED <<dump, ours, thread_index, found_requesting_thread, interrupted, calls, carried>>

\* The caller of Process(Minidump*) deletes the dump when it likes.
DeleteDump ==
    /\ phase = "idle" /\ \E m \in live : m[1] = "dump"
    /\ live' = {m \in live : m[1] # "dump"}
    /\ UNCHANGED <<phase, dump, ours, thread_index, found_requesting_thread, interrupted, state, result, calls, carried>>

\* The caller clears the state.
ClearState ==
    /\ phase = "idle" /\ state # Clear(state)
    /\ state' = Clear(state) /\ live' = Left(state) /\ result' = "none"
    /\ UNCHANGED <<phase, dump, ours, thread_index, found_requesting_thread, interrupted, calls, carried>>

\* Nothing more is processed.
Over == phase = "idle" /\ calls = MaxProcess /\ UNCHANGED vars

Next ==
    \/ phase = "idle" /\ calls < MaxProcess /\ \E d \in Dumps, o \in BOOLEAN : Process(d, o)
    \/ \E cut, symbols \in BOOLEAN : WalkThread(cut, symbols)
    \/ Finish
    \/ DeleteDump
    \/ ClearState
    \/ Over

Spec == Init /\ [][Next]_vars

-----------------------------------------------------------------------------
\* Process has gone through all the threads.
Whole == phase = "idle" /\ result \in {"OK", "SYMBOL_SUPPLIER_INTERRUPTED"}

\* The threads of the dump that are not left out, by their place in it.
Kept == SelectSeq([i \in 1..Len(Threads) |-> i], LAMBDA i : dump.dump_thread # <<Threads[i].id>>)

(***************************************************************************)
(* The state has one stack for each thread but the one that wrote the      *)
(* dump, in the order of the dump, whatever could not be read or walked:   *)
(* "don't abort processing the rest of the dump just for one bad thread"   *)
(* (minidump_processor.cc:262), also in a ProcessState that is used again. *)
(***************************************************************************)
StacksAreTheThreads ==
    Whole => /\ Len(state.threads) = Len(Kept)
             /\ \A i \in DOMAIN Kept : state.threads[i].id = Threads[Kept[i]].id

(***************************************************************************)
(* requesting_thread is the place, in the state, of the one stack of the   *)
(* thread that crashed or asked for the dump; it is -1 exactly if there is *)
(* no such stack (process_state.h:153-160, minidump_processor.cc:199-206). *)
(***************************************************************************)
RequestingThreadIsRight ==
    Whole => LET wanted == {i \in DOMAIN state.threads : RequestingID(dump) = <<state.threads[i].id>>}
             IN  wanted = IF state.requesting_thread = -1 THEN {} ELSE {state.requesting_thread + 1}

(***************************************************************************)
(* The stack of the thread that crashed is walked from the context of the  *)
(* exception if there is one that can be read, every other stack from its  *)
(* thread's own: "For the crashed thread, the thread's own context is the  *)
(* state inside the exception handler" (minidump_processor.cc:211-216).    *)
(***************************************************************************)
CrashIsWalkedFromTheException ==
    \A i \in DOMAIN state.threads :
        LET s == state.threads[i]
            crash == /\ state.crashed /\ s.id = dump.exception[1].thread
                     /\ dump.exception[1].context # "null"
        IN  phase = "threads" /\ s.from # "nowhere" => s.from = IF crash THEN "exception" ELSE "thread"

(***************************************************************************)
(* The regions belong to the stacks, one each, also if a stack could not   *)
(* be read: PrintProcessState takes the region of a stack by the index of  *)
(* the stack (stackwalk_common.cc:841, 854).  That is right only in a      *)
(* state that has not been used before: "Resets the ProcessState to its    *)
(* default values" (process_state.h:95) is not done to the regions         *)
(* (process_state.cc:46-67), so those of earlier dumps stay in front, and  *)
(* the region of stack i is at i plus their number.                        *)
(***************************************************************************)
RegionsFollowStacks ==
    Whole => /\ Len(state.regions) = carried + Len(state.threads)
             /\ \A i \in DOMAIN Kept :
                  LET t == Threads[Kept[i]]
                  IN  state.regions[carried + i] =
                        IF t.memory THEN <<"thread", calls, Kept[i] - 1>>
                        ELSE IF t.start \in dump.memory THEN <<"list", calls, t.start>> ELSE None

(***************************************************************************)
(* The modules that frames and the list of modules without symbols point   *)
(* to exist for as long as the state does, though the dump may be deleted  *)
(* when Process returns (minidump_processor.cc:237-244).                   *)
(***************************************************************************)
ModulesOutliveTheDump ==
    phase = "idle" => /\ {state.threads[i].module : i \in DOMAIN state.threads} \ {None} \subseteq live
                      /\ state.without_symbols \subseteq live
=============================================================================
