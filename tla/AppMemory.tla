----------------------------- MODULE AppMemory ------------------------------
(***************************************************************************)
(* The memory regions an ExceptionHandler adds to its dumps: those the     *)
(* program registers, and the bytes around the faulting instruction.  Both *)
(* are in app_memory_info_, whose first element Initialize reserves for    *)
(* the instruction and which std::find searches with the others.           *)
(*                                                                         *)
(* A dump is made by MiniDumpWriteDump, which asks for one region after    *)
(* the other until MinidumpWriteDumpCallback returns FALSE.                *)
(***************************************************************************)
EXTENDS Integers, Sequences, SequencesExt, FiniteSetsExt

CONSTANTS
    Pointers, Lengths,      \* what the program registers
    Instructions,           \* instruction pointers of the dumps it asks for
    Regions,                \* committed memory, as records [base, size]
    Half,                   \* kIPMemorySize / 2
    MaxRegions              \* bound on what is registered at a time

VARIABLES
    app_memory_info,        \* sequence of [ptr, length]
    registered,             \* what the program has registered, as it was told
    refused,                \* history: pointers refused as the instruction memory had them
    erased,                 \* history: the reserved element was unregistered
    dump                    \* regions of the last dump

vars == <<app_memory_info, registered, refused, erased, dump>>

Region(p, n) == [ptr |-> p, length |-> n]

\* Initialize reserves one element for the instruction memory.
Init ==
    /\ app_memory_info = <<Region(0, 0)>>
    /\ registered = {} /\ refused = {} /\ erased = FALSE
    /\ dump = {}

\* std::find: the element with this pointer, or zero.
Find(p) == Min({i \in DOMAIN app_memory_info : app_memory_info[i].ptr = p} \cup {Len(app_memory_info) + 1})

Known(p) == Find(p) <= Len(app_memory_info)

\* Only the reserved element has this pointer: its memory is that around an instruction.
OnlyReserved(p) == \A i \in DOMAIN app_memory_info : app_memory_info[i].ptr = p <=> i = 1

RegisterAppMemory(p, n) ==
    /\ Cardinality(registered) < MaxRegions
    /\ app_memory_info' = IF Known(p) THEN app_memory_info
                                      ELSE Append(app_memory_info, Region(p, n))
    /\ registered' = IF p \notin refused /\ \E r \in registered : r.ptr = p
                     THEN registered
                     ELSE {r \in registered : r.ptr # p} \cup {Region(p, n)}
    /\ refused' = IF OnlyReserved(p) THEN refused \cup {p} ELSE refused \ {p}
    /\ UNCHANGED <<erased, dump>>

\* Mutant: the last element is erased, whichever was meant.
RemoveLast(p) == Len(app_memory_info)

\* The element UnregisterAppMemory erases.
RemoveWhich(p) == Find(p)

UnregisterAppMemory(p) ==
    /\ app_memory_info' = IF Known(p) THEN RemoveAt(app_memory_info, RemoveWhich(p))
                                      ELSE app_memory_info
    /\ registered' = {r \in registered : r.ptr # p}
    /\ refused' = refused \ {p}
    /\ erased' = (erased \/ Find(p) = 1)
    /\ UNCHANGED dump

\* VirtualQueryEx: the committed region that holds an address.
Committed(a) == {r \in Regions : r.base <= a /\ a < r.base + r.size}

\* Up to Half bytes to either side of the instruction, within its region.
Window(a, r) ==
    LET base == Max({r.base, a - Half})
        end_of_range == Min({a + Half, r.base + r.size})
    IN  Region(base, end_of_range - base)

\* The reserved element is skipped if there was no instruction memory.
First(list) == IF list[1].ptr = 0 THEN 2 ELSE 1

\* The part of WriteMinidumpWithExceptionForProcess that chooses the memory,
\* and the callbacks that hand it over.  Without a first element, front() and
\* begin() are undefined.
WriteMinidump(a) ==
    LET list == IF Committed(a) = {} THEN app_memory_info
                ELSE [app_memory_info EXCEPT ![1] = Window(a, CHOOSE r \in Committed(a) : TRUE)]
    IN  /\ app_memory_info # <<>>
        /\ app_memory_info' = list
        /\ dump' = {list[i] : i \in First(list) .. Len(list)}
        /\ UNCHANGED <<registered, refused, erased>>

Next ==
    \/ \E p \in Pointers, n \in Lengths : RegisterAppMemory(p, n)
    \/ \E p \in Pointers : UnregisterAppMemory(p)
    \/ \E a \in Instructions : WriteMinidump(a)

Spec == Init /\ [][Next]_vars

-----------------------------------------------------------------------------
(* Properties.                                                             *)

Bytes(r) == r.ptr .. r.ptr + r.length - 1

\* What RegisterAppMemory promises (exception_handler.h:278): a dump holds the
\* bytes of every region that is registered when it is written.  It breaks the
\* promise for a pointer that the instruction memory of the dump before happened to
\* have, and for all once such a pointer was unregistered: std::find takes the
\* reserved element for the program's own (exception_handler.cc:1053, 1067).
HoldsRegistered ==
    \A a \in Instructions : WriteMinidump(a) /\ ~erased =>
        UNION {Bytes(r) : r \in {q \in registered : q.ptr \notin refused}}
            \subseteq UNION {Bytes(m) : m \in dump'}

\* Besides, a dump holds the memory around its instruction and no more: no region
\* that was unregistered, and not the empty reserved element.  Where there is no
\* memory at the instruction, "Skip the reserved element if there was no instruction
\* memory" (exception_handler.cc:1006) is done for a first dump only: a later one
\* holds the memory around the instruction of an earlier dump.
HoldsNothingElse ==
    \A a \in Instructions : WriteMinidump(a) /\ ~erased =>
        dump' \ registered \subseteq
            IF Committed(a) # {} THEN {Window(a, r) : r \in Committed(a)}
                                 ELSE {app_memory_info[1]} \ {Region(0, 0)}
=============================================================================
