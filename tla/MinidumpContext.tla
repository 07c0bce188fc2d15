--------------------------- MODULE MinidumpContext ---------------------------
(***************************************************************************)
(* processor/minidump.cc, class MinidumpContext, and its base class in     *)
(* processor/dump_context.cc: the context records of the threads and of    *)
(* the exception of a dump, read when they are first asked for.            *)
(*                                                                         *)
(* A location is [at, size, cpu, old, high, bytes]: its offset and size,   *)
(* the CPU its context_flags name ("none" if they name none), whether they *)
(* have MD_CONTEXT_ARM_OLD, whether they have bits above the 32nd, and how *)
(* much of it the file has: "all", the "flags", or "none".                 *)
(*                                                                         *)
(* Fields* are the members of a CPU's structure, in                        *)
(* google_breakpad/common/minidump_cpu_*.h, that are wider than a byte,    *)
(* padding aside; an array, or a structure all of whose members are        *)
(* treated alike, is one member.                                           *)
(***************************************************************************)
EXTENDS Integers, FiniteSets

CONSTANTS
    Owners,     \* threads, and the exception
    Locations,  \* locations a context may have
    Dumps,      \* [swap, sys]: byte order, and the CPU of the system information
    SysAt       \* where the file is after the system information was read

VARIABLES
    dump, location,     \* the dump, and the location of each owner's context
    stream_,    \* "good", or "fail" once a read has gone past the end
    sysRead,    \* the system information is cached
    context_,   \* of each owner, or None
    made, live  \* MDRawContexts made so far, and those not deleted

vars == <<dump, location, stream_, sysRead, context_, made, live>>

-----------------------------------------------------------------------------
FieldsX86 ==
    {"context_flags", "dr0", "dr1", "dr2", "dr3", "dr6", "dr7",
     "control_word", "status_word", "tag_word", "error_offset", "error_selector", "data_offset",
     "data_selector", "cr0_npx_state", "gs", "fs", "es", "ds", "edi", "esi", "ebx", "edx", "ecx", "eax",
     "ebp", "eip", "cs", "eflags", "esp", "ss"}

FieldsAMD64 ==
    {"p1_home", "p2_home", "p3_home", "p4_home", "p5_home", "p6_home", "context_flags", "mx_csr",
     "cs", "ds", "es", "fs", "gs", "ss", "eflags", "dr0", "dr1", "dr2", "dr3", "dr6", "dr7",
     "rax", "rcx", "rdx", "rbx", "rsp", "rbp", "rsi", "rdi",
     "r8", "r9", "r10", "r11", "r12", "r13", "r14", "r15", "rip", "flt_save",
     "vector_register", "vector_control", "debug_control", "last_branch_to_rip", "last_branch_from_rip",
     "last_exception_to_rip", "last_exception_from_rip"}

FieldsPPC ==
    {"context_flags", "srr0", "srr1", "gpr", "cr", "xer", "lr", "ctr", "mq", "vrsave",
     "fpregs", "fpscr", "save_vr", "save_vscr", "save_vrvalid"}

FieldsPPC64 == FieldsPPC \ {"mq"}

FieldsSPARC == {"context_flags", "g_r", "ccr", "pc", "npc", "y", "asi", "fprs", "regs", "filler", "fsr"}

FieldsARM == {"context_flags", "iregs", "cpsr", "fpscr", "regs", "extra"}

FieldsARM64 == {"context_flags", "iregs", "cpsr", "fpsr", "fpcr", "regs"}

FieldsMIPS ==
    {"context_flags", "iregs", "mdhi", "mdlo", "hi", "lo", "dsp_control", "epc", "badvaddr", "status",
     "cause", "regs", "fpcsr", "fir"}

-----------------------------------------------------------------------------
\* The members that are swapped in a dump of the other byte order.
SwappedX86 ==
    {"context_flags", "dr0", "dr1", "dr2", "dr3", "dr6", "dr7",
     "control_word", "status_word", "tag_word", "error_offset", "error_selector", "data_offset",
     "data_selector", "cr0_npx_state", "gs", "fs", "es", "ds", "edi", "esi", "ebx", "edx", "ecx", "eax",
     "ebp", "eip", "cs", "eflags", "esp", "ss"}

SwappedAMD64 ==
    {"context_flags", "p1_home", "p2_home", "p3_home", "p4_home", "p5_home", "p6_home", "mx_csr",
     "cs", "ds", "es", "fs", "ss", "eflags", "dr0", "dr1", "dr2", "dr3", "dr6", "dr7",
     "rax", "rcx", "rdx", "rbx", "rsp", "rbp", "rsi", "rdi",
     "r8", "r9", "r10", "r11", "r12", "r13", "r14", "r15", "rip",
     "vector_register", "vector_control", "debug_control", "last_branch_to_rip", "last_branch_from_rip",
     "last_exception_to_rip", "last_exception_from_rip"}

SwappedPPC ==
    {"context_flags", "srr0", "srr1", "gpr", "cr", "xer", "lr", "ctr", "mq", "vrsave",
     "fpregs", "fpscr", "save_vr", "save_vscr", "save_vrvalid"}

SwappedPPC64 ==
    {"context_flags", "srr0", "srr1", "gpr", "cr", "xer", "lr", "ctr", "vrsave",
     "fpregs", "fpscr", "save_vr", "save_vscr", "save_vrvalid"}

SwappedSPARC == {"context_flags", "g_r", "ccr", "pc", "npc", "y", "asi", "fprs", "regs", "filler", "fsr"}

SwappedARM == {"context_flags", "iregs", "cpsr", "fpscr", "regs", "extra"}

SwappedARM64 == {"context_flags", "iregs", "cpsr", "fpsr", "fpcr", "regs"}

SwappedMIPS ==
    {"context_flags", "iregs", "mdhi", "mdlo", "hi", "lo", "dsp_control", "epc", "badvaddr", "status",
     "cause", "regs", "fpcsr", "fir"}

-----------------------------------------------------------------------------
Kinds == {"X86", "PPC", "PPC64", "AMD64", "SPARC", "ARM", "ARM64", "MIPS"}

Fields ==
    [X86 |-> FieldsX86, PPC |-> FieldsPPC, PPC64 |-> FieldsPPC64, AMD64 |-> FieldsAMD64,
     SPARC |-> FieldsSPARC, ARM |-> FieldsARM, ARM64 |-> FieldsARM64, MIPS |-> FieldsMIPS]

Swapped ==
    [X86 |-> SwappedX86, PPC |-> SwappedPPC, PPC64 |-> SwappedPPC64, AMD64 |-> SwappedAMD64,
     SPARC |-> SwappedSPARC, ARM |-> SwappedARM, ARM64 |-> SwappedARM64, MIPS |-> SwappedMIPS]

\* sizeof the structures.
Sizeof ==
    [X86 |-> 716, PPC |-> 1004, PPC64 |-> 1160, AMD64 |-> 1232,
     SPARC |-> 584, ARM |-> 368, ARM64 |-> 796, MIPS |-> 600]

\* Where the instruction pointer of a context is.
InstructionPointer ==
    [X86 |-> "eip", PPC |-> "srr0", PPC64 |-> "srr0", AMD64 |-> "rip",
     SPARC |-> "pc", ARM |-> "iregs", ARM64 |-> "iregs", MIPS |-> "epc"]

-----------------------------------------------------------------------------
None == [valid |-> FALSE]

Init ==
    /\ dump \in Dumps /\ location \in [Owners -> Locations]
    /\ stream_ = "good" /\ sysRead = FALSE
    /\ context_ = [o \in Owners |-> None]
    /\ made = 0 /\ live = {}

-----------------------------------------------------------------------------
\* Where the file is after GetSystemInfo.
AfterSystemInfo(p) == IF dump.sys = "none" \/ sysRead THEN p ELSE SysAt

HasSystemInfo == dump.sys \notin {"none", "bad"}

\* Mutant: the position of the caller is not restored.
LeftThere(p) == AfterSystemInfo(p)

\* GetContextCPUFlagsFromSystemInfo restores the position.
Restored(p) == p

CPUFlags ==
    IF ~HasSystemInfo \/ dump.sys \in {"X86_WIN64", "MSIL", "UNKNOWN"} THEN "none" ELSE dump.sys

\* A 32-bit context may be found in a 64-bit system.
CheckAgainstSystemInfo(cpu) ==
    HasSystemInfo => IF cpu = "X86" THEN dump.sys \in {"X86", "X86_WIN64", "AMD64"} ELSE dump.sys = cpu

IsContextSizeUnique(size) == Cardinality({k \in Kinds : Sizeof[k] = size}) = 1

-----------------------------------------------------------------------------
\* What reading a context comes to: whether it is good; whether the file ended
\* too soon; the type of the record; the CPU in context_flags_; where the rest
\* of the record was read; and whether the system information was looked into.
Outcome(ok, eof, kind, cpu, rest, looked) ==
    [ok |-> ok, eof |-> eof, kind |-> kind, cpu |-> cpu, rest |-> rest, looked |-> looked]

\* The whole record is read first: its flags are not at its beginning.
ReadAMD64(loc) ==
    LET cpu == IF loc.cpu = "none" THEN CPUFlags ELSE loc.cpu
        there == loc.bytes = "all"
    IN  Outcome(there /\ cpu = "AMD64" /\ CheckAgainstSystemInfo(cpu), ~there, "AMD64", cpu, loc.at + 4,
                there /\ (loc.cpu = "none" \/ cpu = "AMD64"))

\* The flags are read, then the rest. The flags that were looked up go into
\* the record, but those that were read are put over them.
Read64(kind, loc) ==
    LET cpu == IF loc.cpu = "none" THEN CPUFlags ELSE loc.cpu
        rest == IF loc.cpu = "none" THEN Restored(loc.at + 8) ELSE loc.at + 8
        mine == loc.bytes # "none" /\ cpu = kind
        whole == mine /\ loc.bytes = "all"
    IN  Outcome(whole /\ CheckAgainstSystemInfo(cpu) /\ ~loc.high, loc.bytes = "none" \/ (mine /\ ~whole), kind, loc.cpu,
                rest, whole \/ (loc.bytes # "none" /\ loc.cpu = "none"))

\* context_flags with what was found out about the CPU.
WithCPU(loc, cpu) == cpu

\* The flags decide which structure it is, and its size must fit.
ReadByFlags(loc) ==
    LET cpu == CASE loc.cpu # "none" -> loc.cpu
                 [] loc.cpu = "none" /\ loc.old -> "ARM"
                 [] OTHER -> CPUFlags
        looked == loc.bytes # "none" /\ loc.cpu = "none" /\ ~loc.old
        rest == IF looked THEN Restored(loc.at + 4) ELSE loc.at + 4
        mine == /\ loc.bytes # "none"
                /\ cpu \in {"X86", "PPC", "SPARC", "ARM", "MIPS"} /\ loc.size = Sizeof[cpu]
        whole == mine /\ loc.bytes = "all"
    IN  Outcome(whole /\ CheckAgainstSystemInfo(cpu), loc.bytes = "none" \/ (mine /\ ~whole), cpu, WithCPU(loc, cpu),
                rest, whole \/ looked)

Read(loc) ==
    IF \E k \in {"AMD64", "PPC64", "ARM64"} : ~IsContextSizeUnique(Sizeof[k])
    THEN Outcome(FALSE, FALSE, "AMD64", "none", loc.at, FALSE)
    ELSE CASE loc.size = Sizeof["AMD64"] -> ReadAMD64(loc)
           [] loc.size = Sizeof["PPC64"] -> Read64("PPC64", loc)
           [] loc.size = Sizeof["ARM64"] -> Read64("ARM64", loc)
           [] OTHER -> ReadByFlags(loc)

\* MinidumpThread::GetContext and MinidumpException::GetContext: what was read
\* is kept; what could not be read is tried again the next time.
GetContext(o) ==
    /\ ~context_[o].valid
    /\ IF stream_ = "fail" THEN UNCHANGED <<stream_, sysRead, context_, made, live>>
       ELSE LET r == Read(location[o])
            IN  /\ stream_' = IF r.eof THEN "fail" ELSE "good"
                /\ sysRead' = (sysRead \/ (r.looked /\ HasSystemInfo))
                /\ IF r.ok
                   THEN /\ made' = made + 1 /\ live' = live \cup {made + 1}
                        /\ context_' = [context_ EXCEPT ![o] =
                             [valid |-> TRUE, kind |-> r.kind, cpu |-> r.cpu, rest |-> r.rest, raw |-> made + 1,
                              right |-> IF dump.swap THEN Swapped[r.kind] ELSE Fields[r.kind]]]
                   ELSE UNCHANGED <<made, live, context_>>
    /\ UNCHANGED <<dump, location>>

-----------------------------------------------------------------------------
GetContextCPU(c) == IF c.valid THEN c.cpu ELSE "none"

\* DumpContext::GetContextX86 and its like.
GetContextOf(c, kind) == IF GetContextCPU(c) = kind THEN c.kind ELSE "null"

\* What the destructor deletes.
FreeContext(c) == IF GetContextCPU(c) \in Kinds THEN {c.raw} ELSE {}

\* The thread list or the exception is read anew, or the dump destroyed.
Delete(o) ==
    /\ context_[o].valid
    /\ live' = live \ FreeContext(context_[o])
    /\ context_' = [context_ EXCEPT ![o] = None]
    /\ made < 2 * Cardinality(Owners)
    /\ UNCHANGED <<dump, location, stream_, sysRead, made>>

\* Whether the instruction pointer can be had, and is that of the record.
GetInstructionPointer(c) ==
    /\ GetContextCPU(c) \in Kinds
    /\ GetContextOf(c, GetContextCPU(c)) # "null"
    /\ InstructionPointer[GetContextCPU(c)] \in Fields[c.kind]

Over == (\A o \in Owners : context_[o].valid) /\ UNCHANGED vars

Next == (\E o \in Owners : GetContext(o) \/ Delete(o)) \/ Over

Spec == Init /\ [][Next]_vars

-----------------------------------------------------------------------------
\* The two parts of a record were read from one place in the file: looking
\* into the system information in between has not moved it.
ContextWhole ==
    \A o \in Owners : context_[o].valid =>
        context_[o].rest = location[o].at + (IF context_[o].kind \in {"PPC64", "ARM64"} THEN 8 ELSE 4)

\* The context of o, if it can be read, has no CPU in its flags.
Unnamed(o) == location[o].cpu = "none" /\ location[o].size \in {Sizeof["PPC64"], Sizeof["ARM64"]}

\* "There is no context record or there's a context record for an unknown CPU
\* (shouldn't happen, only known records are stored by Read)": the CPU of a
\* context that was handed out is that of the record it points to, so that no
\* accessor takes one structure for another.
\* Left out: a PPC64 or ARM64 context whose flags name no CPU keeps these flags,
\* although the system information has told which it is (minidump.cc:582, 679).
RecordKnown ==
    \A o \in Owners : context_[o].valid /\ ~Unnamed(o) =>
        /\ \A k \in Kinds : GetContextOf(context_[o], k) \in {k, "null"}
        /\ GetInstructionPointer(context_[o])

\* A record lives as long as the context it belongs to, and no longer, unless its
\* flags name no CPU: FreeContext then does not know what to delete.
NoRecordLost ==
    LET used == {context_[o].raw : o \in {p \in Owners : context_[p].valid}}
    IN  used \subseteq live /\ ((\A o \in Owners : ~Unnamed(o)) => live = used)

\* What Read leaves in the other byte order of an AMD64 context
\* (minidump.cc:503, 530).
LeftSwapped(kind) == IF kind = "AMD64" THEN {"gs", "flt_save"} ELSE {}

\* "these classes don't know or need to know what CPU (or endianness) the
\* minidump was produced on in order to parse it": a record from a dump of the
\* other byte order reads as one of this byte order does, but for two members of
\* an AMD64 context.
SwappedLikeNative ==
    \A o \in Owners : context_[o].valid =>
        context_[o].right = Fields[context_[o].kind] \ (IF dump.swap THEN LeftSwapped(context_[o].kind) ELSE {})
=============================================================================
