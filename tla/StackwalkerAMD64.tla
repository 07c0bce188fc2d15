-------------------------- MODULE StackwalkerAMD64 --------------------------
(***************************************************************************)
(* processor/stackwalker_amd64.cc: from each frame to its caller by CFI,   *)
(* by the frame pointer or by scanning the stack.  The stack is that of a  *)
(* call chain (StackwalkerCommon); one word is one address.                *)
(***************************************************************************)
EXTENDS StackwalkerCommon

CONSTANTS
    W,              \* bits of an address
    os_short,       \* "nacl" for Native Client
    SandboxBase,    \* its base address, 2^32 or a multiple of it
    ScanAllowed     \* stack_scan_allowed

CF(mem) == INSTANCE CFIFrameInfo WITH Memory <- mem, Variables <- {"$rip", "$rsp", "$rbp", "$rbx"}

VARIABLES
    chain,   \* the functions called, outermost first
    stopped, \* the thread they leave: its memory and the truth about it
    frames,  \* the frames walked, innermost first
    done

walkVars == <<chain, stopped, frames, done>>

Stack == stopped.mem
Truth == stopped.truth
Readable(a) == a \in DOMAIN Stack

\* cfi_register_map_
RegisterMap ==
    [r \in {"$rip", "$rsp", "$rbp", "$rbx"} |->
        CASE r = "$rip" -> [alternate |-> ".ra", callee_saves |-> FALSE]
          [] r = "$rsp" -> [alternate |-> ".cfa", callee_saves |-> FALSE]
          [] OTHER -> [alternate |-> "", callee_saves |-> TRUE]]
All == DOMAIN RegisterMap

NoFrame == Frame([r \in All |-> 0], {}, "none", 0)

GetContextFrame(m) ==
    Frame([r \in All |-> CASE r = "$rip" -> Body(m.f) [] r = "$rsp" -> m.sp
                           [] r = "$rbp" -> m.fp [] r = "$rbx" -> m.r],
          All, "context", Body(m.f))

\* In Native Client the addresses that calls and pushes of %rbp leave on the
\* stack have the base added, those of 0 at the start of the thread as well.
Sandboxed(m) ==
    IF os_short # "nacl" THEN m
    ELSE [m EXCEPT !.mem = [a \in DOMAIN @ |-> IF @[a] \in 0..(Top - 1) \/ FunctionAt(@[a]) # 0
                                               THEN @[a] + SandboxBase ELSE @[a]]]

WalkInit ==
    /\ chain \in Chains
    /\ stopped = Sandboxed(Stopped(chain))
    /\ frames = <<GetContextFrame(stopped)>>
    /\ done = FALSE

Last == frames[Len(frames)]

-----------------------------------------------------------------------------
(* What the symbol file says of a function: the words of its rules. *)
Below(n) == <<Id(".cfa"), Num(n), Op("-"), Op("^")>>
Saved(f, r, slot) == IF Slot(f, slot) = 0 THEN <<>> ELSE Rule(r, Below(1 + Slot(f, slot)))
Rules(f) ==
    Rule(".cfa", <<Id("$rsp"), Num(Len(Layout[f].slots) + 1), Op("+")>>)
        \o Rule(".ra", Below(1)) \o Saved(f, "$rbx", "r") \o Saved(f, "$rbp", "fp")
MapOrder(names) == SelectSeq(<<"$rbp", "$rbx">>, LAMBDA r : r \in names)

-----------------------------------------------------------------------------
CFIFrame(found) ==
    IF ~found.ok \/ ~({"$rip", "$rsp"} \subseteq DOMAIN found.regs) THEN NoFrame
    ELSE Frame([r \in All |-> IF r \in DOMAIN found.regs THEN found.regs[r] ELSE 0],
               DOMAIN found.regs, "cfi", 0)
ByRules(last, info) ==
    CFIFrame(CF(Stack)!FindCallerRegisters(RegisterMap, info, [r \in last.valid |-> last.ctx[r]],
                                           MapOrder(DOMAIN info.regs)))
GetCallerByCFIFrameInfo(last) ==
    IF HasCFI(last) THEN ByRules(last, CF(Stack)!ParseCFIRuleSet(Rules(FunctionAt(last.instruction))))
    ELSE NoFrame

CallerRsp(rbp) == rbp + 2

GetCallerByFramePointerRecovery(last) ==
    LET rbp == last.ctx["$rbp"]
    IN  IF ~Readable(rbp + 1) \/ ~Readable(rbp) THEN NoFrame
        ELSE IF Stack[rbp] < rbp \/ CallerRsp(rbp) < last.ctx["$rsp"] THEN NoFrame
        ELSE Frame([last.ctx EXCEPT !["$rip"] = Stack[rbp + 1], !["$rsp"] = CallerRsp(rbp),
                                    !["$rbp"] = Stack[rbp]],
                   {"$rip", "$rsp", "$rbp"}, "fp", 0)

\* The %rbp to pass on with a return address found at that address, if any.
PlausibleRbp(last, at) ==
    LET rbp == last.ctx["$rbp"]
    IN  IF "$rbp" \notin last.valid THEN {}
        ELSE IF at - 1 = rbp THEN (IF Readable(rbp) /\ Stack[rbp] > at THEN {Stack[rbp]} ELSE {})
        ELSE IF rbp >= at + 1 THEN {rbp} ELSE {}

GetCallerByStackScan(last, first) ==
    LET found == Candidates(Stack, last.ctx["$rsp"], SearchWords(first))
        at == Lowest(found)
        rbp == PlausibleRbp(last, at)
        ctx == [last.ctx EXCEPT !["$rip"] = Stack[at], !["$rsp"] = at + 1]
    IN  IF found = {} THEN NoFrame
        ELSE IF rbp = {} THEN Frame(ctx, {"$rip", "$rsp"}, "scan", 0)
        ELSE Frame([ctx EXCEPT !["$rbp"] = CHOOSE v \in rbp : TRUE], {"$rip", "$rsp", "$rbp"}, "scan", 0)

FirstFound(last, first) ==
    OrElse(GetCallerByCFIFrameInfo(last),
           OrElse(GetCallerByFramePointerRecovery(last),
                  IF ScanAllowed THEN GetCallerByStackScan(last, first) ELSE NoFrame))

\* "only the bottom 32 bits are relevant for stack walking".
Truncated(new) ==
    IF os_short # "nacl" THEN new
    ELSE [new EXCEPT !.ctx = [r \in All |-> IF r \in {"$rip", "$rsp", "$rbp"} THEN @[r] % SandboxBase ELSE @[r]]]

\* Mutant: the frame's instruction is the return address itself.
InstructionAtReturn(pc) == pc

\* One less than the return address: within the call.
InstructionOf(pc) == pc - 1

\* End of stack, or no progress.
Ended(last, new) == new = NoFrame \/ new.ctx["$rip"] = 0 \/ new.ctx["$rsp"] <= last.ctx["$rsp"]

PushOrEnd(new) ==
    IF Ended(Last, new) THEN done' = TRUE /\ UNCHANGED frames
    ELSE frames' = Append(frames, [new EXCEPT !.instruction = InstructionOf(new.ctx["$rip"])]) /\ UNCHANGED done

GetCallerFrame ==
    /\ ~done
    /\ PushOrEnd(Truncated(FirstFound(Last, Len(frames) = 1)))
    /\ UNCHANGED <<chain, stopped>>

Over == done /\ UNCHANGED walkVars

WalkNext == GetCallerFrame \/ Over

-----------------------------------------------------------------------------
Described(f) == Layout[f].cfi \/ Layout[f].base = "frame"

Misled == \E i \in DOMAIN frames : TookOld(frames[i], "$rsp", stopped.old)

\* When each function of the chain has CFI or keeps a frame pointer, the walk
\* finds every caller, at the right place and in the right function, and ends
\* after the outermost: also where a call ends a function, and in Native Client.
\* Left out: past an outermost function without CFI the walk scans on, and may
\* take a word for a return address.
WalkIsExact ==
    (~Misled /\ \A i \in DOMAIN chain : Described(chain[i])) =>
        /\ done => Len(frames) = Len(chain)
        /\ Len(frames) <= Len(chain)
        /\ \A i \in 2..Len(frames) :
              /\ FunctionAt(frames[i].instruction) = Truth[i - 1].f
              /\ frames[i].ctx["$rsp"] = Truth[i - 1].sp

\* A register marked valid holds what it held in that caller, however many
\* frames were walked by whatever means before.
ValidMeansTrue ==
    (~Misled /\ \A i \in DOMAIN chain : Described(chain[i])) =>
        \A i \in 2..Len(frames) : i - 1 <= Len(Truth) =>
            /\ "$rbp" \in frames[i].valid => frames[i].ctx["$rbp"] = Truth[i - 1].fp
            /\ "$rbx" \in frames[i].valid => frames[i].ctx["$rbx"] = Truth[i - 1].r

\* Callers may be passed over when a function has neither, but none is made up
\* until a scan meets a word that looks like a return address: each frame is a
\* caller of the chain.
OnlyTrueCallers ==
    ~Misled => \A i \in 2..Len(frames) :
        \E j \in DOMAIN Truth :
            /\ Truth[j].sp = frames[i].ctx["$rsp"]
            /\ FunctionAt(frames[i].instruction) = Truth[j].f
=============================================================================
