--------------------------- MODULE StackwalkerARM ---------------------------
(***************************************************************************)
(* processor/stackwalker_arm.cc and stackwalker_arm64.cc: by CFI, by the   *)
(* frame pointer when there is one, or by scanning.                        *)
(***************************************************************************)
EXTENDS StackwalkerCommon, FiniteSets

CONSTANTS
    W,           \* bits of an address
    Is64,        \* ARM64
    FpRegister,  \* fp_register_ is not -1 (always so on ARM64)
    ScanAllowed  \* stack_scan_allowed

CF(mem) == INSTANCE CFIFrameInfo WITH Memory <- mem, Variables <- {}

VARIABLES
    chain,   \* the functions called, outermost first
    stopped, \* the thread they leave: its memory and the truth about it
    frames,  \* the frames walked, innermost first
    done

walkVars == <<chain, stopped, frames, done>>

Stack == stopped.mem
Truth == stopped.truth
Readable(a) == a \in DOMAIN Stack

All == {"pc", "sp", "lr", "fp", "r4"}
CalleeSaves == {"fp", "r4"}
Nothing == [r \in All |-> 0]
NoFrame == Frame(Nothing, {}, "none", 0)

GetContextFrame(m) ==
    Frame([r \in All |-> CASE r = "pc" -> Body(m.f) [] r = "sp" -> m.sp [] r = "lr" -> m.lr
                           [] r = "fp" -> m.fp [] r = "r4" -> m.r],
          All, "context", Body(m.f))

WalkInit ==
    /\ chain \in Chains
    /\ stopped = StoppedLinked(chain)
    /\ frames = <<GetContextFrame(stopped)>>
    /\ done = FALSE

Last == frames[Len(frames)]

-----------------------------------------------------------------------------
(* What the symbol file says of a function. *)
Below(n) == <<Id(".cfa"), Num(n), Op("-"), Op("^")>>
Saved(f, r, slot) == IF Slot(f, slot) = 0 THEN <<>> ELSE Rule(r, Below(Slot(f, slot)))
Rules(f) ==
    Rule(".cfa", IF Layout[f].base = "frame" THEN <<Id("fp"), Num(Slot(f, "fp")), Op("+")>>
                           ELSE <<Id("sp"), Num(Len(Layout[f].slots)), Op("+")>>)
        \o Rule(".ra", IF Layout[f].leaf THEN <<Id("lr")>> ELSE Below(Slot(f, "lr")))
        \o Saved(f, "r4", "r") \o Saved(f, "fp", "fp")
MapOrder(names) == SelectSeq(<<"fp", "r4">>, LAMBDA r : r \in names)

-----------------------------------------------------------------------------

Carried(last) == CalleeSaves \cap last.valid

\* With a frame pointer register the CFI is taken to give the link register,
\* and the program counter is the last frame's link register.
viaLR == FpRegister /\ ~Is64
CFIFrame(last, given, valid, found) ==
    IF ~found.ok THEN NoFrame
    ELSE Frame([r \in All |->
                   CASE r \in given -> found.regs[r]
                     [] r = "pc" -> IF viaLR THEN last.ctx["lr"] ELSE found.regs[".ra"]
                     [] r = "lr" /\ viaLR -> found.regs[".ra"]
                     [] r = "sp" -> found.regs[".cfa"]
                     [] r \in valid -> last.ctx[r]
                     [] OTHER -> 0],
               valid, "cfi", 0)
ByRules(last, info) ==
    CFIFrame(last, DOMAIN info.regs,
             DOMAIN info.regs \cup Carried(last) \cup {"pc", "sp"} \cup (IF viaLR THEN {"lr"} ELSE {}),
             CF(Stack)!FindCallerRegs(info, [r \in last.valid |-> last.ctx[r]], MapOrder(DOMAIN info.regs)))
GetCallerByCFIFrameInfo(last) ==
    IF HasCFI(last) THEN ByRules(last, CF(Stack)!ParseCFIRuleSet(Rules(FunctionAt(last.instruction))))
    ELSE NoFrame

CallerPc(last) == last.ctx["lr"]

GetCallerByFramePointer(last) ==
    LET fp == last.ctx["fp"]
        At(a) == IF fp = 0 THEN 0 ELSE Stack[a]
    IN  IF ~Is64 /\ "fp" \notin last.valid THEN NoFrame
        ELSE IF fp # 0 /\ ~(Readable(fp) /\ Readable(fp + 1)) THEN NoFrame
        ELSE Frame([last.ctx EXCEPT !["fp"] = At(fp), !["sp"] = IF fp = 0 THEN @ ELSE fp + 2,
                                    !["pc"] = CallerPc(last), !["lr"] = At(fp + 1)],
                   {"pc", "lr", "fp", "sp"}, "fp", 0)

GetCallerByStackScan(last, first) ==
    LET found == Candidates(Stack, last.ctx["sp"], SearchWords(first))
        at == Lowest(found)
    IN  IF found = {} THEN NoFrame
        ELSE Frame([last.ctx EXCEPT !["pc"] = Stack[at], !["sp"] = at + 1], {"pc", "sp"}, "scan", 0)

FirstFound(last, first) ==
    OrElse(GetCallerByCFIFrameInfo(last),
           OrElse(IF FpRegister THEN GetCallerByFramePointer(last) ELSE NoFrame,
                  IF ScanAllowed THEN GetCallerByStackScan(last, first) ELSE NoFrame))

\* End of stack, or the stack pointer went down.
Ended(last, new) == new = NoFrame \/ new.ctx["pc"] = 0 \/ new.ctx["sp"] < last.ctx["sp"]

\* Within the instruction that made the call.
InstructionOf(pc) == pc - 1

PushOrEnd(new) ==
    IF Ended(Last, new) THEN done' = TRUE /\ UNCHANGED frames
    ELSE frames' = Append(frames, [new EXCEPT !.instruction = InstructionOf(new.ctx["pc"])]) /\ UNCHANGED done

GetCallerFrame ==
    /\ ~done
    /\ PushOrEnd(FirstFound(Last, Len(frames) = 1))
    /\ UNCHANGED <<chain, stopped>>

Over == done /\ UNCHANGED walkVars

WalkNext == GetCallerFrame \/ Over

-----------------------------------------------------------------------------
Misled == \E i \in DOMAIN frames : TookOld(frames[i], "sp", stopped.old)

\* Without a frame pointer register, or on ARM64, and with CFI for every
\* function, the walk finds every caller, at the right place and in the right
\* function, and ends after the outermost.
WalkIsExact ==
    (~viaLR /\ \A i \in DOMAIN chain : Layout[chain[i]].cfi) =>
        /\ done => Len(frames) = Len(chain)
        /\ Len(frames) <= Len(chain)
        /\ \A i \in 2..Len(frames) :
              /\ FunctionAt(frames[i].instruction) = Truth[i - 1].f
              /\ frames[i].ctx["sp"] = Truth[i - 1].sp

\* A register marked valid holds what it held in that caller, unless a frame
\* pointer was followed or a word left on the stack taken for a return address.
ValidMeansTrue ==
    (~Misled /\ (FpRegister => ~viaLR /\ \A i \in DOMAIN chain : Layout[chain[i]].cfi)) =>
        \A i \in 2..Len(frames) : \A j \in DOMAIN Truth : Truth[j].sp = frames[i].ctx["sp"] =>
            /\ "fp" \in frames[i].valid => frames[i].ctx["fp"] = Truth[j].fp
            /\ "r4" \in frames[i].valid => frames[i].ctx["r4"] = Truth[j].r

\* The functions of a sequence of frames, those repeated side by side once.
Once(fs) == LET keep == {i \in DOMAIN fs : i = 1 \/ fs[i] # fs[i - 1]}
            IN  [k \in 1..Cardinality(keep) |->
                    fs[CHOOSE i \in keep : Cardinality({j \in keep : j <= i}) = k]]
Walked == [i \in DOMAIN frames |-> FunctionAt(frames[i].instruction)]
Called == [i \in DOMAIN chain |-> chain[Len(chain) + 1 - i]]

\* A chain of functions that keep a frame pointer, or a leaf on top, walked
\* with a frame pointer register, and on ARM64 with no CFI to mix with it.
FramePointers ==
    /\ FpRegister
    /\ \A i \in DOMAIN chain : /\ Layout[chain[i]].base = "frame" \/ Layout[chain[i]].leaf
                               /\ Is64 => ~Layout[chain[i]].cfi

\* On such a chain the walk shows the functions in order and all of them; one
\* may be shown twice, when the link register on top is the return address that
\* is in the frame as well.
WalkIsChain == done /\ FramePointers => Once(Walked) = Once(Called)

\* The callers, and beyond them the start of the thread.
Outward == Append(Truth, [sp |-> Top, fp |-> 0])

\* On such a chain the stack pointer and the frame pointer of a frame are those
\* of one caller, the next one out with each frame. It is not the caller that is
\* shown: that is where the frame below has its link register, one less far out.
PointersGoOutward ==
    FramePointers => \A i \in 2..Len(frames) :
        LET k == i - (IF Layout[chain[Len(chain)]].leaf THEN 0 ELSE 1)
            out == Outward[IF k <= Len(Outward) THEN k ELSE Len(Outward)]
        IN  frames[i].ctx["sp"] = out.sp /\ frames[i].ctx["fp"] = out.fp
=============================================================================
