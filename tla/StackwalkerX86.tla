--------------------------- MODULE StackwalkerX86 ---------------------------
(***************************************************************************)
(* processor/stackwalker_x86.cc: from each frame to its caller by the      *)
(* STACK WIN record of its function, by CFI, by %ebp or by scanning.       *)
(***************************************************************************)
EXTENDS StackwalkerCommon, FiniteSets

CONSTANTS
    W,                              \* bits of an address
    ScanAllowed,                    \* stack_scan_allowed
    kMaxReasonableGapBetweenFrames  \* in words

CF(mem) == INSTANCE CFIFrameInfo WITH Memory <- mem,
                                      Variables <- {"$eip", "$esp", "$ebp", "$ebx", "$T0", "$T1"}

VARIABLES
    chain,   \* the functions called, outermost first
    stopped, \* the thread they leave: its memory and the truth about it
    memory_, \* FALSE if it is null
    frames,  \* the frames walked, innermost first
    done

walkVars == <<chain, stopped, memory_, frames, done>>

Stack == stopped.mem
Truth == stopped.truth
Readable(a) == a \in DOMAIN Stack

\* cfi_register_map_
RegisterMap ==
    [r \in {"$eip", "$esp", "$ebp", "$ebx"} |->
        CASE r = "$eip" -> [alternate |-> ".ra", callee_saves |-> FALSE]
          [] r = "$esp" -> [alternate |-> ".cfa", callee_saves |-> FALSE]
          [] OTHER -> [alternate |-> "", callee_saves |-> TRUE]]
All == DOMAIN RegisterMap
Essentials == {"$eip", "$esp", "$ebp"}
NoFrame == Frame([r \in All |-> 0], {}, "none", 0)

GetContextFrame(m) ==
    Frame([r \in All |-> CASE r = "$eip" -> Body(m.f) [] r = "$esp" -> m.sp
                           [] r = "$ebp" -> m.fp [] r = "$ebx" -> m.r],
          All, "context", Body(m.f))

\* The constructor does without memory that reaches beyond 32 bits.
WalkInit ==
    /\ chain \in Chains
    /\ stopped = Stopped(chain)
    /\ memory_ \in BOOLEAN
    /\ frames = <<GetContextFrame(stopped)>>
    /\ done = FALSE

Last == frames[Len(frames)]

-----------------------------------------------------------------------------
(* What the symbol file says of a function: CFI, or a STACK WIN record, or *)
(* only the size of its parameters.                                        *)
Below(n) == <<Id(".cfa"), Num(n), Op("-"), Op("^")>>
Saved(f, r, slot) == IF Slot(f, slot) = 0 THEN <<>> ELSE Rule(r, Below(1 + Slot(f, slot)))

\* CFI at a call counts the arguments pushed there.
Pushed == LET js == {j \in DOMAIN Truth : Truth[j].sp = Last.ctx["$esp"]}
          IN  IF js = {} THEN 0 ELSE Layout[chain[Len(chain) + 1 - Lowest(js)]].params
Rules(f) ==
    Rule(".cfa", <<Id("$esp"), Num(Pushed + Len(Layout[f].slots) + 1), Op("+")>>)
        \o Rule(".ra", Below(1)) \o Saved(f, "$ebx", "r") \o Saved(f, "$ebp", "fp")
MapOrder(names) == SelectSeq(<<"$ebp", "$ebx">>, LAMBDA r : r \in names)

FrameProgram ==
    <<Id("$T0"), Id("$ebp"), Smash(Id("$eip")), Id("$T0"), Num(1), Op("+"), Op("^"), Op("="),
      Id("$ebx"), Id("$T0"), Num(1), Op("-"), Op("^"), Op("="),
      Id("$ebp"), Id("$T0"), Op("^"), Op("="), Id("$esp"), Id("$T0"), Num(2), Op("+"), Op("=")>>
AlignProgram ==
    <<Id("$T1"), Id(".raSearch"), Op("="), Id("$T0"), Id("$T1"), Num(2), Op("-"), Num(2), Op("@"), Op("="),
      Id("$eip"), Id("$T1"), Op("^"), Op("="), Id("$ebp"), Id("$T1"), Num(1), Op("-"), Op("^"), Op("="),
      Id("$esp"), Id("$T1"), Num(1), Op("+"), Op("=")>>

\* The STACK WIN record of f; "aligned" and "padded" frames hold words it does
\* not count, and the word of a system call stub is none of its locals.
Record(f) ==
    LET L == Layout[f]
        count(s) == Cardinality({i \in DOMAIN L.slots : L.slots[i] = s})
        R(type, saved, allocates, program) ==
            [valid |-> "all", type |-> type, params |-> L.params, saved |-> saved,
             locals |-> count("junk") + IF L.record = "padded" THEN 0 ELSE count("old"),
             allocates |-> allocates, program |-> program]
    IN  CASE L.record \in {"fpo", "padded"} -> R("fpo", count("r"), FALSE, <<>>)
          [] L.record = "fpoEbp" -> [R("fpo", 2, TRUE, <<>>) EXCEPT !.locals = @ - 1]
          [] L.record = "frame" -> R("data", count("r"), FALSE, FrameProgram)
          [] L.record = "aligned" -> [R("data", 0, FALSE, AlignProgram) EXCEPT !.locals = 0]
          [] L.record = "bad" -> R("data", count("r"), FALSE, <<Op("+")>>)
          [] L.record = "params" -> [R("unknown", 0, FALSE, <<>>) EXCEPT !.valid = "params"]

-----------------------------------------------------------------------------
(* GetCallerByWindowsFrameInfo *)

\* The parameters of the last frame's callee, above which its own frame begins.
CalleeParams ==
    IF Len(frames) < 2 THEN 0
    ELSE LET f == FunctionAt(frames[Len(frames) - 1].instruction) IN IF f = 0 THEN 0 ELSE Record(f).params

FindUp(start) == LET c == Candidates(Stack, start, 3) IN IF c = {} THEN start ELSE Lowest(c)

\* Where the return address should be, moved up for an aligned stack; a word
\* equal to the program counter on top of a system call's frame is skipped.
RaSearchStart(last, info, start) ==
    LET found == FindUp(start)
        systemCall == /\ Readable(found) /\ InstructionAddressSeemsValid(Stack[found])
                      /\ last.trust = "context" /\ info.type = "fpo"
                      /\ found = start /\ Stack[found] = last.ctx["$eip"]
    IN  IF systemCall THEN FindUp(found + 1) ELSE found

RaThen(more) == <<Id("$eip"), Id(".raSearchStart"), Op("^"), Op("=")>> \o more
                    \o <<Id("$esp"), Id(".raSearchStart"), Num(1), Op("+"), Op("=")>>
ProgramString(info) ==
    IF info.program # <<>> THEN info.program
    ELSE IF info.allocates
    THEN RaThen(<<Id("$ebp"), Id("$esp"), Id(".cbCalleeParams"), Op("+"), Id(".cbSavedRegs"), Op("+"),
                  Num(2), Op("-"), Op("^"), Op("=")>>)
    ELSE RaThen(<<>>)
RecoverEbp(info) == info.program # <<>> \/ info.allocates

\* With an alignment operator only %ebp can be relied on.
SearchStart(last, info, start) ==
    IF "$ebp" \in last.valid /\ \E i \in DOMAIN ProgramString(info) : ProgramString(info)[i] = Op("@")
    THEN last.ctx["$ebp"] + 1
    ELSE RaSearchStart(last, info, start)

Dictionary(last, info, start) ==
    [x \in {"$ebp", "$esp", ".cbCalleeParams", ".cbSavedRegs", ".cbLocals", ".cbParams",
            ".raSearchStart", ".raSearch"} |->
        CASE x \in {"$ebp", "$esp"} -> last.ctx[x]
          [] x = ".cbCalleeParams" -> CalleeParams
          [] x = ".cbSavedRegs" -> info.saved
          [] x = ".cbLocals" -> info.locals
          [] x = ".cbParams" -> info.params
          [] OTHER -> start]

\* What the program string gives, or a scan when it fails: [dict, set, trust,
\* offset], with set empty when there is nothing.
ComputedOr(E, scan) ==
    IF E.status = "ok" /\ {"$eip", "$esp"} \subseteq E.assigned
    THEN [dict |-> E.dict, set |-> E.assigned, trust |-> "cfi", offset |-> 0]
    ELSE IF ScanAllowed /\ scan # {}
    THEN [dict |-> [x \in DOMAIN E.dict \cup {"$eip", "$esp"} |->
                     CASE x = "$eip" -> Stack[Lowest(scan)] [] x = "$esp" -> Lowest(scan) + 1
                       [] OTHER -> E.dict[x]],
          set |-> E.assigned \cup {"$eip", "$esp"}, trust |-> "scan", offset |-> 0]
    ELSE [dict |-> E.dict, set |-> {}, trust |-> "none", offset |-> 0]
Computed(last, info, start, first) ==
    ComputedOr(CF(Stack)!Evaluate(Dictionary(last, info, start), ProgramString(info)),
               Candidates(Stack, last.ctx["$esp"], SearchWords(first)))

\* A return address outside the modules is looked for further up.
BetterEip(c, start, first) ==
    LET scan == Candidates(Stack, start + 1, SearchWords(first))
        at == Lowest(scan)
    IN  IF ~InstructionAddressSeemsValid(c.dict["$eip"]) /\ ScanAllowed /\ scan # {}
        THEN [c EXCEPT !.dict["$eip"] = Stack[at], !.dict["$esp"] = at + 1, !.trust = "cfiScan",
                       !.offset = at - (start + 1)]
        ELSE c

\* A frame pointer that points nowhere, or below the return address a scan
\* found, is looked for in the saved registers, from the top.
BetterEbp(c, last, info, start) ==
    LET end == last.ctx["$esp"] + CalleeParams
        Reached(l) == \A x \in l..(end + info.saved + c.offset) : Readable(x)
        Found(l) == Reached(l) /\ Readable(Stack[l])
        ls == {l \in end..(end + info.saved + c.offset) : Found(l)}
        skipped == c.trust # "cfi" /\ c.dict["$ebp"] <= start + c.offset
    IN  IF (skipped \/ ~Readable(c.dict["$ebp"])) /\ ls # {}
        THEN [c EXCEPT !.dict["$ebp"] = Stack[CHOOSE l \in ls : \A x \in ls : x <= l]]
        ELSE c

WindowsFrame(last, set, final) ==
    LET known == Essentials \cup (set \cap {"$ebx"})
    IN  Frame([r \in All |-> IF r \in known THEN final.dict[r] ELSE last.ctx[r]], known, final.trust, 0)
Corrected(last, info, start, first, c) ==
    IF c.set = {} THEN NoFrame
    ELSE IF c.dict["$eip"] = 0 /\ c.dict["$ebp"] = 0 THEN WindowsFrame(last, c.set, c)
    ELSE WindowsFrame(last, c.set, IF RecoverEbp(info) THEN BetterEbp(BetterEip(c, start, first), last, info, start)
                                                       ELSE BetterEip(c, start, first))
FromSearchStart(last, info, first, start) ==
    Corrected(last, info, start, first, Computed(last, info, start, first))
GetCallerByWindowsFrameInfo(last, info, first) ==
    IF info.valid # "all" THEN NoFrame
    ELSE FromSearchStart(last, info, first,
                         SearchStart(last, info, last.ctx["$esp"] + CalleeParams + info.locals + info.saved))
ByRecordOf(f, last, first) == IF f = 0 THEN NoFrame ELSE GetCallerByWindowsFrameInfo(last, Record(f), first)

-----------------------------------------------------------------------------
CFIFrame(found) ==
    IF ~found.ok \/ ~(Essentials \subseteq DOMAIN found.regs) THEN NoFrame
    ELSE Frame([r \in All |-> IF r \in DOMAIN found.regs THEN found.regs[r] ELSE 0],
               DOMAIN found.regs, "cfi", 0)
ByRules(last, info) ==
    CFIFrame(CF(Stack)!FindCallerRegisters(RegisterMap, info, [r \in last.valid |-> last.ctx[r]],
                                           MapOrder(DOMAIN info.regs)))
GetCallerByCFIFrameInfo(last) ==
    IF HasCFI(last) THEN ByRules(last, CF(Stack)!ParseCFIRuleSet(Rules(FunctionAt(last.instruction))))
    ELSE NoFrame

Traditional(last, eip, esp, ebp, trust) ==
    Frame([last.ctx EXCEPT !["$eip"] = eip, !["$esp"] = esp, !["$ebp"] = ebp], Essentials, trust, 0)

ScannedEsp(at) == at + 1

\* The %ebp chain is taken up again after a scan when the word below the
\* return address looks like part of it.
RestoredEbp(last, at) ==
    IF Readable(at - 1) /\ Stack[at - 1] > at - 1 /\ Stack[at - 1] - (at - 1) <= kMaxReasonableGapBetweenFrames
    THEN Stack[at - 1] ELSE last.ctx["$ebp"]

GetCallerByEBPAtBase(last, first) ==
    LET ebp == last.ctx["$ebp"]
        scan == Candidates(Stack, last.ctx["$esp"], SearchWords(first))
        at == Lowest(scan)
    IN  IF Readable(ebp + 1) /\ Readable(ebp) THEN Traditional(last, Stack[ebp + 1], ebp + 2, Stack[ebp], "fp")
        ELSE IF ScanAllowed /\ scan # {} THEN Traditional(last, Stack[at], ScannedEsp(at), RestoredEbp(last, at), "scan")
        ELSE NoFrame

-----------------------------------------------------------------------------
FirstFound(last, first) ==
    OrElse(ByRecordOf(FunctionAt(last.instruction), last, first),
           OrElse(GetCallerByCFIFrameInfo(last), GetCallerByEBPAtBase(last, first)))

\* End of stack, or no progress.
Ended(last, new) == new = NoFrame \/ new.ctx["$eip"] = 0 \/ new.ctx["$esp"] <= last.ctx["$esp"]

PushOrEnd(new) ==
    IF Ended(Last, new) THEN done' = TRUE /\ UNCHANGED frames
    ELSE frames' = Append(frames, [new EXCEPT !.instruction = new.ctx["$eip"] - 1]) /\ UNCHANGED done

GetCallerFrame ==
    /\ ~done
    /\ IF memory_ THEN PushOrEnd(FirstFound(Last, Len(frames) = 1)) ELSE done' = TRUE /\ UNCHANGED frames
    /\ UNCHANGED <<chain, stopped, memory_>>

Over == done /\ UNCHANGED walkVars

WalkNext == GetCallerFrame \/ Over

-----------------------------------------------------------------------------
\* A function the walker can leave without guessing.
Described(f) ==
    \/ Layout[f].cfi
    \/ Layout[f].record \in {"fpo", "padded", "fpoEbp", "frame", "aligned"}
    \/ Layout[f].base = "frame" /\ Layout[f].record = "params"

\* A scan, or the three words looked at above an aligned frame, took a word that
\* an earlier call left for the return address; or such a frame is the outermost,
\* and there is no return address to be found.
Misled ==
    \/ Layout[chain[1]].record = "padded"
    \/ \E i \in 2..Len(frames) :
        \/ TookOld(frames[i], "$esp", stopped.old)
        \/ /\ frames[i].ctx["$esp"] - 1 \in stopped.old
           /\ Layout[FunctionAt(frames[i - 1].instruction)].record = "padded"

\* When each function of the chain is described, the walk finds every caller,
\* with the stack pointer of the moment of the call, in the right function, and
\* ends after the outermost, unless it is misled by what is left on the stack.
WalkIsExact ==
    (~Misled /\ memory_ /\ \A i \in DOMAIN chain : Described(chain[i])) =>
        /\ done => Len(frames) = Len(chain)
        /\ Len(frames) <= Len(chain)
        /\ \A i \in 2..Len(frames) :
              /\ FunctionAt(frames[i].instruction) = Truth[i - 1].f
              /\ frames[i].ctx["$esp"] = Truth[i - 1].sp

\* A register marked valid holds what it held in that caller.
ValidMeansTrue ==
    (~Misled /\ \A i \in DOMAIN chain : Described(chain[i])) =>
        \A i \in 2..Len(frames) : i - 1 <= Len(Truth) =>
            /\ frames[i].ctx["$ebp"] = Truth[i - 1].fp
            /\ "$ebx" \in frames[i].valid => frames[i].ctx["$ebx"] = Truth[i - 1].r

\* Where a record is unusable or there is none, callers may be passed over, but
\* none is made up until the search meets a word that looks like a return
\* address: each frame is a caller of the chain. Without memory there is none.
OnlyTrueCallers ==
    ~Misled => \A i \in 2..Len(frames) :
        /\ memory_
        /\ \E j \in DOMAIN Truth :
              /\ Truth[j].sp = frames[i].ctx["$esp"]
              /\ FunctionAt(frames[i].instruction) = Truth[j].f
=============================================================================
