------------------------- MODULE StackwalkerCommon -------------------------
(***************************************************************************)
(* What the stack walkers of all processors share: frames, the look-up of  *)
(* CFI, and the scan for a return address (stackwalker.h, stackwalker.cc). *)
(* Also the program whose stack is walked, as the walkers' comments        *)
(* describe its calling convention: a thread calls a chain of functions,   *)
(* each of which lays out its frame, and is then stopped.  The result is   *)
(* the memory and the registers that a minidump holds, and the truth about *)
(* the callers.  Addresses count words; a function occupies three words of *)
(* code, and a call at its last instruction returns past its end.          *)
(***************************************************************************)
EXTENDS Integers, Sequences

CONSTANTS
    Layout,   \* function -> [slots, base, params, tail, leaf, ...]
    Top,      \* the first address above the stack
    CodeBase, \* code addresses begin above it; a multiple of 3
    Junk,     \* what locals and arguments hold
    MaxCalls,       \* bound: functions of a chain
    kRASearchWords  \* words a scan looks at

Q == INSTANCE SequencesExt

Functions == DOMAIN Layout
Body(f) == CodeBase + 3 * f + 1
RetAddr(f) == Body(f) + IF Layout[f].tail THEN 2 ELSE 1

\* The function of a code address, 0 for none.
FunctionAt(a) == IF a \div 3 - CodeBase \div 3 \in Functions THEN a \div 3 - CodeBase \div 3 ELSE 0

Own(f) == CodeBase - 1 - f  \* what f keeps in the register it saved

\* The place of a saved register in the frame of f, counted down from the
\* return address; 0 when f does not save it.
Slot(f, s) == IF \E i \in DOMAIN Layout[f].slots : Layout[f].slots[i] = s
              THEN CHOOSE i \in DOMAIN Layout[f].slots : Layout[f].slots[i] = s ELSE 0

Thread == [mem |-> [a \in {} |-> 0], sp |-> Top, fp |-> 0, r |-> CodeBase - 1, f |-> 0, old |-> {}, truth |-> <<>>]

\* Function f is called: the arguments, the return address, then its slots. An
\* "old" slot holds a return address that an earlier call left there, and old
\* has the addresses of such slots. Its frame pointer is the "fp" slot's address, a value of its own, or the
\* caller's.
Enter(m, f) ==
    LET L == Layout[f]
        args == m.sp - L.params
        ret == args - 1
        sp == ret - Len(L.slots)
        Word(a) ==
            CASE a >= args -> Junk
              [] a = ret -> IF m.f = 0 THEN 0 ELSE RetAddr(m.f)
              [] OTHER -> CASE L.slots[ret - a] = "fp" -> m.fp
                            [] L.slots[ret - a] = "r" -> m.r
                            [] L.slots[ret - a] = "pc" -> Body(f)
                            [] L.slots[ret - a] = "old" -> RetAddr(f)
                            [] L.slots[ret - a] \in {"junk", "pad"} -> Junk
    IN  [mem |-> [a \in (sp..(m.sp - 1)) \cup DOMAIN m.mem |-> IF a < m.sp THEN Word(a) ELSE m.mem[a]],
         sp |-> sp,
         fp |-> CASE L.base = "frame" -> ret - Slot(f, "fp") [] L.base = "own" -> Junk [] L.base = "same" -> m.fp,
         r |-> IF Slot(f, "r") # 0 THEN Own(f) ELSE m.r, f |-> f,
         old |-> m.old \cup {a \in sp..(ret - 1) : L.slots[ret - a] = "old"},
         truth |-> IF m.f = 0 THEN <<>>
                   ELSE <<[f |-> m.f, sp |-> args, fp |-> m.fp, r |-> m.r]>> \o m.truth]

Stopped(chain) == Q!FoldLeft(Enter, Thread, chain)

\* The same where a call leaves the return address in the link register: a
\* function that calls others keeps it in its "lr" slot.
EnterLinked(m, f) ==
    LET L == Layout[f]
        sp == m.sp - Len(L.slots)
        ret == IF m.f = 0 THEN 0 ELSE RetAddr(m.f)
        Word(a) ==
            CASE L.slots[m.sp - a] = "lr" -> ret
              [] L.slots[m.sp - a] = "fp" -> m.fp
              [] L.slots[m.sp - a] = "r" -> m.r
              [] L.slots[m.sp - a] = "pc" -> Body(f)
              [] L.slots[m.sp - a] = "old" -> RetAddr(f)
              [] L.slots[m.sp - a] = "junk" -> Junk
    IN  [mem |-> [a \in (sp..(m.sp - 1)) \cup DOMAIN m.mem |-> IF a < m.sp THEN Word(a) ELSE m.mem[a]],
         sp |-> sp,
         fp |-> IF L.base = "frame" THEN m.sp - Slot(f, "fp") ELSE m.fp,
         r |-> IF Slot(f, "r") # 0 THEN Own(f) ELSE m.r, f |-> f,
         lr |-> IF L.stale THEN Body(f) + 1 ELSE ret,
         old |-> m.old \cup {a \in sp..(m.sp - 1) : L.slots[m.sp - a] = "old"},
         truth |-> IF m.f = 0 THEN <<>>
                   ELSE <<[f |-> m.f, sp |-> m.sp, fp |-> m.fp, r |-> m.r]>> \o m.truth]

StoppedLinked(chain) == Q!FoldLeft(EnterLinked, Thread, chain)

-----------------------------------------------------------------------------
Chains == {c \in UNION {[1..n -> Functions] : n \in 1..MaxCalls} :
              \A i \in 1..(Len(c) - 1) : ~Layout[c[i]].leaf}

\* ctx holds every register, valid the names of those that are known.
Frame(ctx, valid, trust, instruction) ==
    [ctx |-> ctx, valid |-> valid, trust |-> trust, instruction |-> instruction]

\* The first of two ways that finds a frame.
OrElse(frame, other) == IF frame.trust # "none" THEN frame ELSE other

\* The words of symbol files: of expressions, and of a rule.
Id(i) == [k |-> "id", v |-> i]
Op(o) == [k |-> "op", v |-> o]
Num(n) == [k |-> "num", v |-> n, neg |-> FALSE]
Smash(t) == [k |-> "smash", v |-> t]
Rule(name, expression) == <<[k |-> "name", v |-> name]>> \o expression

\* FindCFIFrameInfo looks the frame's instruction up.
HasCFI(frame) == FunctionAt(frame.instruction) # 0 /\ Layout[FunctionAt(frame.instruction)].cfi

\* The module's symbols name every function of the chain.
InstructionAddressSeemsValid(a) == FunctionAt(a) # 0

SearchWords(isContextFrame) == IF isContextFrame THEN 4 * kRASearchWords ELSE kRASearchWords

\* ScanForReturnAddress: it stops at the first address that is not in memory.
Candidates(stack, start, words) ==
    {a \in start..(start + words) :
        (\A b \in start..a : b \in DOMAIN stack) /\ InstructionAddressSeemsValid(stack[a])}
Lowest(S) == CHOOSE a \in S : \A b \in S : a <= b

\* A frame that a scan has found at a word that an earlier call left: "A search
\* for a return address is "guesswork" by definition because the results will
\* be different depending on what is left on the stack from previous
\* executions" (stackwalker_x86.cc:236-238).
TookOld(frame, sp, old) == frame.trust \in {"scan", "cfiScan"} /\ frame.ctx[sp] - 1 \in old
=============================================================================
