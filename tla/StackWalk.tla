------------------------------ MODULE StackWalk ------------------------------
(***************************************************************************)
(* processor/stackwalker.cc: Stackwalker::Walk over the threads of one     *)
(* minidump, each frame symbolized by the StackFrameSymbolizer of module   *)
(* Symbolizer.  What a CPU's GetContextFrame and GetCallerFrame find is    *)
(* left open here (they are modelled in StackwalkerX86 and its siblings);  *)
(* they are only bound to honour stack_scan_allowed.                       *)
(***************************************************************************)
EXTENDS Symbolizer

CONSTANTS
    NoModule,            \* a frame whose instruction is in no module
    max_frames_,
    max_frames_scanned_,
    Threads              \* the threads walked, one after the other

VARIABLES
    frame,           \* the frame in hand, NoFrame, or Sought while a caller is looked for
    frames,          \* the frames of the stack so far
    scanned_frames,
    walked,          \* the stacks of the walks that returned true
    walking,         \* a walk is under way
    interrupted,     \* a walk returned false, which ends the processing
    modules_without_symbols,
    modules_with_corrupt_symbols

walkVars == <<frame, frames, scanned_frames, walked, walking, interrupted,
              modules_without_symbols, modules_with_corrupt_symbols>>
allVars == <<vars, walkVars>>

NoFrame == [trust |-> "none"]
Sought == [trust |-> "sought"]
Dubious == {"scan", "cfi_scan"}
Trusted == {"cfi", "fp"}
Frame(m, t) == [module |-> m, trust |-> t]
Where == CodeModules \cup {NoModule}

WalkInit ==
    /\ Init
    /\ frame = NoFrame /\ frames = <<>> /\ scanned_frames = 0 /\ walked = <<>>
    /\ walking = FALSE /\ interrupted = FALSE
    /\ modules_without_symbols = <<>> /\ modules_with_corrupt_symbols = <<>>

InList(list, m) == \E i \in DOMAIN list : list[i] = m

InsertSpecialAttentionModule(m, list) ==
    IF m = NoModule \/ InList(list, m) THEN list ELSE Append(list, m)

\* The start of a walk: stack->Clear() and GetContextFrame, which has no frame
\* to give when the thread has no context.
StartWalk ==
    /\ ~walking /\ ~interrupted /\ Len(walked) < Threads
    /\ walking' = TRUE
    /\ frames' = <<>> /\ scanned_frames' = 0
    /\ frame' \in {NoFrame} \cup {Frame(m, "context") : m \in Where}
    /\ UNCHANGED <<vars, walked, interrupted, modules_without_symbols, modules_with_corrupt_symbols>>

\* Mutant: the limit on scanned frames is off by one.
ScanAllowedLate(scanned) == scanned <= max_frames_scanned_

ScanAllowed(scanned) == scanned < max_frames_scanned_

OverLimit(n) == n > max_frames_

\* InstructionAddressSeemsValid, of a word of the stack that is in module m: the
\* symbols are fetched for it, and an interrupted fetch does not end the walk.
InstructionAddressSeemsValid(m) ==
    /\ frame = Sought
    /\ FillSourceLineInfo(m)
    /\ UNCHANGED walkVars

\* A GetCallerFrame of some CPU returns. A frame that a scan found has been
\* looked at before.
GetCallerFrame ==
    /\ frame = Sought
    /\ \/ frame' \in {NoFrame} \cup {Frame(m, t) : m \in Where, t \in Trusted}
       \/ /\ ScanAllowed(scanned_frames) /\ last.call = "fill"
          /\ frame' \in {Frame(last.module, t) : t \in Dubious}
    /\ UNCHANGED <<vars, frames, scanned_frames, walked, walking, interrupted, modules_without_symbols,
                   modules_with_corrupt_symbols>>

\* The rest of an iteration, after the symbolizer's answer: the frame is pushed
\* and the next one sought unless the stack is too long.
PushFrame ==
    LET scanned == scanned_frames + IF frame.trust \in Dubious THEN 1 ELSE 0
    IN  /\ scanned_frames' = scanned
        /\ frames' = Append(frames, frame)
        /\ frame' = IF OverLimit(Len(frames')) THEN NoFrame ELSE Sought
        /\ UNCHANGED <<walked, walking, interrupted>>

ListModule(m, result) ==
    /\ modules_without_symbols' =
         IF result = "kError" THEN InsertSpecialAttentionModule(m, modules_without_symbols)
         ELSE modules_without_symbols
    /\ modules_with_corrupt_symbols' =
         IF result = "kWarningCorruptSymbols" THEN InsertSpecialAttentionModule(m, modules_with_corrupt_symbols)
         ELSE modules_with_corrupt_symbols

\* One iteration of Walk's loop.
WalkFrame ==
    /\ walking /\ frame \notin {NoFrame, Sought}
    /\ IF frame.module = NoModule
       THEN UNCHANGED <<vars, modules_without_symbols, modules_with_corrupt_symbols>> /\ PushFrame
       ELSE /\ FillSourceLineInfo(frame.module)
            /\ IF last'.result = "kInterrupt"
               THEN /\ interrupted' = TRUE /\ walking' = FALSE /\ frame' = NoFrame
                    /\ UNCHANGED <<frames, scanned_frames, walked, modules_without_symbols,
                                   modules_with_corrupt_symbols>>
               ELSE PushFrame /\ ListModule(frame.module, last'.result)

EndWalk ==
    /\ walking /\ frame = NoFrame
    /\ walking' = FALSE
    /\ walked' = Append(walked, frames)
    /\ UNCHANGED <<vars, frame, frames, scanned_frames, interrupted, modules_without_symbols,
                   modules_with_corrupt_symbols>>

\* Every thread is walked, or the processing was interrupted.
Over == ~walking /\ (interrupted \/ Len(walked) = Threads) /\ UNCHANGED allVars

WalkNext ==
    \/ StartWalk \/ WalkFrame \/ GetCallerFrame \/ EndWalk \/ Over
    \/ \E m \in CodeModules : InstructionAddressSeemsValid(m)

-----------------------------------------------------------------------------
Elements(list) == {list[i] : i \in DOMAIN list}

\* No stack holds more dubious frames than max_frames_scanned_, though the count
\* is only looked at after a frame has been taken.
ScannedWithinLimit ==
    Cardinality({i \in DOMAIN frames : frames[i].trust \in Dubious}) <= max_frames_scanned_

\* "The maximum number of frames Stackwalker will walk through."
\* (stackwalker.h:216).
FramesWithinLimit == Len(frames) <= max_frames_

\* The two lists a caller gets for all threads: a module is in one of them at
\* most and once at most, and each module of a stack that has no symbols, or
\* corrupt ones, is there.
ListsComplete ==
    LET missing == Elements(modules_without_symbols)
        corrupt == Elements(modules_with_corrupt_symbols)
    IN  /\ Cardinality(missing) = Len(modules_without_symbols)
        /\ Cardinality(corrupt) = Len(modules_with_corrupt_symbols)
        /\ missing \cap corrupt = {}
        /\ \A w \in DOMAIN walked : \A i \in DOMAIN walked[w] :
              LET m == walked[w][i].module
              IN  m # NoModule =>
                    /\ CodeFile[m] \in no_symbol_modules_ => m \in missing
                    /\ CodeFile[m] \in corrupt_modules_[Symbolizing] => m \in corrupt
=============================================================================
