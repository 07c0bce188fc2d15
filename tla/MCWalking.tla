----------------------------- MODULE MCWalking ------------------------------
(***************************************************************************)
(* Walking a stack and finding symbols for it: the maps of ranges and of   *)
(* nested ranges, the symbol files and the resolvers that search them, the *)
(* symbolizer and its buffers, Stackwalker::Walk and the walkers of the    *)
(* processors, each on small inputs.  A behaviour is one of one component, *)
(* which the first state chooses.  Constants of RangeMap are given by the  *)
(* configuration, those of the others here.                                *)
(***************************************************************************)
EXTENDS RangeMap, Sequences

VARIABLES
    component,   \* the component that this behaviour is of
    v1, v2, v3, v4, v5, v6, v7, v8, v9, v10, v11, v12, v13, v14, v15, v16, v17, v18   \* the variables of that component, 0 if it has fewer

CONSTANTS
    NoName,   \* an empty string
    NoModule  \* no code module

\* Modules whose symbol files differ only in their identifiers, two of them
\* with one code_file.
CodeFileOf == [m1 |-> "a.dll", m2 |-> "b.dll", m3 |-> "a.dll"]
DebugFileOf == [m1 |-> "p.pdb", m2 |-> "p.pdb", m3 |-> "p.pdb"]
IdentifierOf == [m1 |-> "i1", m2 |-> "i2", m3 |-> "i3"]

\* Functions with and without CFI, a frame pointer, saved registers and locals,
\* some of which end with a call, some with return addresses that are left in
\* their frames from earlier calls.
AmdF(cfi, slots, base, tail) ==
    [cfi |-> cfi, slots |-> slots, base |-> base, tail |-> tail, params |-> 0, leaf |-> FALSE]
AmdLayout ==
    <<AmdF(TRUE, <<"fp", "r", "junk">>, "frame", TRUE), AmdF(TRUE, <<"old", "junk">>, "same", FALSE),
      AmdF(FALSE, <<"fp", "old">>, "frame", TRUE), AmdF(TRUE, <<"r">>, "same", FALSE),
      AmdF(FALSE, <<"fp", "r">>, "frame", FALSE), AmdF(TRUE, <<"fp", "r">>, "own", FALSE)>>
AmdBareLayout ==
    <<AmdF(TRUE, <<"r">>, "same", FALSE), AmdF(FALSE, <<"fp", "r", "junk">>, "frame", TRUE),
      AmdF(FALSE, <<"junk">>, "same", FALSE), AmdF(FALSE, <<"r", "junk", "junk">>, "same", FALSE),
      AmdF(FALSE, <<"r", "old">>, "same", FALSE)>>

\* Functions with STACK WIN records of each kind, usable, unusable or only the
\* size of the parameters.
X86F(record, cfi, slots, base, params, tail) ==
    [record |-> record, cfi |-> cfi, slots |-> slots, base |-> base, params |-> params, tail |-> tail, leaf |-> FALSE]
X86Layout ==
    <<X86F("fpo", FALSE, <<"junk", "r">>, "same", 1, TRUE), X86F("fpoEbp", FALSE, <<"junk", "old", "fp">>, "own", 0, FALSE),
      X86F("frame", FALSE, <<"fp", "r">>, "frame", 2, FALSE), X86F("aligned", FALSE, <<"fp", "junk", "junk">>, "frame", 1, FALSE),
      X86F("params", TRUE, <<"fp", "junk">>, "own", 1, FALSE), X86F("params", FALSE, <<"fp", "old">>, "frame", 1, TRUE),
      [X86F("fpo", FALSE, <<"pc">>, "same", 0, FALSE) EXCEPT !.leaf = TRUE]>>
X86GuessLayout ==
    <<X86F("frame", FALSE, <<"fp", "r">>, "frame", 1, FALSE), X86F("bad", FALSE, <<"fp", "junk", "r">>, "frame", 0, FALSE),
      X86F("params", FALSE, <<"junk">>, "same", 1, FALSE), X86F("params", FALSE, <<"fp", "r", "junk">>, "own", 0, FALSE),
      X86F("params", TRUE, <<"r">>, "same", 0, FALSE), X86F("params", FALSE, <<"old", "junk">>, "same", 0, FALSE),
      X86F("padded", FALSE, <<"pad", "old", "r">>, "same", 0, FALSE), X86F("padded", FALSE, <<"pad", "junk">>, "same", 0, FALSE)>>

\* Functions that keep the link register in their frame, and leaves.
ArmF(cfi, slots, base, tail, stale) ==
    [cfi |-> cfi, slots |-> slots, base |-> base, tail |-> tail, stale |-> stale,
     leaf |-> Len(slots) = 0 \/ slots[1] # "lr", params |-> 0]
ArmLayout ==
    <<ArmF(TRUE, <<"lr", "r">>, "same", TRUE, FALSE), ArmF(TRUE, <<"lr", "fp", "junk">>, "frame", FALSE, TRUE),
      ArmF(TRUE, <<>>, "same", FALSE, FALSE), ArmF(FALSE, <<"lr", "old">>, "same", FALSE, FALSE),
      ArmF(TRUE, <<"lr", "junk">>, "same", TRUE, TRUE)>>
ArmFpLayout ==
    <<ArmF(FALSE, <<"lr", "fp", "junk">>, "frame", TRUE, FALSE), ArmF(FALSE, <<"lr", "fp">>, "frame", FALSE, TRUE),
      ArmF(TRUE, <<"lr", "fp", "r">>, "frame", FALSE, FALSE), ArmF(FALSE, <<>>, "same", FALSE, FALSE),
      ArmF(FALSE, <<"old">>, "same", FALSE, FALSE)>>
Arm64Layout ==
    <<ArmF(FALSE, <<"lr", "fp", "junk">>, "frame", TRUE, FALSE), ArmF(FALSE, <<"lr", "fp">>, "frame", FALSE, TRUE),
      ArmF(TRUE, <<"lr", "fp", "r">>, "frame", TRUE, FALSE), ArmF(TRUE, <<"lr", "old", "r">>, "same", FALSE, TRUE),
      ArmF(TRUE, <<"junk">>, "same", FALSE, FALSE), ArmF(FALSE, <<>>, "same", FALSE, FALSE)>>

Nested == INSTANCE ContainedRangeMap WITH
    Max <- 3, Entries <- {"e1", "e2"}, NoEntry <- "none", MaxStored <- 3, root <- v1, last <- v2

Fast == INSTANCE Symbolizer WITH
    CodeModules <- {"m1", "m2"}, CodeFile <- CodeFileOf, DebugFile <- DebugFileOf,
    Identifier <- IdentifierOf, NoName <- NoName, Paths <- <<"root">>, Symbolizing <- "fast",
    Calls <- {"load", "unload", "convert"}, MaxBuffers <- 2, disk <- v1, modules_ <- v2,
    corrupt_modules_ <- v3, memory_buffers_ <- v4, no_symbol_modules_ <- v5, live <- v6,
    allocated <- v7, freedTwice <- v8, last <- v9, reported <- v10

Basic == INSTANCE Symbolizer WITH
    CodeModules <- {"m1", "m2"}, CodeFile <- CodeFileOf, DebugFile <- DebugFileOf,
    Identifier <- IdentifierOf, NoName <- NoName, Paths <- <<"root">>, Symbolizing <- "basic",
    Calls <- {"reset", "file", "convert"}, MaxBuffers <- 4, disk <- v1, modules_ <- v2,
    corrupt_modules_ <- v3, memory_buffers_ <- v4, no_symbol_modules_ <- v5, live <- v6,
    allocated <- v7, freedTwice <- v8, last <- v9, reported <- v10

Same == INSTANCE Symbolizer WITH
    CodeModules <- {"m1", "m3"}, CodeFile <- CodeFileOf, DebugFile <- DebugFileOf,
    Identifier <- IdentifierOf, NoName <- NoName, Paths <- <<"root">>, Symbolizing <- "fast",
    Calls <- {"unload"}, MaxBuffers <- 3, disk <- v1, modules_ <- v2, corrupt_modules_ <- v3,
    memory_buffers_ <- v4, no_symbol_modules_ <- v5, live <- v6, allocated <- v7, freedTwice <- v8,
    last <- v9, reported <- v10

Walk == INSTANCE StackWalk WITH
    CodeModules <- {"m1", "m2"}, CodeFile <- CodeFileOf, DebugFile <- DebugFileOf,
    Identifier <- IdentifierOf, NoName <- NoName, Paths <- <<"root">>, Symbolizing <- "fast",
    Calls <- {}, MaxBuffers <- 2, NoModule <- NoModule, max_frames_ <- 2, max_frames_scanned_ <- 1,
    Threads <- 1, disk <- v1, modules_ <- v2, corrupt_modules_ <- v3, memory_buffers_ <- v4,
    no_symbol_modules_ <- v5, live <- v6, allocated <- v7, freedTwice <- v8, last <- v9,
    reported <- v10, frame <- v11, frames <- v12, scanned_frames <- v13, walked <- v14, walking <- v15,
    interrupted <- v16, modules_without_symbols <- v17, modules_with_corrupt_symbols <- v18

Walks == INSTANCE StackWalk WITH
    CodeModules <- {"m1", "m2"}, CodeFile <- CodeFileOf, DebugFile <- DebugFileOf,
    Identifier <- IdentifierOf, NoName <- NoName, Paths <- <<"root">>, Symbolizing <- "basic",
    Calls <- {}, MaxBuffers <- 2, NoModule <- NoModule, max_frames_ <- 1, max_frames_scanned_ <- 0,
    Threads <- 2, disk <- v1, modules_ <- v2, corrupt_modules_ <- v3, memory_buffers_ <- v4,
    no_symbol_modules_ <- v5, live <- v6, allocated <- v7, freedTwice <- v8, last <- v9,
    reported <- v10, frame <- v11, frames <- v12, scanned_frames <- v13, walked <- v14, walking <- v15,
    interrupted <- v16, modules_without_symbols <- v17, modules_with_corrupt_symbols <- v18

Amd == INSTANCE StackwalkerAMD64 WITH
    Top <- 24, CodeBase <- 42, Junk <- 25, W <- 7, kRASearchWords <- 3, ScanAllowed <- TRUE,
    os_short <- "windows", SandboxBase <- 128, Layout <- AmdLayout, MaxCalls <- 4, chain <- v1,
    stopped <- v2, frames <- v3, done <- v4

Nacl == INSTANCE StackwalkerAMD64 WITH
    Top <- 24, CodeBase <- 42, Junk <- 25, W <- 8, kRASearchWords <- 3, ScanAllowed <- TRUE,
    os_short <- "nacl", SandboxBase <- 128, Layout <- AmdLayout, MaxCalls <- 3, chain <- v1,
    stopped <- v2, frames <- v3, done <- v4

AmdBare == INSTANCE StackwalkerAMD64 WITH
    Top <- 24, CodeBase <- 42, Junk <- 25, W <- 7, kRASearchWords <- 3, ScanAllowed <- TRUE,
    os_short <- "windows", SandboxBase <- 128, Layout <- AmdBareLayout, MaxCalls <- 5, chain <- v1,
    stopped <- v2, frames <- v3, done <- v4

X86 == INSTANCE StackwalkerX86 WITH
    Top <- 28, CodeBase <- 51, Junk <- 29, W <- 7, kRASearchWords <- 3, ScanAllowed <- TRUE,
    kMaxReasonableGapBetweenFrames <- 10, Layout <- X86Layout, MaxCalls <- 3, chain <- v1,
    stopped <- v2, memory_ <- v3, frames <- v4, done <- v5

X86Guess == INSTANCE StackwalkerX86 WITH
    Top <- 28, CodeBase <- 51, Junk <- 29, W <- 7, kRASearchWords <- 3, ScanAllowed <- TRUE,
    kMaxReasonableGapBetweenFrames <- 10, Layout <- X86GuessLayout, MaxCalls <- 4, chain <- v1,
    stopped <- v2, memory_ <- v3, frames <- v4, done <- v5

Arm == INSTANCE StackwalkerARM WITH
    Top <- 24, CodeBase <- 42, Junk <- 25, W <- 7, kRASearchWords <- 3, ScanAllowed <- TRUE,
    Layout <- ArmLayout, MaxCalls <- 4, Is64 <- FALSE, FpRegister <- FALSE, chain <- v1, stopped <- v2,
    frames <- v3, done <- v4

ArmFp == INSTANCE StackwalkerARM WITH
    Top <- 24, CodeBase <- 42, Junk <- 25, W <- 7, kRASearchWords <- 3, ScanAllowed <- TRUE,
    Layout <- ArmFpLayout, MaxCalls <- 4, Is64 <- FALSE, FpRegister <- TRUE, chain <- v1,
    stopped <- v2, frames <- v3, done <- v4

Arm64 == INSTANCE StackwalkerARM WITH
    Top <- 24, CodeBase <- 42, Junk <- 25, W <- 7, kRASearchWords <- 3, ScanAllowed <- TRUE,
    Layout <- Arm64Layout, MaxCalls <- 4, Is64 <- TRUE, FpRegister <- TRUE, chain <- v1, stopped <- v2,
    frames <- v3, done <- v4

Sym == INSTANCE SymbolModule WITH
    Max <- 3, FileIds <- {1}, Kinds <- {"FUNC", "LINE", "PUBLIC", "FILE", "INFO"},
    kMaxErrorsBeforeBailing <- 1, MaxLines <- 3, files_ <- v1, functions_ <- v2, public_symbols_ <- v3,
    windows_frame_info_ <- v4, cfi_initial_rules_ <- v5, cfi_delta_rules_ <- v6, is_corrupt_ <- v7,
    func <- v8, cur_func <- v9, line_number <- v10, num_errors <- v11, loading <- v12, lines <- v13

SymWin == INSTANCE SymbolModule WITH
    Max <- 3, FileIds <- {1}, Kinds <- {"WIN", "FUNC", "STACK"}, kMaxErrorsBeforeBailing <- 1,
    MaxLines <- 2, files_ <- v1, functions_ <- v2, public_symbols_ <- v3, windows_frame_info_ <- v4,
    cfi_initial_rules_ <- v5, cfi_delta_rules_ <- v6, is_corrupt_ <- v7, func <- v8, cur_func <- v9,
    line_number <- v10, num_errors <- v11, loading <- v12, lines <- v13

SymCfi == INSTANCE SymbolModule WITH
    Max <- 2, FileIds <- {1}, Kinds <- {"INIT", "CFI"}, kMaxErrorsBeforeBailing <- 1, MaxLines <- 3,
    files_ <- v1, functions_ <- v2, public_symbols_ <- v3, windows_frame_info_ <- v4,
    cfi_initial_rules_ <- v5, cfi_delta_rules_ <- v6, is_corrupt_ <- v7, func <- v8, cur_func <- v9,
    line_number <- v10, num_errors <- v11, loading <- v12, lines <- v13

FastSym == INSTANCE FastModule WITH
    Max <- 3, FileIds <- {1}, Kinds <- {"FUNC", "LINE", "PUBLIC", "FILE"},
    kMaxErrorsBeforeBailing <- 0, MaxLines <- 3, files_ <- v1, functions_ <- v2, public_symbols_ <- v3,
    windows_frame_info_ <- v4, cfi_initial_rules_ <- v5, cfi_delta_rules_ <- v6, is_corrupt_ <- v7,
    func <- v8, cur_func <- v9, line_number <- v10, num_errors <- v11, loading <- v12, lines <- v13

FastStack == INSTANCE FastModule WITH
    Max <- 3, FileIds <- {1}, Kinds <- {"WIN", "INIT", "CFI"}, kMaxErrorsBeforeBailing <- 0,
    MaxLines <- 2, files_ <- v1, functions_ <- v2, public_symbols_ <- v3, windows_frame_info_ <- v4,
    cfi_initial_rules_ <- v5, cfi_delta_rules_ <- v6, is_corrupt_ <- v7, func <- v8, cur_func <- v9,
    line_number <- v10, num_errors <- v11, loading <- v12, lines <- v13

SuiteInit ==
    /\ Init
    /\ \/ component = "ranges" /\ v1 = 0 /\ v2 = 0 /\ v3 = 0 /\ v4 = 0 /\ v5 = 0 /\ v6 = 0 /\ v7 = 0 /\ v8 = 0 /\ v9 = 0 /\ v10 = 0 /\ v11 = 0 /\ v12 = 0 /\ v13 = 0 /\ v14 = 0 /\ v15 = 0 /\ v16 = 0 /\ v17 = 0 /\ v18 = 0
       \/ component = "nested" /\ Nested!Init /\ v3 = 0 /\ v4 = 0 /\ v5 = 0 /\ v6 = 0 /\ v7 = 0 /\ v8 = 0 /\ v9 = 0 /\ v10 = 0 /\ v11 = 0 /\ v12 = 0 /\ v13 = 0 /\ v14 = 0 /\ v15 = 0 /\ v16 = 0 /\ v17 = 0 /\ v18 = 0
       \/ component = "fastsymbols" /\ Fast!Init /\ v11 = 0 /\ v12 = 0 /\ v13 = 0 /\ v14 = 0 /\ v15 = 0 /\ v16 = 0 /\ v17 = 0 /\ v18 = 0
       \/ component = "basicsymbols" /\ Basic!Init /\ v11 = 0 /\ v12 = 0 /\ v13 = 0 /\ v14 = 0 /\ v15 = 0 /\ v16 = 0 /\ v17 = 0 /\ v18 = 0
       \/ component = "samename" /\ Same!Init /\ v11 = 0 /\ v12 = 0 /\ v13 = 0 /\ v14 = 0 /\ v15 = 0 /\ v16 = 0 /\ v17 = 0 /\ v18 = 0
       \/ component = "stack" /\ Walk!WalkInit
       \/ component = "stacks" /\ Walks!WalkInit
       \/ component = "amd64" /\ Amd!WalkInit /\ v5 = 0 /\ v6 = 0 /\ v7 = 0 /\ v8 = 0 /\ v9 = 0 /\ v10 = 0 /\ v11 = 0 /\ v12 = 0 /\ v13 = 0 /\ v14 = 0 /\ v15 = 0 /\ v16 = 0 /\ v17 = 0 /\ v18 = 0
       \/ component = "nacl" /\ Nacl!WalkInit /\ v5 = 0 /\ v6 = 0 /\ v7 = 0 /\ v8 = 0 /\ v9 = 0 /\ v10 = 0 /\ v11 = 0 /\ v12 = 0 /\ v13 = 0 /\ v14 = 0 /\ v15 = 0 /\ v16 = 0 /\ v17 = 0 /\ v18 = 0
       \/ component = "amd64bare" /\ AmdBare!WalkInit /\ v5 = 0 /\ v6 = 0 /\ v7 = 0 /\ v8 = 0 /\ v9 = 0 /\ v10 = 0 /\ v11 = 0 /\ v12 = 0 /\ v13 = 0 /\ v14 = 0 /\ v15 = 0 /\ v16 = 0 /\ v17 = 0 /\ v18 = 0
       \/ component = "x86" /\ X86!WalkInit /\ v6 = 0 /\ v7 = 0 /\ v8 = 0 /\ v9 = 0 /\ v10 = 0 /\ v11 = 0 /\ v12 = 0 /\ v13 = 0 /\ v14 = 0 /\ v15 = 0 /\ v16 = 0 /\ v17 = 0 /\ v18 = 0
       \/ component = "x86guess" /\ X86Guess!WalkInit /\ v6 = 0 /\ v7 = 0 /\ v8 = 0 /\ v9 = 0 /\ v10 = 0 /\ v11 = 0 /\ v12 = 0 /\ v13 = 0 /\ v14 = 0 /\ v15 = 0 /\ v16 = 0 /\ v17 = 0 /\ v18 = 0
       \/ component = "arm" /\ Arm!WalkInit /\ v5 = 0 /\ v6 = 0 /\ v7 = 0 /\ v8 = 0 /\ v9 = 0 /\ v10 = 0 /\ v11 = 0 /\ v12 = 0 /\ v13 = 0 /\ v14 = 0 /\ v15 = 0 /\ v16 = 0 /\ v17 = 0 /\ v18 = 0
       \/ component = "armfp" /\ ArmFp!WalkInit /\ v5 = 0 /\ v6 = 0 /\ v7 = 0 /\ v8 = 0 /\ v9 = 0 /\ v10 = 0 /\ v11 = 0 /\ v12 = 0 /\ v13 = 0 /\ v14 = 0 /\ v15 = 0 /\ v16 = 0 /\ v17 = 0 /\ v18 = 0
       \/ component = "arm64" /\ Arm64!WalkInit /\ v5 = 0 /\ v6 = 0 /\ v7 = 0 /\ v8 = 0 /\ v9 = 0 /\ v10 = 0 /\ v11 = 0 /\ v12 = 0 /\ v13 = 0 /\ v14 = 0 /\ v15 = 0 /\ v16 = 0 /\ v17 = 0 /\ v18 = 0
       \/ component = "symbols" /\ Sym!Init /\ v14 = 0 /\ v15 = 0 /\ v16 = 0 /\ v17 = 0 /\ v18 = 0
       \/ component = "winsymbols" /\ SymWin!Init /\ v14 = 0 /\ v15 = 0 /\ v16 = 0 /\ v17 = 0 /\ v18 = 0
       \/ component = "cfisymbols" /\ SymCfi!Init /\ v14 = 0 /\ v15 = 0 /\ v16 = 0 /\ v17 = 0 /\ v18 = 0
       \/ component = "fastmodule" /\ FastSym!Init /\ v14 = 0 /\ v15 = 0 /\ v16 = 0 /\ v17 = 0 /\ v18 = 0
       \/ component = "faststack" /\ FastStack!Init /\ v14 = 0 /\ v15 = 0 /\ v16 = 0 /\ v17 = 0 /\ v18 = 0

SuiteNext ==
    \/ component = "ranges" /\ Next /\ UNCHANGED <<component, v1, v2, v3, v4, v5, v6, v7, v8, v9, v10, v11, v12, v13, v14, v15, v16, v17, v18>>
    \/ component = "nested" /\ Nested!Next /\ UNCHANGED <<component, vars, v3, v4, v5, v6, v7, v8, v9, v10, v11, v12, v13, v14, v15, v16, v17, v18>>
    \/ component = "fastsymbols" /\ Fast!Next /\ UNCHANGED <<component, vars, v11, v12, v13, v14, v15, v16, v17, v18>>
    \/ component = "basicsymbols" /\ Basic!Next /\ UNCHANGED <<component, vars, v11, v12, v13, v14, v15, v16, v17, v18>>
    \/ component = "samename" /\ Same!Next /\ UNCHANGED <<component, vars, v11, v12, v13, v14, v15, v16, v17, v18>>
    \/ component = "stack" /\ Walk!WalkNext /\ UNCHANGED <<component, vars>>
    \/ component = "stacks" /\ Walks!WalkNext /\ UNCHANGED <<component, vars>>
    \/ component = "amd64" /\ Amd!WalkNext /\ UNCHANGED <<component, vars, v5, v6, v7, v8, v9, v10, v11, v12, v13, v14, v15, v16, v17, v18>>
    \/ component = "nacl" /\ Nacl!WalkNext /\ UNCHANGED <<component, vars, v5, v6, v7, v8, v9, v10, v11, v12, v13, v14, v15, v16, v17, v18>>
    \/ component = "amd64bare" /\ AmdBare!WalkNext /\ UNCHANGED <<component, vars, v5, v6, v7, v8, v9, v10, v11, v12, v13, v14, v15, v16, v17, v18>>
    \/ component = "x86" /\ X86!WalkNext /\ UNCHANGED <<component, vars, v6, v7, v8, v9, v10, v11, v12, v13, v14, v15, v16, v17, v18>>
    \/ component = "x86guess" /\ X86Guess!WalkNext /\ UNCHANGED <<component, vars, v6, v7, v8, v9, v10, v11, v12, v13, v14, v15, v16, v17, v18>>
    \/ component = "arm" /\ Arm!WalkNext /\ UNCHANGED <<component, vars, v5, v6, v7, v8, v9, v10, v11, v12, v13, v14, v15, v16, v17, v18>>
    \/ component = "armfp" /\ ArmFp!WalkNext /\ UNCHANGED <<component, vars, v5, v6, v7, v8, v9, v10, v11, v12, v13, v14, v15, v16, v17, v18>>
    \/ component = "arm64" /\ Arm64!WalkNext /\ UNCHANGED <<component, vars, v5, v6, v7, v8, v9, v10, v11, v12, v13, v14, v15, v16, v17, v18>>
    \/ component = "symbols" /\ Sym!Next /\ UNCHANGED <<component, vars, v14, v15, v16, v17, v18>>
    \/ component = "winsymbols" /\ SymWin!Next /\ UNCHANGED <<component, vars, v14, v15, v16, v17, v18>>
    \/ component = "cfisymbols" /\ SymCfi!Next /\ UNCHANGED <<component, vars, v14, v15, v16, v17, v18>>
    \/ component = "fastmodule" /\ FastSym!Next /\ UNCHANGED <<component, vars, v14, v15, v16, v17, v18>>
    \/ component = "faststack" /\ FastStack!Next /\ UNCHANGED <<component, vars, v14, v15, v16, v17, v18>>

suite_vars == <<component, vars, v1, v2, v3, v4, v5, v6, v7, v8, v9, v10, v11, v12, v13, v14, v15, v16, v17, v18>>

SuiteSpec ==
    /\ SuiteInit /\ [][SuiteNext]_suite_vars

-----------------------------------------------------------------------------
\* ContainedRangeMap implements the set of nested ranges of NestedRanges: StoreRange adds only a range that
\* may be stored beside all others, and loses or changes none of them when it moves children into the new one.
ImplementsNestedRanges ==
    /\ component = "nested" => Nested!Abstract!Init
    /\ [][component = "nested" => Nested!Abstract!Next \/ UNCHANGED Nested!stored]_suite_vars

\* The GetCallerFrame of AMD64 (Native Client included) and of x86 finds every caller of a chain of calls, in
\* order, with the stack pointer of the moment of the call, and ends after the outermost, when each function
\* has rules or keeps a frame pointer; that of ARM and ARM64 does when each function has rules.  A register it
\* marks valid holds what it held in that caller.  Where it has to guess it makes up no caller.
\* The exceptions: a word that an earlier call left on the stack may be taken for a return address where there
\* are no rules to follow, or in the padding of an aligned frame (stackwalker_x86.cc:236-238).  With a frame
\* pointer register, ARM and ARM64 show the functions of the chain, the innermost perhaps twice, but the stack
\* pointer and frame pointer of each are those of one caller further out; nothing is said there of other
\* registers, nor of chains on ARM64 of which only some functions have rules.
WalksAreExact ==
    /\ component = "amd64" => Amd!WalkIsExact /\ Amd!ValidMeansTrue
    /\ component = "nacl" => Nacl!WalkIsExact /\ Nacl!ValidMeansTrue
    /\ component = "amd64bare" => AmdBare!OnlyTrueCallers
    /\ component = "x86" => X86!WalkIsExact /\ X86!ValidMeansTrue
    /\ component = "x86guess" => X86Guess!WalkIsExact /\ X86Guess!ValidMeansTrue /\ X86Guess!OnlyTrueCallers
    /\ component = "arm" => Arm!WalkIsExact /\ Arm!ValidMeansTrue
    /\ component = "armfp" => ArmFp!WalkIsChain /\ ArmFp!PointersGoOutward
    /\ component = "arm64" => Arm64!WalkIsExact /\ Arm64!ValidMeansTrue /\ Arm64!WalkIsChain /\ Arm64!PointersGoOutward

\* Stackwalker::Walk keeps to max_frames_scanned_ dubious frames, and over all threads lists each module
\* without symbols, and each with corrupt ones, once and in one list, whatever symbols a scan fetched for words
\* of the stack in between.
WalksAreBounded ==
    /\ component = "stack" => Walk!ScannedWithinLimit /\ Walk!ListsComplete
    /\ component = "stacks" => Walks!ScannedWithinLimit /\ Walks!ListsComplete

\* Symbols that are searched in place are in a buffer that is alive, no buffer is deleted twice, and none is
\* lost where nothing is unloaded: whatever the order of fetches, loads, conversions and unloads under one name.
\* FillSourceLineInfo answers with the symbols of that module, and says that there are none only when there
\* were none; modules that have one code_file share their symbols, or the lack of them, whichever of them came
\* first (source_line_resolver_base.cc:157, 230, stack_frame_symbolizer.cc:69-75).
BuffersLive ==
    /\ component = "fastsymbols" => Fast!SearchedBufferAlive /\ Fast!NoDoubleDelete /\ Fast!CorruptExactly /\ Fast!OwnSymbols /\ Fast!ErrorMeansMissing
    /\ component = "basicsymbols" => Basic!SearchedBufferAlive /\ Basic!NoDoubleDelete /\ Basic!CorruptExactly /\ Basic!OwnSymbols /\ Basic!EveryBufferHeld /\ Basic!MissingUntilReset
    /\ component = "samename" => Same!SearchedBufferAlive /\ Same!NoDoubleDelete /\ Same!CorruptExactly /\ Same!OwnSymbols /\ Same!ErrorMeansMissing /\ Same!MissingUntilReset

\* A lookup answers from lines of the symbol file that cover the address: the
\* innermost range, the function that was first, its own source lines, FRAME_DATA
\* before FPO, CFI rules in the order of their addresses.  The serialised module
\* fills its buffer exactly and answers every query as the parsed one does.
LookupsAreTruthful ==
    /\ component = "ranges" => RetrievesNearest /\ IndexIsAddressOrder
    /\ component = "nested" => Nested!TreeIsNested /\ Nested!RetrievesInnermost
    /\ component = "symbols" => Sym!LookupTruthful /\ Sym!FirstFunctionWins /\ Sym!ErrorsCounted
    /\ component = "winsymbols" => SymWin!ErrorsCounted /\ SymWin!FrameDataPreferred
    /\ component = "cfisymbols" => SymCfi!ErrorsCounted /\ SymCfi!CfiRulesInOrder
    /\ component = "fastmodule" => FastSym!SizeIsWritten /\ FastSym!CompareHolds /\ FastSym!Validates /\ FastSym!SameAnswers
    /\ component = "faststack" => FastStack!SizeIsWritten /\ FastStack!CompareHolds /\ FastStack!Validates /\ FastStack!SameAnswers

\* Walks of one stack only.
StackSpec ==
    component = "stack" /\ SuiteSpec

\* "The maximum number of frames Stackwalker will walk through" (stackwalker.h:216):
\* no stack has more than max_frames_ frames.
FramesWithinLimit ==
    component = "stack" => Walk!FramesWithinLimit
=============================================================================
