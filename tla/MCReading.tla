----------------------------- MODULE MCReading ------------------------------
(***************************************************************************)
(* The readers of files.  Of minidumps: the directory and the streams,     *)
(* contexts, lists and modules, and MinidumpProcessor.  Of DWARF debugging *)
(* information: call frame information, units, line programs, names and    *)
(* the pass that gives functions their lines.  Each is on small files.  A  *)
(* behaviour is one of one component, which the first state chooses.       *)
(* Constants of CFIInterpreter are given by the configuration, those of    *)
(* the others here.                                                        *)
(***************************************************************************)
EXTENDS CFIInterpreter, TLC

VARIABLES
    component,   \* the component that this behaviour is of
    v1, v2, v3, v4, v5, v6, v7, v8, v9, v10, v11, v12, v13   \* the variables of that component, 0 if it has fewer

\* Files with every fault that Minidump::Read looks for, and streams that can
\* be read, are bad, or end too soon.
E(t, seek, read) == [type |-> t, seek |-> seek, read |-> read]
AFile(open, sig, version, rva, dir) == [open |-> open, sig |-> sig, version |-> version, rva |-> rva, dir |-> dir]
WholeFile == <<E("sys", TRUE, "ok"), E("threads", TRUE, "ok"), E("raw", TRUE, "ok"), E("raw", TRUE, "ok")>>
SomeFiles ==
    {AFile(TRUE, "own", TRUE, "ok", WholeFile),
     AFile(TRUE, "swapped", TRUE, "ok", <<E("threads", TRUE, "bad"), E("sys", TRUE, "eof")>>),
     AFile(TRUE, "own", TRUE, "ok", <<E("threads", TRUE, "ok"), E("threads", TRUE, "ok")>>),
     AFile(TRUE, "swapped", TRUE, "ok", <<E("sys", TRUE, "bad"), E("threads", FALSE, "ok")>>),
     AFile(TRUE, "other", TRUE, "ok", <<>>), AFile(TRUE, "own", FALSE, "ok", <<>>), AFile(TRUE, "short", TRUE, "ok", <<>>),
     AFile(TRUE, "own", TRUE, "short", <<E("sys", TRUE, "ok")>>), AFile(TRUE, "own", TRUE, "ok", WholeFile \o WholeFile),
     AFile(TRUE, "own", TRUE, "short", <<>>), AFile(FALSE, "own", TRUE, "ok", WholeFile)}

\* Contexts of every CPU, with flags that name it, that name none, and odd
\* ones, in dumps of both byte orders.
CPUSizes == [X86 |-> 716, PPC |-> 1004, PPC64 |-> 1160, AMD64 |-> 1232, SPARC |-> 584, ARM |-> 368, ARM64 |-> 796, MIPS |-> 600]
Loc(at, size, cpu, old, high, bytes) ==
    [at |-> at, size |-> size, cpu |-> cpu, old |-> old, high |-> high, bytes |-> bytes]
SomeLocations ==
    {Loc(100, CPUSizes[k], k, FALSE, FALSE, "all") : k \in DOMAIN CPUSizes}
    \cup {Loc(200, CPUSizes[k], "none", FALSE, FALSE, "all") : k \in DOMAIN CPUSizes}
    \cup {Loc(300, CPUSizes["ARM"], "none", TRUE, FALSE, "all"), Loc(300, CPUSizes["X86"], "none", TRUE, FALSE, "all"),
          Loc(300, CPUSizes["ARM64"], "ARM64", FALSE, TRUE, "all"), Loc(300, CPUSizes["PPC64"], "PPC64", FALSE, FALSE, "flags"),
          Loc(300, CPUSizes["PPC"], "X86", FALSE, FALSE, "all"), Loc(300, 32, "none", FALSE, FALSE, "none"),
          Loc(300, CPUSizes["MIPS"], "MIPS", FALSE, FALSE, "flags"), Loc(300, CPUSizes["AMD64"], "AMD64", FALSE, FALSE, "flags")}
ContextDumps ==
    {[swap |-> sw, sys |-> s] : sw \in BOOLEAN, s \in DOMAIN CPUSizes \cup {"X86_WIN64", "IA64", "none", "bad"}}

\* Streams of at most three entries of a set, or of four, more than 32 bits
\* can count the bytes of: with the size they have, padded, or another, and
\* counts that are and are not those of the file.
StreamSize(n) == (4 + n * 36) % 128
EntryBelow(e, f) == e.base + e.size <= f.base /\ e.size > 0
Streams(S) ==
    UNION {{[expected |-> x, count |-> Len(l), entries |-> l] : x \in {StreamSize(Len(l)), StreamSize(Len(l)) + 4}} :
              l \in UNION {[1..n -> S] : n \in 0..3}}
    \cup {[expected |-> StreamSize(4), count |-> 4, entries |-> l] :
              l \in {m \in [1..4 -> S] : \A i \in 1..3 : EntryBelow(m[i], m[i + 1])}}
    \cup UNION {{[expected |-> x, count |-> c, entries |-> <<e>>] : x \in {2, StreamSize(1) + 1, StreamSize(2)}, c \in 1..2} : e \in S}
AThread(id, base, size, bytes) == [id |-> id, base |-> base, size |-> size, rva |-> 1, bytes |-> bytes]
SomeThreads == Streams({AThread(1, 2, 3, TRUE), AThread(1, 6, 5, TRUE), AThread(2, 4, 2, FALSE),
                        AThread(2, 0, 1, TRUE), AThread(2, 1, 0, TRUE), AThread(3, 5, 4, TRUE), AThread(4, 0, 6, TRUE)})
AModule(base, size, ashmem, aux) == [base |-> base, size |-> size, ashmem |-> ashmem, aux |-> aux]
SomeModules ==
    Streams({AModule(0, 2, FALSE, "ok"), AModule(1, 3, TRUE, "ok"), AModule(4, 2, FALSE, "large"), AModule(3, 1, TRUE, "eof"),
             AModule(5, 9, FALSE, "ok"), AModule(6, 2, FALSE, "noname"), AModule(7, 2, FALSE, "ok"), AModule(2, 2, FALSE, "ok")})
ARegion(base, size, bytes) == [base |-> base, size |-> size, bytes |-> bytes]
SomeMemory == Streams({ARegion(0, 2, TRUE), ARegion(1, 2, TRUE), ARegion(3, 4, FALSE), ARegion(4, 5, TRUE),
                       ARegion(8, 1, TRUE), ARegion(6, 0, TRUE)})
SomeInfos ==
    {[header |-> h, expected |-> s.expected, count |-> s.count, entries |-> s.entries] : h \in BOOLEAN,
        s \in Streams({ARegion(0, 2, TRUE), ARegion(1, 2, TRUE), ARegion(3, 2, TRUE), ARegion(5, 3, TRUE), ARegion(8, 1, TRUE)})}

\* Modules whose records have each size, signature and end, and are wholly,
\* partly or not there.  Sizes are scaled down: a CodeView record has 6 fixed
\* bytes, or 4 in the old form, a miscellaneous record 3, and 8 are read.
GoodCV == [size |-> 8, here |-> 9, sig |-> "pdb70", last |-> 0, file |-> "pdb"]
NoMisc == [size |-> 0, here |-> 9, length |-> 3, unicode |-> FALSE, text |-> "name"]
AMisc == [NoMisc EXCEPT !.size = 5, !.length = 5]
CVs == {[size |-> s, here |-> h, sig |-> g, last |-> l, file |-> f] :
          s \in {0, 2, 3, 5, 6, 8, 9}, h \in {-1, 4, 9}, g \in {"pdb70", "pdb20", "other"}, l \in 0..1, f \in {"", "pdb"}}
Miscs == {[size |-> s, here |-> h, length |-> n, unicode |-> u, text |-> t] :
            s \in {0, 2, 3, 5, 9}, h \in {-1, 4, 9}, n \in {3, 5}, u \in BOOLEAN, t \in {"name", "odd"}}
RawModules(C, M) == {[here |-> TRUE, range |-> TRUE, name |-> "ok", cv |-> c, misc |-> m] : c \in C, m \in M}
SomeRawModules ==
    RawModules(CVs, {NoMisc, AMisc}) \cup RawModules({GoodCV, [GoodCV EXCEPT !.last = 1], [GoodCV EXCEPT !.size = 0]}, Miscs)
    \cup {[here |-> h, range |-> g, name |-> n, cv |-> GoodCV, misc |-> AMisc] : h, g \in BOOLEAN, n \in {"bad", "eof"}}

\* Dumps for MinidumpProcessor: all the ways to say who wrote the dump, who
\* asked for it and who crashed; and dumps that lack something, for states
\* that are used again.
BaseDump == [readable |-> TRUE, system |-> <<[arch |-> "x86", platform |-> "win32_nt"]>>, create_time |-> TRUE,
             dump_thread |-> <<>>, requesting |-> <<>>, exception |-> <<>>, modules |-> TRUE, memory |-> {1}, threads |-> <<>>]
T(id, context, memory, start) == [got |-> "ok", id |-> id, context |-> context, memory |-> memory, start |-> start]
ThreadLists ==
    UNION {[1..n -> {T(1, "known", TRUE, 0), T(1, "null", FALSE, 1), T(2, "known", FALSE, 0), T(3, "unknown", TRUE, 0),
                     T(3, "known", TRUE, 1)}] : n \in 0..2}
Exception(id, c) == [thread |-> id, code |-> "access_violation", parameters |-> 2, context |-> c]
ThreadDumps ==
    {[BaseDump EXCEPT !.threads = <<l>>, !.dump_thread = w, !.requesting = r, !.exception = e] :
        l \in ThreadLists, w \in {<<>>, <<1>>, <<3>>}, r \in {<<>>, <<2>>, <<3>>},
        e \in {<<>>, <<Exception(2, "known")>>, <<Exception(1, "null")>>, <<Exception(4, "known")>>}}
OneList == <<<<T(1, "known", TRUE, 0), T(2, "known", FALSE, 0)>>>>
ACrash == <<Exception(2, "known")>>
MixedDumps ==
    {[BaseDump EXCEPT !.readable = FALSE], BaseDump,
     [BaseDump EXCEPT !.threads = OneList, !.exception = ACrash],
     [BaseDump EXCEPT !.threads = OneList, !.modules = FALSE],
     [BaseDump EXCEPT !.threads = OneList, !.system = <<>>, !.exception = ACrash, !.create_time = FALSE],
     [BaseDump EXCEPT !.threads = OneList, !.system = <<[arch |-> "amd64", platform |-> "nacl"]>>, !.dump_thread = <<1>>],
     [BaseDump EXCEPT !.threads = <<<<T(1, "known", TRUE, 0), [T(2, "known", TRUE, 0) EXCEPT !.got = "noid"]>>>>],
     [BaseDump EXCEPT !.threads = <<<<T(1, "known", TRUE, 0), [T(2, "known", TRUE, 0) EXCEPT !.got = "null"]>>>>]}

\* Sections of call frame information: entries of each kind, each with every
\* fault that the reader looks for.
Item(letter, encoding) == [letter |-> letter, encoding |-> encoding]
CIE(version, augmentation, items, bad) ==
    [kind |-> "cie", version |-> version, augmentation |-> augmentation, items |-> items, bad |-> bad]
FDE(cie, bad) == [kind |-> "fde", cie |-> cie, bad |-> bad]

FDEs == {FDE(1, bad) : bad \in {"no", "address", "length", "data", "instructions"}} \cup {FDE(0, "no"), FDE(2, "no")}
CIEs ==
    {CIE(1, "none", <<>>, bad) : bad \in {"no", "version", "augmentation", "factors", "instructions"}}
    \cup {CIE(4, "none", <<>>, "no"), CIE(3, "other", <<>>, "no"),
          CIE(3, "z", <<Item("P", "absptr"), Item("L", "funcrel"), Item("R", "pcrel"), Item("S", "absptr")>>, "no"),
          CIE(3, "z", <<Item("L", "omit")>>, "no"), CIE(3, "z", <<Item("L", "invalid")>>, "no"),
          CIE(3, "z", <<Item("R", "absptr"), Item("?", "absptr")>>, "no")}
\* Two CIEs, of which the second may need the base of a function, and FDEs.
BaseCIEs == {CIE(3, "z", <<Item("P", "funcrel")>>, "no"), CIE(3, "z", <<Item("L", "funcrel"), Item("R", "funcrel")>>, "no")}
FrameSections ==
    [1..3 -> {[kind |-> "cut"], [kind |-> "short"], [kind |-> "terminator"]} \cup FDEs \cup CIEs]
    \cup {<<c, d, e, f>> : c \in CIEs, d \in BaseCIEs, e \in FDEs, f \in {FDE(1, "no"), FDE(2, "no"), FDE(2, "instructions")}}
    \cup {<<CIE(1, "none", <<>>, "no"), d, e, f, FDE(2, "no")>> : d \in BaseCIEs, e \in FDEs, f \in FDEs}

\* Units of each width, version and address size, whose DIEs have every form
\* and are nested with padding, followed by a unit that lies further on.
F(form) == [form |-> form]
FN(form, n) == [form |-> form, n |-> n]
Ref(form, target) == [form |-> form, target |-> target]
DIE(children, forms) == [children |-> children, forms |-> forms]
Unit(wide, version, size, dies) == [wide |-> wide, version |-> version, address_size |-> size, dies |-> dies]
Tree(a, b, c) ==
    <<DIE(TRUE, <<F("strp"), F("addr"), F("sec_offset")>>), DIE(TRUE, a), DIE(FALSE, b), [null |-> TRUE],
      DIE(FALSE, c), [null |-> TRUE], [null |-> TRUE]>>
Fixed == <<F("data1"), F("flag"), F("data2"), F("data4"), F("data8"), F("flag_present"), F("ref_sig8")>>
Sized == <<FN("string", 3), FN("udata", 2), FN("sdata", 1), FN("block1", 2), FN("block2", 0), FN("block4", 1),
           FN("block", 3), FN("exprloc", 0), FN("indirect", 4)>>
Refs == <<Ref("ref1", 5), Ref("ref2", 1), Ref("ref4", 2), Ref("ref8", 3), [form |-> "ref_udata", n |-> 2, target |-> 4], Ref("ref_addr", 5)>>
Trees == {Tree(Fixed, Sized, Refs), Tree(Refs, <<>>, Sized), Tree(<<Ref("ref4", 3), FN("unhandled", 2), F("data1")>>, Fixed, Sized), <<DIE(FALSE, <<Ref("ref4", 1), Ref("ref_addr", 1), F("strp")>>)>>}
UnitSections ==
    {<<Unit(w, v, s, t), Unit(x, 4, 8, Tree(Sized, Fixed, Refs))>> :
        w \in BOOLEAN, v \in {2, 4}, s \in {4, 8}, t \in Trees, x \in BOOLEAN}

\* Line programs: opcodes that move the address, with jumps to code that was
\* dropped, and all others; special opcodes for no code, one unit and two.
Relative(p) == [absolute |-> FALSE, parts |-> <<p>>]
Absolute(p) == [absolute |-> TRUE, parts |-> <<p>>]
LineHeaders == {[min_insn_length |-> 1, line_base |-> -1, line_range |-> 60, opcode_base |-> 13],
                [min_insn_length |-> 2, line_base |-> -1, line_range |-> 120, opcode_base |-> 10]}
LineFiles == <<[name |-> Relative("a.c"), dir |-> 0], [name |-> Relative("b.h"), dir |-> 2],
               [name |-> Absolute("c.c"), dir |-> 1], [name |-> Relative("d.c"), dir |-> 3]>>
Moves == {<<"special", 14>>, <<"special", 140>>, <<"set_address", 2>>, <<"set_address", 9>>, <<"end_sequence">>, <<"advance_pc", 3>>}
OtherOpcodes ==
    {<<"copy">>, <<"end_sequence">>, <<"special", 80>>, <<"const_add_pc">>, <<"fixed_advance_pc", 13>>,
     <<"advance_line", 3>>, <<"set_file", 2>>, <<"set_file", 7>>, <<"set_address", 12>>,
     <<"set_column", 1>>, <<"negate_stmt">>, <<"unknown", 2>>, <<"unknown_extended", 2>>,
     <<"define_file", [name |-> Relative("e.c"), dir |-> 1], 4>>}

\* Bytes of four values, so that each LEB128 byte holds one bit; sections that
\* begin with the LEB128 numbers -32768, -16384, -17, 16384, 65535 and 5, and
\* with a plain one.
Times(n, byte) == [i \in 1..n |-> byte]
Padded(s) == [i \in 1..24 |-> IF i <= Len(s) THEN s[i] ELSE IF i = 24 THEN 0 ELSE (i * 3) % 4]
ByteBuffers ==
    {Padded(s) : s \in {Times(15, 2) \o <<1>>, Times(14, 2) \o <<1>>, <<3, 3, 3, 3, 2, 1>>, Times(14, 2) \o <<3, 0>>,
                        Times(15, 3) \o <<1>>, <<3, 2, 1>>, <<3, 3, 3, 3, 0, 2>>}}

\* Scopes, declarations, definitions, inlined functions and their instances.
Plain == [tag |-> "subprogram", name |-> <<>>, linkage_name |-> <<>>, declaration |-> FALSE, inline |-> FALSE,
          low_pc |-> 0, high_pc |-> 0, length |-> FALSE, refers |-> {}]
Code(attr) == [attr EXCEPT !.low_pc = 4, !.high_pc = 8]
DIEAttributes ==
    {[Plain EXCEPT !.tag = "scope", !.name = <<"A">>],
     [Plain EXCEPT !.tag = "scope", !.name = <<"B">>, !.declaration = TRUE],
     [Plain EXCEPT !.tag = "scope", !.refers = {"specification"}],
     [Plain EXCEPT !.name = <<"f">>, !.declaration = TRUE],
     [Plain EXCEPT !.linkage_name = <<"L">>, !.declaration = TRUE],
     [Plain EXCEPT !.declaration = TRUE, !.refers = {"specification"}],
     Code([Plain EXCEPT !.refers = {"specification", "abstract_origin"}]),
     Code([Plain EXCEPT !.name = <<"g">>, !.refers = {"specification"}]),
     [Plain EXCEPT !.name = <<"h">>, !.inline = TRUE],
     [Plain EXCEPT !.name = <<"l">>, !.low_pc = 3, !.high_pc = 2, !.length = TRUE],
     [Plain EXCEPT !.name = <<"z">>, !.high_pc = 8]}

Dump == INSTANCE Minidump WITH
    Files <- SomeFiles, Types <- {"sys", "threads", "raw"}, Single <- {"sys", "threads"}, CPU <- "sys",
    max_streams_ <- 4, MaxObjects <- 3, MaxReads <- 3, file <- v1, stream_ <- v2, pos <- v3,
    valid_ <- v4, swap_ <- v5, directory_ <- v6, stream_map_ <- v7, made <- v8, live <- v9,
    dangling <- v10, held <- v11, reads <- v12, last <- v13

Contexts == INSTANCE MinidumpContext WITH
    Owners <- {"t1", "exc"}, Locations <- SomeLocations, Dumps <- ContextDumps, SysAt <- 50,
    dump <- v1, location <- v2, stream_ <- v3, sysRead <- v4, context_ <- v5, made <- v6, live <- v7

Lists == INSTANCE MinidumpLists WITH
    Max <- 9, UintMax <- 127, EntrySize <- 36, MaxCount <- 5, max_bytes_ <- 5,
    ThreadStreams <- SomeThreads, ModuleStreams <- SomeModules, MemoryStreams <- SomeMemory,
    InfoStreams <- SomeInfos, kind <- v1, stream <- v2, list <- v3, range_map_ <- v4,
    id_to_thread_map_ <- v5, stream_ <- v6, consumed <- v7, memory_ <- v8

Modules == INSTANCE MinidumpModule WITH
    Raw <- SomeRawModules, max_cv_bytes_ <- 8, max_misc_bytes_ <- 8, MDCVInfoPDB70_minsize <- 6,
    MDCVInfoPDB20_minsize <- 4, MDImageDebugMisc_minsize <- 3, SignatureSize <- 2, raw <- v1,
    swap <- v2, platform <- v3, stream <- v4, phase <- v5, name_ <- v6, cv_record_ <- v7,
    cv_record_signature_ <- v8, misc_record_ <- v9, module_valid_ <- v10, has_debug_info_ <- v11,
    valid_ <- v12, aux <- v13

Processor == INSTANCE MinidumpProcessor WITH
    MaxProcess <- 1, enable_exploitability_ <- TRUE, Engines <- {"win32_nt", "linux"},
    Dumps <- ThreadDumps, phase <- v1, dump <- v2, ours <- v3, thread_index <- v4,
    found_requesting_thread <- v5, interrupted <- v6, state <- v7, result <- v8, live <- v9,
    calls <- v10, carried <- v11

State == INSTANCE MinidumpProcessor WITH
    MaxProcess <- 3, enable_exploitability_ <- TRUE, Engines <- {"win32_nt", "linux"},
    Dumps <- MixedDumps, phase <- v1, dump <- v2, ours <- v3, thread_index <- v4,
    found_requesting_thread <- v5, interrupted <- v6, state <- v7, result <- v8, live <- v9,
    calls <- v10, carried <- v11

Entries == INSTANCE CallFrameInfo WITH
    Sections <- FrameSections,
    Refusals <- {"Entry", "PersonalityRoutine", "LanguageSpecificDataArea", "SignalHandler", "End"},
    section <- v1, cursor <- v2, have_function_base_ <- v3, all_ok <- v4, calls <- v5, outcome <- v6,
    done <- v7

Units == INSTANCE CompilationUnit WITH
    Sections <- UnitSections, section <- v1, unit <- v2, offset <- v3, dieptr <- v4, index <- v5,
    die_stack <- v6, offset_size_ <- v7, address_size_ <- v8, calls <- v9, state <- v10

MoveLines == INSTANCE LineInfo WITH
    Space <- 16, Headers <- LineHeaders, Opcodes <- Moves,
    Dirs <- <<Relative("include"), Absolute("usr")>>, Files <- LineFiles,
    compilation_dir_ <- Absolute("work"), Pc <- 2, MaxOpcodes <- 5, MaxMisread <- 0, header <- v1,
    lsm <- v2, pending <- v3, files_ <- v4, highest_file_number_ <- v5, omitted_line_end_ <- v6,
    lines_ <- v7, passes <- v8, misread <- v9, ahead <- v10, program <- v11, matrix <- v12

OpcodeLines == INSTANCE LineInfo WITH
    Space <- 16, Headers <- LineHeaders, Opcodes <- OtherOpcodes,
    Dirs <- <<Relative("include"), Absolute("usr")>>, Files <- LineFiles,
    compilation_dir_ <- Absolute("work"), Pc <- 2, MaxOpcodes <- 3, MaxMisread <- 2, header <- v1,
    lsm <- v2, pending <- v3, files_ <- v4, highest_file_number_ <- v5, omitted_line_end_ <- v6,
    lines_ <- v7, passes <- v8, misread <- v9, ahead <- v10, program <- v11, matrix <- v12

Bytes == INSTANCE ByteReader WITH
    Radix <- 4, Addresses <- {6}, Buffers <- ByteBuffers, Positions <- {1, 7}, Sizes <- {4, 8},
    big <- v1, address_size_ <- v2, offset_size_ <- v3, bases <- v4, buffer <- v5, result <- v6

Names == INSTANCE DwarfCUToModule WITH
    handle_inter_cu_refs_ <- TRUE, Attributes <- DIEAttributes, Languages <- {"C++", "Java"},
    MaxDIEs <- 4, MaxUnits <- 2, language <- v1, cu_offset <- v2, handlers <- v3, specifications <- v4,
    origins <- v5, functions <- v6, added <- v7, dies <- v8, units <- v9, state <- v10

NamesInUnit == INSTANCE DwarfCUToModule WITH
    handle_inter_cu_refs_ <- FALSE, Attributes <- DIEAttributes, Languages <- {"C++", "Assembler"},
    MaxDIEs <- 4, MaxUnits <- 2, language <- v1, cu_offset <- v2, handlers <- v3, specifications <- v4,
    origins <- v5, functions <- v6, added <- v7, dies <- v8, units <- v9, state <- v10

AssignedLines == INSTANCE AssignLines WITH
    Space <- 6, MaxFunctions <- 2, MaxLines <- 2, functions <- v1, lines_ <- v2, func_it <- v3,
    line_it <- v4, current <- v5, pieces <- v6, last_line_used <- v7, last_function_cited <- v8,
    last_line_cited <- v9, cited <- v10, asserts <- v11, state <- v12

SuiteInit ==
    /\ Init
    /\ \/ component = "instructions" /\ v1 = 0 /\ v2 = 0 /\ v3 = 0 /\ v4 = 0 /\ v5 = 0 /\ v6 = 0 /\ v7 = 0 /\ v8 = 0 /\ v9 = 0 /\ v10 = 0 /\ v11 = 0 /\ v12 = 0 /\ v13 = 0
       \/ component = "streams" /\ Dump!Init
       \/ component = "contexts" /\ Contexts!Init /\ v8 = 0 /\ v9 = 0 /\ v10 = 0 /\ v11 = 0 /\ v12 = 0 /\ v13 = 0
       \/ component = "lists" /\ Lists!Init /\ v9 = 0 /\ v10 = 0 /\ v11 = 0 /\ v12 = 0 /\ v13 = 0
       \/ component = "modules" /\ Modules!Init
       \/ component = "processor" /\ Processor!Init /\ v12 = 0 /\ v13 = 0
       \/ component = "state" /\ State!Init /\ v12 = 0 /\ v13 = 0
       \/ component = "entries" /\ Entries!Init /\ v8 = 0 /\ v9 = 0 /\ v10 = 0 /\ v11 = 0 /\ v12 = 0 /\ v13 = 0
       \/ component = "units" /\ Units!Init /\ v11 = 0 /\ v12 = 0 /\ v13 = 0
       \/ component = "moves" /\ MoveLines!Init /\ v13 = 0
       \/ component = "opcodes" /\ OpcodeLines!Init /\ v13 = 0
       \/ component = "bytes" /\ Bytes!Init /\ v7 = 0 /\ v8 = 0 /\ v9 = 0 /\ v10 = 0 /\ v11 = 0 /\ v12 = 0 /\ v13 = 0
       \/ component = "names" /\ Names!Init /\ v11 = 0 /\ v12 = 0 /\ v13 = 0
       \/ component = "names in a unit" /\ NamesInUnit!Init /\ v11 = 0 /\ v12 = 0 /\ v13 = 0
       \/ component = "lines" /\ AssignedLines!Init /\ v13 = 0

SuiteNext ==
    \/ component = "instructions" /\ Next /\ UNCHANGED <<component, v1, v2, v3, v4, v5, v6, v7, v8, v9, v10, v11, v12, v13>>
    \/ component = "streams" /\ Dump!Next /\ UNCHANGED <<component, vars>>
    \/ component = "contexts" /\ Contexts!Next /\ UNCHANGED <<component, vars, v8, v9, v10, v11, v12, v13>>
    \/ component = "lists" /\ Lists!Next /\ UNCHANGED <<component, vars, v9, v10, v11, v12, v13>>
    \/ component = "modules" /\ Modules!Next /\ UNCHANGED <<component, vars>>
    \/ component = "processor" /\ Processor!Next /\ UNCHANGED <<component, vars, v12, v13>>
    \/ component = "state" /\ State!Next /\ UNCHANGED <<component, vars, v12, v13>>
    \/ component = "entries" /\ Entries!Next /\ UNCHANGED <<component, vars, v8, v9, v10, v11, v12, v13>>
    \/ component = "units" /\ Units!Next /\ UNCHANGED <<component, vars, v11, v12, v13>>
    \/ component = "moves" /\ MoveLines!Next /\ UNCHANGED <<component, vars, v13>>
    \/ component = "opcodes" /\ OpcodeLines!Next /\ UNCHANGED <<component, vars, v13>>
    \/ component = "bytes" /\ Bytes!Next /\ UNCHANGED <<component, vars, v7, v8, v9, v10, v11, v12, v13>>
    \/ component = "names" /\ Names!Next /\ UNCHANGED <<component, vars, v11, v12, v13>>
    \/ component = "names in a unit" /\ NamesInUnit!Next /\ UNCHANGED <<component, vars, v11, v12, v13>>
    \/ component = "lines" /\ AssignedLines!Next /\ UNCHANGED <<component, vars, v13>>

suite_vars == <<component, vars, v1, v2, v3, v4, v5, v6, v7, v8, v9, v10, v11, v12, v13>>

SuiteSpec ==
    /\ SuiteInit /\ [][SuiteNext]_suite_vars

-----------------------------------------------------------------------------
\* Each reader tells its handler what the section holds, whatever came before in it: an entry of call
\* frame information depends on itself and its CIE only, except that after an entry that was abandoned
\* the base of its function is still there for a CIE that must not use one (dwarf2reader.cc:2166-2204);
\* each DIE is read where it begins, and the references name the DIEs that are meant, until a form comes
\* that the reader does not know; the lines kept are the rows of the program, but for what follows a
\* DW_LNE_define_file, which is read at the wrong place (766), and without those of code that the linker
\* dropped; encoded pointers and LEB128 numbers have the values that their encodings give.
ReadAsEncoded ==
    /\ component = "entries" => Entries!EntriesAreIndependent /\ Entries!ResultIsForAll
    /\ component = "units" => Units!EverythingAtItsPlace /\ Units!ReferencesResolve /\ Units!DIEsNest
    /\ component = "moves" => MoveLines!DroppedCodeHasNoLines /\ MoveLines!LiveCodeHasLines
    /\ component = "opcodes" => OpcodeLines!LinesAreRows /\ OpcodeLines!SequencesStartAfresh
    /\ component = "bytes" => Bytes!PointersResolve /\ Bytes!AlignedPointers /\ Bytes!LEB128Inverts

\* Each function with code is in the module once, under the name that its declaration and scopes give,
\* through another declaration or from another unit, and has the lines of its code: each byte that a
\* function and a line cover is in one piece of that line, the pass over both warns once of each that
\* lacks the other, if neither overlap among themselves, and it ends with no assertion failed even if
\* they do (dwarf_cu_to_module.cc:1009-1025).
FunctionsAsDeclared ==
    /\ component = "names" => Names!NamesAsDeclared /\ Names!EachFunctionOnce
    /\ component = "names in a unit" => NamesInUnit!NamesAsDeclared /\ NamesInUnit!EachFunctionOnce
    /\ component = "lines" => AssignedLines!NoHangOrCrash /\ AssignedLines!PiecesFit /\ AssignedLines!LinesAreDoledOut /\ AssignedLines!WarnedOnce

\* What a reader of a dump hands out is what the file holds, whichever parts were asked for before: the
\* map of streams is the directory; both parts of a context come from one place; it is of the CPU it says,
\* unless it is one of PPC64 or ARM64 whose flags name no CPU (minidump.cc:582, 679); and it has the values
\* that the other byte order gives it, but for gs and the floating point area of AMD64, which are not
\* swapped (503, 530).  A list takes the bytes its stream has, and finds the entry of an address or an id;
\* its copy answers alike, except that it lacks the /dev/ashmem/ modules that overlap others, so that its
\* count, and its main module, may differ (basic_code_modules.cc:69).  A debugging record that is used is
\* whole.
ReadAsWritten ==
    /\ component = "streams" => Dump!MapIsOfDirectory
    /\ component = "contexts" => Contexts!ContextWhole /\ Contexts!RecordKnown /\ Contexts!SwappedLikeNative
    /\ component = "lists" => Lists!ListIsItsStream /\ Lists!LookupsAreRight /\ Lists!ThreadsByID /\ Lists!ReadsInside
                             /\ Lists!CopyBehavesAlike
    /\ component = "modules" => Modules!KnownRecordsAreSound /\ Modules!MiscNameInside

\* What a caller was handed exists for as long as was promised, and nothing is lost or deleted twice: a
\* stream until the dump is read again, one of each type, unless Print or SeekToStreamType worked on a copy
\* of its entry, whose destructor deletes the stream with the copy (minidump.cc:4400, 4557, minidump.h:970);
\* a context record as long as its thread, though one of PPC64 or ARM64 whose flags name no CPU is never
\* deleted; the modules of a ProcessState beyond the dump it was made from.
PointersLive ==
    /\ component = "streams" => Dump!OneStreamPerType /\ Dump!HeldStreamLives /\ Dump!LiveIsStashed
    /\ component = "contexts" => Contexts!NoRecordLost
    /\ component = "processor" => Processor!ModulesOutliveTheDump
    /\ component = "state" => State!ModulesOutliveTheDump

\* A ProcessState has one stack and one region for each thread of the dump but the one that wrote it, in
\* their order; the one that crashed is walked from the context of the exception, and the requesting
\* thread is its place in the state.  The same holds in a state that was used before, but for the regions:
\* Clear leaves those of the earlier dumps in front (process_state.cc:46-67), so that the region of a stack
\* is as many places further on as the earlier dumps had threads.
StateIsOfTheDump ==
    /\ component = "processor" =>
         /\ Processor!StacksAreTheThreads /\ Processor!RequestingThreadIsRight
         /\ Processor!CrashIsWalkedFromTheException /\ Processor!RegionsFollowStacks
    /\ component = "state" => State!StacksAreTheThreads /\ State!RequestingThreadIsRight /\ State!RegionsFollowStacks
=============================================================================
