----------------------------- MODULE FastModule -----------------------------
(***************************************************************************)
(* The serialised symbol module: ModuleSerializer and the map serializers  *)
(* write a loaded BasicSourceLineResolver::Module into one buffer, which   *)
(* FastSourceLineResolver::Module searches in place through StaticMap,     *)
(* StaticRangeMap, StaticAddressMap and StaticContainedRangeMap.           *)
(*                                                                         *)
(* The buffer is a sequence of cells.  A value fills as many cells as its  *)
(* type has (MemAddr more than uint32_t, a string its length and a null):  *)
(* its first cell holds it, so that a read at a wrong offset shows.        *)
(***************************************************************************)
EXTENDS SymbolModule

\* Sizes, in cells; a record's strings have one or two characters.
sizeof_bool == 1
sizeof_uint32 == 2
sizeof_MemAddr == 3
strlen(n) == 1 + (n % 2)

\* A cell within a value, and one outside the buffer.
Inside == -1
Outside == -2

Cells(value, size) == [i \in 1..size |-> IF i = 1 THEN value ELSE Inside]
At(memory, offset) == IF offset + 1 \in DOMAIN memory THEN memory[offset + 1] ELSE Outside

Sorted(keys) == SX!SetToSortSeq(keys, <)
Total(sizes) == SX!FoldSeq(+, 0, sizes)

-----------------------------------------------------------------------------
(* SimpleSerializer. *)

SizeOfString(n) == strlen(n) + 1
WriteString(n) == Cells(n, SizeOfString(n))
WriteUint32(n) == Cells(n, sizeof_uint32)
WriteMemAddr(a) == Cells(a, sizeof_MemAddr)
WriteBool(b) == Cells(IF b THEN 255 ELSE 0, sizeof_bool)

SizeOfLine(n) == 2 * sizeof_MemAddr + 2 * sizeof_uint32
WriteLine(n) ==
    WriteMemAddr(lines[n].address) \o WriteMemAddr(lines[n].size) \o WriteUint32(lines[n].id) \o WriteUint32(n)

SizeOfPublicSymbol(n) == SizeOfString(n) + sizeof_MemAddr + sizeof_uint32
WritePublicSymbol(n) == WriteString(n) \o WriteMemAddr(lines[n].address) \o WriteUint32(n)

\* type_, valid, the six sizes (the third is the parameter size), the flag and the program.
SizeOfWindowsFrameInfo(n) == 8 * sizeof_uint32 + sizeof_bool + SizeOfString(n)
WriteWindowsFrameInfo(n) ==
    SX!FlattenSeq(<<WriteUint32(lines[n].id), WriteUint32(-1), WriteUint32(0), WriteUint32(0), WriteUint32(n),
                    WriteUint32(0), WriteUint32(0), WriteUint32(0)>>)
    \o WriteBool(FALSE) \o WriteString(n)

-----------------------------------------------------------------------------
(* The map serializers: the number of nodes, their offsets, their keys, and *)
(* the values.  What is given is the size, or the cells, of each value.     *)

SizeOfMap(sizes, keySize) ==
    (1 + Cardinality(DOMAIN sizes)) * sizeof_uint32
    + Total([i \in 1..Cardinality(DOMAIN sizes) |-> keySize + sizes[Sorted(DOMAIN sizes)[i]]])

\* Where the first value goes: dest - start_address.
HeaderSize(count, keySize) == (1 + count) * sizeof_uint32 + count * keySize

WriteMap(cells, keySize) ==
    LET keys == Sorted(DOMAIN cells)
        count == Len(keys)
        values == [i \in 1..count |-> cells[keys[i]]]
        before(i) == Total([j \in 1..(i - 1) |-> Len(values[j])])
    IN  WriteUint32(count)
        \o SX!FlattenSeq([i \in 1..count |-> WriteUint32(HeaderSize(count, keySize) + before(i))])
        \o SX!FlattenSeq([i \in 1..count |-> Cells(keys[i], keySize)])
        \o SX!FlattenSeq(values)

SizeOfLineRange(r) == sizeof_MemAddr + SizeOfLine(r.entry)
WriteLineRange(r) == WriteMemAddr(r.base) \o WriteLine(r.entry)

SizeOfFunction(n) ==
    SizeOfString(n) + 2 * sizeof_MemAddr + sizeof_uint32
    + SizeOfMap([k \in DOMAIN func[n].lines |-> SizeOfLineRange(func[n].lines[k])], sizeof_MemAddr)
WriteFunction(n) ==
    WriteString(n) \o WriteMemAddr(func[n].address) \o WriteMemAddr(func[n].size) \o WriteUint32(n)
    \o WriteMap([k \in DOMAIN func[n].lines |-> WriteLineRange(func[n].lines[k])], sizeof_MemAddr)

SizeOfFunctionRange(r) == sizeof_MemAddr + SizeOfFunction(r.entry)
WriteFunctionRange(r) == WriteMemAddr(r.base) \o WriteFunction(r.entry)

SizeOfStringRange(r) == sizeof_MemAddr + SizeOfString(r.entry)
WriteStringRange(r) == WriteMemAddr(r.base) \o WriteString(r.entry)

\* ContainedRangeMapSerializer: base, entry size, entry, and the children.
SizeOfInfo(n) == IF n = None THEN 0 ELSE SizeOfWindowsFrameInfo(n)

RECURSIVE SizeOfContained(_)
SizeOfContained(node) ==
    sizeof_MemAddr + SizeOfInfo(node.entry) + sizeof_uint32
    + SizeOfMap([k \in DOMAIN node.map |-> SizeOfContained(node.map[k])], sizeof_MemAddr)

RECURSIVE WriteContained(_)
WriteContained(node) ==
    WriteMemAddr(node.base) \o WriteUint32(SizeOfInfo(node.entry))
    \o (IF node.entry = None THEN << >> ELSE WriteWindowsFrameInfo(node.entry))
    \o WriteMap([k \in DOMAIN node.map |-> WriteContained(node.map[k])], sizeof_MemAddr)

Root(type) == C!Node(0, None, windows_frame_info_[type])

-----------------------------------------------------------------------------
(* ModuleSerializer. *)

Types == <<STACK_INFO_FPO, STACK_INFO_FRAME_DATA>>
kNumberMaps_ == 5 + Len(Types)

map_sizes_ ==
    <<SizeOfMap([k \in DOMAIN files_ |-> SizeOfString(files_[k])], sizeof_uint32),
      SizeOfMap([k \in DOMAIN functions_ |-> SizeOfFunctionRange(functions_[k])], sizeof_MemAddr),
      SizeOfMap([k \in DOMAIN public_symbols_ |-> SizeOfPublicSymbol(public_symbols_[k])], sizeof_MemAddr)>>
    \o [i \in 1..Len(Types) |-> SizeOfContained(Root(Types[i]))]
    \o <<SizeOfMap([k \in DOMAIN cfi_initial_rules_ |-> SizeOfStringRange(cfi_initial_rules_[k])],
                   sizeof_MemAddr),
         SizeOfMap([k \in DOMAIN cfi_delta_rules_ |-> SizeOfString(cfi_delta_rules_[k])], sizeof_MemAddr)>>

ModuleSizeOf == sizeof_bool + kNumberMaps_ * sizeof_uint32 + Total(map_sizes_) + 1

Serialize ==
    WriteBool(is_corrupt_)
    \o SX!FlattenSeq([i \in 1..kNumberMaps_ |-> WriteUint32(map_sizes_[i])])
    \o WriteMap([k \in DOMAIN files_ |-> WriteString(files_[k])], sizeof_uint32)
    \o WriteMap([k \in DOMAIN functions_ |-> WriteFunctionRange(functions_[k])], sizeof_MemAddr)
    \o WriteMap([k \in DOMAIN public_symbols_ |-> WritePublicSymbol(public_symbols_[k])], sizeof_MemAddr)
    \o SX!FlattenSeq([i \in 1..Len(Types) |-> WriteContained(Root(Types[i]))])
    \o WriteMap([k \in DOMAIN cfi_initial_rules_ |-> WriteStringRange(cfi_initial_rules_[k])], sizeof_MemAddr)
    \o WriteMap([k \in DOMAIN cfi_delta_rules_ |-> WriteString(cfi_delta_rules_[k])], sizeof_MemAddr)
    \o <<0>>
-----------------------------------------------------------------------------
(* StaticMap: s.memory from s.at on, with keys of s.keySize cells. *)

Static(memory, at, keySize) == [memory |-> memory, at |-> at, keySize |-> keySize]

num_nodes_(s) == At(s.memory, s.at)
offsets_(s, i) == At(s.memory, s.at + sizeof_uint32 + i * sizeof_uint32)
keys_(s, i) == At(s.memory, s.at + (1 + num_nodes_(s)) * sizeof_uint32 + i * s.keySize)

\* The address of a node's value: GetValueRawPtr.
value_(s, i) == s.at + offsets_(s, i)

\* The binary search: whether the key was met, and where it stopped.
RECURSIVE Probe(_, _, _, _)
Probe(s, key, begin, end) ==
    IF begin >= end THEN [met |-> FALSE, index |-> begin]
    ELSE LET middle == begin + (end - begin) \div 2
         IN  IF keys_(s, middle) = key THEN [met |-> TRUE, index |-> middle]
             ELSE IF key < keys_(s, middle) THEN Probe(s, key, begin, middle)
             ELSE Probe(s, key, middle + 1, end)

find(s, key) ==
    LET p == Probe(s, key, 0, num_nodes_(s)) IN IF p.met THEN p.index ELSE num_nodes_(s)

lower_bound(s, key) == Probe(s, key, 0, num_nodes_(s)).index

upper_bound(s, key) ==
    LET p == Probe(s, key, 0, num_nodes_(s)) IN IF p.met THEN p.index + 1 ELSE p.index

ValidateInMemoryStructure(s) ==
    /\ num_nodes_(s) >= 0
    /\ num_nodes_(s) > 0 => offsets_(s, 0) = sizeof_uint32 * (num_nodes_(s) + 1) + s.keySize * num_nodes_(s)
    /\ \A i \in 1..(num_nodes_(s) - 1) :
          offsets_(s, i) > offsets_(s, i - 1) /\ keys_(s, i) > keys_(s, i - 1)

\* StaticRangeMap: the index of the range, or none.
NoIndex == -1
base_(s, i) == At(s.memory, value_(s, i))
entryptr(s, i) == value_(s, i) + sizeof_MemAddr

StaticRetrieveRange(s, address) ==
    LET i == lower_bound(s, address)
    IN  IF i = num_nodes_(s) THEN NoIndex
        ELSE IF address < base_(s, i) THEN NoIndex ELSE i

\* upper_bound and the iterator's decrement, which stops at 0.
AtOrBelow(s, address) == IF upper_bound(s, address) = 0 THEN NoIndex ELSE upper_bound(s, address) - 1

StaticRetrieveNearestRange(s, address) ==
    IF StaticRetrieveRange(s, address) # NoIndex THEN StaticRetrieveRange(s, address)
    ELSE AtOrBelow(s, address)

\* StaticContainedRangeMap: the entry of the innermost range, or none.
entry_size_(s) == At(s.memory, s.at + sizeof_MemAddr)
entry_ptr_(s) == IF entry_size_(s) = 0 THEN None ELSE s.at + sizeof_MemAddr + sizeof_uint32
Children(s) == Static(s.memory, s.at + sizeof_MemAddr + sizeof_uint32 + entry_size_(s), sizeof_MemAddr)
Child(s, i) == Static(s.memory, value_(Children(s), i), sizeof_MemAddr)

RECURSIVE StaticRetrieveInnermost(_, _)
StaticRetrieveInnermost(s, address) ==
    LET i == lower_bound(Children(s), address)
    IN  IF i = num_nodes_(Children(s)) THEN None
        ELSE IF address < At(s.memory, Child(s, i).at) THEN None
        ELSE LET inner == StaticRetrieveInnermost(Child(s, i), address)
             IN  IF inner = None THEN entry_ptr_(Child(s, i)) ELSE inner

-----------------------------------------------------------------------------
(* FastSourceLineResolver::Module. *)

\* LoadMapFromMemory: the maps at the offsets that map_sizes gives.
KeySizes == <<sizeof_uint32>> \o [i \in 1..(kNumberMaps_ - 1) |-> sizeof_MemAddr]

Load(memory) ==
    LET header == kNumberMaps_ * sizeof_uint32
        size(i) == At(memory, sizeof_bool + (i - 1) * sizeof_uint32)
        offset(i) == sizeof_bool + header + Total([j \in 1..(i - 1) |-> size(j)])
    IN  [corrupt |-> At(memory, 0) # 0,
         map |-> [i \in 1..kNumberMaps_ |-> Static(memory, offset(i), KeySizes[i])]]

FilesOf(m) == m.map[1]
FunctionsOf(m) == m.map[2]
PublicsOf(m) == m.map[3]
InfoOf(m, type) == m.map[3 + (CHOOSE i \in 1..Len(Types) : Types[i] = type)]
InitialOf(m) == m.map[4 + Len(Types)]
DeltasOf(m) == m.map[5 + Len(Types)]

\* Function, Line, PublicSymbol and WindowsFrameInfo as CopyFrom and CopyWFI read them.
CopyFunction(memory, raw) ==
    LET fields == raw + SizeOfString(At(memory, raw))
    IN  [name |-> At(memory, raw), address |-> At(memory, fields),
         size |-> At(memory, fields + sizeof_MemAddr),
         parameter_size |-> At(memory, fields + 2 * sizeof_MemAddr),
         lines |-> Static(memory, fields + 2 * sizeof_MemAddr + sizeof_uint32, sizeof_MemAddr)]

CopyLine(memory, raw) ==
    [address |-> At(memory, raw), size |-> At(memory, raw + sizeof_MemAddr),
     source_file_id |-> At(memory, raw + 2 * sizeof_MemAddr),
     line |-> At(memory, raw + 2 * sizeof_MemAddr + sizeof_uint32)]

CopyPublicSymbol(memory, raw) ==
    LET fields == raw + SizeOfString(At(memory, raw))
    IN  [name |-> At(memory, raw), address |-> At(memory, fields),
         parameter_size |-> At(memory, fields + sizeof_MemAddr)]

CopyWFI(memory, raw) ==
    [type |-> At(memory, raw), parameter_size |-> At(memory, raw + 4 * sizeof_uint32),
     allocates_base_pointer |-> At(memory, raw + 8 * sizeof_uint32) # 0,
     program_string |-> At(memory, raw + 8 * sizeof_uint32 + sizeof_bool)]

FastCovers(m, address) ==
    LET s == FunctionsOf(m)
        i == StaticRetrieveNearestRange(s, address)
    IN  /\ i # NoIndex
        /\ address >= base_(s, i) /\ address - base_(s, i) < keys_(s, i) - base_(s, i) + 1

FastFunction(m, address) ==
    LET s == FunctionsOf(m)
    IN  CopyFunction(s.memory, entryptr(s, StaticRetrieveNearestRange(s, address)))

FastLookupAddress(m, address) ==
    LET s == FunctionsOf(m)
        i == StaticRetrieveNearestRange(s, address)
        p == AtOrBelow(PublicsOf(m), address)
    IN  IF FastCovers(m, address)
        THEN LET function == FastFunction(m, address)
                 at == StaticRetrieveRange(function.lines, address)
                 frame == [NoFrame EXCEPT !.function = function.name, !.base = base_(s, i)]
             IN  IF at = NoIndex THEN frame
                 ELSE LET line == CopyLine(s.memory, entryptr(function.lines, at))
                          it == find(FilesOf(m), line.source_file_id)
                      IN  [frame EXCEPT !.line = line.line,
                             !.file = IF it = num_nodes_(FilesOf(m)) THEN None
                                      ELSE At(s.memory, value_(FilesOf(m), it))]
        ELSE IF p # NoIndex /\ (i = NoIndex \/ keys_(PublicsOf(m), p) > base_(s, i))
        THEN [NoFrame EXCEPT !.function = CopyPublicSymbol(s.memory, value_(PublicsOf(m), p)).name,
                             !.base = keys_(PublicsOf(m), p)]
        ELSE NoFrame

FastFindWindowsFrameInfo(m, address) ==
    LET found(i) == StaticRetrieveInnermost(InfoOf(m, Preferred[i]), address)
        info(raw) == [info |-> CopyWFI(FunctionsOf(m).memory, raw).parameter_size, valid |-> "all"]
    IN  IF found(1) # None THEN info(found(1))
        ELSE IF found(2) # None THEN info(found(2))
        ELSE IF FastCovers(m, address)
        THEN [info |-> FastFunction(m, address).parameter_size, valid |-> "parameter_size"]
        ELSE NoInfo

\* The delta rules from one node on, up to the address.
RECURSIVE DeltasFrom(_, _, _)
DeltasFrom(s, i, address) ==
    IF i = num_nodes_(s) THEN << >>
    ELSE IF keys_(s, i) > address THEN << >>
    ELSE <<At(s.memory, value_(s, i))>> \o DeltasFrom(s, i + 1, address)

FastFindCFIFrameInfo(m, address) ==
    LET s == InitialOf(m)
        i == StaticRetrieveRange(s, address)
        rules == At(s.memory, entryptr(s, i))
    IN  IF i = NoIndex THEN << >>
        ELSE IF lines[rules].id = Bad THEN << >>
        ELSE <<rules>> \o DeltasFrom(DeltasOf(m), lower_bound(DeltasOf(m), base_(s, i)), address)

-----------------------------------------------------------------------------
(* ModuleComparer: both modules are walked side by side. *)

\* The number of nodes and the keys; the values are compared pair by pair.
CompareMap(m, s) ==
    /\ num_nodes_(s) = Cardinality(DOMAIN m)
    /\ \A i \in 1..num_nodes_(s) : Sorted(DOMAIN m)[i] = keys_(s, i - 1)

Pairs(m, s) ==
    {<<m[Sorted(DOMAIN m)[i]], Static(s.memory, value_(s, i - 1), s.keySize)>> : i \in 1..num_nodes_(s)}

CompareString(n, at) == n = At(at.memory, at.at)

CompareLine(r, at) ==
    /\ r.base = At(at.memory, at.at)
    /\ CopyLine(at.memory, at.at + sizeof_MemAddr)
         = [address |-> lines[r.entry].address, size |-> lines[r.entry].size,
            source_file_id |-> lines[r.entry].id, line |-> r.entry]

CompareFunction(r, at) ==
    LET fast == CopyFunction(at.memory, at.at + sizeof_MemAddr)
    IN  /\ r.base = At(at.memory, at.at)
        /\ fast.name = r.entry /\ fast.address = func[r.entry].address /\ fast.size = func[r.entry].size
        /\ CompareMap(func[r.entry].lines, fast.lines)
        /\ \A v \in Pairs(func[r.entry].lines, fast.lines) : CompareLine(v[1], v[2])

ComparePubSymbol(n, at) ==
    CopyPublicSymbol(at.memory, at.at) = [name |-> n, address |-> lines[n].address, parameter_size |-> n]

CompareStringRange(r, at) == r.base = At(at.memory, at.at) /\ r.entry = At(at.memory, at.at + sizeof_MemAddr)

CompareWFI(n, memory, raw) ==
    CopyWFI(memory, raw) = [type |-> lines[n].id, parameter_size |-> n, allocates_base_pointer |-> FALSE,
                            program_string |-> n]

RECURSIVE CompareCRM(_, _)
CompareCRM(node, s) ==
    /\ node.base = At(s.memory, s.at)
    /\ IF node.entry = None \/ entry_ptr_(s) = None THEN node.entry = None /\ entry_ptr_(s) = None
       ELSE CompareWFI(node.entry, s.memory, entry_ptr_(s))
    /\ CompareMap(node.map, Children(s))
    /\ \A v \in Pairs(node.map, Children(s)) : CompareCRM(v[1], v[2])

CompareModule(m) ==
    /\ m.corrupt = is_corrupt_
    /\ CompareMap(files_, FilesOf(m))
    /\ \A v \in Pairs(files_, FilesOf(m)) : CompareString(v[1], v[2])
    /\ CompareMap(functions_, FunctionsOf(m))
    /\ \A v \in Pairs(functions_, FunctionsOf(m)) : CompareFunction(v[1], v[2])
    /\ CompareMap(public_symbols_, PublicsOf(m))
    /\ \A v \in Pairs(public_symbols_, PublicsOf(m)) : ComparePubSymbol(v[1], v[2])
    /\ \A type \in StackInfoTypes : CompareCRM(Root(type), InfoOf(m, type))
    /\ CompareMap(cfi_initial_rules_, InitialOf(m))
    /\ \A v \in Pairs(cfi_initial_rules_, InitialOf(m)) : CompareStringRange(v[1], v[2])
    /\ CompareMap(cfi_delta_rules_, DeltasOf(m))
    /\ \A v \in Pairs(cfi_delta_rules_, DeltasOf(m)) : CompareString(v[1], v[2])

-----------------------------------------------------------------------------
(* Properties, of a module that is loaded. *)

\* The buffer that Serialize allocates is filled to its last cell and not beyond:
\* SizeOf and Write agree for every module, nested ranges included.
SizeIsWritten == ~loading => Len(Serialize) = ModuleSizeOf

\* ModuleComparer::Compare accepts the serialised form of every module: nothing is
\* lost or moved on the way through the buffer.
CompareHolds == ~loading => CompareModule(Load(Serialize))

\* Every map in the buffer has the form that ValidateInMemoryStructure asks for.
Validates ==
    ~loading => LET m == Load(Serialize)
                IN  /\ \A s \in {FilesOf(m), FunctionsOf(m), PublicsOf(m), InitialOf(m), DeltasOf(m)} :
                          ValidateInMemoryStructure(s)
                    /\ \A type \in StackInfoTypes : ValidateInMemoryStructure(Children(InfoOf(m, type)))

\* The fast resolver, searching the buffer, answers every query as the basic one
\* does from its maps.
SameAnswers ==
    ~loading => LET m == Load(Serialize)
                IN  \A a \in Address :
                      /\ FastLookupAddress(m, a) = LookupAddress(a)
                      /\ FastFindWindowsFrameInfo(m, a) = FindWindowsFrameInfo(a)
                      /\ FastFindCFIFrameInfo(m, a) = FindCFIFrameInfo(a)
=============================================================================
