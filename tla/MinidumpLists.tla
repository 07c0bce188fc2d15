---------------------------- MODULE MinidumpLists ----------------------------
(***************************************************************************)
(* processor/minidump.cc: the lists of threads, modules, memory regions    *)
(* and memory information of a dump, and processor/basic_code_modules.cc,  *)
(* the copy of a module list that outlives the dump.                       *)
(*                                                                         *)
(* A stream is [expected, count, entries]: the size its directory entry    *)
(* gives, the count it begins with, and the entries the file really has    *)
(* there. An entry is [base, size], of a thread with its id and the rva of *)
(* its stack, of a module with whether it is a /dev/ashmem/ mapping and    *)
(* what reading its auxiliary data comes to: "ok"; "large", a debugging    *)
(* record that is not read; "eof", one beyond the end of the file; or      *)
(* "noname". A stream of memory information also has whether its header is *)
(* right, and a region of memory whether the file has its bytes. Integers  *)
(* of 32 bits go to UintMax, addresses to Max.                             *)
(***************************************************************************)
EXTENDS Integers, Sequences, FiniteSets

CONSTANTS
    Max,           \* the highest address
    UintMax,       \* the highest number of 32 bits
    EntrySize,     \* bytes of an entry, of any kind
    MaxCount,      \* max_threads_, max_modules_, max_regions_
    max_bytes_,    \* the largest region that is read
    ThreadStreams, ModuleStreams, MemoryStreams, InfoStreams

CountSize == 4     \* of a count, and of the padding after it

\* What a map of pointers has for a null one.
None == 0

VARIABLES
    kind,       \* which list it is
    stream,     \* the stream it is read from
    list,       \* [valid, count]
    range_map_, \* high address -> [base, entry]
    id_to_thread_map_,
    stream_,    \* "good", or "fail" once a read has gone past the end
    consumed,   \* bytes of the stream that were read
    memory_     \* regions whose bytes were read

vars == <<kind, stream, list, range_map_, id_to_thread_map_, stream_, consumed, memory_>>

R == INSTANCE RangeMap WITH Entries <- Nat, map_ <- range_map_, last <- None
Q == INSTANCE SequencesExt

NoRanges == [h \in {} |-> 0]

Init ==
    /\ \/ kind = "threads" /\ stream \in ThreadStreams
       \/ kind = "modules" /\ stream \in ModuleStreams
       \/ kind = "memory" /\ stream \in MemoryStreams
       \/ kind = "infos" /\ stream \in InfoStreams
    /\ list = [valid |-> FALSE, count |-> 0]
    /\ range_map_ = NoRanges /\ id_to_thread_map_ = NoRanges
    /\ stream_ = "good" /\ consumed = 0 /\ memory_ = {}

-----------------------------------------------------------------------------

CountFits(count) == count <= UintMax \div EntrySize

\* The size a list of so many entries has, in 32 bits.
SizeOf(count) == (CountSize + count * EntrySize) % (UintMax + 1)

\* Lists other than that of memory information may be padded.
Padding(s) == IF s.expected = SizeOf(s.count) THEN 0 ELSE CountSize

HeaderGood(s) ==
    /\ s.expected >= CountSize
    /\ CountFits(s.count)
    /\ \/ s.expected = SizeOf(s.count)
       \/ kind # "infos" /\ s.expected = SizeOf(s.count) + CountSize
    /\ IF kind = "infos" THEN s.header ELSE s.count <= MaxCount

\* The entries a list of s.count has are all in the file.
EntriesThere(s) == s.count <= Len(s.entries)

\* Base + size overflow or undersize.
RangeBad(e) == e.size = 0 \/ e.size > Max - e.base

-----------------------------------------------------------------------------
Ends(ok, failed, map, ids) == [ok |-> ok, failed |-> failed, map |-> map, ids |-> ids]
Begun == Ends(TRUE, FALSE, NoRanges, NoRanges)

Stored(map, e, index) == R!Insert(map, R!High(e.base, e.size), [base |-> e.base, entry |-> index])

Taken(ids, id) == id \in DOMAIN ids /\ ids[id] # None

\* MinidumpThreadList::Read, of a thread. GetThreadByID leaves a null pointer
\* behind for the id it is asked for.
ReadThread(done, i) ==
    LET e == stream.entries[i]
        known == Taken(done.ids, e.id)
    IN  IF ~done.ok THEN done
        ELSE Ends(~known, FALSE, done.map,
                  [x \in DOMAIN done.ids \cup {e.id} |-> IF x = e.id /\ ~known THEN i ELSE done.ids[x]])

\* Only mappings of shared memory may overlap others.
Ignored(e) == e.ashmem

\* MinidumpModuleList::Read, the second pass, of a module: its name and its
\* debugging records, then its range.
ReadModule(done, i) ==
    LET e == stream.entries[i]
        fits == R!Storable(done.map, e.base, e.size)
    IN  IF ~done.ok THEN done
        ELSE IF done.failed \/ e.aux = "noname" THEN Ends(FALSE, TRUE, done.map, NoRanges)
        ELSE Ends(fits \/ Ignored(e), e.aux = "eof",
                  IF fits THEN Stored(done.map, e, i - 1) ELSE done.map, NoRanges)

\* MinidumpMemoryList::Read and MinidumpMemoryInfoList::Read, of an entry.
ReadRegion(done, i) ==
    LET e == stream.entries[i]
        fits == ~RangeBad(e) /\ R!Storable(done.map, e.base, e.size)
    IN  IF ~done.ok THEN done
        ELSE Ends(fits, FALSE, IF fits THEN Stored(done.map, e, i - 1) ELSE done.map, NoRanges)

\* The entries are read one after the other; those of the modules are all read
\* before any auxiliary data is.
ReadEntries(s) ==
    LET first == SubSeq(s.entries, 1, s.count)
    IN  CASE kind = "threads" -> Q!FoldLeftDomain(ReadThread, Begun, first)
          [] kind = "modules" -> IF \E i \in DOMAIN first : RangeBad(first[i])
                                 THEN Ends(FALSE, FALSE, NoRanges, NoRanges)
                                 ELSE Q!FoldLeftDomain(ReadModule, Begun, first)
          [] OTHER -> Q!FoldLeftDomain(ReadRegion, Begun, first)

\* The Read method of the list, which GetStream calls once.
Read ==
    /\ consumed = 0
    /\ IF ~HeaderGood(stream) THEN UNCHANGED <<list, range_map_, id_to_thread_map_, stream_>> /\ consumed' = CountSize
       ELSE LET there == EntriesThere(stream)
                done == IF there THEN ReadEntries(stream) ELSE Ends(FALSE, TRUE, NoRanges, NoRanges)
            IN  /\ list' = [valid |-> done.ok, count |-> IF done.ok THEN stream.count ELSE 0]
                /\ range_map_' = done.map
                /\ id_to_thread_map_' = done.ids
                /\ stream_' = IF done.failed THEN "fail" ELSE "good"
                /\ consumed' = CountSize + Padding(stream) + stream.count * EntrySize
    /\ UNCHANGED <<kind, stream, memory_>>

-----------------------------------------------------------------------------
Entry(i) == stream.entries[i + 1]
Indices == 0..(list.count - 1)
Addresses == 0..Max
Null == -1

AtIndex(i) == IF list.valid /\ i < list.count THEN i ELSE Null

\* GetModuleForAddress, GetMemoryRegionForAddress, GetMemoryInfoForAddress.
ForAddress(a) ==
    LET h == R!RetrieveRange(range_map_, a)
    IN  IF ~list.valid \/ h = R!End THEN Null ELSE AtIndex(range_map_[h].entry)

GetMainModule == IF list.valid THEN AtIndex(0) ELSE Null

\* The key of the range that has n ranges below it.
KeyAt(map, n) == {h \in DOMAIN map : Cardinality({g \in DOMAIN map : g < h}) = n}

GetModuleAtSequence(n) ==
    IF ~list.valid \/ n >= list.count \/ KeyAt(range_map_, n) = {} THEN Null
    ELSE AtIndex(range_map_[CHOOSE h \in KeyAt(range_map_, n) : TRUE].entry)

GetThreadByID(id) ==
    /\ kind = "threads" /\ list.valid
    /\ id_to_thread_map_' = [x \in DOMAIN id_to_thread_map_ \cup {id} |->
                                IF x \in DOMAIN id_to_thread_map_ THEN id_to_thread_map_[x] ELSE None]
    /\ UNCHANGED <<kind, stream, list, range_map_, stream_, consumed, memory_>>

-----------------------------------------------------------------------------
\* MinidumpMemoryRegion. The stack of a thread is one, unless its descriptor
\* is bad.
IsRegion(i) ==
    /\ kind \in {"threads", "memory"} /\ list.valid /\ i \in Indices
    /\ kind = "threads" => Entry(i).rva # 0 /\ ~RangeBad(Entry(i))

GetMemory(i) ==
    /\ IsRegion(i) /\ i \notin memory_
    /\ LET e == Entry(i)
           there == stream_ = "good" /\ e.size <= max_bytes_
       IN  /\ memory_' = IF there /\ e.bytes THEN memory_ \cup {i} ELSE memory_
           /\ stream_' = IF there /\ ~e.bytes THEN "fail" ELSE stream_
    /\ UNCHANGED <<kind, stream, list, range_map_, id_to_thread_map_, consumed>>

FreeMemory(i) ==
    /\ i \in memory_ /\ memory_' = memory_ \ {i}
    /\ UNCHANGED <<kind, stream, list, range_map_, id_to_thread_map_, stream_, consumed>>

NoWrap(address, width) == width <= Max - address

\* GetMemoryAtAddressInternal: the bytes of the region that are looked at, if
\* it succeeds.
BytesAt(i, address, width) ==
    LET e == Entry(i)
    IN  IF ~IsRegion(i) \/ i \notin memory_ \/ address < e.base \/ ~NoWrap(address, width)
           \/ (address + width) % (Max + 1) > e.base + e.size
        THEN {} ELSE (address - e.base)..(address - e.base + width - 1)

-----------------------------------------------------------------------------
(* BasicCodeModules, a copy of the list of modules. *)
CopyModule(map, i) ==
    IF R!Storable(map, Entry(i - 1).base, Entry(i - 1).size) THEN Stored(map, Entry(i - 1), i - 1) ELSE map

CopyMap == Q!FoldLeftDomain(CopyModule, NoRanges, SubSeq(stream.entries, 1, list.count))

main_address_ == IF GetMainModule = Null THEN 0 ELSE Entry(GetMainModule).base

CopyForAddress(a) ==
    LET h == R!RetrieveRange(CopyMap, a) IN IF h = R!End THEN Null ELSE CopyMap[h].entry

CopyMainModule == CopyForAddress(main_address_)
CopyCount == Cardinality(DOMAIN CopyMap)

CopyAtSequence(n) ==
    IF KeyAt(CopyMap, n) = {} THEN Null ELSE CopyMap[CHOOSE h \in KeyAt(CopyMap, n) : TRUE].entry

-----------------------------------------------------------------------------
Ids == {stream.entries[i].id : i \in DOMAIN stream.entries} \cup {99}

Over == consumed # 0 /\ UNCHANGED vars

Next ==
    \/ Read
    \/ kind = "threads" /\ \E id \in Ids : GetThreadByID(id)
    \/ \E i \in Indices : GetMemory(i) \/ FreeMemory(i)
    \/ Over

Spec == Init /\ [][Next]_vars

-----------------------------------------------------------------------------
\* A list that is accepted was read from its own stream, all of it and no
\* more: whatever the count that the file gives, its entries take the bytes
\* that the directory says are there.
ListIsItsStream == list.valid => consumed = stream.expected

\* Where an address is in the range of an entry, the list finds that entry, and
\* where it is in none, it finds none. Only a /dev/ashmem/ module may be
\* hidden, by others that have all or some of its addresses.
LookupsAreRight ==
    list.valid /\ kind # "threads" =>
        \A a \in Addresses :
            LET at == {i \in Indices : a \in Entry(i).base..(Entry(i).base + Entry(i).size - 1)}
            IN  /\ ForAddress(a) # Null => ForAddress(a) \in at
                /\ (\E i \in at : kind # "modules" \/ ~Entry(i).ashmem) => ForAddress(a) # Null

\* A thread is found by its id, whichever ids were asked for before, and no
\* two threads have one id.
ThreadsByID ==
    list.valid /\ kind = "threads" =>
        \A i \in Indices : id_to_thread_map_[Entry(i).id] = i + 1

\* What is read of a region's memory is inside of it.
ReadsInside ==
    \A i \in Indices, a \in Addresses, w \in {1, 2, 4} :
        BytesAt(i, a, w) \subseteq 0..(Entry(i).size - 1)

\* "The new CodeModules object [...] will behave identically to the copied
\* object as far as the CodeModules and CodeModule interfaces are concerned,
\* except that the order that GetModuleAtIndex returns objects in may differ."
\* A /dev/ashmem/ module that overlaps another one is in the list and not in its
\* copy (basic_code_modules.cc:69): with one, the number of modules differs, and the
\* main module may.
CopyBehavesAlike ==
    list.valid /\ kind = "modules" =>
        /\ \A a \in Addresses : CopyForAddress(a) = ForAddress(a)
        /\ \A n \in 0..MaxCount : CopyAtSequence(n) = GetModuleAtSequence(n)
        /\ (\A i \in Indices : \E h \in DOMAIN range_map_ : range_map_[h].entry = i) =>
               CopyMainModule = GetMainModule /\ CopyCount = list.count
=============================================================================
