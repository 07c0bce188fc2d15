# A TLA+ model of the SME crash reporter

SME reports the errors of a Windows application to a server. The managed part is
C#; native crashes go through a wrapper around breakpad, whose source is vendored
with the program. This directory holds TLA+ modules that model the reporter from
its source, the TLC configurations that check small instances of them, and proofs,
checked by TLAPS, that hold for every value of the constants. `PROJECT.json` lists
the runs, the source lines behind each definition, the hazards of the code and the
theorems. Paths below are relative to `src/SMEWindow/` unless they start with
`src/`; breakpad is `src/google-breakpad/src/`.

## 1. The system

| Part | Source | State | Operations |
|---|---|---|---|
| Client handlers | `SMEWindow/Client/SMEClient.cs` | static options `IsSend`, `IsCatchHE`, `IsCatchNE`; subscriptions to three runtime events | two constructors with `Initialize`, three handlers, `CollectError` |
| Collector | `SMEWindow/SMECollect/SMECollector.cs` | two threads, two semaphores, the parts of the report, the file name | constructor, `CollectErrorInformation`, `SaveToXML`, `DateToFileName`, `SendToServer` |
| Report data, XML | `SMEWindow/SMECollect/Data/`, `SMEWindow/SMEXML/` | the values of a report | constructors, `ToXElement`, `LoadFromXElement` |
| Sender | `NetLib/SMESender.cs` | a connection, an open file | constructor, `FileSend`, finalizer |
| Listener | `SMEWindow_Server/SMENet/SMEListener.cs`, `SMEServer.cs` | `tcpListener`, `listenThread` | constructor, `Accepting`, `Dispose` |
| Receiver | `SMEWindow_Server/SMENet/SMEListener.cs` | a connection, an open file, header fields | `Receive`, `Dispose` |
| Database | `SMEWindow_Server/DB/` | the Dumps table, the report tables, pooled connections | `Insert`, `SelectExp_ID`, `SaveCSDumpData`, `SaveNativeDumpData`, `InsertDatabase`, `GetExcetpionID` |
| Dump reader | `DumpReader/` | a mapped file, its streams | constructor, `Read...` |
| Native wrapper | `breakpadWrapper/` | global key and address, one `ExceptionHandler` | constructors, `ResultCallBack`, `WriteMinidump` |
| breakpad, client side | breakpad `client/windows/` | handler stack and threads, crash server and its clients, dump generator, report sender | crash handlers, the pipe state machine, dump requests, `WriteMinidump`, `SendCrashReport` |
| breakpad, processor | breakpad `processor/` | maps of ranges, minidump streams, symbol modules, frames | `StoreRange`, `Read...`, `LoadModule`, `Walk`, `Process` |
| breakpad, DWARF | breakpad `common/dwarf/`, `common/dwarf_*.cc` | interpreter and reader states | one step per instruction, entry, unit or opcode |

How they interact: an exception makes the runtime call a handler on the thread
that threw. The handler creates a collector, whose two threads describe the
exception and write it to an XML file. If the client sends, the handler waits for
the file and sends it over a TCP connection. When the handler of an unhandled
exception returns, the runtime ends the process. On the server the listen thread
hands each connection to a pool thread. That thread stores the file, adds a row
to Dumps, looks its number up by name, reads the file again and fills the report
tables. A native crash takes the same way from the minidump on.

What is hard about it:

* the save thread must wait for the collect thread and the handler for the save
  thread, through semaphores that nobody else watches;
* first-chance events are raised inside handlers and inside the reporter's own
  threads, so reports are about the reporter too;
* file names have the resolution of a second, and names are the only key that the
  file system, the sender, the receiver and the database share;
* files stay open after their use, until a finalizer runs;
* the receiver ignores how much its header `Read`s returned, narrows the length
  from 64 to 32 bits and spins at the end of a short stream;
* a report goes into the database in separate statements without a transaction,
  while each receiver keeps one pooled connection and asks for another;
* closing the server races with its listen thread;
* a crashed thread waits for a handler thread through two semaphores while it holds
  the lock of the handler stack; wait callbacks of the crash server run while its
  destructor does;
* pointers into a minidump or a symbol buffer outlive the object they came from.

What should be true: a report is saved only when collected and sent only when
saved; a handler returns; what is sent, stored and recorded is one whole report;
every row belongs to the report it is filed under; what a reader reports is what
the file holds; nobody waits for ever.

## 2. Modules

### The managed reporter and its server

**SMECollector** models the client process. A report is one collector, and also
names the handler call that created it. `collectpc`, `savepc` and `handlerpc` are
the places of the collect thread, the save thread and the handler in their code.
`exc` says how far the runtime has got with the exception of a thread: `"first"`
(the first-chance event is due), `"infirst"` (its handler runs), `"second"` and
`"insecond"` likewise for the last event. A file is known by the second in its
name. `disk`, `writer` and `readers` say what it holds and who has it open, with
the sharing modes of `XDocument.Save` and `File.OpenRead`. The runtime, the clock
and the application are external. `SMECollector.Dispose`, `SaveToXML(path)` and
`CollectProjectInfo` have no caller and are left out.

**SMETransfer** models one transfer as a stream of bytes. `written` and `pos` are
the bytes put in by `TCPSender` and taken out by `Receive`. A `Read` returns any
number of the bytes there are. Integers keep their width, with scaled sizes, so
the narrowing of the length is what `BitConverter.ToInt32` does. `Write` blocks
when the socket buffers are full.

**SMEServer** models the server process: the listener, any number of receivers,
the folder of received files, Dumps and the report tables as sequences of rows,
and the pool of connections. A header or a body is one step here, because
SMETransfer has its bytes. A SELECT without an order may return its rows in any
order. Connections and mappings that the code never releases come back only when
`CollectGarbage` is taken.

**SMEReportStore** is the abstract specification of the server when names do not
repeat: a report is registered only when its file is whole, its rows go in one by
one, in order, under its own Dumps row, and what is there when its receiver ends
early is a prefix. `SMEServer!ImplementsStore` is the refinement.

### breakpad

| Module | Source (breakpad) | A step is |
|---|---|---|
| ExceptionHandler, AppMemory | `client/windows/handler/exception_handler.cc` | a stretch of a handler function, handler thread, constructor or destructor between two waits or locks |
| CrashGenerationServer, CrashGenerationDump | `client/windows/crash_generation/` | a state of the pipe, a callback, a step of the client's registration or dump request |
| MinidumpGenerator | `crash_generation/minidump_generator.cc` | a call of the class, up to its outcome |
| CrashReportSender | `client/windows/sender/`, `common/windows/http_upload.cc` | a system call of a sender |
| BreakpadWrapper | `breakpadWrapper/breakpadWrapper.cpp` (SME) | a statement of a constructor, a fault |
| RangeMap, ContainedRangeMap, NestedRanges | `processor/range_map-inl.h`, `contained_range_map-inl.h` | a call; NestedRanges is the abstract specification of ContainedRangeMap |
| Minidump, MinidumpContext, MinidumpLists, MinidumpModule | `processor/minidump.cc`, `dump_context.cc`, `basic_code_modules.cc` | a call of the public interface |
| MinidumpProcessor | `processor/minidump_processor.cc`, `process_state.cc` | a thread of the dump |
| SymbolModule, FastModule, Symbolizer | `processor/*_source_line_resolver*`, `module_serializer.cc`, `static_*`, `stack_frame_symbolizer.cc`, `simple_symbol_supplier.cc` | a line of a symbol file, a call |
| CFIFrameInfo, StackwalkerCommon, StackwalkerX86, StackwalkerAMD64, StackwalkerARM, StackWalk | `processor/cfi_frame_info.cc`, `postfix_evaluator-inl.h`, `stackwalker*.cc` | a frame |
| CFIInterpreter, CallFrameInfo, ByteReader | `common/dwarf/dwarf2reader.cc`, `bytereader.cc` | an instruction, an entry, a read |
| CompilationUnit, LineInfo | `common/dwarf/dwarf2reader.cc`, `common/dwarf_line_to_module.cc` | a DIE, an opcode |
| DwarfCUToModule, AssignLines | `common/dwarf_cu_to_module.cc` | a DIE, a turn of the loop |

Three modules put the breakpad components together for TLC: **MCCrash**, **MCReading**
and **MCWalking**. Each has a variable `component`, which the initial state chooses, and a
behaviour is then one of that component with its constants as given in the module. The
properties of a family ("what reports success has succeeded", "pointers live") say for
each component what that means for it. Each of these modules extends one component
instead of instantiating it (ExceptionHandler, CFIInterpreter and RangeMap), so that TLC
evaluates its assumptions and checks its properties as they stand in its module, which
are the ones that are proved.

The SME modules are checked as they are; the few sets and functions that a
configuration cannot write down are defined at their ends.

Definitions whose comment starts with "Mutant" are faulty forms of the definition
that follows; no specification uses them.

## 3. Runs

| Run | Instance | Shows |
|---|---|---|
| `collector_safe` | 2 reports, UI thread and 1 worker, 2 seconds | the type invariant and seven safety properties of the collector and its file |
| `collector_live` | 2 reports, 1 second | `HandlerReturns` |
| `collector_inner` | 1 report | violation: an exception with an inner one is not reported |
| `transfer_safe` | 6 lengths, 3 names, 2 keys | a file is created under its own name and length, recorded only when whole; both ends of the transfer end |
| `transfer_length` | 2 lengths, 1 name | violation: the length may be computed from a part of its bytes |
| `server_distinct` | an XML report and a dump, own names | rows and files belong together; refinement of SMEReportStore; `ReceiverEnds` |
| `server_same` | 2 dumps of one name | `OneWriterPerFile`, `DumpStableWhileMapped` |
| `server_dumpid` | 2 XML reports of one name | violation: a receiver gets the Dump_ID of another report |
| `crash` | 2 handlers and 2 threads; 2 clients; 3 requests; 3 wrappers | a crash is handled by the right handler (`CrashIsHandled`), neither a handler nor the record of a client is deleted while it is used, success is reported truthfully, the daily limit, closed files, registered memory in the dump, and that nobody waits for ever |
| `reading` | programs of 4 call frame instructions; all small sections and dumps of the kinds in MCReading | DWARF: handlers know the rules, no assertion fails, what is read is what is encoded, functions get what was declared. Dumps: what is read is what is written; pointers live; a state is that of its dump |
| `walking` | all maps of addresses 0 to 4, short call chains, small symbol files, nested ranges | range maps are exact; walks are exact and bounded; symbol buffers live; look-ups tell the truth; refinement of NestedRanges |
| `stack_walk_limit` | `Walk` with small limits | violation: a stack has one frame more than `max_frames_` |

The SME configurations and `Crash.cfg` say `CHECK_DEADLOCK FALSE`, because these
processes may stop: the client and the server process end, and a transfer is over when
both sides have closed. The other suites end in states that repeat, so a deadlock is
checked there.

**Bounds.** Every race named above is between two reports, so two reports, with
their four threads and two handler calls, reach it; one of them may be about a
thread of the other. Two seconds make names equal in some behaviours and
different in others. In SMETransfer a byte has 6 values, an int 2 bytes, a long 4,
a chunk 2 bytes and the socket buffers 5. The lengths are zero, less than a chunk,
a full last chunk, several chunks, one that becomes negative as an int (20) and one
that becomes small (38). Names end with the extension, go on after it, or lack it.
In SMEServer two receivers share a pool of two connections: when each holds one,
each waits for the other. In `crash` two handlers make a stack with a handler below
the one in use, and two threads make one of them wait at the section. RangeMap has the
addresses 0 to 4, so ranges can touch, overlap, nest and end at the last address. A
program of four call frame instructions can remember a state, change it, restore it and
go on. A section of `.debug_info` has at most four DIEs: that is enough for a function
whose declaration is in a class, another declaration or another unit, but not for a
declaration of another unit that itself refers to a third one. Chains have three to
five calls, according to the walker, with words that earlier calls left on them, and for
AMD64 the truncated registers of Native Client. A wrapper is made by either constructor,
and a third one may be made beside two. Symmetry is used where the reports are interchangeable and no
liveness is checked.

**Fairness.** `SMECollector!FairSpec` lets each collect, save and handler thread
run when it can, and lets the runtime raise a due event; the operating system
schedules all of them. Nothing is assumed of the application, the clock or the
finalizer. `SMETransfer!FairSpec` has both threads go on and a `Write` on a broken
connection throw; the network and the finalizer are free. `SMEServer!FairSpec`
has pool threads go on when they can. The step that gives up waiting for a
connection is part of that, because `SqlConnection.Open` has a timeout. Bodies may
never end and garbage may never be collected. `MCCrash!SuiteSpec` has handler threads,
threads inside a handler, the pipe's state machine, callbacks that are due and a
destructor that has begun go on, and lets the system end a process that has an unhandled
exception. The timeout of a dump request is part of the client's steps, because
`WaitForMultipleObjects` has one. Crashes, requests, deaths and failures are free.

**Where the code does not keep a promise.** The runs let these cases happen, unless the
list says otherwise, and the property names the event after which it claims less; its
comment has the lines. In the reporter:

* `OwnReportSent`, `SavedReportStays`, `OwnReportLoaded`, `RowsOfOwnDump`,
  `CompleteReport` and `ImplementsStore` are about names that are not used twice.
  `server_dumpid` shows what happens otherwise. `DumpStableWhileMapped` says that a mapped
  file does not change; that the later of two dumps of one name is not stored is not
  claimed to be right.
* `HandlerReturns` leaves out a collect or save thread that throws, after which the
  handler waits for ever.
* `FailedSendIsReported` is about clients that subscribe to first-chance events: the
  failure of a report to reach the server is then itself reported, to a file. Other
  clients lose the failure without a trace.
* `RecordedFileIsWhole` needs the key to come in one piece and the length to fit an int.
  `ReceiveEnds` is about transfers that the sender completed: after a broken one the
  receiver spins at the end of the stream.

In breakpad's client side:

* `NobodyWaitsForever`: an exception in a callback, on the handler thread, blocks on the
  section that the crashed thread holds (`exception_handler.cc:436`).
* `NothingInUseIsDeleted`: `~ExceptionHandler` frees dbghelp before it waits for the
  section (`exception_handler.cc:296`), so a dump of the same handler may lose it.
  `AddClient` registers the exit wait before it lists the client
  (`crash_generation_server.cc:787`); with more than one wait thread the list may get a
  client that is gone.
* `SuccessIsTrue`: `RequestDump` returns true when the dump failed, and an answer may be
  that of an overlapping request (`crash_generation_server.cc:896`). `ResultCallBack` says
  handled when the folder is missing, and uses the key of the wrapper made last
  (`breakpadWrapper.cpp`).
* `AtMostPerDay`: the checkpoint is truncated before it is written
  (`crash_report_sender.cc:112`), so a crash in between loses the count of the day. It is
  read once, so two programs exceed the limit together; the property is about one.
* `FilesAreClosed`: after a dumped process that cannot be read, handles are closed twice
  (`minidump_generator.cc:417`). `SetDumpFile` after `GenerateDumpFile`, which no caller
  does, is the one case that the run turns off.
* `DumpHoldsRegistered`: the first entry of `app_memory_info_` is the memory around the
  instruction, is searched like the others, and stays from one dump to the next
  (`exception_handler.cc:1006`, `:1053`, `:1067`).

In breakpad's readers and walkers:

* `ReadAsEncoded`: what follows a `DW_LNE_define_file` is read at the wrong place
  (`dwarf2reader.cc:766`); the base of a function outlives an abandoned entry; an unknown
  form ends what is known of a unit.
* `ReadAsWritten`: `gs` and the floating point area of AMD64 are not swapped
  (`minidump.cc:503`, `:530`); the copy of a list of modules lacks some of them
  (`basic_code_modules.cc:69`).
* `PointersLive`: a copy of a directory entry deletes the stream with it
  (`minidump.cc:4400`).
* `StateIsOfTheDump`: `ProcessState::Clear` leaves the memory regions of the dump before
  (`process_state.cc:59`).
* `WalksAreExact`: a word that an earlier call left may pass for a return address; with a
  frame pointer register, ARM and ARM64 give each frame the stack pointer of the next.
* `BuffersLive`: modules of one file name share their symbols, or the lack of them.
* `WalksAreBounded` says nothing of `max_frames_`: `Walk` keeps one frame more than that
  (`stackwalker.cc:173`), which `stack_walk_limit` shows against the comment of
  `stackwalker.h:216`.
* `DW_CFA_restore_state` ignores a handler that refuses a rule
  (`dwarf2reader.cc:1663`); `HandlerKnowsTheRules` ends with the first refusal.

## 4. Proofs

The theorems hold for every value of the constants that satisfies the assumption of the
module: `ConstantsAssumption` (names of threads and reports do not collide, "torn" is no
report), `ServerAssumption` (a name for each receiver, a pool of at least one connection),
`MaxAssumption` and `EntriesAssumption`, `CFIAssumption` (registers are numbers),
`Distinct` (threads and handlers have different names), and for the transfer
`SizesAssumption` and `BitConverterAssumption`. TLC evaluates all of them on the instances
of the runs. The two theorems of CrashReportSender state their hypotheses themselves.

**The client (SMECollectorProofs).** Any number of reports, workers and seconds.

* `TypeCorrect`: `TypeOK` is inductive.
* `SemaphoresSafe` and `SavesCollectedReports` follow from `HandshakeInv`. Neither
  property is inductive: that a `Release` finds the count at zero depends on where
  the other thread is. `HandshakeInv` says where the single count of
  `CollectSemaphore` is (`CollectCount`), that the save thread is past its wait only
  when the collect thread is done, and that `SaveSemaphore` is zero until the save is
  done.
* `SendsSavedReports` follows from `DispatchInv`, which adds that nothing runs before
  `SMEClient` is constructed, that an exception of a handler thread is inside `TCPSender`,
  and that a running handler has a thread that threw, a different one for each.
* `FailuresAreReported`: `FailedSendIsReported`, from the invariants above. A handler that
  waits for its save thread has a thread at the send; a `TCPSender` that throws makes a
  first-chance report about that handler; the handler goes on only when that report's
  handler is done, which, as the client sends, is after its file was saved; and a finished
  save thread stays finished.
* `SendersReadOneVersion` is an action property. It needs `FileInv`: a save thread
  that is writing is the file's only user.
* `SavedReportsStay` and `OwnReportsSent` are proved together as `ContentInv`, on top
  of the other invariants: only a save thread of the same second changes a file.

**The transfer (SMETransferProofs).** Any byte, int, long, chunk and buffer size, any
files, names and keys, and any way to cut the stream into `Read`s.

* `HeaderReadRight` and `BrokenTransferNotRecorded` follow from `TransferInv`.
  `SenderInv` says how many bytes each place of the sender stands for. `ReceiverInv`
  says what the receiver has at each place: as long as every `Read` was full, the
  fields that were sent and a position at a field's end. After a `Read` that was not
  full it is behind, and the name it takes then has a zero byte in it, either the
  padding of the buffer or the top byte of the name's length, so creating the file
  fails. That argument rests on two facts of `SizesAssumption` about the data: the top
  byte of a name's length is zero (names are shorter than 2^24 bytes), and the bytes of
  the extension do not come up in the numbers of the header.
* `BitConverterAssumption` states what `BitConverter` promises (bytes in range, and
  `ToInt32` undoes `GetBytes`). It is assumed because the two are defined by recursion
  on the number of bytes; TLC evaluates it for the sizes of the runs.

**The server (SMEServerProofs, SMEReportProofs).** Any number of receivers, any names
and any pool. `Frames` lists once what each step may do to each variable, and the
invariants are proved from it, not from the actions one by one.

* `WritersExclude` and `MappedDumpsStable`: from the types and `MappedNotWritten`.
* `LoadsOwnReport`: `ContentInv`, which says whose report a file and a loaded report
  are, and that a name used once keeps its receiver's report from `Close` to the read.
* `RowsUnderOwnDump`: `RowsInv`, which follows a name from the Dumps row to the
  look-up and from there to each row of a table.
* `ReportsComplete`: `ReportInv`. What is under the Dump_ID of a report and what is
  still to do make up its tables in order (`Prefix`). The lemmas on `Place` and
  `Cardinality` say what appending one row does to such a prefix.
* `ServerImplementsStore` is the refinement: under `DistinctNames`, the initial state
  maps to one of SMEReportStore, and every step to a step of it or a stutter. It uses
  all the invariants above, and `StoreInv`: the places of the rows of a report have no
  gap, and a report has only parts it can have.

**breakpad's handlers (ExceptionHandlerProofs).** Any number of handlers, of any types,
made and deleted in any order, any threads that crash or call `WriteMinidump`, in process or
out of process, with callbacks that fault.

* `CrashesAreHandled`: `CrashIsHandled`, which says that a request is with one handler
  thread while the one thread that made it waits, that crashes go down the handler stack in
  order, and that no handler is dismantled while a crash is in it. None of the three is
  inductive. `IInv` adds where a thread can be with how many handlers in its frames
  (`PlaceInv`), that the thread that has the section is the only one in a handler and has
  the top of the stack down to the index in its frames (`RouteInv`), what of a handler is
  left at each stage of its destruction (`LifeInv`), that a handler is on the stack once and
  exactly while it must be (`StackInv`), and which of the two semaphores is signalled at each
  place of requester and handler thread (`HandshakeInv`).
* Two lemmas carry the argument. `NobodyInside`: whoever may enter the section finds no
  other thread in a handler, so pushing and removing a handler disturbs no route.
  `TerminatedIsIdle`: the thread that `~ExceptionHandler` ends has no request, because the
  thread that made it would be in the handler, which is then on the stack, or inside the
  handler's `WriteMinidump`, during which the program does not delete it.

**breakpad's report sender (CrashReportSender, last section).**

* `DailyLimit`: `AtMostPerDay` and `ThrottledOnlyWhenFull`, for any limit from one on and
  every sequence of calls, restarts and crashes of one program, with any failures. A day
  whose count was lost with the checkpoint is in `lost` and excepted. A limit of zero is
  left out, because the code compares the count with the limit only on a day with a
  report already, so the first report of a day is always sent. The inductive invariant
  is `CheckpointInv`: but for lost days the checkpoint holds the last day with a success
  and its count, the program that read it has the same, and between the opening and the
  closing of the file the count is in memory only. Days do not go back, so an upload that
  takes longer than midnight counts for the day it began.
* `CodesAreWhole`: `CodeIsWhole` for any number of programs, crashes and failures.
* TLC checks these on the instances in MCCrash, as parts of `AtMostPerDay` and
  `SuccessIsTrue` there.

**breakpad's readers (RangeMapProofs, CFIInterpreterProofs).**

* `RangesDisjoint`, `StoreCorrect`, `RetrieveCorrect`, `MapIsExact`: any address space and
  entries. The inductive invariant is that the stored ranges are well formed and
  disjoint; the look-up of the next high address then finds the only candidate.
* `SavedAreNested`, `NoAssertionFails`, `HandlerIsUpToDate`: any registers, offsets and
  number of instructions. The inductive invariant `IInv` adds `SavedNested`: a remembered
  map of rules has no rule that a later one, or the current one, lacks. It is what the
  assertions in `HandleTransitionTo` need, and why it is enough that restoring a map
  reports the differences to the handler.

Only model-checked:

* liveness (`HandlerReturns`, `ReceiveEnds`, `SenderEnds`, `ReceiverEnds`,
  `NobodyWaitsForever`): it needs fairness and ENABLED, which this prover does not
  handle;
* what a recursive definition computes for every input, such as the encodings of numbers,
  postfix expressions, walks through a stack and the nesting of ContainedRangeMap
  (`ReadAsEncoded`, `WalksAreExact`, `WalksAreBounded`, `LookupsAreTruthful`,
  `FunctionsAsDeclared`, `ReadAsWritten`, `ImplementsNestedRanges`): that needs induction
  over data;
* the request body of `SucceededIsReceived` (part of `SuccessIsTrue`) and the other parts of
  `SuccessIsTrue`, `NothingInUseIsDeleted`, `FilesAreClosed`, `DumpHoldsRegistered`,
  `PointersLive`, `StateIsOfTheDump` and `BuffersLive`, which have no proof.

## 5. Not modelled

* The values in a report and their way through XML; wording and layout.
* The decoding of minidump streams by `DumpReader`. Which streams are there is modelled.
* The text of SQL statements: a statement is the row it inserts.
* P/Invoke declarations, test applications, error generators.
* Parts of breakpad that this program does not reach: the handlers and dump writers for
  Linux, Mac OS and Solaris, the tools that write symbol files, stabs, the conversion of
  strings, and the tests. They are most of the vendored source, which is why the
  definitions cover less than a tenth of all lines.
