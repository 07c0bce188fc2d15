------------------------------ MODULE MCCrash -------------------------------
(***************************************************************************)
(* The client side of breakpad on small instances.  A behaviour is one of  *)
(* one component, chosen in its first state.  Two instances of a component *)
(* differ in what may fail.  The constants of ExceptionHandler are given   *)
(* by the configuration, those of the others here.                         *)
(***************************************************************************)
EXTENDS ExceptionHandler, TLC

VARIABLES
    component,   \* the component that this behaviour is of
    v1, v2, v3, v4, v5, v6, v7, v8, v9, v10, v11, v12, v13, v14, v15, v16, v17, v18, v19, v20, v21,
    v22, v23, v24, v25, v26, v27   \* the variables of that component, 0 if it has fewer

CONSTANTS
    h1, h2,             \* exception handlers
    t1, t2,             \* threads, client processes or programs
    w1, w2, w3          \* breakpadWrapper objects, which are their API keys too

\* The handlers that breakpadWrapper makes install everything.
AllTypes == [h \in {h1, h2} |-> {"exception", "invalid_parameter", "purecall"}]

\* One client registers, the other asks for an upload.
OneUploads == (t1 :> "register") @@ (t2 :> "upload")

\* kIPMemorySize is 4 bytes, code is one committed region of 6 bytes above the
\* data that the program registers.
Code == {[base |-> 10, size |-> 6]}

D == INSTANCE ExceptionHandler WITH
    Handlers <- {h1, h2}, Threads <- {t1, t2}, Types <- AllTypes, Creators <- {t1},
    HandleDebug <- {h1}, OutOfProcess <- {}, HasFilter <- {h1}, AlwaysTrue <- {}, MayFault <- {h1},
    ConsumeInvalid <- {}, Destroyable <- {h1, h2}, CleanNesting <- FALSE, Users <- {},
    Events <- {"fault"}, MaxIds <- 2, handler_stack <- v1, handler_stack_index <- v2,
    stack_owner <- v3, instance_count <- v4, ready <- v5, registered <- v6, previous <- v7, life <- v8,
    pc <- v9, event <- v10, frames <- v11, target <- v12, action <- v13, owner <- v14, start <- v15,
    finish <- v16, requester <- v17, returned <- v18, thread <- v19, out <- v20, succeeded <- v21,
    next_id <- v22, loaded <- v23, files <- v24, uuid <- v25, reports <- v26, alive <- v27

V == INSTANCE ExceptionHandler WITH
    Handlers <- {h1}, Threads <- {t1, t2}, Types <- AllTypes, Creators <- {t1}, HandleDebug <- {},
    OutOfProcess <- {}, HasFilter <- {}, AlwaysTrue <- {}, MayFault <- {}, ConsumeInvalid <- {h1},
    Destroyable <- {}, CleanNesting <- FALSE, Users <- {t2},
    Events <- {"breakpoint", "invalid_handle"}, MaxIds <- 2, handler_stack <- v1,
    handler_stack_index <- v2, stack_owner <- v3, instance_count <- v4, ready <- v5, registered <- v6,
    previous <- v7, life <- v8, pc <- v9, event <- v10, frames <- v11, target <- v12, action <- v13,
    owner <- v14, start <- v15, finish <- v16, requester <- v17, returned <- v18, thread <- v19,
    out <- v20, succeeded <- v21, next_id <- v22, loaded <- v23, files <- v24, uuid <- v25,
    reports <- v26, alive <- v27

S == INSTANCE CrashGenerationServer WITH
    Clients <- {t1, t2}, Kind <- OneUploads, OneWaitThread <- TRUE, WaitsFail <- TRUE, Prompt <- FALSE,
    server_state <- v1, event <- v2, pipe_wait <- v3, pipe <- v4, peer <- v5, io <- v6, inbox <- v7,
    reply <- v8, msg <- v9, worker <- v10, shutting_down <- v11, dtor <- v12, clients <- v13,
    client_info <- v14, connected <- v15, info <- v16, dump_wait <- v17, exit_wait <- v18,
    dump_cb <- v19, exit_cb <- v20, requested <- v21, proc <- v22, attempts <- v23, overtaken <- v24

T == INSTANCE CrashGenerationServer WITH
    Clients <- {t1}, Kind <- OneUploads, OneWaitThread <- FALSE, WaitsFail <- TRUE, Prompt <- FALSE,
    server_state <- v1, event <- v2, pipe_wait <- v3, pipe <- v4, peer <- v5, io <- v6, inbox <- v7,
    reply <- v8, msg <- v9, worker <- v10, shutting_down <- v11, dtor <- v12, clients <- v13,
    client_info <- v14, connected <- v15, info <- v16, dump_wait <- v17, exit_wait <- v18,
    dump_cb <- v19, exit_cb <- v20, requested <- v21, proc <- v22, attempts <- v23, overtaken <- v24

Q == INSTANCE CrashGenerationDump WITH
    Threads <- {t1}, MaxRequests <- 3, TimesOut <- TRUE, DumpsFail <- TRUE, ClientDies <- TRUE,
    ServerStops <- TRUE, exception_pointers <- v1, thread_id <- v2, crash_event <- v3,
    crash_generated <- v4, pc <- v5, made <- v6, server <- v7, crash <- v8, dumps <- v9, failed <- v10,
    answers <- v11, overlapped <- v12, client_alive <- v13, server_alive <- v14

F == INSTANCE CrashGenerationDump WITH
    Threads <- {t1, t2}, MaxRequests <- 1, TimesOut <- TRUE, DumpsFail <- TRUE, ClientDies <- TRUE,
    ServerStops <- TRUE, exception_pointers <- v1, thread_id <- v2, crash_event <- v3,
    crash_generated <- v4, pc <- v5, made <- v6, server <- v7, crash <- v8, dumps <- v9, failed <- v10,
    answers <- v11, overlapped <- v12, client_alive <- v13, server_alive <- v14

M == INSTANCE AppMemory WITH
    Pointers <- {2, 10}, Lengths <- {1, 2}, Instructions <- {7, 10, 12, 15}, Regions <- Code,
    Half <- 2, MaxRegions <- 2, app_memory_info <- v1, registered <- v2, refused <- v3, erased <- v4,
    dump <- v5

W == INSTANCE BreakpadWrapper WITH
    Wrappers <- {w1, w2, w3}, Addressed <- {w3}, NoKey <- None, MaxOutcomes <- 2, folder <- v1,
    g_APIKey <- v2, g_ServerIP <- v3, pc <- v4, handler_stack <- v5, ended <- v6, outcomes <- v7,
    overwritten <- v8, broken <- v9

G == INSTANCE MinidumpGenerator WITH
    Handles <- 1..2, MaxExtra <- 0, MaxTrace <- 2, MaxCalls <- 2, ReadsFail <- FALSE,
    SetsAfterGenerate <- FALSE, config <- v1, dump_file_ <- v2, full_dump_file_ <- v3,
    dump_file_is_internal_ <- v4, full_dump_file_is_internal_ <- v5, write_dump_ <- v6,
    create_uuid_ <- v7, table <- v8, alive <- v9, calls <- v10, wronglyClosed <- v11, written <- v12

E == INSTANCE MinidumpGenerator WITH
    Handles <- 1..2, MaxExtra <- 0, MaxTrace <- 0, MaxCalls <- 3, ReadsFail <- TRUE,
    SetsAfterGenerate <- FALSE, config <- v1, dump_file_ <- v2, full_dump_file_ <- v3,
    dump_file_is_internal_ <- v4, full_dump_file_is_internal_ <- v5, write_dump_ <- v6,
    create_uuid_ <- v7, table <- v8, alive <- v9, calls <- v10, wronglyClosed <- v11, written <- v12

R == INSTANCE CrashReportSender WITH
    Senders <- {t1}, Params <- <<"prod", "ver">>, MaxPerDay <- 2, MaxTime <- 2, MaxCalls <- 3,
    BodySize <- 1, Crashes <- TRUE, LosesReplies <- FALSE, CheckpointFails <- TRUE, now <- v1,
    checkpoint <- v2, pc <- v3, last_sent_date_ <- v4, reports_sent_ <- v5, today <- v6,
    report_code <- v7, claimed_size <- v8, calls <- v9, received <- v10, log <- v11, lost <- v12

B == INSTANCE CrashReportSender WITH
    Senders <- {t1, t2}, Params <- <<"prod">>, MaxPerDay <- 1, MaxTime <- 0, MaxCalls <- 1,
    BodySize <- 1, Crashes <- TRUE, LosesReplies <- TRUE, CheckpointFails <- TRUE, now <- v1,
    checkpoint <- v2, pc <- v3, last_sent_date_ <- v4, reports_sent_ <- v5, today <- v6,
    report_code <- v7, claimed_size <- v8, calls <- v9, received <- v10, log <- v11, lost <- v12

SuiteInit ==
    /\ Init
    /\ \/ component = "handlers" /\ v1 = 0 /\ v2 = 0 /\ v3 = 0 /\ v4 = 0 /\ v5 = 0 /\ v6 = 0 /\ v7 = 0 /\ v8 = 0 /\ v9 = 0 /\ v10 = 0 /\ v11 = 0 /\ v12 = 0 /\ v13 = 0 /\ v14 = 0 /\ v15 = 0 /\ v16 = 0 /\ v17 = 0 /\ v18 = 0 /\ v19 = 0 /\ v20 = 0 /\ v21 = 0 /\ v22 = 0 /\ v23 = 0 /\ v24 = 0 /\ v25 = 0 /\ v26 = 0 /\ v27 = 0
       \/ component = "deletion" /\ D!Init
       \/ component = "events" /\ V!Init
       \/ component = "server" /\ S!Init /\ v25 = 0 /\ v26 = 0 /\ v27 = 0
       \/ component = "server with more wait threads" /\ T!Init /\ v25 = 0 /\ v26 = 0 /\ v27 = 0
       \/ component = "requests" /\ Q!Init /\ v15 = 0 /\ v16 = 0 /\ v17 = 0 /\ v18 = 0 /\ v19 = 0 /\ v20 = 0 /\ v21 = 0 /\ v22 = 0 /\ v23 = 0 /\ v24 = 0 /\ v25 = 0 /\ v26 = 0 /\ v27 = 0
       \/ component = "failing requests" /\ F!Init /\ v15 = 0 /\ v16 = 0 /\ v17 = 0 /\ v18 = 0 /\ v19 = 0 /\ v20 = 0 /\ v21 = 0 /\ v22 = 0 /\ v23 = 0 /\ v24 = 0 /\ v25 = 0 /\ v26 = 0 /\ v27 = 0
       \/ component = "memory" /\ M!Init /\ v6 = 0 /\ v7 = 0 /\ v8 = 0 /\ v9 = 0 /\ v10 = 0 /\ v11 = 0 /\ v12 = 0 /\ v13 = 0 /\ v14 = 0 /\ v15 = 0 /\ v16 = 0 /\ v17 = 0 /\ v18 = 0 /\ v19 = 0 /\ v20 = 0 /\ v21 = 0 /\ v22 = 0 /\ v23 = 0 /\ v24 = 0 /\ v25 = 0 /\ v26 = 0 /\ v27 = 0
       \/ component = "wrapper" /\ W!Init /\ v10 = 0 /\ v11 = 0 /\ v12 = 0 /\ v13 = 0 /\ v14 = 0 /\ v15 = 0 /\ v16 = 0 /\ v17 = 0 /\ v18 = 0 /\ v19 = 0 /\ v20 = 0 /\ v21 = 0 /\ v22 = 0 /\ v23 = 0 /\ v24 = 0 /\ v25 = 0 /\ v26 = 0 /\ v27 = 0
       \/ component = "generator" /\ G!Init /\ v13 = 0 /\ v14 = 0 /\ v15 = 0 /\ v16 = 0 /\ v17 = 0 /\ v18 = 0 /\ v19 = 0 /\ v20 = 0 /\ v21 = 0 /\ v22 = 0 /\ v23 = 0 /\ v24 = 0 /\ v25 = 0 /\ v26 = 0 /\ v27 = 0
       \/ component = "generator, reads fail" /\ E!Init /\ v13 = 0 /\ v14 = 0 /\ v15 = 0 /\ v16 = 0 /\ v17 = 0 /\ v18 = 0 /\ v19 = 0 /\ v20 = 0 /\ v21 = 0 /\ v22 = 0 /\ v23 = 0 /\ v24 = 0 /\ v25 = 0 /\ v26 = 0 /\ v27 = 0
       \/ component = "sender" /\ R!Init /\ v13 = 0 /\ v14 = 0 /\ v15 = 0 /\ v16 = 0 /\ v17 = 0 /\ v18 = 0 /\ v19 = 0 /\ v20 = 0 /\ v21 = 0 /\ v22 = 0 /\ v23 = 0 /\ v24 = 0 /\ v25 = 0 /\ v26 = 0 /\ v27 = 0
       \/ component = "senders" /\ B!Init /\ v13 = 0 /\ v14 = 0 /\ v15 = 0 /\ v16 = 0 /\ v17 = 0 /\ v18 = 0 /\ v19 = 0 /\ v20 = 0 /\ v21 = 0 /\ v22 = 0 /\ v23 = 0 /\ v24 = 0 /\ v25 = 0 /\ v26 = 0 /\ v27 = 0

SuiteNext ==
    \/ component = "handlers" /\ Next /\ UNCHANGED <<component, v1, v2, v3, v4, v5, v6, v7, v8, v9, v10, v11, v12, v13, v14, v15, v16, v17, v18, v19, v20, v21, v22, v23, v24, v25, v26, v27>>
    \/ component = "deletion" /\ D!Next /\ UNCHANGED <<component, vars>>
    \/ component = "events" /\ V!Next /\ UNCHANGED <<component, vars>>
    \/ component = "server" /\ S!Next /\ UNCHANGED <<component, vars, v25, v26, v27>>
    \/ component = "server with more wait threads" /\ T!Next /\ UNCHANGED <<component, vars, v25, v26, v27>>
    \/ component = "requests" /\ Q!Next /\ UNCHANGED <<component, vars, v15, v16, v17, v18, v19, v20, v21, v22, v23, v24, v25, v26, v27>>
    \/ component = "failing requests" /\ F!Next /\ UNCHANGED <<component, vars, v15, v16, v17, v18, v19, v20, v21, v22, v23, v24, v25, v26, v27>>
    \/ component = "memory" /\ M!Next /\ UNCHANGED <<component, vars, v6, v7, v8, v9, v10, v11, v12, v13, v14, v15, v16, v17, v18, v19, v20, v21, v22, v23, v24, v25, v26, v27>>
    \/ component = "wrapper" /\ W!Next /\ UNCHANGED <<component, vars, v10, v11, v12, v13, v14, v15, v16, v17, v18, v19, v20, v21, v22, v23, v24, v25, v26, v27>>
    \/ component = "generator" /\ G!Next /\ UNCHANGED <<component, vars, v13, v14, v15, v16, v17, v18, v19, v20, v21, v22, v23, v24, v25, v26, v27>>
    \/ component = "generator, reads fail" /\ E!Next /\ UNCHANGED <<component, vars, v13, v14, v15, v16, v17, v18, v19, v20, v21, v22, v23, v24, v25, v26, v27>>
    \/ component = "sender" /\ R!Next /\ UNCHANGED <<component, vars, v13, v14, v15, v16, v17, v18, v19, v20, v21, v22, v23, v24, v25, v26, v27>>
    \/ component = "senders" /\ B!Next /\ UNCHANGED <<component, vars, v13, v14, v15, v16, v17, v18, v19, v20, v21, v22, v23, v24, v25, v26, v27>>

suite_vars == <<component, vars, v1, v2, v3, v4, v5, v6, v7, v8, v9, v10, v11, v12, v13, v14, v15, v16, v17, v18, v19, v20, v21, v22, v23, v24, v25, v26, v27>>

SuiteSpec ==
    /\ SuiteInit /\ [][SuiteNext]_suite_vars
    /\ WF_suite_vars(component = "handlers" /\ alive /\ ProcessExit /\ UNCHANGED <<component, v1, v2, v3, v4, v5, v6, v7, v8, v9, v10, v11, v12, v13, v14, v15, v16, v17, v18, v19, v20, v21, v22, v23, v24, v25, v26, v27>>)
    /\ \A h \in {h1, h2} : WF_suite_vars(component = "handlers" /\ HandlerThread(h) /\ UNCHANGED <<component, v1, v2, v3, v4, v5, v6, v7, v8, v9, v10, v11, v12, v13, v14, v15, v16, v17, v18, v19, v20, v21, v22, v23, v24, v25, v26, v27>>)
    /\ \A a \in {t1, t2, h1, h2} : WF_suite_vars(component = "handlers" /\ InHandler(a) /\ UNCHANGED <<component, v1, v2, v3, v4, v5, v6, v7, v8, v9, v10, v11, v12, v13, v14, v15, v16, v17, v18, v19, v20, v21, v22, v23, v24, v25, v26, v27>>)
    /\ \A a \in {t1, t2} : WF_suite_vars(component = "handlers" /\ Working(a) /\ UNCHANGED <<component, v1, v2, v3, v4, v5, v6, v7, v8, v9, v10, v11, v12, v13, v14, v15, v16, v17, v18, v19, v20, v21, v22, v23, v24, v25, v26, v27>>)
    /\ WF_suite_vars(component = "server" /\ S!Start /\ UNCHANGED <<component, vars, v25, v26, v27>>)
    /\ WF_suite_vars(component = "server" /\ S!StateMachine /\ UNCHANGED <<component, vars, v25, v26, v27>>)
    /\ WF_suite_vars(component = "server" /\ S!Destructor /\ UNCHANGED <<component, vars, v25, v26, v27>>)
    /\ \A c \in {t1, t2} : WF_suite_vars(component = "server" /\ S!Callbacks(c) /\ UNCHANGED <<component, vars, v25, v26, v27>>)
    /\ \A c \in {t1, t2} : WF_suite_vars(component = "server" /\ S!Register(c) /\ UNCHANGED <<component, vars, v25, v26, v27>>)
    /\ WF_suite_vars(component = "failing requests" /\ F!Server /\ UNCHANGED <<component, vars, v15, v16, v17, v18, v19, v20, v21, v22, v23, v24, v25, v26, v27>>)
    /\ \A t \in {t1, t2} : WF_suite_vars(component = "failing requests" /\ F!Client(t) /\ UNCHANGED <<component, vars, v15, v16, v17, v18, v19, v20, v21, v22, v23, v24, v25, v26, v27>>)

-----------------------------------------------------------------------------
\* OnClientEnd, AddClient and ~CrashGenerationServer: a ClientInfo is deleted once,
\* not while it is in the list or a callback works on it, and none is left when
\* the server is gone.  Left out: where OnClientEnd runs beside AddClient, which takes
\* a second wait thread, the list may get a client that is deleted already
\* (crash_generation_server.cc:787).  ~ExceptionHandler ends no handler that a crash is
\* in and takes none off the stack; but it frees dbghelp before it waits for the lock
\* (exception_handler.cc:296), so a dump of that very handler may find the library gone.
\* Callbacks that fault, calls of WriteMinidump and exceptions that are passed over
\* disturb no handling.
NothingInUseIsDeleted ==
    /\ component = "server" => /\ S!ClientInfoValid /\ S!CallbackHasClient /\ S!ShutdownLeavesNothing
                             /\ S!OvertakenOnlyByThreads
    /\ component = "server with more wait threads" =>
          T!ClientInfoValid /\ T!CallbackHasClient /\ T!ShutdownLeavesNothing
    /\ component = "deletion" => D!CrashIsHandled /\ D!LibraryGoesWithItsHandler
    /\ component = "events" => V!CrashIsHandled

\* What reports success has succeeded.  RequestDump returned true: the server wrote the
\* dump of that very crash, or tried and could not, as HandleDumpRequest signals
\* dump_generated either way (crash_generation_server.cc:896), or the request overlapped
\* another one, of a second thread or one that timed out and the server still works
\* on.  WriteMinidump returned true: every file it was to write is written.
\* SendCrashReport returned RESULT_SUCCEEDED: the HTTP server has the whole report.
\* ResultCallBack said handled: there is a dump, unless the folder could not be made or
\* was removed or the dump not written (breakpadWrapper.cpp:26), and the API key is that
\* of the wrapper whose handler took the fault, unless another one was made beside it.
SuccessIsTrue ==
    /\ component = "requests" => Q!AnswerHasDump /\ Q!DumpOfOneCrash
    /\ component = "failing requests" => F!AnswerHasDump /\ F!DumpOfOneCrash
    /\ component \in {"generator", "generator, reads fail"} => G!TrueMeansWritten /\ G!StreamsFit
    /\ component = "sender" => R!SucceededIsReceived /\ R!CodeIsWhole
    /\ component = "senders" => B!SucceededIsReceived /\ B!CodeIsWhole
    /\ component = "wrapper" => W!HandledHasDump /\ W!ReportHasOwnKey

\* SendCrashReport and ReportSent: with one program, which may end between any two
\* steps and start again, no more than max_reports_per_day reports are sent on one
\* calendar day, and none is throttled before that many were.  Left out are the days
\* whose count the checkpoint file did not keep: it is truncated before it is written
\* (crash_report_sender.cc:112), and opening or closing it may fail.  A report counts
\* when the answer says so: one whose answer is lost is not counted.  The
\* "24-hour period" of crash_report_sender.h:71 is the calendar day of GetCurrentDate.
AtMostPerDay ==
    component = "sender" => R!AtMostPerDay /\ R!ThrottledOnlyWhenFull

\* ~MinidumpGenerator and the error paths of WriteMinidump leave none of the
\* generator's files open; they close no handle of another thread, and the handle
\* operations that are kept are those of the last bad handle.  Left out of the last two:
\* a dumped process that cannot be read, where WriteMinidump closes the files and the
\* destructor closes the same handles again (minidump_generator.cc:417).  Left out of
\* all: SetDumpFile after GenerateDumpFile, which no caller does.
FilesAreClosed ==
    component \in {"generator", "generator, reads fail"} => G!NoFileLeaked /\ (component = "generator" => G!ClosesOnlyItsOwn /\ G!TraceOfLastBadHandle)

\* RegisterAppMemory and UnregisterAppMemory: a dump holds every region that is
\* registered when it is written, none that was unregistered, and besides only the
\* memory around its instruction or, where there is no memory at the instruction, that
\* around the instruction of an earlier dump (exception_handler.cc:1006).  Left out are
\* a pointer that is refused as the instruction memory of the dump before has it, and
\* everything after such a pointer was unregistered (exception_handler.cc:1053, 1067).
DumpHoldsRegistered ==
    [][component = "memory" => M!HoldsRegistered /\ M!HoldsNothingElse]_suite_vars

\* A thread whose crash is being handled gets out of the handlers or the process
\* ends (HandleException), or a callback has faulted: its exception waits for the section
\* that the thread which waits for the callback holds (exception_handler.cc:436), and
\* both stay.  A client that has opened the pipe learns whether it is registered, and
\* the server's destructor returns, although waits fail and clients die
\* (crash_generation_server.cc).  A request for a dump is answered: by the server, by its
\* end, or by the timeout of 15 seconds (crash_generation_client.cc:42; a debug build
\* waits without end); its two threads are alike, so one is looked at.
NobodyWaitsForever ==
    /\ \A a \in {t1, t2} :
          (component = "handlers" /\ InHandling(a))
              ~> (component = "handlers" /\ (~InHandling(a) \/ CallbackBlocked))
    /\ (component = "server" /\ S!Registering(t1)) ~> (component = "server" /\ ~S!Registering(t1))
    /\ (component = "server" /\ S!Stopping) ~> (component = "server" /\ ~S!Stopping)
    /\ (component = "failing requests" /\ F!Waiting(t1))
          ~> (component = "failing requests" /\ ~F!Waiting(t1))
=============================================================================
