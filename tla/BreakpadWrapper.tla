--------------------------- MODULE BreakpadWrapper ---------------------------
(***************************************************************************)
(* SMEWindow/breakpadWrapper: the managed object with which SMEClient      *)
(* installs Breakpad's in-process handler, and the callback that Breakpad  *)
(* calls with each dump.  The API key and the server's address are         *)
(* globals, the handlers form a stack of which the newest answers, and     *)
(* other threads may fault, or make and delete wrappers, between any two   *)
(* statements of a constructor.  Breakpad itself is the module             *)
(* ExceptionHandler; here it writes a dump if it can and calls back.       *)
(***************************************************************************)
EXTENDS Integers, Sequences, SequencesExt

CONSTANTS
    Wrappers,     \* breakpadWrapper objects, each made once with itself as key
    Addressed,    \* those made by breakpadWrapper(ip, port, apikey)
    NoKey,        \* -1
    MaxOutcomes   \* faults and calls of WriteMinidump

VARIABLES
    folder,        \* the dump folder exists
    g_APIKey, g_ServerIP,
    pc,            \* how far each wrapper is
    handler_stack, \* wrappers whose handler is installed, newest last
    ended,         \* a fault has ended the process
    outcomes,      \* what became of each fault, and of each call of WriteMinidump
    overwritten,   \* history: wrappers whose key another one has replaced
    broken         \* history: the folder was not made or was removed, or a dump not written

globals == <<g_APIKey, g_ServerIP>>
vars == <<folder, globals, pc, handler_stack, ended, outcomes, overwritten, broken>>

Init ==
    /\ folder \in BOOLEAN /\ g_APIKey = NoKey /\ g_ServerIP = "null"
    /\ pc = [w \in Wrappers |-> "none"]
    /\ handler_stack = << >> /\ ended = FALSE /\ outcomes = << >>
    /\ overwritten = {} /\ broken = FALSE

Goes(w, from, to) == ~ended /\ pc[w] = from /\ pc' = [pc EXCEPT ![w] = to]

FolderMissing == ~folder

\* breakpadWrapper(int apikey), statement by statement: the folder, which may not
\* be creatable ...
MakeFolder(w) ==
    /\ w \notin Addressed /\ Goes(w, "none", "folder")
    /\ \/ ~FolderMissing /\ UNCHANGED <<folder, broken>>
       \/ FolderMissing /\ folder' = TRUE /\ UNCHANGED broken
       \/ FolderMissing /\ broken' = TRUE /\ UNCHANGED folder
    /\ UNCHANGED <<globals, handler_stack, ended, outcomes, overwritten>>

KeyFor(w) == w

\* ... the key ...
SetKey(w) ==
    /\ Goes(w, "folder", "keyed")
    /\ g_APIKey' = KeyFor(w)
    /\ overwritten' = overwritten \cup {v \in Wrappers : pc[v] \in {"keyed", "live"}}
    /\ UNCHANGED <<folder, g_ServerIP, handler_stack, ended, outcomes, broken>>

\* ... and the handler.
NewHandler(w) ==
    /\ Goes(w, "keyed", "live")
    /\ handler_stack' = Append(handler_stack, w)
    /\ UNCHANGED <<folder, globals, ended, outcomes, overwritten, broken>>

StackWithout(w) == SelectSeq(handler_stack, LAMBDA v : v # w)

\* ~breakpadWrapper: delete handler takes it off the stack wherever it is.  The
\* address is deleted and not reset.
Destructor(w) ==
    /\ Goes(w, "live", "gone")
    /\ handler_stack' = StackWithout(w)
    /\ g_ServerIP' = CASE g_ServerIP = "null" -> "null"
                       [] g_ServerIP = "allocated" -> "deleted"
                       [] OTHER -> "deleted again"
    /\ UNCHANGED <<folder, g_APIKey, ended, outcomes, overwritten, broken>>

\* ResultCallBack: what it returns to Breakpad, whatever succeeded is.
ResultCallBack(succeeded) == TRUE

\* Breakpad writes a dump, which needs the folder and may fail, and calls back if
\* there is a callback.
Dumped(w, callback) ==
    \E succeeded \in IF folder THEN BOOLEAN ELSE {FALSE} :
        /\ outcomes' = Append(outcomes, [wrapper |-> w, key |-> g_APIKey, dump |-> succeeded,
                                         handled |-> IF callback THEN ResultCallBack(succeeded)
                                                                 ELSE succeeded])
        /\ broken' = (broken \/ (folder /\ ~succeeded))

\* A native fault while a handler is installed: the newest one takes it; a callback
\* that returns true ends the process as handled.
Fault ==
    /\ ~ended /\ Len(outcomes) < MaxOutcomes /\ handler_stack # << >>
    /\ Dumped(Last(handler_stack), TRUE)
    /\ ended' = Last(outcomes').handled
    /\ UNCHANGED <<folder, globals, pc, handler_stack, overwritten>>

\* breakpadWrapper(ip, port, apikey): the address ...
NewServerIP(w) ==
    /\ w \in Addressed /\ Goes(w, "none", "address")
    /\ g_ServerIP' = "allocated"
    /\ UNCHANGED <<folder, g_APIKey, handler_stack, ended, outcomes, overwritten, broken>>

\* ... has no room for the null that wcscpy_s adds, which is an invalid parameter: it
\* goes to the newest handler, if there is one, and ends the process before the port,
\* the key, the folder and the handler.
CopyServerIP(w) ==
    /\ ~ended /\ pc[w] = "address" /\ ended' = TRUE
    /\ IF handler_stack = << >> THEN UNCHANGED <<outcomes, broken>>
                                ELSE Dumped(Last(handler_stack), TRUE)
    /\ UNCHANGED <<folder, globals, pc, handler_stack, overwritten>>

\* WriteMinidump: a handler of its own, with no callback, that is not on the stack.
WriteMinidump ==
    /\ ~ended /\ Len(outcomes) < MaxOutcomes
    /\ Dumped(NoKey, FALSE)
    /\ UNCHANGED <<folder, globals, pc, handler_stack, ended, overwritten>>

\* The user removes the dump folder, and its dumps.
RemoveFolder ==
    /\ ~ended /\ folder /\ folder' = FALSE /\ broken' = TRUE
    /\ UNCHANGED <<globals, pc, handler_stack, ended, outcomes, overwritten>>

Over ==
    /\ ended \/ \A w \in Wrappers : pc[w] = "gone"
    /\ UNCHANGED vars

Next ==
    \/ \E w \in Wrappers : \/ MakeFolder(w) \/ SetKey(w) \/ NewHandler(w) \/ Destructor(w)
                           \/ NewServerIP(w) \/ CopyServerIP(w)
    \/ Fault \/ WriteMinidump \/ RemoveFolder \/ Over

Spec == Init /\ [][Next]_vars

-----------------------------------------------------------------------------
(* Properties. *)

\* The report that ResultCallBack makes of a fault carries the API key of the
\* wrapper whose handler took the fault, at every point of the constructors and
\* destructors, unless another wrapper was made while this one was there: the key
\* is one for all (breakpadWrapper.cpp:36).
ReportHasOwnKey ==
    \A i \in DOMAIN outcomes :
        outcomes[i].wrapper \in {outcomes[i].key, NoKey} \cup overwritten

\* A fault that the callback reports as handled, so that no other handler and no
\* debugger sees it, has a dump as long as the folder could be made and is left there
\* and dumps can be written; if not, it is reported as handled all the same, as
\* ResultCallBack does not look at succeeded (breakpadWrapper.cpp:26).
HandledHasDump ==
    ~broken => \A i \in DOMAIN outcomes : outcomes[i].handled => outcomes[i].dump
=============================================================================
