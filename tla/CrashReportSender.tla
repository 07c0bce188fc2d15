-------------------------- MODULE CrashReportSender --------------------------
(***************************************************************************)
(* client/windows/sender/crash_report_sender.{h,cc} with                   *)
(* common/windows/http_upload.cc: programs that send crash reports to an   *)
(* HTTP server, at most so many a day, with the day's count kept in a      *)
(* checkpoint file.  Time advances in half days while they run.  The       *)
(* request body is a sequence of tokens; the response arrives in pieces.   *)
(* The checkpoint is written through a stdio buffer: opening it truncates  *)
(* the file and closing it writes the three lines.                         *)
(***************************************************************************)
EXTENDS Integers, Sequences, FiniteSets, FiniteSetTheorems, TLAPS

CONSTANTS
    Senders,          \* programs that share the checkpoint file
    Params,           \* the parameters of a report
    MaxPerDay,        \* max_reports_per_day_, -1 for none
    MaxTime,          \* half days
    MaxCalls,         \* calls of SendCrashReport of each program
    BodySize,         \* bytes of the response's report code
    Crashes,          \* a program may end at any point
    LosesReplies,     \* the reply may be lost or cut short
    CheckpointFails   \* the checkpoint file may fail to open

VARIABLES
    now,             \* half days since the start
    checkpoint,      \* the lines of the checkpoint file
    pc,              \* where each program is
    last_sent_date_, reports_sent_, today,
    report_code,     \* bytes of the code read, per program
    claimed_size,    \* Content-Length, -1 without the header
    calls,
    received,        \* requests that the server accepted, each its parts
    log,             \* ended calls, in order
    lost             \* days whose count the checkpoint has failed to keep

vars == <<now, checkpoint, pc, last_sent_date_, reports_sent_, today, report_code,
          claimed_size, calls, received, log, lost>>

memVars == <<last_sent_date_, reports_sent_>>
replyVars == <<report_code, claimed_size>>

GetCurrentDate == now \div 2

Signature == "GBP1"

-----------------------------------------------------------------------------
(* The checkpoint. *)

HasSignature(lines) == Len(lines) >= 1 /\ lines[1] = Signature

\* ReadCheckpoint: the date and the count that the lines give.
ReadDate(lines) == IF HasSignature(lines) /\ Len(lines) >= 2 THEN lines[2] ELSE -1
ReadCount(lines) == IF HasSignature(lines) /\ Len(lines) >= 3 THEN lines[3] ELSE 0

Init ==
    /\ now = 0 /\ checkpoint = << >>
    /\ pc = [s \in Senders |-> "none"]
    /\ last_sent_date_ = [s \in Senders |-> -1] /\ reports_sent_ = [s \in Senders |-> 0]
    /\ today = [s \in Senders |-> 0]
    /\ report_code = [s \in Senders |-> 0] /\ claimed_size = [s \in Senders |-> -1]
    /\ calls = [s \in Senders |-> 0]
    /\ received = << >> /\ log = << >> /\ lost = {}

\* A program starts: the constructor reads the checkpoint.
Construct(s) ==
    /\ pc[s] = "none" /\ calls[s] < MaxCalls /\ pc' = [pc EXCEPT ![s] = "idle"]
    /\ \E opens \in {TRUE} \cup (IF CheckpointFails THEN {FALSE} ELSE {}) :
          /\ last_sent_date_' = [last_sent_date_ EXCEPT ![s] = IF opens THEN ReadDate(checkpoint) ELSE -1]
          /\ reports_sent_' = [reports_sent_ EXCEPT ![s] = IF opens THEN ReadCount(checkpoint) ELSE 0]
          /\ lost' = IF opens THEN lost ELSE lost \cup {ReadDate(checkpoint)}
    /\ UNCHANGED <<now, checkpoint, today, replyVars, calls, received, log>>

-----------------------------------------------------------------------------
(* HTTPUpload. *)

\* A form-data part for one parameter.
ParameterPart(name) == << "boundary", name, "value" >>

\* GenerateRequestBody: the parts one after the other, three tokens each, in the
\* order of the map's keys, and then the file.
RequestBody(parameters) ==
    [k \in 1 .. 3 * Len(parameters) |->
        ParameterPart(parameters[(k + 2) \div 3])[((k - 1) % 3) + 1]]
    \o << "boundary", "upload_file_minidump", "dump", "end" >>

\* What the server makes of a body: the tokens after each boundary.
Parsed(body) ==
    {<<body[i + 1], body[i + 2]>> : i \in {j \in 1..(Len(body) - 2) : body[j] = "boundary"}}

Ends(s, result) ==
    /\ pc' = [pc EXCEPT ![s] = "idle"]
    /\ log' = Append(log, [at |-> now, today |-> today[s], result |-> result,
                           code |-> report_code[s], claimed |-> claimed_size[s] # -1])

Throttled(s, date) ==
    date = last_sent_date_[s] /\ MaxPerDay # -1 /\ reports_sent_[s] >= MaxPerDay

\* SendCrashReport up to the upload.
SendCrashReport(s) ==
    /\ pc[s] = "idle" /\ calls[s] < MaxCalls
    /\ calls' = [calls EXCEPT ![s] = @ + 1]
    /\ today' = [today EXCEPT ![s] = GetCurrentDate]
    /\ report_code' = [report_code EXCEPT ![s] = 0] /\ claimed_size' = [claimed_size EXCEPT ![s] = -1]
    /\ IF Throttled(s, GetCurrentDate)
       THEN /\ log' = Append(log, [at |-> now, today |-> GetCurrentDate, result |-> "THROTTLED",
                                   code |-> 0, claimed |-> FALSE])
            /\ UNCHANGED pc
       ELSE pc' = [pc EXCEPT ![s] = "request"] /\ UNCHANGED log
    /\ UNCHANGED <<now, checkpoint, memVars, received, lost>>

\* SendRequest ends before anything is sent: a bad parameter or URL, no
\* connection, no dump file.
NotSent(s) ==
    /\ LosesReplies /\ pc[s] = "request"
    /\ Ends(s, "FAILED")
    /\ UNCHANGED <<now, checkpoint, memVars, today, replyVars, calls, received, lost>>

StatusIsSuccess(status) == status = 200

\* The answer of SendCrashReport to a status that is no success.
ResultOf(status) == IF status >= 400 /\ status < 500 THEN "REJECTED" ELSE "FAILED"

\* HttpSendRequest; the server accepts with 200 or refuses.
HttpSendRequest(s, status) ==
    /\ pc[s] = "request"
    /\ received' = IF status = 200 THEN Append(received, Parsed(RequestBody(Params))) ELSE received
    /\ \/ LosesReplies /\ Ends(s, "FAILED") /\ UNCHANGED claimed_size
       \/ /\ ~StatusIsSuccess(status) /\ Ends(s, ResultOf(status)) /\ UNCHANGED claimed_size
       \/ /\ StatusIsSuccess(status)
          /\ pc' = [pc EXCEPT ![s] = "read"] /\ UNCHANGED log
          /\ claimed_size' \in {[claimed_size EXCEPT ![s] = c] : c \in {-1, BodySize}}
    /\ UNCHANGED <<now, checkpoint, memVars, today, report_code, calls, lost>>

\* ReadResponse: one turn of its loop.
InternetReadFile(s, n) ==
    /\ pc[s] = "read" /\ report_code[s] + n <= BodySize
    /\ report_code' = [report_code EXCEPT ![s] = @ + n]
    /\ UNCHANGED <<now, checkpoint, pc, memVars, today, claimed_size, calls, received, log, lost>>

LengthAgrees(s) == claimed_size[s] = -1 \/ report_code[s] = claimed_size[s]

\* No more data: the response ended, or the connection was closed early.
EndOfResponse(s) ==
    /\ pc[s] = "read" /\ (LosesReplies \/ report_code[s] = BodySize)
    /\ IF LengthAgrees(s) THEN pc' = [pc EXCEPT ![s] = "open"] /\ UNCHANGED log
                          ELSE Ends(s, "FAILED")
    /\ UNCHANGED <<now, checkpoint, memVars, today, replyVars, calls, received, lost>>

\* A call of WinINet fails while the response is read.
ReadError(s) ==
    /\ LosesReplies /\ pc[s] = "read"
    /\ Ends(s, "FAILED")
    /\ UNCHANGED <<now, checkpoint, memVars, today, replyVars, calls, received, lost>>

-----------------------------------------------------------------------------
(* ReportSent. *)

Counted(s) == IF today[s] # last_sent_date_[s] THEN 1 ELSE reports_sent_[s] + 1

\* The counts are updated and the file opened, which empties it.
ReportSent(s) ==
    /\ pc[s] = "open"
    /\ last_sent_date_' = [last_sent_date_ EXCEPT ![s] = today[s]]
    /\ reports_sent_' = [reports_sent_ EXCEPT ![s] = Counted(s)]
    /\ \/ pc' = [pc EXCEPT ![s] = "close"] /\ checkpoint' = << >> /\ UNCHANGED <<log, lost>>
       \/ /\ CheckpointFails /\ Ends(s, "SUCCEEDED")
          /\ lost' = lost \cup {today[s]} /\ UNCHANGED checkpoint
    /\ UNCHANGED <<now, today, replyVars, calls, received>>

\* Mutant: the count is left out.
DateOnly(s) == << Signature, last_sent_date_[s] >>

CheckpointLines(s) == << Signature, last_sent_date_[s], reports_sent_[s] >>

\* fclose writes the lines.
CloseCheckpoint(s) ==
    /\ pc[s] = "close"
    /\ checkpoint' = CheckpointLines(s)
    /\ Ends(s, "SUCCEEDED")
    /\ UNCHANGED <<now, memVars, today, replyVars, calls, received, lost>>

\* The program ends, between calls or, where Crashes, in the middle of one: then
\* the checkpoint may have been emptied and not written.
End(s) ==
    /\ pc[s] # "none" /\ (Crashes \/ pc[s] = "idle")
    /\ pc' = [pc EXCEPT ![s] = "none"]
    /\ last_sent_date_' = [last_sent_date_ EXCEPT ![s] = -1]
    /\ reports_sent_' = [reports_sent_ EXCEPT ![s] = 0]
    /\ lost' = IF pc[s] = "close" THEN lost \cup {today[s]} ELSE lost
    /\ UNCHANGED <<now, checkpoint, today, replyVars, calls, received, log>>

Tick ==
    /\ now < MaxTime /\ now' = now + 1
    /\ UNCHANGED <<checkpoint, pc, memVars, today, replyVars, calls, received, log, lost>>

Over ==
    /\ now = MaxTime /\ \A s \in Senders : pc[s] = "none" /\ calls[s] = MaxCalls
    /\ UNCHANGED vars

Step(s) ==
    \/ Construct(s) \/ SendCrashReport(s) \/ NotSent(s)
    \/ \E status \in {200, 404, 500} : HttpSendRequest(s, status)
    \/ \E n \in 1..BodySize : InternetReadFile(s, n)
    \/ EndOfResponse(s) \/ ReadError(s) \/ ReportSent(s) \/ CloseCheckpoint(s) \/ End(s)

Next == (\E s \in Senders : Step(s)) \/ Tick \/ Over

Spec == Init /\ [][Next]_vars

-----------------------------------------------------------------------------
(* Properties. *)

\* The ended calls of one day with one result.
Of(date, result) == {i \in DOMAIN log : log[i].today = date /\ log[i].result = result}

\* No more than max_reports_per_day reports succeed on one day, however often
\* the program is restarted and however long an upload takes, but for a day whose
\* count was lost: the program ended between the truncation of the checkpoint and
\* its writing (crash_report_sender.cc:112), or the file could not be opened.  The
\* day is that of GetSystemTime, not the 24 hours of crash_report_sender.h:71.
AtMostPerDay ==
    MaxPerDay # -1 => \A d \in 0..MaxTime : d \notin lost => Cardinality(Of(d, "SUCCEEDED")) <= MaxPerDay

\* A report is throttled only on a day on which that many have been sent.
ThrottledOnlyWhenFull ==
    \A i \in DOMAIN log : log[i].result = "THROTTLED" =>
        Cardinality(Of(log[i].today, "SUCCEEDED")) >= MaxPerDay

\* For every report that succeeded the server holds a request with every
\* parameter and the dump: GenerateRequestBody separates the parts, and no
\* other status than the server's acceptance is taken for success.
SucceededIsReceived ==
    LET succeeded == {i \in DOMAIN log : log[i].result = "SUCCEEDED"}
        whole == {<<Params[i], "value">> : i \in DOMAIN Params} \cup {<<"upload_file_minidump", "dump">>}
    IN  Cardinality({i \in DOMAIN received : received[i] = whole}) >= Cardinality(succeeded)

\* A code that came with a Content-Length is complete when SendCrashReport
\* returns it, however the response was cut into pieces.
CodeIsWhole ==
    \A i \in DOMAIN log :
        log[i].result = "SUCCEEDED" /\ log[i].claimed => log[i].code = BodySize

-----------------------------------------------------------------------------
(***************************************************************************)
(* Proofs of the daily limit and of CodeIsWhole.  The limit is not         *)
(* inductive: that a call which is not throttled may succeed rests on the  *)
(* count in memory being that of the log, which rests in turn on the       *)
(* checkpoint, because a restarted program knows nothing else, and on the  *)
(* days of successes never going back; only the days on which a report may *)
(* still be sent, and whose count was not lost, agree (CheckpointInv).     *)
(***************************************************************************)

Places == {"none", "idle", "request", "read", "open", "close"}

Results == {"SUCCEEDED", "FAILED", "REJECTED", "THROTTLED"}

\* An ended call of SendCrashReport.
Ended == [at : Nat, today : Nat, result : Results, code : Int, claimed : BOOLEAN]

\* The types of what a program has in memory.
MemoryOK ==
    /\ now \in Nat
    /\ pc \in [Senders -> Places]
    /\ last_sent_date_ \in [Senders -> Nat \cup {-1}] /\ reports_sent_ \in [Senders -> Nat]
    /\ today \in [Senders -> Nat]
    /\ report_code \in [Senders -> Int] /\ claimed_size \in [Senders -> {-1, BodySize}]
    /\ \A s \in Senders : pc[s] = "close" => last_sent_date_[s] \in Nat

\* The checkpoint is empty or whole: between open and close it is empty.
CheckpointOK == checkpoint = << >> \/ \E d, c \in Nat : checkpoint = << Signature, d, c >>

SenderTypeOK == MemoryOK /\ CheckpointOK /\ log \in Seq(Ended)

\* The successes of a day.
Sent(d) == Cardinality(Of(d, "SUCCEEDED"))

\* From day m on, as far as no count was lost, the reports that succeeded are c on
\* day d and none on another.
Fresh(d, c, m) ==
    \A e \in Nat : e >= m /\ e \notin lost => Sent(e) = IF e = d THEN c ELSE 0

\* The checkpoint is fresh for the days to come, and so is the memory of the program
\* that has read it, or could not; neither counts a report that was not sent; a
\* report that is on its way was not throttled; between open and close the report
\* is counted in memory only.
CheckpointInv(s) ==
    /\ today[s] <= GetCurrentDate
    /\ ReadDate(checkpoint) <= GetCurrentDate
    /\ pc[s] # "close" =>
          /\ Fresh(ReadDate(checkpoint), ReadCount(checkpoint), GetCurrentDate)
          /\ ReadCount(checkpoint) <= Sent(ReadDate(checkpoint))
    /\ pc[s] \notin {"none", "close"} =>
          last_sent_date_[s] <= GetCurrentDate /\ reports_sent_[s] <= Sent(last_sent_date_[s])
    /\ pc[s] = "idle" => Fresh(last_sent_date_[s], reports_sent_[s], GetCurrentDate)
    /\ pc[s] \in {"request", "read", "open"} =>
          /\ last_sent_date_[s] <= today[s] /\ ~Throttled(s, today[s])
          /\ Fresh(last_sent_date_[s], reports_sent_[s], today[s])
    /\ pc[s] = "close" =>
          /\ checkpoint = << >> /\ last_sent_date_[s] = today[s]
          /\ Fresh(today[s], reports_sent_[s] - 1, today[s])
          /\ reports_sent_[s] - 1 <= Sent(today[s])
          /\ MaxPerDay = -1 \/ reports_sent_[s] <= MaxPerDay

\* The two properties, for all days.
DayInv ==
    /\ MaxPerDay # -1 => \A d \in Nat : d \notin lost => Sent(d) <= MaxPerDay
    /\ ThrottledOnlyWhenFull

\* What ReadCheckpoint makes of the two files that a sender leaves.
LEMMA Checkpoints ==
    /\ ReadDate(<< >>) = -1 /\ ReadCount(<< >>) = 0
    /\ \A d, c \in Nat : /\ ReadDate(<< Signature, d, c >>) = d
                         /\ ReadCount(<< Signature, d, c >>) = c
BY DEF ReadDate, ReadCount, HasSignature

\* The calls of one day with one result can be counted.
LEMMA Countable ==
    ASSUME log \in Seq(Ended), NEW d, NEW r
    PROVE  IsFiniteSet(Of(d, r)) /\ Cardinality(Of(d, r)) \in Nat
<1>1. IsFiniteSet(1 .. Len(log))
  BY FS_Interval
<1>2. Of(d, r) \subseteq 1 .. Len(log)
  BY DEF Of
<1> QED
  BY Zenon, <1>1, <1>2, FS_Subset, FS_CardinalityType

\* A call that ends adds one to the calls of its day and result, and to no others.
LEMMA Logged ==
    ASSUME log \in Seq(Ended), NEW r \in Ended, log' = Append(log, r), NEW d, NEW q
    PROVE  /\ r.today = d /\ r.result = q =>
                  Cardinality(Of(d, q)') = Cardinality(Of(d, q)) + 1
           /\ ~(r.today = d /\ r.result = q) => Of(d, q)' = Of(d, q)
<1> DEFINE n == Len(log) + 1
<1>1. /\ DOMAIN log = 1 .. Len(log) /\ Len(log) \in Nat
      /\ DOMAIN log' = 1 .. n /\ log'[n] = r
      /\ \A i \in 1 .. Len(log) : log'[i] = log[i]
  OBVIOUS
<1>2. n \notin Of(d, q)
  BY <1>1 DEF Of
<1>3. CASE r.today = d /\ r.result = q
  <2>1. Of(d, q)' = Of(d, q) \cup {n}
    BY <1>1, <1>3 DEF Of
  <2>2. IsFiniteSet(Of(d, q))
    BY Zenon, Countable
  <2>3. Cardinality(Of(d, q) \cup {n}) = Cardinality(Of(d, q)) + 1
    BY Zenon, <1>2, <2>2, FS_AddElement
  <2> QED
    BY Zenon, <2>1, <2>3, <1>3
<1>4. CASE ~(r.today = d /\ r.result = q)
  <2>1. Of(d, q)' = Of(d, q)
    BY <1>1, <1>4 DEF Of
  <2> QED
    BY Zenon, <2>1, <1>4
<1> QED
  BY Zenon, <1>3, <1>4

\* A call that ends without success leaves the counts of all days; if it was
\* throttled, on a day that had its number of successes.
LEMMA Unsent ==
    ASSUME log \in Seq(Ended), NEW r \in Ended, log' = Append(log, r),
           r.result # "SUCCEEDED", DayInv, lost \subseteq lost',
           r.result = "THROTTLED" => Sent(r.today) >= MaxPerDay
    PROVE  DayInv' /\ \A d : Sent(d)' = Sent(d)
<1>1. \A d : Of(d, "SUCCEEDED")' = Of(d, "SUCCEEDED")
  BY Zenon, Logged
<1>2. \A d : Sent(d)' = Sent(d)
  BY Zenon, <1>1 DEF Sent
<1>3. ThrottledOnlyWhenFull'
  <2>1. SUFFICES ASSUME NEW i \in DOMAIN log', log'[i].result = "THROTTLED",
                        NEW d, d = log'[i].today
                 PROVE  Sent(d)' >= MaxPerDay
    BY DEF ThrottledOnlyWhenFull, Sent, Of
  <2>2. Sent(d) >= MaxPerDay
    <3>1. (i \in DOMAIN log /\ log'[i] = log[i]) \/ log'[i] = r
      OBVIOUS
    <3>2. CASE i \in DOMAIN log /\ log'[i] = log[i]
      BY Zenon, <2>1, <3>2 DEF DayInv, ThrottledOnlyWhenFull, Sent
    <3>3. CASE log'[i] = r
      BY Zenon, <2>1, <3>3
    <3> QED
      BY Zenon, <3>1, <3>2, <3>3
  <2> QED
    BY Zenon, <1>2, <2>2
<1> QED
  BY Zenon, <1>2, <1>3 DEF DayInv

\* A call that succeeds adds one to the successes of its day.
LEMMA Success ==
    ASSUME log \in Seq(Ended), NEW r \in Ended, log' = Append(log, r),
           r.result = "SUCCEEDED", ThrottledOnlyWhenFull, MaxPerDay \in Int
    PROVE  /\ ThrottledOnlyWhenFull' /\ Sent(r.today)' = Sent(r.today) + 1
           /\ \A d : d # r.today => Sent(d)' = Sent(d)
<1>1. Sent(r.today)' = Sent(r.today) + 1
  BY Zenon, Logged DEF Sent
<1>2. \A d : d # r.today => Sent(d)' = Sent(d)
  BY Zenon, Logged DEF Sent
<1>3. \A d : Sent(d) \in Nat
  BY Zenon, Countable DEF Sent
<1>4. ThrottledOnlyWhenFull'
  <2>1. SUFFICES ASSUME NEW i \in DOMAIN log', log'[i].result = "THROTTLED",
                        NEW d, d = log'[i].today
                 PROVE  Sent(d)' >= MaxPerDay
    BY DEF ThrottledOnlyWhenFull, Sent, Of
  <2>2. i \in DOMAIN log /\ log'[i] = log[i]
    BY <2>1
  <2>3. Sent(d) >= MaxPerDay
    BY Zenon, <2>1, <2>2 DEF ThrottledOnlyWhenFull, Sent
  <2> QED
    BY <1>1, <1>2, <1>3, <2>3
<1> QED
  BY Zenon, <1>1, <1>2, <1>4

\* A call that ends is logged, on the day it began.
LEMMA EndsLogs ==
    ASSUME BodySize \in Nat, SenderTypeOK, NEW s \in Senders, NEW q \in Results, Ends(s, q)
    PROVE  \E r \in Ended :
              /\ log' = Append(log, r) /\ r.today = today[s] /\ r.result = q
              /\ r.code = report_code[s] /\ r.claimed = (claimed_size[s] # -1)
<1> DEFINE r == [at |-> now, today |-> today[s], result |-> q, code |-> report_code[s],
                 claimed |-> claimed_size[s] # -1]
<1>1. now \in Nat /\ today[s] \in Nat /\ report_code[s] \in Int /\ (claimed_size[s] # -1) \in BOOLEAN
  BY Zenon DEF SenderTypeOK, MemoryOK
<1>2. r \in Ended
  BY Zenon, <1>1 DEF Ended
<1>3. /\ log' = Append(log, r) /\ r.today = today[s] /\ r.result = q
      /\ r.code = report_code[s] /\ r.claimed = (claimed_size[s] # -1)
  BY Zenon DEF Ends
<1> QED
  BY Zenon, <1>2, <1>3

\* A throttled call is logged too.
LEMMA ThrottleLogs ==
    ASSUME SenderTypeOK, NEW s \in Senders, SendCrashReport(s), Throttled(s, GetCurrentDate)
    PROVE  \E r \in Ended : /\ log' = Append(log, r)
                            /\ r.today = GetCurrentDate /\ r.result = "THROTTLED"
<1> DEFINE r == [at |-> now, today |-> GetCurrentDate, result |-> "THROTTLED",
                 code |-> 0, claimed |-> FALSE]
<1>1. now \in Nat /\ GetCurrentDate \in Nat
  BY DEF SenderTypeOK, MemoryOK, GetCurrentDate
<1>2. r \in Ended
  BY <1>1 DEF Ended, Results
<1>3. log' = Append(log, r) /\ r.today = GetCurrentDate /\ r.result = "THROTTLED"
  BY Zenon DEF SendCrashReport
<1> QED
  BY Zenon, <1>2, <1>3

\* Every step keeps the log one of ended calls.
LEMMA LogGrows ==
    ASSUME BodySize \in Nat, SenderTypeOK, NEW s \in Senders, Step(s)
    PROVE  log' \in Seq(Ended)
<1>1. ASSUME NEW r \in Ended, log' = Append(log, r) PROVE log' \in Seq(Ended)
  BY <1>1 DEF SenderTypeOK
<1>2. ASSUME NEW q \in Results, Ends(s, q) PROVE log' \in Seq(Ended)
  BY Zenon, <1>1, <1>2, EndsLogs
<1>3. CASE Ends(s, "FAILED") \/ Ends(s, "REJECTED") \/ Ends(s, "SUCCEEDED")
  BY Zenon, <1>2, <1>3 DEF Results
<1>4. CASE UNCHANGED log
  BY Zenon, <1>4 DEF SenderTypeOK
<1>5. CASE SendCrashReport(s)
  <2>1. CASE Throttled(s, GetCurrentDate)
    BY Zenon, <1>1, <1>5, <2>1, ThrottleLogs
  <2>2. CASE ~Throttled(s, GetCurrentDate)
    BY Zenon, <1>4, <1>5, <2>2 DEF SendCrashReport
  <2> QED
    BY Zenon, <2>1, <2>2
<1>6. ASSUME NEW status \in {200, 404, 500}, HttpSendRequest(s, status)
      PROVE  log' \in Seq(Ended)
  <2>1. ResultOf(status) \in Results
    BY Zenon DEF ResultOf, Results
  <2> QED
    BY Zenon, <1>2, <1>3, <1>4, <1>6, <2>1 DEF HttpSendRequest
<1>7. CASE NotSent(s) \/ ReadError(s)
  BY Zenon, <1>3, <1>7 DEF NotSent, ReadError
<1>8. CASE EndOfResponse(s)
  BY Zenon, <1>3, <1>4, <1>8 DEF EndOfResponse
<1>9. CASE ReportSent(s)
  BY Zenon, <1>3, <1>4, <1>9 DEF ReportSent
<1>10. CASE CloseCheckpoint(s)
  BY Zenon, <1>3, <1>10 DEF CloseCheckpoint
<1>11. CASE Construct(s) \/ End(s) \/ \E n \in 1 .. BodySize : InternetReadFile(s, n)
  BY Zenon, <1>4, <1>11 DEF Construct, End, InternetReadFile
<1> QED
  BY Zenon, <1>5, <1>6, <1>7, <1>8, <1>9, <1>10, <1>11 DEF Step

\* No step leaves the types, for any number of programs, crashes and failures.
LEMMA TypeKeeps ==
    ASSUME BodySize \in Nat, SenderTypeOK, [Next]_vars
    PROVE  SenderTypeOK'
<1> USE DEF memVars, replyVars
<1>1. ASSUME NEW s \in Senders, Step(s) PROVE MemoryOK'
  <2> USE DEF SenderTypeOK, MemoryOK, Places
  <2>1. CASE Construct(s)
    <3>1. ReadDate(checkpoint) \in Nat \cup {-1} /\ ReadCount(checkpoint) \in Nat
      BY Checkpoints DEF CheckpointOK
    <3> QED
      BY <2>1, <3>1 DEF Construct
  <2>2. CASE SendCrashReport(s)
    <3>1. GetCurrentDate \in Nat
      BY DEF GetCurrentDate
    <3>2. /\ pc' = [pc EXCEPT ![s] = "request"] \/ pc' = pc
          /\ today' = [today EXCEPT ![s] = GetCurrentDate]
          /\ report_code' = [report_code EXCEPT ![s] = 0]
          /\ claimed_size' = [claimed_size EXCEPT ![s] = -1]
          /\ UNCHANGED <<now, last_sent_date_, reports_sent_>>
      BY Zenon, <2>2 DEF SendCrashReport
    <3>3. today' \in [Senders -> Nat]
      BY Zenon, <3>1, <3>2
    <3>4. report_code' \in [Senders -> Int] /\ claimed_size' \in [Senders -> {-1, BodySize}]
      BY <3>2
    <3>5. pc' \in [Senders -> Places] /\ \A x \in Senders : pc'[x] = "close" => pc[x] = "close"
      BY Zenon, <3>2
    <3> QED
      BY Zenon, <3>2, <3>3, <3>4, <3>5
  <2>3. CASE NotSent(s) \/ ReadError(s)
    BY Zenon, <2>3 DEF NotSent, ReadError, Ends
  <2>4. CASE \E status \in {200, 404, 500} : HttpSendRequest(s, status)
    <3>1. /\ pc' = [pc EXCEPT ![s] = "idle"] \/ pc' = [pc EXCEPT ![s] = "read"]
          /\ UNCHANGED <<now, last_sent_date_, reports_sent_, today, report_code>>
      BY Zenon, <2>4 DEF HttpSendRequest, Ends
    <3>2. \E c \in {-1, BodySize} : claimed_size' = claimed_size \/ claimed_size' = [claimed_size EXCEPT ![s] = c]
      BY <2>4 DEF HttpSendRequest
    <3> QED
      BY Zenon, <3>1, <3>2
  <2>5. CASE \E n \in 1 .. BodySize : InternetReadFile(s, n)
    BY <2>5 DEF InternetReadFile
  <2>6. CASE EndOfResponse(s)
    BY Zenon, <2>6 DEF EndOfResponse, Ends
  <2>7. CASE ReportSent(s)
    <3>1. Counted(s) \in Nat
      BY DEF Counted
    <3>2. /\ pc' = [pc EXCEPT ![s] = "idle"] \/ pc' = [pc EXCEPT ![s] = "close"]
          /\ last_sent_date_' = [last_sent_date_ EXCEPT ![s] = today[s]]
          /\ reports_sent_' = [reports_sent_ EXCEPT ![s] = Counted(s)]
          /\ UNCHANGED <<now, today, report_code, claimed_size>>
      BY Zenon, <2>7 DEF ReportSent, Ends
    <3> QED
      BY Zenon, <3>1, <3>2
  <2>8. CASE CloseCheckpoint(s)
    BY Zenon, <2>8 DEF CloseCheckpoint, Ends
  <2>9. CASE End(s)
    BY Zenon, <2>9 DEF End
  <2> HIDE DEF SenderTypeOK, MemoryOK, Places
  <2> QED
    BY <1>1, <2>1, <2>2, <2>3, <2>4, <2>5, <2>6, <2>7, <2>8, <2>9 DEF Step
<1>2. ASSUME NEW s \in Senders, Step(s) PROVE CheckpointOK'
  <2>1. CASE CloseCheckpoint(s)
    BY Zenon, <2>1 DEF CloseCheckpoint, CheckpointLines, SenderTypeOK, MemoryOK, CheckpointOK
  <2>2. CASE checkpoint' = << >> \/ UNCHANGED checkpoint
    BY Zenon, <2>2 DEF SenderTypeOK, CheckpointOK
  <2> QED
    BY Zenon, <1>2, <2>1, <2>2 DEF Step, Construct, SendCrashReport, NotSent, ReadError, HttpSendRequest,
         InternetReadFile, EndOfResponse, ReportSent, End
<1>3. CASE \E s \in Senders : Step(s)
  BY Zenon, <1>1, <1>2, <1>3, LogGrows DEF SenderTypeOK
<1>4. CASE Tick \/ Over \/ UNCHANGED vars
  BY <1>4 DEF Tick, Over, vars, SenderTypeOK, MemoryOK, CheckpointOK
<1> QED
  BY Zenon, <1>3, <1>4 DEF Next

\* The types at the start.
LEMMA Initially ==
    ASSUME Init, BodySize \in Nat PROVE SenderTypeOK
BY DEF Init, SenderTypeOK, MemoryOK, CheckpointOK, Places

\* As long as nothing is logged, the counts of all days stay.
LEMMA Unlogged ==
    ASSUME UNCHANGED log, DayInv, lost \subseteq lost'
    PROVE  DayInv' /\ \A d : Sent(d)' = Sent(d)
BY Zenon DEF DayInv, ThrottledOnlyWhenFull, Sent, Of

\* A step inside SendCrashReport that has not succeeded yet, or has failed.
LEMMA Steady ==
    ASSUME NEW s \in Senders, SenderTypeOK, CheckpointInv(s), \A d : Sent(d)' = Sent(d),
           UNCHANGED <<now, checkpoint, last_sent_date_, reports_sent_, today, lost>>,
           pc[s] \in {"request", "read", "open"},
           pc'[s] \in {"idle", "request", "read", "open"}
    PROVE  CheckpointInv(s)'
<1> DEFINE D == last_sent_date_[s]
           C == reports_sent_[s]
<1>1. today[s] \in Int /\ GetCurrentDate \in Int /\ today[s] <= GetCurrentDate
  BY DEF SenderTypeOK, MemoryOK, CheckpointInv, GetCurrentDate
<1>2. UNCHANGED <<ReadDate(checkpoint), ReadCount(checkpoint), GetCurrentDate>>
  BY Zenon DEF GetCurrentDate
<1>3. Fresh(ReadDate(checkpoint), ReadCount(checkpoint), GetCurrentDate)'
  BY Zenon, <1>2 DEF CheckpointInv, Fresh
<1>4. Fresh(D, C, today[s])'
  BY Zenon DEF CheckpointInv, Fresh
<1>5. Fresh(D, C, GetCurrentDate)'
  BY <1>1, <1>2, <1>4 DEF Fresh
<1> QED
  BY Zenon, <1>2, <1>3, <1>4, <1>5 DEF CheckpointInv, Throttled

\* Every step of the one program keeps count and checkpoint in agreement with the log.
LEMMA LimitKeeps ==
    ASSUME NEW s, Senders = {s}, BodySize \in Nat,
           MaxPerDay \in Int, MaxPerDay = -1 \/ MaxPerDay >= 1,
           SenderTypeOK, CheckpointInv(s), DayInv, [Next]_vars
    PROVE  CheckpointInv(s)' /\ DayInv'
<1> USE DEF memVars, replyVars
<1> DEFINE D == ReadDate(checkpoint)
           C == ReadCount(checkpoint)
           M == last_sent_date_[s]
           N == reports_sent_[s]
           Keeps == CheckpointInv(s)' /\ DayInv'
<1>a. /\ s \in Senders /\ pc \in [Senders -> Places] /\ now \in Nat /\ GetCurrentDate \in Nat
      /\ today[s] \in Nat /\ M \in Nat \cup {-1} /\ N \in Nat
  BY DEF SenderTypeOK, MemoryOK, GetCurrentDate
<1>b. D \in Nat \cup {-1} /\ C \in Nat
  BY Checkpoints DEF SenderTypeOK, CheckpointOK
<1>s. \A d : Sent(d) \in Nat
  BY Zenon, Countable DEF Sent, SenderTypeOK
<1>c. ASSUME UNCHANGED log, lost \subseteq lost' PROVE DayInv' /\ \A d : Sent(d)' = Sent(d)
  BY Zenon, <1>c, Unlogged
<1>d. ASSUME NEW q \in {"FAILED", "REJECTED"}, Ends(s, q), UNCHANGED lost
      PROVE  DayInv' /\ pc'[s] = "idle" /\ \A d : Sent(d)' = Sent(d)
  <2>1. q \in Results /\ q # "SUCCEEDED" /\ q # "THROTTLED"
    BY Zenon DEF Results
  <2>2. PICK r \in Ended : log' = Append(log, r) /\ r.result = q
    BY Zenon, <1>a, <1>d, <2>1, EndsLogs
  <2>3. DayInv' /\ \A d : Sent(d)' = Sent(d)
    BY Zenon, <1>d, <2>1, <2>2, Unsent DEF SenderTypeOK
  <2> QED
    BY Zenon, <1>a, <1>d, <2>3 DEF Ends
<1>1. CASE Construct(s)
  <2>1. /\ pc[s] = "none" /\ pc'[s] = "idle" /\ lost \subseteq lost'
        /\ UNCHANGED <<now, checkpoint, today, log>>
        /\ \/ last_sent_date_'[s] = D /\ reports_sent_'[s] = C
           \/ last_sent_date_'[s] = -1 /\ reports_sent_'[s] = 0 /\ D \in lost'
    BY Zenon, <1>a, <1>1 DEF Construct, SenderTypeOK, MemoryOK
  <2>2. DayInv' /\ \A d : Sent(d)' = Sent(d)
    BY Zenon, <1>c, <2>1
  <2>3. UNCHANGED <<D, C, GetCurrentDate>>
    BY Zenon, <2>1 DEF GetCurrentDate
  <2>4. Fresh(D, C, GetCurrentDate)' /\ C' <= Sent(D)'
    BY Zenon, <2>1, <2>2, <2>3 DEF CheckpointInv, Fresh
  <2>5. Fresh(M, N, GetCurrentDate)'
    <3>1. CASE last_sent_date_'[s] = D /\ reports_sent_'[s] = C
      BY Zenon, <2>3, <2>4, <3>1 DEF Fresh
    <3>2. CASE last_sent_date_'[s] = -1 /\ reports_sent_'[s] = 0 /\ D \in lost'
      <4>1. \A e \in Nat : e >= GetCurrentDate' /\ e \notin lost' => Sent(e)' = 0
        BY Zenon, <2>3, <2>4, <3>2 DEF Fresh
      <4> QED
        BY Zenon, <3>2, <4>1 DEF Fresh
    <3> QED
      BY Zenon, <2>1, <3>1, <3>2
  <2>6. M' <= GetCurrentDate' /\ N' <= Sent(M)'
    BY <1>a, <1>s, <2>1, <2>2, <2>3, <2>4 DEF CheckpointInv
  <2> QED
    BY Zenon, <2>1, <2>2, <2>3, <2>4, <2>5, <2>6 DEF CheckpointInv
<1>2. CASE SendCrashReport(s)
  <2>1. /\ pc[s] = "idle" /\ today'[s] = GetCurrentDate
        /\ UNCHANGED <<now, checkpoint, last_sent_date_, reports_sent_, lost>>
    BY Zenon, <1>a, <1>2 DEF SendCrashReport, SenderTypeOK, MemoryOK
  <2>2. /\ Fresh(D, C, GetCurrentDate) /\ C <= Sent(D) /\ D <= GetCurrentDate
        /\ Fresh(M, N, GetCurrentDate) /\ N <= Sent(M) /\ M <= GetCurrentDate
    BY Zenon, <2>1 DEF CheckpointInv
  <2>3. UNCHANGED <<D, C, M, N, GetCurrentDate>>
    BY Zenon, <2>1 DEF GetCurrentDate
  <2>4. CASE Throttled(s, GetCurrentDate)
    <3>1. PICK r \in Ended : log' = Append(log, r) /\ r.today = GetCurrentDate /\ r.result = "THROTTLED"
      BY Zenon, <1>a, <1>2, <2>4, ThrottleLogs
    <3>2. Sent(r.today) >= MaxPerDay
      <4>1. N >= MaxPerDay /\ M = r.today
        BY Zenon, <2>4, <3>1 DEF Throttled
      <4> QED
        BY <1>a, <1>s, <2>2, <4>1
    <3>3. DayInv' /\ \A d : Sent(d)' = Sent(d)
      BY Zenon, <2>1, <3>1, <3>2, Unsent DEF SenderTypeOK
    <3>4. pc'[s] = "idle"
      BY Zenon, <1>2, <2>1, <2>4 DEF SendCrashReport
    <3>5. Fresh(D, C, GetCurrentDate)' /\ Fresh(M, N, GetCurrentDate)'
      BY Zenon, <2>1, <2>2, <2>3, <3>3 DEF Fresh
    <3>6. today'[s] <= GetCurrentDate'
      BY <1>a, <2>1, <2>3
    <3> QED
      BY Zenon, <2>2, <2>3, <3>3, <3>4, <3>5, <3>6 DEF CheckpointInv
  <2>5. CASE ~Throttled(s, GetCurrentDate)
    <3>1. pc'[s] = "request" /\ UNCHANGED log
      BY Zenon, <1>a, <1>2, <2>5 DEF SendCrashReport
    <3>2. DayInv' /\ \A d : Sent(d)' = Sent(d)
      BY Zenon, <1>c, <2>1, <3>1
    <3>3. Fresh(D, C, GetCurrentDate)' /\ Fresh(M, N, today[s])'
      BY Zenon, <2>1, <2>2, <2>3, <3>2 DEF Fresh
    <3>4. ~Throttled(s, today[s])' /\ M' <= today'[s]
      BY Zenon, <2>1, <2>2, <2>3, <2>5 DEF Throttled
    <3>5. today'[s] <= GetCurrentDate'
      BY <1>a, <2>1, <2>3
    <3> QED
      BY Zenon, <2>2, <2>3, <3>1, <3>2, <3>3, <3>4, <3>5 DEF CheckpointInv
  <2> QED
    BY Zenon, <2>4, <2>5
<1>3. CASE NotSent(s) \/ ReadError(s)
  <2>1. Ends(s, "FAILED") /\ UNCHANGED lost
    BY Zenon, <1>3 DEF NotSent, ReadError
  <2>2. pc'[s] = "idle" /\ DayInv' /\ \A d : Sent(d)' = Sent(d)
    BY Zenon, <1>d, <2>1
  <2> QED
    BY Zenon, <1>a, <1>3, <2>2, Steady DEF NotSent, ReadError
<1>4. ASSUME NEW status \in {200, 404, 500}, HttpSendRequest(s, status) PROVE Keeps
  <2>1. ResultOf(status) \in {"FAILED", "REJECTED"}
    BY Zenon DEF ResultOf
  <2>2. pc'[s] \in {"idle", "read"} /\ DayInv' /\ \A d : Sent(d)' = Sent(d)
    <3>1. CASE Ends(s, "FAILED") \/ Ends(s, ResultOf(status))
      BY <1>4, <1>d, <2>1, <3>1 DEF HttpSendRequest
    <3>2. CASE pc' = [pc EXCEPT ![s] = "read"] /\ UNCHANGED log
      BY Zenon, <1>4, <1>a, <1>c, <3>2 DEF HttpSendRequest
    <3> QED
      BY Zenon, <1>4, <3>1, <3>2 DEF HttpSendRequest
  <2> QED
    BY Zenon, <1>a, <1>4, <2>2, Steady DEF HttpSendRequest
<1>5. CASE \E n \in 1 .. BodySize : InternetReadFile(s, n)
  BY Zenon, <1>a, <1>c, <1>5, Steady DEF InternetReadFile
<1>6. CASE EndOfResponse(s)
  <2>1. pc'[s] \in {"idle", "open"} /\ DayInv' /\ \A d : Sent(d)' = Sent(d)
    BY Zenon, <1>a, <1>c, <1>d, <1>6 DEF EndOfResponse
  <2> QED
    BY Zenon, <1>a, <1>6, <2>1, Steady DEF EndOfResponse
<1>7. CASE ReportSent(s)
  <2>1. /\ pc[s] = "open" /\ last_sent_date_'[s] = today[s] /\ reports_sent_'[s] = Counted(s)
        /\ UNCHANGED <<now, today>>
    BY Zenon, <1>a, <1>7 DEF ReportSent, SenderTypeOK, MemoryOK
  <2>2. /\ M <= today[s] /\ ~Throttled(s, today[s]) /\ Fresh(M, N, today[s]) /\ N <= Sent(M)
        /\ Fresh(D, C, GetCurrentDate) /\ C <= Sent(D) /\ today[s] <= GetCurrentDate
    BY Zenon, <2>1 DEF CheckpointInv
  <2>3. Fresh(today[s], Counted(s) - 1, today[s])
    BY <1>a, <2>2 DEF Fresh, Counted
  <2>4. Counted(s) - 1 <= Sent(today[s]) /\ Counted(s) \in Nat
    BY <1>a, <1>s, <2>2 DEF Counted
  <2>5. CASE pc' = [pc EXCEPT ![s] = "close"] /\ checkpoint' = << >> /\ UNCHANGED <<log, lost>>
    <3>1. DayInv' /\ \A d : Sent(d)' = Sent(d)
      BY Zenon, <1>c, <2>5
    <3>2. MaxPerDay = -1 \/ Counted(s) <= MaxPerDay
      BY <1>a, <2>2 DEF Counted, Throttled
    <3>3. Fresh(today[s], reports_sent_[s] - 1, today[s])'
      BY Zenon, <2>1, <2>3, <2>5, <3>1 DEF Fresh
    <3>4. D' = -1 /\ GetCurrentDate' = GetCurrentDate /\ pc'[s] = "close"
      BY Zenon, <1>a, <2>1, <2>5, Checkpoints DEF GetCurrentDate
    <3>5. D' <= GetCurrentDate'
      BY <1>a, <3>4
    <3> QED
      BY Zenon, <2>1, <2>2, <2>4, <2>5, <3>1, <3>2, <3>3, <3>4, <3>5 DEF CheckpointInv
  <2>6. CASE Ends(s, "SUCCEEDED") /\ lost' = lost \cup {today[s]} /\ UNCHANGED checkpoint
    <3>1. PICK r \in Ended : log' = Append(log, r) /\ r.today = today[s] /\ r.result = "SUCCEEDED"
      BY Zenon, <1>a, <2>6, EndsLogs DEF Results
    <3>2. /\ ThrottledOnlyWhenFull' /\ Sent(today[s])' = Sent(today[s]) + 1
          /\ \A d : d # today[s] => Sent(d)' = Sent(d)
      BY Zenon, <2>1, <3>1, Success DEF SenderTypeOK, DayInv
    <3>3. DayInv'
      BY Zenon, <2>6, <3>2 DEF DayInv
    <3>4. UNCHANGED <<D, C, GetCurrentDate>> /\ pc'[s] = "idle"
      BY Zenon, <1>a, <2>1, <2>6 DEF GetCurrentDate, Ends
    <3>5. Fresh(D, C, GetCurrentDate)'
      BY Zenon, <2>2, <2>6, <3>2, <3>4 DEF Fresh
    <3>6. Fresh(M, N, GetCurrentDate)'
      <4>1. \A e \in Nat : e >= GetCurrentDate /\ e \notin lost' => e # M' /\ Sent(e)' = 0
        BY <1>a, <2>1, <2>2, <2>6, <3>2 DEF Fresh
      <4> QED
        BY Zenon, <3>4, <4>1 DEF Fresh
    <3>7. C' <= Sent(D)' /\ M' <= GetCurrentDate' /\ N' <= Sent(M)'
      BY <1>a, <1>b, <1>s, <2>1, <2>2, <2>4, <3>2, <3>4
    <3> QED
      BY Zenon, <2>1, <2>2, <3>3, <3>4, <3>5, <3>6, <3>7 DEF CheckpointInv
  <2> QED
    BY Zenon, <1>7, <2>5, <2>6 DEF ReportSent
<1>8. CASE CloseCheckpoint(s)
  <2>1. /\ pc[s] = "close" /\ checkpoint' = << Signature, today[s], N >>
        /\ Ends(s, "SUCCEEDED") /\ pc'[s] = "idle" /\ M = today[s]
        /\ UNCHANGED <<now, last_sent_date_, reports_sent_, today, lost>>
    BY Zenon, <1>a, <1>8 DEF CloseCheckpoint, CheckpointLines, CheckpointInv, Ends
  <2>2. /\ Fresh(today[s], N - 1, today[s]) /\ N - 1 <= Sent(today[s])
        /\ MaxPerDay = -1 \/ N <= MaxPerDay
        /\ today[s] <= GetCurrentDate
    BY Zenon, <2>1 DEF CheckpointInv
  <2>3. PICK r \in Ended : log' = Append(log, r) /\ r.today = today[s] /\ r.result = "SUCCEEDED"
    BY Zenon, <1>a, <2>1, EndsLogs DEF Results
  <2>4. /\ ThrottledOnlyWhenFull' /\ Sent(today[s])' = Sent(today[s]) + 1
        /\ \A d : d # today[s] => Sent(d)' = Sent(d)
    BY Zenon, <2>1, <2>3, Success DEF SenderTypeOK, DayInv
  <2>5. \A e \in Nat : e >= today[s] /\ e \notin lost => Sent(e)' = IF e = today[s] THEN N ELSE 0
    <3> SUFFICES ASSUME NEW e \in Nat, e >= today[s], e \notin lost
                 PROVE  Sent(e)' = IF e = today[s] THEN N ELSE 0
      BY Zenon
    <3>1. CASE e = today[s]
      <4>1. Sent(e) = N - 1 /\ Sent(e)' = Sent(e) + 1
        BY Zenon, <2>1, <2>2, <2>4, <3>1 DEF Fresh
      <4> QED
        BY <1>a, <3>1, <4>1
    <3>2. CASE e # today[s]
      BY Zenon, <2>2, <2>4, <3>2 DEF Fresh
    <3> QED
      BY Zenon, <3>1, <3>2
  <2>6. DayInv'
    <3>1. SUFFICES ASSUME MaxPerDay # -1, NEW d \in Nat, d \notin lost
                   PROVE  Sent(d)' <= MaxPerDay
      BY Zenon, <2>1, <2>4 DEF DayInv
    <3>2. CASE d = today[s]
      BY <1>a, <2>2, <2>5, <3>1, <3>2
    <3>3. CASE d # today[s]
      BY Zenon, <2>4, <3>1, <3>3 DEF DayInv
    <3> QED
      BY Zenon, <3>2, <3>3
  <2>7. /\ ReadDate(checkpoint)' = today[s] /\ ReadCount(checkpoint)' = N
        /\ UNCHANGED <<M, N, GetCurrentDate>>
    BY Zenon, <1>a, <2>1, Checkpoints DEF GetCurrentDate
  <2>8. \A e \in Nat : e >= GetCurrentDate /\ e \notin lost => Sent(e)' = IF e = today[s] THEN N ELSE 0
    BY <1>a, <2>2, <2>5
  <2>9. Fresh(D, C, GetCurrentDate)' /\ Fresh(M, N, GetCurrentDate)'
    BY Zenon, <2>1, <2>7, <2>8 DEF Fresh
  <2>10. N <= Sent(today[s])'
    BY <1>a, <1>s, <2>2, <2>4
  <2> QED
    BY Zenon, <2>1, <2>2, <2>6, <2>7, <2>9, <2>10 DEF CheckpointInv
<1>9. CASE End(s)
  <2>1. /\ pc'[s] = "none" /\ lost \subseteq lost' /\ UNCHANGED <<now, checkpoint, today, log>>
        /\ pc[s] = "close" => today[s] \in lost'
    BY Zenon, <1>a, <1>9 DEF End
  <2>2. (DayInv' /\ \A d : Sent(d)' = Sent(d)) /\ UNCHANGED <<D, C, GetCurrentDate>>
    BY Zenon, <1>c, <2>1 DEF GetCurrentDate
  <2>3. Fresh(D, C, GetCurrentDate)' /\ C' <= Sent(D)'
    <3>1. CASE pc[s] # "close"
      BY Zenon, <2>1, <2>2, <3>1 DEF CheckpointInv, Fresh
    <3>2. CASE pc[s] = "close"
      <4>1. D = -1 /\ C = 0 /\ today[s] <= GetCurrentDate /\ Fresh(today[s], N - 1, today[s])
        BY Zenon, <3>2, Checkpoints DEF CheckpointInv
      <4>2. \A e \in Nat : e >= GetCurrentDate /\ e \notin lost' => e # D /\ Sent(e)' = 0
        BY <1>a, <2>1, <2>2, <3>2, <4>1 DEF Fresh
      <4>3. C' <= Sent(D)'
        BY <1>s, <2>2, <4>1
      <4> QED
        BY Zenon, <2>2, <4>2, <4>3 DEF Fresh
    <3> QED
      BY Zenon, <3>1, <3>2
  <2> QED
    BY Zenon, <2>1, <2>2, <2>3 DEF CheckpointInv
<1>10. CASE Tick
  <2>1. /\ now' = now + 1
        /\ UNCHANGED <<checkpoint, pc, last_sent_date_, reports_sent_, today, log, lost>>
    BY Zenon, <1>10 DEF Tick
  <2>2. GetCurrentDate <= GetCurrentDate' /\ GetCurrentDate' \in Nat
    BY <1>a, <2>1 DEF GetCurrentDate
  <2>3. (DayInv' /\ \A d : Sent(d)' = Sent(d)) /\ UNCHANGED <<D, C, M, N, today[s]>>
    BY Zenon, <1>c, <2>1
  <2>4. \A e \in Nat : e >= GetCurrentDate' => e >= GetCurrentDate
    BY <1>a, <2>2
  <2>5. /\ pc[s] # "close" => Fresh(D, C, GetCurrentDate)'
        /\ pc[s] = "idle" => Fresh(M, N, GetCurrentDate)'
    BY Zenon, <2>1, <2>3, <2>4 DEF CheckpointInv, Fresh
  <2>6. /\ pc[s] \in {"request", "read", "open"} => Fresh(M, N, today[s])'
        /\ pc[s] = "close" => Fresh(today[s], reports_sent_[s] - 1, today[s])'
    BY Zenon, <2>1, <2>3 DEF CheckpointInv, Fresh
  <2>7. /\ today[s] <= GetCurrentDate' /\ D <= GetCurrentDate'
        /\ pc[s] \notin {"none", "close"} => M <= GetCurrentDate'
    BY <1>a, <1>b, <2>2 DEF CheckpointInv
  <2> QED
    BY Zenon, <2>1, <2>3, <2>5, <2>6, <2>7 DEF CheckpointInv, Throttled
<1>11. CASE UNCHANGED vars
  <2>1. UNCHANGED <<now, checkpoint, pc, last_sent_date_, reports_sent_, today, log, lost>>
    BY Zenon, <1>11 DEF vars
  <2> QED
    BY Zenon, <1>c, <2>1 DEF CheckpointInv, Fresh, Throttled, GetCurrentDate
<1>12. CASE Step(s)
  BY Zenon, <1>1, <1>2, <1>3, <1>4, <1>5, <1>6, <1>7, <1>8, <1>9, <1>12 DEF Step
<1> QED
  BY Zenon, <1>10, <1>11, <1>12 DEF Next, Over

\* SendCrashReport and ReportSent: one program sends with success no more than
\* max_reports_per_day reports on one day (UTC), but for a day whose count its
\* checkpoint lost, and throttles none before; for every limit from one on, every
\* sequence of calls, restarts and crashes, whatever fails and however long an upload
\* takes.
THEOREM DailyLimit ==
    ASSUME NEW s, Senders = {s}, BodySize \in Nat, MaxTime \in Nat,
           MaxPerDay \in Int, MaxPerDay = -1 \/ MaxPerDay >= 1
    PROVE  Spec => [](AtMostPerDay /\ ThrottledOnlyWhenFull)
<1> DEFINE IInv == SenderTypeOK /\ CheckpointInv(s) /\ DayInv
<1>1. Init => IInv
  <2> SUFFICES ASSUME Init PROVE IInv
    BY Zenon
  <2>1. SenderTypeOK
    BY Zenon, Initially
  <2>2. \A d : Sent(d) = 0
    <3>1. \A d : Of(d, "SUCCEEDED") = {}
      BY DEF Init, Of
    <3> QED
      BY Zenon, <3>1, FS_EmptySet DEF Sent
  <2>3. CheckpointInv(s)
    BY <2>2, Checkpoints DEF Init, CheckpointInv, Fresh, GetCurrentDate
  <2>4. DayInv
    BY <2>2 DEF Init, DayInv, ThrottledOnlyWhenFull
  <2> QED
    BY Zenon, <2>1, <2>3, <2>4
<1>2. IInv /\ [Next]_vars => IInv'
  BY Zenon, TypeKeeps, LimitKeeps
<1>3. IInv => AtMostPerDay /\ ThrottledOnlyWhenFull
  BY DEF DayInv, AtMostPerDay, Sent
<1> QED
  BY <1>1, <1>2, <1>3, PTL DEF Spec

\* Past the check of the length, the code is as long as the header says.
CodeInv ==
    /\ \A s \in Senders :
          pc[s] \in {"open", "close"} /\ claimed_size[s] # -1 => report_code[s] = claimed_size[s]
    /\ CodeIsWhole

\* A call logs no code that is not whole.
LEMMA CodeLogged ==
    ASSUME BodySize \in Nat, SenderTypeOK, CodeIsWhole, NEW s \in Senders, NEW q \in Results, Ends(s, q),
           q = "SUCCEEDED" /\ claimed_size[s] # -1 => report_code[s] = claimed_size[s]
    PROVE  CodeIsWhole'
<1>1. PICK r \in Ended : /\ log' = Append(log, r) /\ r.result = q
                        /\ r.code = report_code[s] /\ r.claimed = (claimed_size[s] # -1)
  BY Zenon, EndsLogs
<1>2. claimed_size[s] \in {-1, BodySize}
  BY Zenon DEF SenderTypeOK, MemoryOK
<1>3. r.result = "SUCCEEDED" /\ r.claimed => r.code = BodySize
  BY Zenon, <1>1, <1>2
<1>4. \A i \in DOMAIN log' : (i \in DOMAIN log /\ log'[i] = log[i]) \/ log'[i] = r
  BY <1>1 DEF SenderTypeOK
<1> QED
  BY Zenon, <1>3, <1>4 DEF CodeIsWhole

\* ReadResponse: whatever the number of programs, their crashes, lost replies and
\* failing checkpoint files, a report code that came with a Content-Length is complete
\* when SendCrashReport returns it, however the response was cut into pieces.
THEOREM CodesAreWhole ==
    ASSUME BodySize \in Nat
    PROVE  Spec => []CodeIsWhole
<1> DEFINE IInv == SenderTypeOK /\ CodeInv
<1>1. Init => IInv
  BY Initially DEF Init, CodeInv, CodeIsWhole
<1>2. IInv /\ [Next]_vars => IInv'
  <2> SUFFICES ASSUME SenderTypeOK, CodeInv, [Next]_vars PROVE CodeInv'
    BY Zenon, TypeKeeps
  <2> USE DEF memVars, replyVars
  <2>a. ASSUME UNCHANGED log PROVE CodeIsWhole'
    BY Zenon, <2>a DEF CodeInv, CodeIsWhole
  <2>b. \A x \in Senders, q \in {"FAILED", "REJECTED"} : Ends(x, q) => CodeIsWhole'
    BY Zenon, CodeLogged DEF CodeInv, Results
  <2>1. ASSUME NEW s \in Senders, Step(s) PROVE CodeInv'
    <3>a. pc \in [Senders -> Places] /\ claimed_size \in [Senders -> {-1, BodySize}]
          /\ report_code \in [Senders -> Int]
      BY Zenon DEF SenderTypeOK, MemoryOK
    <3>1. CASE Construct(s) \/ End(s)
      BY Zenon, <2>a, <3>a, <3>1 DEF Construct, End, CodeInv
    <3>2. CASE SendCrashReport(s)
      <4>1. CodeIsWhole'
        <5>1. CASE Throttled(s, GetCurrentDate)
          <6>1. PICK r \in Ended : log' = Append(log, r) /\ r.result = "THROTTLED"
            BY Zenon, <3>2, <5>1, ThrottleLogs
          <6>2. \A i \in DOMAIN log' : (i \in DOMAIN log /\ log'[i] = log[i]) \/ log'[i] = r
            BY <6>1 DEF SenderTypeOK
          <6> QED
            BY Zenon, <6>1, <6>2 DEF CodeInv, CodeIsWhole
        <5>2. CASE ~Throttled(s, GetCurrentDate)
          BY Zenon, <2>a, <3>2, <5>2 DEF SendCrashReport
        <5> QED
          BY Zenon, <5>1, <5>2
      <4>2. /\ pc' = pc \/ pc' = [pc EXCEPT ![s] = "request"]
            /\ claimed_size' = [claimed_size EXCEPT ![s] = -1]
            /\ report_code' = [report_code EXCEPT ![s] = 0]
        BY Zenon, <3>2 DEF SendCrashReport
      <4> QED
        BY Zenon, <3>a, <4>1, <4>2 DEF CodeInv
    <3>3. CASE NotSent(s) \/ ReadError(s)
      <4>1. Ends(s, "FAILED") /\ UNCHANGED <<claimed_size, report_code>>
        BY Zenon, <3>3 DEF NotSent, ReadError
      <4>2. CodeIsWhole'
        BY Zenon, <2>b, <4>1
      <4> QED
        BY Zenon, <3>a, <4>1, <4>2 DEF CodeInv, Ends
    <3>4. ASSUME NEW status \in {200, 404, 500}, HttpSendRequest(s, status) PROVE CodeInv'
      <4>1. ResultOf(status) \in {"FAILED", "REJECTED"}
        BY Zenon DEF ResultOf
      <4>2. CodeIsWhole' /\ (pc' = [pc EXCEPT ![s] = "idle"] \/ pc' = [pc EXCEPT ![s] = "read"])
        <5>1. CASE Ends(s, "FAILED") \/ Ends(s, ResultOf(status))
          <6>1. CodeIsWhole'
            BY Zenon, <2>b, <4>1, <5>1
          <6> QED
            BY Zenon, <5>1, <6>1 DEF Ends
        <5>2. CASE pc' = [pc EXCEPT ![s] = "read"] /\ UNCHANGED log
          BY Zenon, <2>a, <5>2
        <5> QED
          BY Zenon, <3>4, <5>1, <5>2 DEF HttpSendRequest
      <4>3. UNCHANGED report_code /\ \A x \in Senders : x # s => claimed_size'[x] = claimed_size[x]
        BY <3>a, <3>4 DEF HttpSendRequest
      <4> QED
        BY <3>a, <4>2, <4>3 DEF CodeInv
    <3>5. CASE \E n \in 1 .. BodySize : InternetReadFile(s, n)
      BY Zenon, <2>a, <3>a, <3>5 DEF InternetReadFile, CodeInv
    <3>6. CASE EndOfResponse(s)
      <4>1. CASE LengthAgrees(s)
        <5>1. pc' = [pc EXCEPT ![s] = "open"] /\ UNCHANGED <<log, claimed_size, report_code>>
          BY Zenon, <3>6, <4>1 DEF EndOfResponse
        <5> QED
          BY Zenon, <2>a, <3>a, <4>1, <5>1 DEF CodeInv, LengthAgrees
      <4>2. CASE ~LengthAgrees(s)
        <5>1. Ends(s, "FAILED") /\ UNCHANGED <<claimed_size, report_code>>
          BY Zenon, <3>6, <4>2 DEF EndOfResponse
        <5>2. CodeIsWhole'
          BY Zenon, <2>b, <5>1
        <5> QED
          BY Zenon, <3>a, <5>1, <5>2 DEF CodeInv, Ends
      <4> QED
        BY Zenon, <4>1, <4>2
    <3>7. CASE ReportSent(s) \/ CloseCheckpoint(s)
      <4>1. pc[s] \in {"open", "close"} /\ UNCHANGED <<claimed_size, report_code>>
        BY Zenon, <3>7 DEF ReportSent, CloseCheckpoint
      <4>2. CASE Ends(s, "SUCCEEDED")
        <5>1. claimed_size[s] # -1 => report_code[s] = claimed_size[s]
          BY Zenon, <4>1 DEF CodeInv
        <5>2. CodeIsWhole'
          BY Zenon, <4>2, <5>1, CodeLogged DEF CodeInv, Results
        <5> QED
          BY Zenon, <3>a, <4>1, <4>2, <5>2 DEF CodeInv, Ends
      <4>3. CASE pc' = [pc EXCEPT ![s] = "close"] /\ UNCHANGED log
        BY Zenon, <2>a, <3>a, <4>1, <4>3 DEF CodeInv
      <4> QED
        BY Zenon, <3>7, <4>2, <4>3 DEF ReportSent, CloseCheckpoint
    <3> QED
      BY Zenon, <2>1, <3>1, <3>2, <3>3, <3>4, <3>5, <3>6, <3>7 DEF Step
  <2>2. CASE Tick \/ Over \/ UNCHANGED vars
    BY Zenon, <2>2 DEF Tick, Over, vars, CodeInv, CodeIsWhole
  <2> QED
    BY Zenon, <2>1, <2>2 DEF Next
<1>3. IInv => CodeIsWhole
  BY Zenon DEF CodeInv
<1> QED
  BY <1>1, <1>2, <1>3, PTL DEF Spec
=============================================================================
