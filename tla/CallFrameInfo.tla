---------------------------- MODULE CallFrameInfo ----------------------------
(***************************************************************************)
(* common/dwarf/dwarf2reader.cc, class CallFrameInfo: goes through the     *)
(* entries of a .debug_frame or .eh_frame section, offers each frame       *)
(* description entry (FDE) to a handler, and has its instructions          *)
(* interpreted after those of its common information entry (CIE).  The     *)
(* interpreter is the subject of CFIInterpreter; here its outcome counts.  *)
(*                                                                         *)
(* A section is a sequence of entries.  What is wrong with an entry, if    *)
(* anything, is part of the entry.                                         *)
(***************************************************************************)
EXTENDS Integers, Sequences, FiniteSets

CONSTANTS
    Sections,    \* sequences of entries
    Refusals     \* the handler functions that may return false

(***************************************************************************)
(* An entry is one of                                                      *)
(*   [kind |-> "cut"]         its length or its extent is beyond the end   *)
(*   [kind |-> "short"]       it ends before its id does                   *)
(*   [kind |-> "terminator"]                                               *)
(*   [kind |-> "cie", version, augmentation, items, bad]                   *)
(*   [kind |-> "fde", cie, bad]                                            *)
(* where an augmentation is "none", "z" or "other", items are the letters  *)
(* after a z with their encodings, bad is where the entry ends early       *)
(* ("no", a field, or "instructions"), and cie is an index of the section, *)
(* 0 if it lies beyond it.                                                 *)
(***************************************************************************)

VARIABLES
    section, cursor,
    have_function_base_,  \* of the ByteReader
    all_ok,
    calls,    \* calls to the handler for the last entry, in order
    outcome,  \* what became of each entry
    done      \* Start has returned

vars == <<section, cursor, have_function_base_, all_ok, calls, outcome, done>>

Init ==
    /\ section \in Sections /\ cursor = 1 /\ have_function_base_ = FALSE
    /\ all_ok = TRUE /\ calls = <<>> /\ outcome = <<>> /\ done = FALSE

-----------------------------------------------------------------------------
\* Bases other than that of the function have been given.
UsableEncoding(e, base) == e \in {"absptr", "pcrel"} \/ (e = "funcrel" /\ base)

\* What ReadCIEFields finds wrong, in its order; "no" if nothing.
BadItem(item, base) ==
    CASE item.letter \notin {"L", "P", "R", "S"} -> "UnrecognizedAugmentation"
      [] item.letter \in {"L", "P", "R"} /\ item.encoding = "invalid" -> "InvalidPointerEncoding"
      [] item.letter \in {"P", "R"} /\ item.encoding # "invalid" /\ ~UsableEncoding(item.encoding, base) -> "UnusablePointerEncoding"
      [] OTHER -> "no"

FirstBad(items, base) ==
    IF \A i \in 1..Len(items) : BadItem(items[i], base) = "no" THEN "no"
    ELSE BadItem(items[CHOOSE i \in 1..Len(items) : /\ BadItem(items[i], base) # "no"
                                                    /\ \A j \in 1..(i - 1) : BadItem(items[j], base) = "no"], base)

ReadCIEFields(cie, base) ==
    IF cie.bad = "version" THEN "Incomplete"
    ELSE IF cie.version \notin 1..3 THEN "UnrecognizedVersion"
    ELSE IF cie.bad = "augmentation" THEN "Incomplete"
    ELSE IF cie.augmentation = "other" THEN "UnrecognizedAugmentation"
    ELSE IF cie.bad = "factors" THEN "Incomplete"
    ELSE IF cie.augmentation = "z" THEN FirstBad(cie.items, base)
    ELSE "no"

Has(cie, letter) == cie.augmentation = "z" /\ \E i \in 1..Len(cie.items) : cie.items[i].letter = letter

\* The last item with the letter L gives the encoding of the LSDA.
LSDAEncoding(cie) ==
    cie.items[CHOOSE i \in 1..Len(cie.items) : /\ cie.items[i].letter = "L"
                                               /\ \A j \in (i + 1)..Len(cie.items) : cie.items[j].letter # "L"].encoding

\* ReadFDEFields: after the address the function base is set.
ReadFDEFields(fde, cie) ==
    IF fde.bad = "address" THEN [sets |-> FALSE, bad |-> "Incomplete"]
    ELSE [sets |-> TRUE,
          bad |-> IF fde.bad = "length" THEN "Incomplete"
                  ELSE IF Has(cie, "L") /\ ~UsableEncoding(LSDAEncoding(cie), TRUE) THEN "UnusablePointerEncoding"
                  ELSE IF fde.bad = "data" /\ cie.augmentation = "z" THEN "Incomplete"
                  ELSE "no"]

\* The calls that an entry makes, up to one that the handler refuses.
Offer(cie, refused) ==
    LET all == <<"Entry">>
               \o (IF Has(cie, "P") THEN <<"PersonalityRoutine">> ELSE <<>>)
               \o (IF Has(cie, "L") THEN <<"LanguageSpecificDataArea">> ELSE <<>>)
               \o (IF Has(cie, "S") THEN <<"SignalHandler">> ELSE <<>>)
    IN  IF \E i \in 1..Len(all) : all[i] = refused
        THEN SubSeq(all, 1, CHOOSE i \in 1..Len(all) : all[i] = refused)
        ELSE all \o <<IF refused = "End" THEN "EndRefused" ELSE "End">>

Accepted(made) == made[Len(made)] \in {"End", "EndRefused"}

Good(e) == e.bad # "instructions"

-----------------------------------------------------------------------------

AllOk(before, ok) == before /\ ok

\* The loop goes on behind the entry.
Skip(ok, what, base, made) ==
    /\ cursor' = cursor + 1
    /\ all_ok' = AllOk(all_ok, ok)
    /\ outcome' = Append(outcome, what)
    /\ have_function_base_' = base
    /\ calls' = made
    /\ UNCHANGED <<section, done>>

Stop(ok, what) ==
    /\ done' = TRUE
    /\ all_ok' = (all_ok /\ ok)
    /\ outcome' = Append(outcome, what)
    /\ calls' = <<>>
    /\ UNCHANGED <<section, cursor, have_function_base_>>

More == ~done /\ cursor <= Len(section)
entry == section[cursor]

\* An entry that is no FDE, or whose prologue cannot be read.
CutEntry == More /\ entry.kind = "cut" /\ Stop(FALSE, "Incomplete")
ShortEntry == More /\ entry.kind = "short" /\ Skip(FALSE, "Incomplete", have_function_base_, <<>>)
Terminator == More /\ entry.kind = "terminator" /\ Stop(TRUE, "terminator")
CIEEntry == More /\ entry.kind = "cie" /\ Skip(TRUE, "cie", have_function_base_, <<>>)

\* Its CIE is outside the section, or is none, or cannot be read.
BadCIE ==
    /\ More /\ entry.kind = "fde"
    /\ \/ entry.cie = 0 /\ Skip(FALSE, "CIEPointerOutOfRange", have_function_base_, <<>>)
       \/ /\ entry.cie # 0 /\ section[entry.cie].kind # "cie"
          /\ Skip(FALSE, IF section[entry.cie].kind \in {"cut", "short"} THEN "Incomplete" ELSE "BadCIEId",
                  have_function_base_, <<>>)
       \/ /\ entry.cie # 0 /\ section[entry.cie].kind = "cie"
          /\ LET bad == ReadCIEFields(section[entry.cie], have_function_base_)
             IN  bad # "no" /\ Skip(FALSE, bad, have_function_base_, <<>>)

GoodCIE ==
    /\ More /\ entry.kind = "fde" /\ entry.cie # 0 /\ section[entry.cie].kind = "cie"
    /\ ReadCIEFields(section[entry.cie], have_function_base_) = "no"

BadFDE ==
    /\ GoodCIE
    /\ LET read == ReadFDEFields(entry, section[entry.cie])
       IN  read.bad # "no" /\ Skip(FALSE, read.bad, have_function_base_ \/ read.sets, <<>>)

\* A handler that refuses Entry is not interested, which is no error.
\* Only after the instructions is the function base cleared and End called.
FDEEntry(refused) ==
    /\ GoodCIE
    /\ ReadFDEFields(entry, section[entry.cie]).bad = "no"
    /\ LET cie == section[entry.cie]
           made == Offer(cie, refused)
           good == Good(cie) /\ Good(entry)
       IN  IF Accepted(made) THEN Skip(good, IF good THEN "done" ELSE "instructions", FALSE, made)
           ELSE Skip(Len(made) = 1, IF Len(made) = 1 THEN "declined" ELSE "refused", TRUE, made)

Return ==
    /\ ~done /\ cursor > Len(section)
    /\ done' = TRUE
    /\ UNCHANGED <<section, cursor, have_function_base_, all_ok, calls, outcome>>

Over == done /\ UNCHANGED vars

Next ==
    \/ CutEntry \/ ShortEntry \/ Terminator \/ CIEEntry \/ BadCIE \/ BadFDE
    \/ \E refused \in Refusals \cup {"none"} : FDEEntry(refused)
    \/ Return \/ Over

Spec == Init /\ [][Next]_vars

-----------------------------------------------------------------------------
\* What the entry at i is worth with a reader that is in no FDE.
Worth(i) ==
    LET e == section[i]
        cie == section[e.cie]
    IN  IF e.cie = 0 \/ section[e.cie].kind # "cie" THEN "bad"
        ELSE IF ReadCIEFields(cie, FALSE) # "no" \/ ReadFDEFields(e, cie).bad # "no" THEN "bad"
        ELSE IF Good(cie) /\ Good(e) THEN "good" ELSE "instructions"

Offered == {"done", "instructions", "declined", "refused"}

\* The entry at i is of a CIE that encodes a pointer of its own, or the address
\* of its FDEs, relative to the function.
UsesFunctionBase(i) ==
    LET cie == section[section[i].cie]
    IN  \E k \in 1..Len(cie.items) : cie.items[k].letter \in {"P", "R"} /\ cie.items[k].encoding = "funcrel"

\* An FDE before the entry at i was not read to its end.
AbandonedBefore(i) == \E j \in 1..(i - 1) : section[j].kind = "fde" /\ outcome[j] \notin {"done", "instructions"}

(***************************************************************************)
(* An FDE that can be read is offered to the handler whatever the entries  *)
(* before it are, unless a terminator or one of unknown extent is among    *)
(* them, and one that cannot be read is not: what became of an FDE depends *)
(* on it, on its CIE and on the handler only (dwarf2reader.cc:2096-2208).  *)
(* The one exception is left by the entries that the loop abandons with    *)
(* continue before ClearFunctionBase (2204): after one, an FDE is offered  *)
(* although its CIE uses the base of a function that is no longer read.    *)
(***************************************************************************)
EntriesAreIndependent ==
    /\ done /\ (\A i \in 1..Len(section) : section[i].kind \notin {"cut", "terminator"}) =>
           Len(outcome) = Len(section)
    /\ \A i \in 1..Len(outcome) : section[i].kind = "fde" =>
           CASE Worth(i) = "good" -> outcome[i] \in Offered \ {"instructions"}
             [] Worth(i) = "instructions" -> outcome[i] \in Offered \ {"done"}
             [] OTHER -> outcome[i] \in Offered => UsesFunctionBase(i) /\ AbandonedBefore(i)

(***************************************************************************)
(* Start returns true exactly if each entry up to the end, or to the       *)
(* terminator, was read to its end or declined when it was offered         *)
(* (dwarf2reader.cc:2097-2210).  What End returns does not count.          *)
(***************************************************************************)
ResultIsForAll ==
    done => (all_ok <=> \A i \in 1..Len(outcome) : outcome[i] \in {"cie", "terminator", "done", "declined"})

=============================================================================
