--------------------------- MODULE MinidumpModule ---------------------------
(***************************************************************************)
(* processor/minidump.cc, class MinidumpModule: a module of a dump, whose  *)
(* name, CodeView record and miscellaneous record are elsewhere in the     *)
(* file and are read in several steps, any of which may fail.              *)
(*                                                                         *)
(* raw is the module in the file: [here, range, name, cv, misc]; a record  *)
(* is [size, here, sig, last, file] or [size, here, length, unicode,       *)
(* text]: here is the number of bytes the file has of it (-1: nothing can  *)
(* even be sought there), last the last byte, text "name" or, in UTF-16,   *)
(* "bad" or "odd".                                                         *)
(***************************************************************************)
EXTENDS Integers

CONSTANTS
    Raw,              \* modules
    max_cv_bytes_, max_misc_bytes_,
    MDCVInfoPDB70_minsize, MDCVInfoPDB20_minsize, MDImageDebugMisc_minsize,
    SignatureSize

VARIABLES
    raw, swap, platform,
    stream,            \* "good", or "fail" once a read went past the end
    phase,             \* "new", "read", "aux": what the list has called so far
    name_, cv_record_, cv_record_signature_, misc_record_,
    module_valid_, has_debug_info_, valid_,
    aux                \* what ReadAuxiliaryData returned

vars == <<raw, swap, platform, stream, phase, name_, cv_record_, cv_record_signature_, misc_record_,
          module_valid_, has_debug_info_, valid_, aux>>

NoRecord == [order |-> "none"]

Init ==
    /\ raw \in Raw /\ swap \in BOOLEAN /\ platform \in {"windows", "linux", "unknown", "nosysteminfo"}
    /\ stream = "good" /\ phase = "new"
    /\ name_ = "" /\ cv_record_ = NoRecord /\ cv_record_signature_ = "unknown" /\ misc_record_ = NoRecord
    /\ module_valid_ = FALSE /\ has_debug_info_ = FALSE /\ valid_ = FALSE /\ aux = "none"

\* MinidumpModuleList::Read reads all its modules first.
Read ==
    /\ phase = "new" /\ phase' = "read"
    /\ module_valid_' = (raw.here /\ raw.range)
    /\ stream' = IF raw.here THEN stream ELSE "fail"
    /\ UNCHANGED <<raw, swap, platform, name_, cv_record_, cv_record_signature_, misc_record_, has_debug_info_, valid_, aux>>

-----------------------------------------------------------------------------
\* What becomes of s when `size` bytes are read where the file has `here`.
Short(r) == r.here < r.size
StreamAfter(s, r, max) == IF s = "fail" \/ (r.here >= 0 /\ r.size <= max /\ Short(r)) THEN "fail" ELSE s

\* The bytes of a record have come.
Came(s, r, max) == s = "good" /\ r.here >= 0 /\ r.size <= max /\ ~Short(r)

Signature(r) == IF r.size > SignatureSize THEN r.sig ELSE "unknown"

CVGood(r) ==
    CASE Signature(r) = "pdb70" -> MDCVInfoPDB70_minsize <= r.size /\ r.last = 0
      [] Signature(r) = "pdb20" -> MDCVInfoPDB20_minsize <= r.size /\ r.last = 0
      [] OTHER -> TRUE

\* What is done about the order of bytes: nothing in a record that is unknown.
Swapped(r) == swap /\ Signature(r) \in {"pdb70", "pdb20"}
Order(swapped) == IF swapped = swap THEN "host" ELSE "file"

\* The record after GetCVRecord, given what was kept before and the stream.
CVAfter(kept, s) ==
    LET r == raw.cv
    IN  IF kept # NoRecord \/ ~module_valid_ \/ r.size = 0 \/ ~Came(s, r, max_cv_bytes_) \/ ~CVGood(r) THEN kept
        ELSE [order |-> Order(Swapped(r)), size |-> r.size, last |-> r.last, file |-> r.file]

CVReads(kept) == kept = NoRecord /\ module_valid_ /\ raw.cv.size # 0
CVStream(kept, s) == IF CVReads(kept) THEN StreamAfter(s, raw.cv, max_cv_bytes_) ELSE s

\* The same for GetMiscRecord; the length is in the record a second time.
MiscReads(kept) == kept = NoRecord /\ module_valid_ /\ raw.misc.size # 0 /\ MDImageDebugMisc_minsize <= raw.misc.size
MiscStream(kept, s) == IF MiscReads(kept) THEN StreamAfter(s, raw.misc, max_misc_bytes_) ELSE s

LengthsAgree(r) == r.size = r.length

MiscAfter(kept, s) ==
    LET r == raw.misc
    IN  IF ~MiscReads(kept) \/ ~Came(s, r, max_misc_bytes_) \/ ~LengthsAgree(r) THEN kept
        ELSE [order |-> "host", size |-> r.size, length |-> r.length, unicode |-> r.unicode, text |-> r.text]

SignatureAfter(kept, new) == IF kept = NoRecord /\ new # NoRecord THEN Signature(raw.cv) ELSE cv_record_signature_

\* The name first, then the records there are said to be, the second only if
\* the first one was good.
ReadAuxiliaryData ==
    /\ phase = "read" /\ phase' = "aux"
    /\ LET named == module_valid_ /\ stream = "good" /\ raw.name = "ok"
           s1 == IF module_valid_ /\ raw.name = "eof" THEN "fail" ELSE stream
           cv == CVAfter(cv_record_, s1)
           s2 == CVStream(cv_record_, s1)
           cvOK == raw.cv.size = 0 \/ cv # NoRecord
           misc == IF cvOK THEN MiscAfter(misc_record_, s2) ELSE misc_record_
           miscOK == raw.misc.size = 0 \/ misc # NoRecord
       IN  /\ valid_' = named
           /\ name_' = IF named THEN "file" ELSE ""
           /\ IF named
              THEN /\ cv_record_' = cv /\ cv_record_signature_' = SignatureAfter(cv_record_, cv)
                   /\ misc_record_' = misc
                   /\ stream' = IF cvOK THEN MiscStream(misc_record_, s2) ELSE s2
                   /\ has_debug_info_' = (cvOK /\ miscOK)
                   /\ aux' = IF cvOK /\ miscOK THEN "true" ELSE "false"
              ELSE /\ stream' = s1 /\ aux' = "false"
                   /\ UNCHANGED <<cv_record_, cv_record_signature_, misc_record_, has_debug_info_>>
    /\ UNCHANGED <<raw, swap, platform, module_valid_>>

\* Anyone may ask for the records later, whatever became of them before.
GetCVRecord ==
    /\ phase = "aux"
    /\ cv_record_' = CVAfter(cv_record_, stream)
    /\ cv_record_signature_' = SignatureAfter(cv_record_, cv_record_')
    /\ stream' = CVStream(cv_record_, stream)
    /\ UNCHANGED <<raw, swap, platform, phase, name_, misc_record_, module_valid_, has_debug_info_, valid_, aux>>

GetMiscRecord ==
    /\ phase = "aux"
    /\ misc_record_' = MiscAfter(misc_record_, stream)
    /\ stream' = MiscStream(misc_record_, stream)
    /\ UNCHANGED <<raw, swap, platform, phase, name_, cv_record_, cv_record_signature_, module_valid_, has_debug_info_, valid_, aux>>

Next == Read \/ ReadAuxiliaryData \/ GetCVRecord \/ GetMiscRecord

Spec == Init /\ [][Next]_vars

-----------------------------------------------------------------------------

KnownCV == cv_record_ # NoRecord /\ cv_record_signature_ \in {"pdb70", "pdb20"}

(***************************************************************************)
(* A CodeView record of a known form that is kept is as long as its form   *)
(* and no longer than allowed, its name ends inside it, and its numbers    *)
(* are in the order of this machine ("GetCVRecord guarantees pdb_file_name *)
(* is null-terminated", minidump.cc:1907).                                 *)
(***************************************************************************)
KnownRecordsAreSound ==
    KnownCV =>
        /\ cv_record_.size >= IF cv_record_signature_ = "pdb70" THEN MDCVInfoPDB70_minsize ELSE MDCVInfoPDB20_minsize
        /\ cv_record_.size <= max_cv_bytes_ /\ cv_record_.size > SignatureSize
        /\ cv_record_.last = 0
        /\ cv_record_.order = "host"

(***************************************************************************)
(* The size that debug_file takes for the length of the name in a          *)
(* miscellaneous record, less the fixed part, is what the record says, so  *)
(* that the name lies inside the record (minidump.cc:1931, :2261).         *)
(***************************************************************************)
MiscNameInside ==
    misc_record_ # NoRecord => /\ misc_record_.size - MDImageDebugMisc_minsize >= 0
                               /\ misc_record_.size = misc_record_.length
                               /\ misc_record_.size <= max_misc_bytes_

=============================================================================
