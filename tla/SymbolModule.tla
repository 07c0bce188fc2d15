---------------------------- MODULE SymbolModule ----------------------------
(***************************************************************************)
(* BasicSourceLineResolver::Module (processor/basic_source_line_resolver   *)
(* .cc): a symbol file is read line by line into six maps, which           *)
(* LookupAddress, FindWindowsFrameInfo and FindCFIFrameInfo then search.   *)
(* A record is known by the number of its line: that number stands for its *)
(* name, its parameter size or its rules.                                  *)
(***************************************************************************)
EXTENDS Integers, Sequences, FiniteSets

CONSTANTS
    Max,       \* the highest address, and the greatest number strtoull gives
    FileIds,   \* source file ids
    Kinds,     \* the kinds of lines in the file
    MaxLines,  \* lines in the file
    kMaxErrorsBeforeBailing

VARIABLES
    files_, functions_, public_symbols_, windows_frame_info_, cfi_initial_rules_, cfi_delta_rules_,
    is_corrupt_,
    func,         \* the Function objects: line number -> [address, size, lines]
    cur_func,     \* the function that source lines belong to, or None
    line_number, num_errors,
    loading,      \* LoadMapFromMemory has not returned
    lines         \* the lines read so far

maps == <<files_, functions_, public_symbols_, windows_frame_info_, cfi_initial_rules_, cfi_delta_rules_>>
vars == <<maps, is_corrupt_, func, cur_func, line_number, num_errors, loading, lines>>

None == 0
Good == 0
Bad == 1
Address == 0..Max

\* The two types of frame information that FindWindowsFrameInfo asks for.
STACK_INFO_FPO == 0
STACK_INFO_FRAME_DATA == 4
StackInfoTypes == {STACK_INFO_FPO, STACK_INFO_FRAME_DATA}

R == INSTANCE RangeMap WITH Entries <- 0..MaxLines, map_ <- functions_, last <- None
C == INSTANCE ContainedRangeMap WITH Entries <- 1..MaxLines, NoEntry <- None, MaxStored <- MaxLines,
                                     root <- windows_frame_info_, last <- None

SX == INSTANCE SequencesExt

\* RangeMap::StoreRange, ContainedRangeMap::StoreRange and AddressMap::Store as functions.
Stored(m, base, size, entry) ==
    IF R!Storable(m, base, size) THEN R!Insert(m, R!High(base, size), [base |-> base, entry |-> entry]) ELSE m

StoredInside(m, base, size, entry) ==
    IF C!UndersizeOrOverflow(base, size) THEN m ELSE C!StoreIn(m, base, C!High(base, size), entry).map

\* std::map::insert keeps an entry that is there; operator[] replaces it.
Inserted(m, key, value) == [k \in DOMAIN m \cup {key} |-> IF k \in DOMAIN m THEN m[k] ELSE value]
Assigned(m, key, value) == [k \in DOMAIN m \cup {key} |-> IF k = key THEN value ELSE m[k]]

-----------------------------------------------------------------------------
(* Reading a line.  text says what the parser meets: the kind, whether the  *)
(* tokens are all there and are numbers, and the numbers.                   *)

Line(kind, ok, address, size, id) ==
    IF ok THEN [kind |-> kind, ok |-> TRUE, address |-> address, size |-> size, id |-> id]
          ELSE [kind |-> kind, ok |-> FALSE, address |-> 0, size |-> 0, id |-> 0]

\* The numbers that ParseFunction, ParseLine and ParsePublicSymbol refuse.
Number(n) == n # Max

\* SymbolParseHelper: a line has its fields and its numbers are in range.
ParsedFunction(wellFormed, address, size) == wellFormed /\ Number(address) /\ Number(size)
ParsedLine(wellFormed, address, size) == wellFormed /\ Number(address) /\ Number(size)
ParsedPublicSymbol(wellFormed, address) == wellFormed /\ Number(address)

\* The loop goes on: not too many errors yet.
GoesOn(errors) == errors <= kMaxErrorsBeforeBailing

\* The end of every turn of the loop of LoadMapFromMemory.
Taken(text, ok) ==
    /\ loading /\ line_number < MaxLines
    /\ text.kind \in Kinds
    /\ line_number' = line_number + 1
    /\ lines' = Append(lines, text)
    /\ num_errors' = num_errors + (IF ok THEN 0 ELSE 1)
    /\ loading' = GoesOn(num_errors')
    /\ is_corrupt_' = IF loading' THEN is_corrupt_ ELSE num_errors' > 0

this == line_number + 1

ParseFile(ok, id) ==
    /\ Taken(Line("FILE", ok, 0, 0, id), ok)
    /\ files_' = IF ok THEN Inserted(files_, id, this) ELSE files_
    /\ UNCHANGED <<functions_, public_symbols_, windows_frame_info_, cfi_initial_rules_, cfi_delta_rules_,
                   func, cur_func>>

\* FUNC: the function becomes current even when its range is not stored.
ParseFunction(wellFormed, address, size) ==
    LET ok == ParsedFunction(wellFormed, address, size)
    IN  /\ Taken(Line("FUNC", ok, address, size, 0), ok)
        /\ cur_func' = IF ok THEN this ELSE None
        /\ func' = IF ok THEN Assigned(func, this, [address |-> address, size |-> size, lines |-> << >>]) ELSE func
        /\ functions_' = IF ok THEN Stored(functions_, address, size, this) ELSE functions_
        /\ UNCHANGED <<files_, public_symbols_, windows_frame_info_, cfi_initial_rules_, cfi_delta_rules_>>

\* Mutant: the function before the symbol stays current.
StillCurrent(f) == f

AfterPublic(f) == None

\* PUBLIC: the address 0 is accepted and not stored; an address that is there is an error.
ParsePublicSymbol(wellFormed, address) ==
    LET parsed == ParsedPublicSymbol(wellFormed, address)
        ok == parsed /\ (address = 0 \/ address \notin DOMAIN public_symbols_)
    IN  /\ Taken(Line("PUBLIC", ok, address, 0, 0), ok)
        /\ cur_func' = AfterPublic(cur_func)
        /\ public_symbols_' = IF ok /\ address # 0 THEN Assigned(public_symbols_, address, this)
                                                   ELSE public_symbols_
        /\ UNCHANGED <<files_, functions_, windows_frame_info_, cfi_initial_rules_, cfi_delta_rules_, func>>

\* A source line: an error without a function, else a range of the current one.
ParseLine(wellFormed, address, size, id) ==
    LET ok == cur_func # None /\ ParsedLine(wellFormed, address, size)
    IN  /\ Taken(Line("LINE", ok, address, size, id), ok)
        /\ func' = IF ok THEN [func EXCEPT ![cur_func].lines = Stored(@, address, size, this)] ELSE func
        /\ UNCHANGED <<maps, cur_func>>

\* STACK WIN: a range that does not fit is dropped without an error.
ParseWin(wellFormed, type, address, size) ==
    /\ Taken(Line("WIN", wellFormed, address, size, type), wellFormed)
    /\ windows_frame_info_' =
         IF wellFormed THEN [windows_frame_info_ EXCEPT ![type] = StoredInside(@, address, size, this)]
                       ELSE windows_frame_info_
    /\ UNCHANGED <<files_, functions_, public_symbols_, cfi_initial_rules_, cfi_delta_rules_, func, cur_func>>

\* STACK CFI INIT: rules says whether ParseCFIRuleSet will accept the rules.
ParseCFIInit(wellFormed, address, size, rules) ==
    /\ Taken(Line("INIT", wellFormed, address, size, rules), wellFormed)
    /\ cfi_initial_rules_' = IF wellFormed THEN Stored(cfi_initial_rules_, address, size, this)
                                           ELSE cfi_initial_rules_
    /\ UNCHANGED <<files_, functions_, public_symbols_, windows_frame_info_, cfi_delta_rules_, func, cur_func>>

SetDelta(m, address, rules) == Assigned(m, address, rules)

ParseCFIDelta(wellFormed, address) ==
    /\ Taken(Line("CFI", wellFormed, address, 0, 0), wellFormed)
    /\ cfi_delta_rules_' = IF wellFormed THEN SetDelta(cfi_delta_rules_, address, this) ELSE cfi_delta_rules_
    /\ UNCHANGED <<files_, functions_, public_symbols_, windows_frame_info_, cfi_initial_rules_, func, cur_func>>

\* A STACK line of another platform.
OtherStack ==
    /\ Taken(Line("STACK", FALSE, 0, 0, 0), FALSE)
    /\ UNCHANGED <<maps, func, cur_func>>

\* MODULE and INFO lines.
IgnoredLine ==
    /\ Taken(Line("INFO", TRUE, 0, 0, 0), TRUE)
    /\ UNCHANGED <<maps, func, cur_func>>

\* strtok_r finds no more lines.
EndOfData ==
    /\ loading
    /\ loading' = FALSE
    /\ is_corrupt_' = (num_errors > 0)
    /\ UNCHANGED <<maps, func, cur_func, line_number, num_errors, lines>>

\* The module is loaded.
Loaded == ~loading /\ UNCHANGED vars

-----------------------------------------------------------------------------
(* The queries. *)

\* The function at or below an address: its key in functions_, or end().
NearestFunction(address) == R!RetrieveNearestRange(functions_, address)

Within(address, key) ==
    address >= functions_[key].base /\ address - functions_[key].base < key - functions_[key].base + 1

CoveringFunction(address) == NearestFunction(address) # R!End /\ Within(address, NearestFunction(address))

\* AddressMap::Retrieve: the symbol at or below an address, or None.
PublicAt(address) ==
    IF \E p \in DOMAIN public_symbols_ : p <= address
    THEN CHOOSE p \in DOMAIN public_symbols_ :
            p <= address /\ \A q \in DOMAIN public_symbols_ : q <= address => q <= p
    ELSE None

\* The symbol is not cut off by the function below the address.
PublicReaches(address) ==
    /\ PublicAt(address) # None
    /\ NearestFunction(address) # R!End => PublicAt(address) > functions_[NearestFunction(address)].base

NoFrame == [function |-> None, base |-> None, line |-> None, file |-> None]

LookupAddress(address) ==
    IF CoveringFunction(address)
    THEN LET range == functions_[NearestFunction(address)]
             line == R!RetrieveRange(func[range.entry].lines, address)
             frame == [NoFrame EXCEPT !.function = range.entry, !.base = range.base]
         IN  IF line = R!End THEN frame
             ELSE LET entry == func[range.entry].lines[line].entry
                      id == lines[entry].id
                  IN  [frame EXCEPT !.line = entry, !.file = IF id \in DOMAIN files_ THEN files_[id] ELSE None]
    ELSE IF PublicReaches(address)
    THEN [NoFrame EXCEPT !.function = public_symbols_[PublicAt(address)], !.base = PublicAt(address)]
    ELSE NoFrame

Preferred == <<STACK_INFO_FRAME_DATA, STACK_INFO_FPO>>

NoInfo == [info |-> None, valid |-> "none"]

\* The frame information: a STACK WIN record, or a function's parameter size.
\* The size of a PUBLIC symbol is looked up and dropped: NULL is returned.
FindWindowsFrameInfo(address) ==
    LET found(i) == C!RetrieveRange(windows_frame_info_[Preferred[i]], address)
    IN  IF found(1) # None THEN [info |-> found(1), valid |-> "all"]
        ELSE IF found(2) # None THEN [info |-> found(2), valid |-> "all"]
        ELSE IF CoveringFunction(address)
        THEN [info |-> functions_[NearestFunction(address)].entry, valid |-> "parameter_size"]
        ELSE NoInfo

\* The delta rules from one address to another, in order.
Deltas(from, to) ==
    LET addresses == SX!SetToSortSeq({d \in DOMAIN cfi_delta_rules_ : from <= d /\ d <= to}, <)
    IN  [i \in 1..Len(addresses) |-> cfi_delta_rules_[addresses[i]]]

\* The rules that apply at an address: the initial ones, then the deltas.
FindCFIFrameInfo(address) ==
    LET initial == R!RetrieveRange(cfi_initial_rules_, address)
    IN  IF initial = R!End THEN << >>
        ELSE IF lines[cfi_initial_rules_[initial].entry].id = Bad THEN << >>
        ELSE <<cfi_initial_rules_[initial].entry>> \o Deltas(cfi_initial_rules_[initial].base, address)

-----------------------------------------------------------------------------
Init ==
    /\ files_ = << >> /\ functions_ = << >> /\ public_symbols_ = << >>
    /\ windows_frame_info_ = [t \in StackInfoTypes |-> << >>]
    /\ cfi_initial_rules_ = << >> /\ cfi_delta_rules_ = << >>
    /\ is_corrupt_ = FALSE
    /\ func = << >> /\ cur_func = None
    /\ line_number = 0 /\ lines = << >>
    /\ num_errors \in {0, 1}                \* 1: a null in the middle of the data
    /\ loading \in BOOLEAN                  \* FALSE: the buffer is empty
    /\ ~loading => num_errors = 0

Next ==
    \/ \E ok \in BOOLEAN, id \in FileIds : ParseFile(ok, id)
    \/ \E ok \in BOOLEAN, address, size \in Address : ParseFunction(ok, address, size)
    \/ \E ok \in BOOLEAN, address \in Address : ParsePublicSymbol(ok, address)
    \/ \E ok \in BOOLEAN, address, size \in Address, id \in FileIds : ParseLine(ok, address, size, id)
    \/ \E ok \in BOOLEAN, type \in StackInfoTypes, address, size \in Address : ParseWin(ok, type, address, size)
    \/ \E ok \in BOOLEAN, address, size \in Address, rules \in {Good, Bad} :
        ParseCFIInit(ok, address, size, rules)
    \/ \E ok \in BOOLEAN, address \in Address : ParseCFIDelta(ok, address)
    \/ OtherStack
    \/ IgnoredLine
    \/ EndOfData
    \/ Loaded

Spec == Init /\ [][Next]_vars
-----------------------------------------------------------------------------
(* Properties. *)

Ok(n, kind) == lines[n].kind = kind /\ lines[n].ok

Numbers == 1..Len(lines)

\* The line's range holds the address.
Covers(n, address) == lines[n].address <= address /\ address - lines[n].address < lines[n].size

Fits(n) == lines[n].size > 0 /\ lines[n].address + lines[n].size - 1 <= Max

Overlap(m, n) == \E a \in Address : Covers(m, a) /\ Covers(n, a)

\* A name, a source line and a file come from lines of the file that say so: the
\* FUNC line covers the address, the source line covers it too and stands below
\* that FUNC line with no FUNC and no PUBLIC between them, and a PUBLIC symbol is
\* the nearest one, with no stored function that begins between it and the address.
LookupTruthful ==
    \A a \in Address :
        LET r == LookupAddress(a)
        IN  /\ r.function # None /\ Ok(r.function, "FUNC") => Covers(r.function, a)
            /\ r.function # None /\ ~Ok(r.function, "FUNC") =>
                 /\ Ok(r.function, "PUBLIC") /\ r.base = lines[r.function].address /\ r.base <= a
                 /\ \A n \in Numbers : Ok(n, "PUBLIC") => lines[n].address \notin (r.base + 1)..a
                 /\ \A h \in DOMAIN functions_ : functions_[h].base \notin r.base..a
            /\ r.line # None =>
                 /\ Ok(r.line, "LINE") /\ Covers(r.line, a)
                 /\ r.function < r.line
                 /\ \A n \in (r.function + 1)..(r.line - 1) : lines[n].kind \notin {"FUNC", "PUBLIC"}
            /\ r.file # None => Ok(r.file, "FILE") /\ lines[r.file].id = lines[r.line].id

\* A function whose range no earlier FUNC line meets is found at every one of its
\* addresses, whatever else the file holds and in whatever order.
FirstFunctionWins ==
    \A n \in Numbers :
        (/\ Ok(n, "FUNC") /\ Fits(n)
         /\ \A m \in 1..(n - 1) : Ok(m, "FUNC") /\ Fits(m) => ~Overlap(m, n))
        => \A a \in Address : Covers(n, a) => LookupAddress(a).function = n

\* The file is given up after too many errors, and a module is corrupt exactly
\* when one of its lines, or a null between them, was refused.
ErrorsCounted ==
    LET refused == Cardinality({n \in Numbers : ~lines[n].ok})
    IN  /\ num_errors \in {refused, refused + 1}
        /\ num_errors <= kMaxErrorsBeforeBailing + 1
        /\ ~loading => is_corrupt_ = (num_errors > 0)

\* FindWindowsFrameInfo returns a record that covers the address, never an FPO
\* record where a FRAME_DATA record covers it, and a bare parameter size only
\* from the function there.
FrameDataPreferred ==
    \A a \in Address :
        LET r == FindWindowsFrameInfo(a)
        IN  /\ r.valid = "all" => Ok(r.info, "WIN") /\ Covers(r.info, a)
            /\ (\E n \in Numbers : C!RetrieveRange(windows_frame_info_[STACK_INFO_FRAME_DATA], a) = n)
                  => r.valid = "all" /\ lines[r.info].id = STACK_INFO_FRAME_DATA
            /\ r.valid = "parameter_size" => r.info = LookupAddress(a).function

\* The rules that FindCFIFrameInfo applies are those of the INIT line that covers
\* the address, then for each address from its start that has a STACK CFI line
\* the last such line, in the order of the addresses.
CfiRulesInOrder ==
    \A a \in Address :
        LET r == FindCFIFrameInfo(a)
            at(i) == lines[r[i]].address
        IN  r # << >> =>
              /\ Ok(r[1], "INIT") /\ Covers(r[1], a)
              /\ \A i \in 2..Len(r) :
                    /\ Ok(r[i], "CFI") /\ at(1) <= at(i) /\ at(i) <= a
                    /\ i > 2 => at(i - 1) < at(i)
                    /\ \A n \in (r[i] + 1)..Len(lines) : Ok(n, "CFI") => lines[n].address # at(i)
              /\ \A n \in Numbers :
                    Ok(n, "CFI") /\ at(1) <= lines[n].address /\ lines[n].address <= a
                      => \E i \in 2..Len(r) : at(i) = lines[n].address
=============================================================================
