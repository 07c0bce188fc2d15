--------------------------- MODULE CFIInterpreter ---------------------------
(***************************************************************************)
(* common/dwarf/dwarf2reader.cc, class CallFrameInfo::State: interprets    *)
(* the instructions of a CIE and then of an FDE, keeps the rules they      *)
(* establish, saves and restores them, and tells a handler of each change. *)
(*                                                                         *)
(* A rule is a tuple that begins with its kind.  The operands of an        *)
(* instruction have been parsed; "short" stands for an instruction whose   *)
(* operands end after the entry does.                                      *)
(***************************************************************************)
EXTENDS Integers, Sequences

CONSTANTS
    Registers,       \* the registers that instructions name
    Offsets,         \* the offsets that they carry
    Garbage,         \* what an operand that was not read may hold
    AddressSize,     \* of the byte reader
    Refuses,         \* whether a handler may return false
    MaxInstructions  \* bound: instructions of the CIE and the FDE together

CFA == -1            \* kCFARegister
Never == -2          \* no register

ASSUME CFIAssumption ==
    /\ Registers \subseteq Nat /\ Offsets \subseteq Int /\ Garbage \subseteq Int
    /\ AddressSize \in Nat /\ Refuses \in BOOLEAN /\ MaxInstructions \in Nat

Slots == Registers \cup {CFA}

None == <<>>
Undefined == <<"undefined">>
Same == <<"same">>
Expression == <<"expression">>
ValExpression == <<"val_expression">>
Offset(n) == <<"offset", n>>
ValOffset(base, n) == <<"val_offset", base, n>>
Register(r) == <<"register", r>>

Rules == {Undefined, Same, Expression, ValExpression} \cup ({"offset", "register"} \X Int)
         \cup ({"val_offset"} \X Int \X Int)

\* A RuleMap: the rules of the registers that have one, and of the CFA.
RuleMaps == [Slots -> Rules \cup {None}]
Empty == [r \in Slots |-> None]

VARIABLES
    entry_,       \* "cie", "fde", or "done"
    rules_, cie_rules_,
    saved_rules_, \* a stack, the top last
    seen,         \* what the handler has been told last
    refused,      \* the handler has returned false
    report,       \* what the last instruction reported to the reporter
    ok,           \* no instruction has failed
    asserts,      \* no assertion of the code has failed
    count         \* instructions so far

vars == <<entry_, rules_, cie_rules_, saved_rules_, seen, refused, report, ok, asserts, count>>

Init ==
    /\ entry_ = "cie" /\ rules_ = Empty /\ cie_rules_ = Empty /\ saved_rules_ = <<>>
    /\ seen = Empty /\ refused = FALSE
    /\ report = "none" /\ ok = TRUE /\ asserts = TRUE /\ count = 0

-----------------------------------------------------------------------------
\* Interpret* goes on while there are instructions and none has failed.
Running == entry_ \in {"cie", "fde"} /\ ok /\ count < MaxInstructions

\* Where the handler may return false.
Stops == {Never} \cup (IF Refuses THEN Slots ELSE {})

\* The changes that are told, in the order of their registers, up to the
\* one that the handler refuses.
Told(changes, stop) == IF stop = Never THEN changes ELSE {r \in changes : r <= stop}

\* An instruction fails without a call.
Fails(why) ==
    /\ report' = why /\ ok' = FALSE
    /\ UNCHANGED <<rules_, saved_rules_, seen, refused, asserts>>

\* Mutant: "same value" removes the entry.
WithoutSame(rule) == IF rule = Same THEN None ELSE rule

\* What SetRegisterRule and SetCFARule put in the map.
Stored(rule) == rule

\* Rules are set and handled one by one, until one is refused.
DoRules(new, stop, why) ==
    LET told == Told(DOMAIN new, stop)
    IN  /\ stop \in {Never} \cup DOMAIN new
        /\ rules_' = [r \in Slots |-> IF r \in told THEN Stored(new[r]) ELSE rules_[r]]
        /\ seen' = [r \in Slots |-> IF r \in told THEN new[r] ELSE seen[r]]
        /\ ok' = (stop = Never) /\ refused' = (refused \/ stop # Never)
        /\ report' = IF stop = Never THEN "none" ELSE why
        /\ UNCHANGED <<saved_rules_, asserts>>

DoRule(reg, rule, stop) == DoRules([r \in {reg} |-> rule], stop, "none")

DoDefCFA(base, n, stop) == DoRule(CFA, ValOffset(base, n), stop)

\* Only a rule of a base and an offset changes; any is handled again.
WithBase(rule, base) == IF rule[1] = "val_offset" THEN ValOffset(base, rule[3]) ELSE rule
WithOffset(rule, n) == IF rule[1] = "val_offset" THEN ValOffset(rule[2], n) ELSE rule

\* Without a rule for the CFA one is made of an offset that was never read.
DefCFARegister(base, garbage, stop) ==
    IF rules_[CFA] = None THEN DoRules([r \in {CFA} |-> ValOffset(base, garbage)], stop, "NoCFARule")
    ELSE DoRule(CFA, WithBase(rules_[CFA], base), stop)

DoDefCFAOffset(n, stop) ==
    IF rules_[CFA] = None THEN Fails("NoCFARule") ELSE DoRule(CFA, WithOffset(rules_[CFA], n), stop)

DoOffset(reg, n, stop) ==
    IF rules_[CFA] = None THEN Fails("NoCFARule") ELSE DoRule(reg, Offset(n), stop)

DoValOffset(reg, n, stop) ==
    IF rules_[CFA] = None THEN Fails("NoCFARule") ELSE DoRule(reg, ValOffset(CFA, n), stop)

DoRestore(reg, stop) ==
    IF entry_ = "cie" THEN Fails("RestoreInCIE")
    ELSE DoRule(reg, IF cie_rules_[reg] = None THEN Same ELSE cie_rules_[reg], stop)

RememberState ==
    /\ saved_rules_' = Append(saved_rules_, rules_)
    /\ report' = "none"
    /\ UNCHANGED <<rules_, seen, refused, ok, asserts>>

\* Mutant: only what the new map has is compared.
ChangesToRules(old, new) == {r \in Slots : old[r] # new[r] /\ new[r] # None}

\* HandleTransitionTo: the registers whose new rule is told, which is "same
\* value" if the new map has none.  That the CFA loses its rule is not.
Changes(old, new) ==
    {r \in Slots : old[r] # None /\ old[r] # new[r] /\ (r = CFA => new[r] # None)}

\* Its assertions: a saved state has no rule that the current one lacks.
Within(new, old) == \A r \in Slots : new[r] # None => old[r] # None

Top(s) == s[Len(s)]

\* The result of HandleTransitionTo is not looked at.
RestoreState(stop) ==
    IF saved_rules_ = <<>> THEN stop = Never /\ Fails("EmptyStateStack")
    ELSE LET new == Top(saved_rules_)
             changes == Changes(rules_, new)
             told == Told(changes, stop)
         IN  IF rules_[CFA] # None /\ new[CFA] = None THEN stop = Never /\ Fails("ClearingCFARule")
             ELSE /\ stop \in {Never} \cup changes
                  /\ seen' = [r \in Slots |-> IF r \notin told THEN seen[r]
                                              ELSE IF new[r] = None THEN Same ELSE new[r]]
                  /\ refused' = (refused \/ stop # Never)
                  /\ asserts' = (asserts /\ Within(new, rules_))
                  /\ rules_' = new
                  /\ saved_rules_' = SubSeq(saved_rules_, 1, Len(saved_rules_) - 1)
                  /\ report' = "none"
                  /\ UNCHANGED ok

\* Advancing the address, padding, DW_CFA_GNU_args_size.
NoRule ==
    /\ report' = "none"
    /\ UNCHANGED <<rules_, saved_rules_, seen, refused, ok, asserts>>

\* DW_CFA_GNU_window_save: registers 8 to 15 are in 24 to 31, 16 to 31 at
\* the CFA.
WindowSave(stop) ==
    DoRules([r \in {q \in Registers : q >= 8 /\ q < 32} |->
                IF r < 16 THEN Register(r + 16) ELSE Offset((r - 16) * AddressSize)],
            stop, "none")

-----------------------------------------------------------------------------
\* Instructions about the CFA.
CFAInstruction(stop) ==
    \/ \E r \in Registers, n \in Offsets : DoDefCFA(r, n, stop)
    \/ \E r \in Registers, g \in Garbage : DefCFARegister(r, g, stop)
    \/ \E n \in Offsets : DoDefCFAOffset(n, stop)
    \/ DoRule(CFA, ValExpression, stop)

\* Instructions about one register.
RegisterInstruction(stop) ==
    \/ \E r \in Registers, n \in Offsets : DoOffset(r, n, stop) \/ DoValOffset(r, n, stop)
    \/ \E r \in Registers, rule \in {Undefined, Same, Expression, ValExpression} : DoRule(r, rule, stop)
    \/ \E r, q \in Registers : DoRule(r, Register(q), stop)
    \/ \E r \in Registers : DoRestore(r, stop)

DoInstruction(stop) ==
    /\ Running
    /\ count' = count + 1
    /\ \/ CFAInstruction(stop) \/ RegisterInstruction(stop)
       \/ RememberState
       \/ RestoreState(stop)
       \/ NoRule
       \/ WindowSave(stop)
       \/ \E why \in {"Incomplete", "BadInstruction"} : Fails(why)
    /\ UNCHANGED <<entry_, cie_rules_>>

\* InterpretCIE is done: its rules are those to restore.
EndOfCIE ==
    /\ entry_ = "cie" /\ ok
    /\ entry_' = "fde" /\ cie_rules_' = rules_
    /\ UNCHANGED <<rules_, saved_rules_, seen, refused, report, ok, asserts, count>>

\* InterpretFDE is done, or an instruction has failed.
End ==
    /\ entry_ # "done" /\ (entry_ = "fde" \/ ~ok)
    /\ entry_' = "done"
    /\ UNCHANGED <<rules_, cie_rules_, saved_rules_, seen, refused, report, ok, asserts, count>>

Over == entry_ = "done" /\ UNCHANGED vars

Next == (\E stop \in Stops : DoInstruction(stop)) \/ EndOfCIE \/ End \/ Over

Spec == Init /\ [][Next]_vars

-----------------------------------------------------------------------------
TypeOK ==
    /\ entry_ \in {"cie", "fde", "done"}
    /\ rules_ \in RuleMaps /\ cie_rules_ \in RuleMaps
    /\ saved_rules_ \in Seq(RuleMaps)
    /\ asserts \in BOOLEAN

(***************************************************************************)
(* A map that was saved has no rule that a map saved after it, or the      *)
(* current one, lacks: interpreting never takes a rule away, except by     *)
(* restoring a map, which is then the last one saved (dwarf2reader.cc:1647 *)
(* and 1664).                                                              *)
(***************************************************************************)
SavedNested ==
    /\ \A i \in 1..Len(saved_rules_) : Within(saved_rules_[i], rules_)
    /\ \A i, j \in 1..Len(saved_rules_) : i <= j => Within(saved_rules_[i], saved_rules_[j])

(***************************************************************************)
(* "Since we only make transitions from a rule set to some previously      *)
(* saved rule set, and we can only add rules to the map, NEW_RULES must    *)
(* have fewer rules than *this": none of the assertions in                 *)
(* HandleTransitionTo fails (dwarf2reader.cc:1141, 1166, 1185), whatever   *)
(* states are saved and restored, also those saved by the CIE.             *)
(***************************************************************************)
AssertsHold == asserts

(***************************************************************************)
(* A handler that takes a register it has not been told of to keep its     *)
(* value (dwarf2reader.h:842) has the rules that the interpreter has after *)
(* each instruction, also after a whole set was restored, until it refuses *)
(* a rule (the interpreter goes on after one at dwarf2reader.cc:1663).     *)
(***************************************************************************)
HandlerKnowsTheRules ==
    ok /\ ~refused =>
        \A r \in Slots : seen[r] = rules_[r] \/ (rules_[r] = None /\ seen[r] = Same)

=============================================================================
