------------------------ MODULE CFIInterpreterProofs ------------------------
(***************************************************************************)
(* The assertions in HandleTransitionTo hold, and the handler knows the    *)
(* rules, for every set of registers, every sequence of instructions and   *)
(* every handler: the invariant is that the saved maps are nested, which   *)
(* holds because the only instruction that takes rules away makes the last *)
(* saved map the current one.  What HandleTransitionTo does not tell of is *)
(* then what the current map does not have either.                         *)
(***************************************************************************)
EXTENDS CFIInterpreter, TLAPS

IInv == TypeOK /\ SavedNested /\ AssertsHold /\ HandlerKnowsTheRules

\* A rule is not the absence of one.
LEMMA NoneIsNoRule == None \notin Rules
  BY SMT DEF None, Rules, Undefined, Same, Expression, ValExpression

\* The rules that instructions make are rules.
LEMMA RulesAreRules ==
  ASSUME NEW n \in Int, NEW q \in Int
  PROVE  /\ Offset(n) \in Rules /\ Register(n) \in Rules /\ ValOffset(n, q) \in Rules
         /\ Undefined \in Rules /\ Same \in Rules /\ Expression \in Rules /\ ValExpression \in Rules
  BY SMT DEF Rules, Offset, Register, ValOffset

\* A changed rule of the CFA is a rule.
LEMMA ChangedRules ==
  ASSUME NEW rule \in Rules, NEW n \in Int
  PROVE  WithBase(rule, n) \in Rules /\ WithOffset(rule, n) \in Rules
  <1>1. CASE rule \in {"val_offset"} \X Int \X Int
    BY <1>1 DEF WithBase, WithOffset, Rules, ValOffset
  <1>2. CASE rule \in {"offset", "register"} \X Int
    BY <1>2 DEF WithBase, WithOffset, Rules, ValOffset
  <1>3. CASE rule \in {Undefined, Same, Expression, ValExpression}
    BY <1>3 DEF WithBase, WithOffset, Undefined, Same, Expression, ValExpression
  <1> QED BY <1>1, <1>2, <1>3 DEF Rules

\* Establishing rules keeps the invariant, wherever the handler stops.
LEMMA DoRulesKeeps ==
  ASSUME IInv, ok, UNCHANGED <<entry_, cie_rules_>>,
         NEW D \in SUBSET Slots, NEW new \in [D -> Rules], NEW stop, NEW why,
         DoRules(new, stop, why)
  PROVE  IInv'
  <1> DEFINE told == Told(DOMAIN new, stop)
  <1>1. told \subseteq D
    BY DEF Told
  <1>2. rules_' = [r \in Slots |-> IF r \in told THEN new[r] ELSE rules_[r]]
    BY DEF DoRules, Stored
  <1>3. saved_rules_' = saved_rules_ /\ asserts' = asserts
    BY DEF DoRules
  <1> HIDE DEF told
  <1>4. rules_' \in RuleMaps
    BY <1>1, <1>2 DEF IInv, TypeOK, RuleMaps
  <1>5. \A r \in Slots : rules_[r] # None => rules_'[r] # None
    BY <1>1, <1>2, NoneIsNoRule
  <1>6. TypeOK'
    BY <1>3, <1>4 DEF IInv, TypeOK
  <1>7. SavedNested'
    <2>1. \A i \in 1..Len(saved_rules_) : Within(saved_rules_[i], rules_')
      BY <1>5 DEF IInv, SavedNested, Within
    <2> QED BY <2>1, <1>3 DEF IInv, SavedNested
  <1>8. HandlerKnowsTheRules'
    <2> SUFFICES ASSUME ok', ~refused', NEW r \in Slots
                 PROVE  seen'[r] = rules_'[r] \/ (rules_'[r] = None /\ seen'[r] = Same)
      BY DEF HandlerKnowsTheRules
    <2>1. seen' = [q \in Slots |-> IF q \in told THEN new[q] ELSE seen[q]]
      BY DEF DoRules, told
    <2>2. ~refused
      BY DEF DoRules
    <2>3. seen[r] = rules_[r] \/ (rules_[r] = None /\ seen[r] = Same)
      BY <2>2 DEF IInv, HandlerKnowsTheRules
    <2> QED BY <1>2, <2>1, <2>3
  <1> QED BY <1>3, <1>6, <1>7, <1>8 DEF IInv, AssertsHold

LEMMA DoRuleKeeps ==
  ASSUME IInv, ok, UNCHANGED <<entry_, cie_rules_>>,
         NEW reg \in Slots, NEW rule \in Rules, NEW stop,
         DoRule(reg, rule, stop)
  PROVE  IInv'
  <1> DEFINE new == [r \in {reg} |-> rule]
  <1>1. new \in [{reg} -> Rules] /\ {reg} \in SUBSET Slots
    OBVIOUS
  <1>2. DoRules(new, stop, "none")
    BY DEF DoRule
  <1> HIDE DEF new
  <1> QED BY <1>1, <1>2, DoRulesKeeps

LEMMA FailsKeeps ==
  ASSUME IInv, ok, UNCHANGED <<entry_, cie_rules_>>, NEW why, Fails(why)
  PROVE  IInv'
  BY DEF Fails, IInv, TypeOK, SavedNested, AssertsHold, HandlerKnowsTheRules, Within

\* What SubSeq keeps of a stack that is popped.
LEMMA SubSeqIsPrefix ==
  ASSUME NEW S, NEW s \in Seq(S), NEW k \in Nat, k <= Len(s)
  PROVE  /\ Len(SubSeq(s, 1, k)) = k
         /\ \A i \in 1..k : SubSeq(s, 1, k)[i] = s[i]
  OBVIOUS

\* The current map becomes the last saved one, which all others are within.
LEMMA RestoreKeeps ==
  ASSUME IInv, ok, UNCHANGED <<entry_, cie_rules_>>, NEW stop, RestoreState(stop)
  PROVE  IInv'
  <1>1. CASE saved_rules_ = <<>>
    BY <1>1, FailsKeeps DEF RestoreState
  <1>2. CASE saved_rules_ # <<>> /\ rules_[CFA] # None /\ Top(saved_rules_)[CFA] = None
    BY <1>2, FailsKeeps DEF RestoreState
  <1>3. CASE saved_rules_ # <<>> /\ ~(rules_[CFA] # None /\ Top(saved_rules_)[CFA] = None)
    <2> DEFINE n == Len(saved_rules_)
    <2>1. n \in Nat \ {0} /\ saved_rules_ \in Seq(RuleMaps)
      BY <1>3 DEF IInv, TypeOK
    <2>2. /\ rules_' = saved_rules_[n]
          /\ saved_rules_' = SubSeq(saved_rules_, 1, n - 1)
          /\ asserts' = (asserts /\ Within(saved_rules_[n], rules_))
      BY <1>3 DEF RestoreState, Top
    <2>3. rules_' \in RuleMaps /\ saved_rules_' \in Seq(RuleMaps)
      BY <2>1, <2>2
    <2>4. Len(saved_rules_') = n - 1 /\ \A i \in 1..(n - 1) : saved_rules_'[i] = saved_rules_[i]
      <3>1. 1 \in Int /\ n - 1 \in Nat /\ n - 1 <= n
        BY <2>1
      <3> QED BY <3>1, <2>1, <2>2, SubSeqIsPrefix
    <2>5. asserts' = TRUE
      <3>1. Within(saved_rules_[n], rules_)
        BY <2>1 DEF IInv, SavedNested
      <3>2. asserts = TRUE
        BY DEF IInv, TypeOK, AssertsHold
      <3> QED BY <3>1, <3>2, <2>2, Zenon
    <2>6. SavedNested'
      <3>1. \A i \in 1..(n - 1) : Within(saved_rules_[i], saved_rules_[n])
        BY <2>1 DEF IInv, SavedNested
      <3>2. \A i, j \in 1..(n - 1) : i <= j => Within(saved_rules_[i], saved_rules_[j])
        BY <2>1 DEF IInv, SavedNested
      <3>3. \A i \in 1..(n - 1) : Within(saved_rules_'[i], rules_')
        BY <3>1, <2>2, <2>4 
      <3>4. \A i, j \in 1..(n - 1) : i <= j => Within(saved_rules_'[i], saved_rules_'[j])
        BY <3>2, <2>4
      <3> QED BY <3>3, <3>4, <2>4 DEF SavedNested
    <2>7. HandlerKnowsTheRules'
      <3> SUFFICES ASSUME ok', ~refused', NEW r \in Slots
                   PROVE  seen'[r] = rules_'[r] \/ (rules_'[r] = None /\ seen'[r] = Same)
        BY DEF HandlerKnowsTheRules
      <3>1. stop = Never /\ ~refused
        BY <1>3 DEF RestoreState
      <3>2. seen' = [q \in Slots |-> IF q \notin Changes(rules_, saved_rules_[n]) THEN seen[q]
                                     ELSE IF saved_rules_[n][q] = None THEN Same ELSE saved_rules_[n][q]]
        BY <1>3, <3>1 DEF RestoreState, Top, Told
      <3>3. seen[r] = rules_[r] \/ (rules_[r] = None /\ seen[r] = Same)
        BY <3>1 DEF IInv, HandlerKnowsTheRules
      <3>4. Within(saved_rules_[n], rules_)
        BY <2>1 DEF IInv, SavedNested
      <3>5. CASE r \in Changes(rules_, saved_rules_[n])
        BY <3>2, <3>5, <2>2
      <3>6. CASE r \notin Changes(rules_, saved_rules_[n])
        <4>1. rules_[r] = saved_rules_[n][r]
          BY <3>4, <3>6, <1>3 DEF Changes, Within, Top
        <4> QED BY <4>1, <3>2, <3>3, <3>6, <2>2
      <3> QED BY <3>5, <3>6
    <2> QED BY <2>3, <2>5, <2>6, <2>7 DEF IInv, TypeOK, AssertsHold
  <1> QED BY <1>1, <1>2, <1>3

LEMMA RememberKeeps ==
  ASSUME IInv, ok, UNCHANGED <<entry_, cie_rules_>>, RememberState
  PROVE  IInv'
  <1> DEFINE n == Len(saved_rules_)
  <1>1. n \in Nat /\ saved_rules_ \in Seq(RuleMaps) /\ rules_ \in RuleMaps
    BY DEF IInv, TypeOK
  <1>2. saved_rules_' = Append(saved_rules_, rules_) /\ rules_' = rules_ /\ asserts' = asserts
    BY DEF RememberState
  <1>3. /\ saved_rules_' \in Seq(RuleMaps) /\ Len(saved_rules_') = n + 1
        /\ saved_rules_'[n + 1] = rules_
        /\ \A i \in 1..n : saved_rules_'[i] = saved_rules_[i]
    BY <1>1, <1>2
  <1>4. \A i \in 1..(n + 1) : Within(saved_rules_'[i], rules_)
    <2>1. Within(rules_, rules_)
      BY DEF Within
    <2>2. \A i \in 1..n : Within(saved_rules_'[i], rules_)
      BY <1>3 DEF IInv, SavedNested
    <2> QED BY <2>1, <2>2, <1>1, <1>3
  <1>5. \A i, j \in 1..(n + 1) : i <= j => Within(saved_rules_'[i], saved_rules_'[j])
    <2> SUFFICES ASSUME NEW i \in 1..(n + 1), NEW j \in 1..(n + 1), i <= j
                 PROVE  Within(saved_rules_'[i], saved_rules_'[j])
      OBVIOUS
    <2>1. CASE j = n + 1
      BY <2>1, <1>3, <1>4
    <2>2. CASE j # n + 1
      <3>1. i \in 1..n /\ j \in 1..n
        BY <2>2, <1>1
      <3> QED BY <3>1, <1>3 DEF IInv, SavedNested
    <2> QED BY <2>1, <2>2
  <1>6. SavedNested'
    BY <1>2, <1>3, <1>4, <1>5 DEF SavedNested
  <1>7. HandlerKnowsTheRules'
    BY DEF RememberState, IInv, HandlerKnowsTheRules
  <1> QED BY <1>2, <1>3, <1>6, <1>7 DEF IInv, TypeOK, AssertsHold

\* Each instruction keeps the invariant.
LEMMA InstructionKeeps ==
  ASSUME IInv, NEW stop \in Stops, DoInstruction(stop)
  PROVE  IInv'
  <1>0. ok /\ UNCHANGED <<entry_, cie_rules_>>
    BY DEF DoInstruction, Running
  <1>1. CFA \in Slots /\ Registers \subseteq Slots /\ CFA \in Int
    BY DEF Slots, CFA
  <1>2. ASSUME NEW r \in Registers, NEW n \in Offsets, DoDefCFA(r, n, stop) PROVE IInv'
    <2>1. ValOffset(r, n) \in Rules
      BY RulesAreRules, CFIAssumption
    <2> QED BY <2>1, <1>0, <1>1, <1>2, DoRuleKeeps DEF DoDefCFA
  <1>3. ASSUME NEW r \in Registers, NEW g \in Garbage, DefCFARegister(r, g, stop) PROVE IInv'
    <2>1. CASE rules_[CFA] = None
      <3> DEFINE new == [s \in {CFA} |-> ValOffset(r, g)]
      <3>1. ValOffset(r, g) \in Rules
        BY RulesAreRules, CFIAssumption
      <3>2. new \in [{CFA} -> Rules] /\ {CFA} \in SUBSET Slots
        BY <3>1, <1>1
      <3>3. DoRules(new, stop, "NoCFARule")
        BY <1>3, <2>1 DEF DefCFARegister
      <3> HIDE DEF new
      <3> QED BY <3>2, <3>3, <1>0, DoRulesKeeps
    <2>2. CASE rules_[CFA] # None
      <3>1. rules_[CFA] \in Rules
        BY <2>2, <1>1 DEF IInv, TypeOK, RuleMaps
      <3>2. WithBase(rules_[CFA], r) \in Rules
        BY <3>1, ChangedRules, CFIAssumption
      <3> QED BY <3>2, <2>2, <1>0, <1>1, <1>3, DoRuleKeeps DEF DefCFARegister
    <2> QED BY <2>1, <2>2
  <1>4. ASSUME NEW n \in Offsets, DoDefCFAOffset(n, stop) PROVE IInv'
    <2>1. CASE rules_[CFA] = None
      BY <2>1, <1>0, <1>4, FailsKeeps DEF DoDefCFAOffset
    <2>2. CASE rules_[CFA] # None
      <3>1. rules_[CFA] \in Rules
        BY <2>2, <1>1 DEF IInv, TypeOK, RuleMaps
      <3>2. WithOffset(rules_[CFA], n) \in Rules
        BY <3>1, ChangedRules, CFIAssumption
      <3> QED BY <3>2, <2>2, <1>0, <1>1, <1>4, DoRuleKeeps DEF DoDefCFAOffset
    <2> QED BY <2>1, <2>2
  <1>5. ASSUME DoRule(CFA, ValExpression, stop) PROVE IInv'
    BY <1>0, <1>1, <1>5, RulesAreRules, DoRuleKeeps
  <1>6. ASSUME NEW r \in Registers, NEW n \in Offsets, DoOffset(r, n, stop) \/ DoValOffset(r, n, stop)
        PROVE  IInv'
    <2>1. CASE rules_[CFA] = None
      BY <2>1, <1>0, <1>6, FailsKeeps DEF DoOffset, DoValOffset
    <2>2. CASE rules_[CFA] # None
      <3>1. Offset(n) \in Rules /\ ValOffset(CFA, n) \in Rules
        BY RulesAreRules, CFIAssumption, <1>1
      <3> QED BY <3>1, <2>2, <1>0, <1>1, <1>6, DoRuleKeeps DEF DoOffset, DoValOffset
    <2> QED BY <2>1, <2>2
  <1>7. ASSUME NEW r \in Registers, NEW rule \in {Undefined, Same, Expression, ValExpression}, DoRule(r, rule, stop)
        PROVE  IInv'
    BY <1>0, <1>1, <1>7, RulesAreRules, DoRuleKeeps
  <1>8. ASSUME NEW r \in Registers, NEW q \in Registers, DoRule(r, Register(q), stop) PROVE IInv'
    <2>1. Register(q) \in Rules
      BY RulesAreRules, CFIAssumption
    <2> QED BY <2>1, <1>0, <1>1, <1>8, DoRuleKeeps
  <1>9. ASSUME NEW r \in Registers, DoRestore(r, stop) PROVE IInv'
    <2>1. CASE entry_ = "cie"
      BY <2>1, <1>0, <1>9, FailsKeeps DEF DoRestore
    <2>2. CASE entry_ # "cie"
      <3> DEFINE rule == IF cie_rules_[r] = None THEN Same ELSE cie_rules_[r]
      <3>1. rule \in Rules
        BY <1>1, RulesAreRules DEF IInv, TypeOK, RuleMaps
      <3>2. DoRule(r, rule, stop)
        BY <2>2, <1>9 DEF DoRestore
      <3> HIDE DEF rule
      <3> QED BY <3>1, <3>2, <1>0, <1>1, DoRuleKeeps
    <2> QED BY <2>1, <2>2
  <1>10. ASSUME RememberState PROVE IInv'
    BY <1>0, <1>10, RememberKeeps
  <1>11. ASSUME RestoreState(stop) PROVE IInv'
    BY <1>0, <1>11, RestoreKeeps
  <1>12. ASSUME NoRule PROVE IInv'
    BY <1>0, <1>12 DEF NoRule, IInv, TypeOK, SavedNested, AssertsHold, HandlerKnowsTheRules, Within
  <1>13. ASSUME WindowSave(stop) PROVE IInv'
    <2> DEFINE D == {q \in Registers : q >= 8 /\ q < 32}
               new == [r \in D |-> IF r < 16 THEN Register(r + 16) ELSE Offset((r - 16) * AddressSize)]
    <2>1. \A r \in D : Register(r + 16) \in Rules /\ Offset((r - 16) * AddressSize) \in Rules
      <3>1. \A r \in D : r + 16 \in Int /\ (r - 16) * AddressSize \in Int
        BY CFIAssumption
      <3> QED BY <3>1, RulesAreRules
    <2>2. new \in [D -> Rules] /\ D \in SUBSET Slots
      BY <2>1, <1>1
    <2>3. DoRules(new, stop, "none")
      BY <1>13 DEF WindowSave
    <2> HIDE DEF new, D
    <2> QED BY <2>2, <2>3, <1>0, DoRulesKeeps
  <1>14. ASSUME NEW why \in {"Incomplete", "BadInstruction"}, Fails(why) PROVE IInv'
    BY <1>0, <1>14, FailsKeeps
  <1> QED
    BY <1>2, <1>3, <1>4, <1>5, <1>6, <1>7, <1>8, <1>9, <1>10, <1>11, <1>12, <1>13, <1>14
    DEF DoInstruction, CFAInstruction, RegisterInstruction

LEMMA InitEstablishes == Init => IInv
  BY DEF Init, IInv, TypeOK, SavedNested, AssertsHold, HandlerKnowsTheRules, RuleMaps, Empty

LEMMA StepKeeps == IInv /\ [Next]_vars => IInv'
  <1> SUFFICES ASSUME IInv, [Next]_vars PROVE IInv'
    OBVIOUS
  <1>1. ASSUME NEW stop \in Stops, DoInstruction(stop) PROVE IInv'
    BY <1>1, InstructionKeeps
  <1>2. CASE EndOfCIE
    BY <1>2 DEF EndOfCIE, IInv, TypeOK, SavedNested, AssertsHold, HandlerKnowsTheRules
  <1>3. CASE End
    BY <1>3 DEF End, IInv, TypeOK, SavedNested, AssertsHold, HandlerKnowsTheRules
  <1>4. CASE UNCHANGED vars
    BY <1>4 DEF vars, IInv, TypeOK, SavedNested, AssertsHold, HandlerKnowsTheRules
  <1> QED BY <1>1, <1>2, <1>3, <1>4 DEF Next, Over

(***************************************************************************)
(* The maps that have been saved are nested in each other and in the       *)
(* current one, for every set of registers and every sequence of           *)
(* instructions (dwarf2reader.cc:1647, 1664).                              *)
(***************************************************************************)
THEOREM SavedAreNested == Spec => []SavedNested
  <1>1. IInv => SavedNested
    BY DEF IInv
  <1> QED BY <1>1, InitEstablishes, StepKeeps, PTL DEF Spec

(***************************************************************************)
(* No assertion in HandleTransitionTo fails (dwarf2reader.cc:1141, 1166,   *)
(* 1185), for every set of registers, every sequence of instructions and   *)
(* every handler.                                                          *)
(***************************************************************************)
THEOREM NoAssertionFails == Spec => []AssertsHold
  <1>1. IInv => AssertsHold
    BY DEF IInv
  <1> QED BY <1>1, InitEstablishes, StepKeeps, PTL DEF Spec

(***************************************************************************)
(* A handler that takes a register it has not been told of to keep its     *)
(* value (dwarf2reader.h:842) has the rules of the interpreter after every *)
(* instruction that it did not refuse, also after DW_CFA_restore_state has *)
(* put back a whole map and told it of the differences only.               *)
(***************************************************************************)
THEOREM HandlerIsUpToDate == Spec => []HandlerKnowsTheRules
  <1>1. IInv => HandlerKnowsTheRules
    BY DEF IInv
  <1> QED BY <1>1, InitEstablishes, StepKeeps, PTL DEF Spec
=============================================================================
