---------------------------- MODULE CFIFrameInfo ----------------------------
(***************************************************************************)
(* processor/cfi_frame_info.cc and -inl.h: the STACK CFI rules in force at *)
(* an instruction, how they are parsed, and how they give the registers of *)
(* a caller; and the evaluator of their expressions (postfix_evaluator-inl *)
(* .h), which STACK WIN program strings use as well.                       *)
(*                                                                         *)
(* An expression is in postfix notation, over a dictionary of constants    *)
(* and variables and a region of memory.  Values are unsigned integers of  *)
(* W bits.  A token is a record: an operator, a literal (perhaps with a    *)
(* sign), an identifier, or an "=" smashed up against the next token.  A   *)
(* rule set is a sequence of words, each a register name with its colon or *)
(* a word of an expression.                                                *)
(***************************************************************************)
EXTENDS Integers, Sequences, FiniteSets, TLC

CONSTANTS
    W,          \* bits of ValueType
    Variables,  \* identifiers that begin with '$'
    Memory      \* the region: a function from addresses to values

SX == INSTANCE SequencesExt

Mod == 2 ^ W
Op(o) == [k |-> "op", v |-> o]
Num(n) == [k |-> "num", v |-> n, neg |-> FALSE]

\* A literal must fit ValueType; a longer one is taken for an identifier.
IsLiteral(t) == t.k = "num" /\ t.v < Mod
Value(t) == IF t.neg THEN (Mod - t.v) % Mod ELSE t.v

Put(d, k, v) == [x \in DOMAIN d \cup {k} |-> IF x = k THEN v ELSE d[x]]

Fresh(dictionary) ==
    [stack |-> <<>>, dict |-> dictionary, assigned |-> {}, status |-> "ok"]
Failed(st) == [st EXCEPT !.status = "fail"]
Crashed(st) == [st EXCEPT !.status = "crash"]

-----------------------------------------------------------------------------
\* PopValue: an identifier is looked up in the dictionary when it is popped.
CanPop(st) ==
    /\ st.stack # <<>>
    /\ LET t == SX!Last(st.stack) IN IsLiteral(t) \/ (t.k = "id" /\ t.v \in DOMAIN st.dict)
Popped(st) ==
    LET t == SX!Last(st.stack) IN IF IsLiteral(t) THEN Value(t) ELSE st.dict[t.v]
Pop(st) == [st EXCEPT !.stack = SX!Front(@)]
Push(st, v) == [st EXCEPT !.stack = Append(@, Num(v % Mod))]

Bit(n, i) == (n \div 2 ^ i) % 2

\* operand1 & (-1 ^ (operand2 - 1))
Align(a, b) ==
    LET mask == (b - 1) % Mod
        Masked[i \in 0..W] == IF i = W THEN 0
                              ELSE Masked[i + 1] + IF Bit(a, i) = 1 /\ Bit(mask, i) = 0 THEN 2 ^ i ELSE 0
    IN  Masked[0]

Apply(o, a, b) ==
    CASE o = "+" -> a + b
      [] o = "-" -> Mod + a - b
      [] o = "*" -> a * b
      [] o = "/" -> a \div b
      [] o = "%" -> a % b
      [] o = "@" -> Align(a, b)

\* PopValues: the second operand is popped first.  Dividing by zero is
\* undefined; the build stops.
BinaryOperation(st, o) ==
    LET rest == Pop(st)
    IN  IF ~CanPop(st) \/ ~CanPop(rest) THEN Failed(st)
        ELSE IF o \in {"/", "%"} /\ Popped(st) = 0 THEN Crashed(st)
        ELSE Push(Pop(rest), Apply(o, Popped(rest), Popped(st)))

Dereference(st) ==
    IF ~CanPop(st) \/ Popped(st) \notin DOMAIN Memory THEN Failed(st)
    ELSE Push(Pop(st), Memory[Popped(st)])

Assignable(t) == t.k = "id" /\ t.v \in Variables

\* The identifier is popped with no place for a value, which a negative
\* literal there writes to all the same.
Assignment(st) ==
    LET rest == Pop(st)
        target == SX!Last(rest.stack)
    IN  IF ~CanPop(st) \/ rest.stack = <<>> THEN Failed(st)
        ELSE IF IsLiteral(target) THEN (IF target.neg THEN Crashed(st) ELSE Failed(st))
        ELSE IF ~Assignable(target) THEN Failed(st)
        ELSE [Pop(rest) EXCEPT !.dict = Put(@, target.v, Popped(st)), !.assigned = @ \cup {target.v}]

EvaluateToken(st, t) ==
    IF st.status # "ok" THEN st
    ELSE IF t.k # "op" THEN [st EXCEPT !.stack = Append(@, t)]
    ELSE IF t.v = "^" THEN Dereference(st)
    ELSE IF t.v = "=" THEN Assignment(st)
    ELSE BinaryOperation(st, t.v)

\* One word of the program string.
EvaluateWord(st, t) ==
    IF t.k = "smash" THEN EvaluateToken(EvaluateToken(st, Op("=")), t.v) ELSE EvaluateToken(st, t)

\* The words in turn, up to the first that fails.
RECURSIVE EvaluateInternal(_, _)
EvaluateInternal(st, program) ==
    IF st.status # "ok" \/ program = <<>> THEN st
    ELSE EvaluateInternal(EvaluateWord(st, Head(program)), Tail(program))

\* AutoStackClearer
ClearStack(st) == [st EXCEPT !.stack = <<>>]

\* Evaluate: anything left on the stack is a failure.
Finish(st) == ClearStack(IF st.status = "ok" /\ st.stack # <<>> THEN Failed(st) ELSE st)
Evaluate(dictionary, program) == Finish(EvaluateInternal(Fresh(dictionary), program))

\* EvaluateForValue: exactly one value is left, and it can be popped.
FinishForValue(st) ==
    IF st.status = "ok" /\ Len(st.stack) = 1 /\ CanPop(st)
    THEN ClearStack([st EXCEPT !.status = "ok"]) @@ [value |-> Popped(st)]
    ELSE ClearStack(IF st.status = "ok" THEN Failed(st) ELSE st)
EvaluateForValue(dictionary, program) == FinishForValue(EvaluateInternal(Fresh(dictionary), program))

-----------------------------------------------------------------------------
CFA == ".cfa"
RA == ".ra"
NoRules == [cfa |-> <<>>, ra |-> <<>>, regs |-> [r \in {} |-> <<>>]]

-----------------------------------------------------------------------------
(* CFIRuleParser *)

\* SetCFARule, SetRARule, SetRegisterRule: a later rule replaces an earlier.
SetRule(info, name, expression) ==
    CASE name = CFA -> [info EXCEPT !.cfa = expression]
      [] name = RA -> [info EXCEPT !.ra = expression]
      [] OTHER -> [info EXCEPT !.regs = Put(@, name, expression)]

Parsing(info) == [info |-> info, name |-> "", expression |-> <<>>, ok |-> TRUE]

Report(p) ==
    IF p.name = "" \/ p.expression = <<>> THEN [p EXCEPT !.ok = FALSE]
    ELSE [p EXCEPT !.info = SetRule(@, p.name, p.expression)]

\* One word of a rule set; an expression before the first name is kept until
\* it is reported, which fails.
ParseWord(p, t) ==
    IF ~p.ok THEN p
    ELSE IF t.k # "name" THEN [p EXCEPT !.expression = Append(@, t)]
    ELSE IF t.v = "" THEN [p EXCEPT !.ok = FALSE]
    ELSE LET reported == IF p.name # "" \/ p.expression # <<>> THEN Report(p) ELSE p
         IN  IF reported.ok THEN [reported EXCEPT !.name = t.v, !.expression = <<>>] ELSE reported

Parse(info, words) ==
    LET p == SX!FoldLeft(ParseWord, Parsing(info), words) IN IF p.ok THEN Report(p) ELSE p

\* ParseCFIRuleSet: the rules that a text gives.
ParseCFIRuleSet(words) == Parse(NoRules, words).info

-----------------------------------------------------------------------------
(* FindCallerRegs *)
None == [r \in {} |-> 0]
Evaluated(st) == st.status = "ok"

\* Each register rule is evaluated over the callee's registers and .cfa.
AfterRule(a, r, e) ==
    IF ~a.ok \/ ~Evaluated(e) THEN [a EXCEPT !.ok = FALSE] ELSE [a EXCEPT !.out = Put(@, r, e.value)]
RegisterRules(info, registers, order) ==
    LET Step(a, r) == AfterRule(a, r, EvaluateForValue(registers, info.regs[r]))
    IN  SX!FoldLeft(Step, [ok |-> TRUE, out |-> None], order)

\* The caller's registers, or a failure: .cfa first, then .ra and the others.
NoCaller == [ok |-> FALSE, regs |-> None]
CallerRegs(cfa, ra, rules) ==
    IF ~Evaluated(ra) \/ ~rules.ok THEN NoCaller
    ELSE [ok |-> TRUE, regs |-> Put(Put(rules.out, RA, ra.value), CFA, cfa)]
OverCfa(info, known, order) ==
    CallerRegs(known[CFA], EvaluateForValue(known, info.ra), RegisterRules(info, known, order))
FromCfa(info, registers, order, cfa) ==
    IF ~Evaluated(cfa) THEN NoCaller ELSE OverCfa(info, Put(registers, CFA, cfa.value), order)
FindCallerRegs(info, registers, order) ==
    IF info.cfa = <<>> \/ info.ra = <<>> THEN NoCaller
    ELSE FromCfa(info, registers, order, EvaluateForValue(registers, info.cfa))

-----------------------------------------------------------------------------
(* SimpleCFIWalker: map is the architecture's register set, a function from *)
(* names to [alternate, callee_saves]; a context holds the valid registers. *)

PassedOn(map, r, callee) == map[r].callee_saves /\ r \in DOMAIN callee

Recovered(map, callee, caller, r) ==
    r \in DOMAIN caller \/ map[r].alternate \in DOMAIN caller \/ PassedOn(map, r, callee)

\* What a register is when nothing is known of it: memset to 0xda.
Unknown == 0
RegisterValue(map, callee, caller, r) ==
    IF r \in DOMAIN caller THEN caller[r]
    ELSE IF map[r].alternate \in DOMAIN caller THEN caller[map[r].alternate]
    ELSE IF r \in DOMAIN callee THEN callee[r] ELSE Unknown

AllRegisters(map, callee, found) ==
    IF ~found.ok THEN found
    ELSE [found EXCEPT !.regs = [r \in {r \in DOMAIN map : Recovered(map, callee, @, r)} |->
                                    RegisterValue(map, callee, @, r)]]
FindCallerRegisters(map, info, callee, order) ==
    AllRegisters(map, callee, FindCallerRegs(info, callee, order))
=============================================================================
