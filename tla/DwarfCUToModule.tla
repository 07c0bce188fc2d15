-------------------------- MODULE DwarfCUToModule --------------------------
(***************************************************************************)
(* common/dwarf_cu_to_module.cc: the handlers that make the functions of a *)
(* Module from the DIEs of the units of a file, with their full names,     *)
(* which a DIE may have from its scope, from a declaration or from an      *)
(* abstract origin.                                                        *)
(*                                                                         *)
(* A string is a sequence of words.  DIEs are known by their number in the *)
(* file, which stands for their offset; the DIEs that no handler is for    *)
(* are left out.  What a handler does at the end of its attributes         *)
(* (DIEDispatcher) follows them at once.                                   *)
(***************************************************************************)
EXTENDS Integers, Sequences

CONSTANTS
    handle_inter_cu_refs_,
    Attributes,        \* records: [tag, name, linkage_name, declaration, inline, low_pc, high_pc, length, refers]
    Languages,         \* "C++", "Java" or "Assembler"
    MaxDIEs, MaxUnits  \* bounds: DIEs and units of the file

VARIABLES
    language, cu_offset,   \* of the unit
    handlers,              \* the scopes that are open: [name, die], the unit's first
    specifications,        \* by DIE: [qualified, enclosing, unqualified]
    origins,               \* by DIE: its name
    functions,             \* of the unit: [name, address, size, die]
    added,                 \* functions of the module
    dies,                  \* all DIEs so far: [attr, spec, origin, parent, unit, language]
    units,                 \* units so far
    state                  \* "file" or "unit"

vars == <<language, cu_offset, handlers, specifications, origins, functions, added, dies, units, state>>

NoTable == [d \in {} |-> <<>>]

Init ==
    /\ language = "C++" /\ cu_offset = 0 /\ handlers = <<>>
    /\ specifications = NoTable /\ origins = NoTable /\ functions = <<>> /\ added = <<>>
    /\ dies = <<>> /\ units = 0 /\ state = "file"

With(table, d, v) == [x \in DOMAIN table \cup {d} |-> IF x = d THEN v ELSE table[x]]

MakeQualifiedName(parent, name) ==
    CASE language = "Assembler" -> name
      [] language # "Assembler" /\ parent = <<>> -> name
      [] language = "C++" /\ parent # <<>> -> parent \o <<"::">> \o name
      [] language = "Java" /\ parent # <<>> -> parent \o <<".">> \o name

StartUnit(lang) ==
    /\ state = "file" /\ units < MaxUnits /\ Len(dies) < MaxDIEs
    /\ units' = units + 1 /\ state' = "unit"
    /\ language' = lang
    /\ cu_offset' = Len(dies) + 1
    /\ handlers' = <<[name |-> <<>>, die |-> Len(dies) + 1]>>
    /\ dies' = Append(dies, [attr |-> <<>>, spec |-> 0, origin |-> 0, parent |-> 0, unit |-> units + 1, language |-> lang])
    /\ functions' = <<>>
    /\ UNCHANGED <<specifications, origins, added>>

IsUnhandledInterCUReference(offset) == ~handle_inter_cu_refs_ /\ offset < cu_offset

\* What DW_AT_specification refers to: <<>> if it is not handled or unknown.
Specification(spec) ==
    IF spec = 0 \/ IsUnhandledInterCUReference(spec) \/ spec \notin DOMAIN specifications THEN <<>>
    ELSE <<specifications[spec]>>

\* The name in the DIE, or else in what it specifies.
Unqualified(attr, s) == IF attr.name = <<>> /\ s # <<>> THEN s[1].unqualified ELSE attr.name

\* Mutant: the scope of the definition counts.
EnclosingOfThis(s) == handlers[Len(handlers)].name

\* It is the scope of the declaration that counts.
Enclosing(s) == IF s # <<>> THEN s[1].enclosing ELSE handlers[Len(handlers)].name

\* The demangled name, of the DIE or of what it specifies.
Qualified(attr, s) ==
    IF attr.linkage_name # <<>> THEN attr.linkage_name ELSE IF s # <<>> THEN s[1].qualified ELSE <<>>

ComputeQualifiedName(attr, s) ==
    IF Qualified(attr, s) # <<>> THEN Qualified(attr, s)
    ELSE MakeQualifiedName(Enclosing(s), Unqualified(attr, s))

\* What a declaration leaves for others.
Recorded(attr, s) ==
    IF Qualified(attr, s) # <<>>
    THEN [qualified |-> Qualified(attr, s), enclosing |-> <<>>, unqualified |-> <<>>]
    ELSE [qualified |-> <<>>, enclosing |-> Enclosing(s), unqualified |-> Unqualified(attr, s)]

\* A subprogram: Finish makes a function, or an abstract origin.
Function(attr, name, die) ==
    LET high == IF attr.length THEN attr.high_pc + attr.low_pc ELSE attr.high_pc
    IN  /\ functions' = IF attr.low_pc < high /\ attr.low_pc # 0
                        THEN Append(functions, [name |-> IF name = <<>> THEN <<"<name omitted>">> ELSE name,
                                                address |-> attr.low_pc, size |-> high - attr.low_pc, die |-> die])
                        ELSE functions
        /\ origins' = IF attr.low_pc >= high /\ attr.inline THEN With(origins, die, name) ELSE origins

StartDIE(attr, spec, origin) ==
    /\ state = "unit" /\ Len(dies) < MaxDIEs
    /\ spec # 0 => "specification" \in attr.refers
    /\ origin # 0 => "abstract_origin" \in attr.refers
    /\ LET die == Len(dies) + 1
           s == Specification(spec)
           own == ComputeQualifiedName(attr, s)
       IN  /\ dies' = Append(dies, [attr |-> attr, spec |-> spec, origin |-> origin,
                                    parent |-> handlers[Len(handlers)].die, unit |-> units, language |-> language])
           /\ specifications' = IF attr.declaration THEN With(specifications, die, Recorded(attr, s)) ELSE specifications
           /\ IF attr.tag = "subprogram"
              THEN /\ Function(attr, IF own = <<>> /\ origin \in DOMAIN origins THEN origins[origin] ELSE own, die)
                   /\ UNCHANGED handlers
              ELSE /\ handlers' = Append(handlers, [name |-> own, die |-> die])
                   /\ UNCHANGED <<functions, origins>>
    /\ UNCHANGED <<language, cu_offset, added, units, state>>

EndScope ==
    /\ state = "unit" /\ Len(handlers) > 1
    /\ handlers' = SubSeq(handlers, 1, Len(handlers) - 1)
    /\ UNCHANGED <<language, cu_offset, specifications, origins, functions, added, dies, units, state>>

HasFunctions == language # "Assembler"

\* Finish of the unit, and its destruction.
EndUnit ==
    /\ state = "unit" /\ Len(handlers) = 1
    /\ IF HasFunctions
       THEN /\ added' = added \o functions
            /\ specifications' = IF handle_inter_cu_refs_ THEN specifications ELSE NoTable
       ELSE UNCHANGED <<added, specifications>>
    /\ functions' = <<>> /\ handlers' = <<>> /\ state' = "file"
    /\ UNCHANGED <<language, cu_offset, origins, dies, units>>

Over == state = "file" /\ UNCHANGED vars

Next ==
    \/ \E lang \in Languages : StartUnit(lang)
    \/ \E attr \in Attributes, spec, origin \in 0..Len(dies) : StartDIE(attr, spec, origin)
    \/ EndScope \/ EndUnit \/ Over

Spec == Init /\ [][Next]_vars

-----------------------------------------------------------------------------
(* What the tree of DIEs says *)

\* The declaration that a DIE is for, 0 if there is none that can be had.
Declaration(d) ==
    LET t == dies[d].spec
    IN  IF t = 0 THEN 0
        ELSE IF dies[t].attr = <<>> THEN 0
        ELSE IF ~dies[t].attr.declaration THEN 0
        ELSE IF ~handle_inter_cu_refs_ /\ dies[t].unit # dies[d].unit THEN 0 ELSE t

Joined(lang, parent, name) ==
    IF lang = "Assembler" \/ parent = <<>> THEN name
    ELSE parent \o <<IF lang = "C++" THEN "::" ELSE ".">> \o name

\* By DIE, its full name, and the scope and name that it is found by.
Names ==
    LET n[d \in 1..Len(dies)] ==
          LET t == Declaration(d)
              attr == dies[d].attr
              linkage == IF attr.linkage_name # <<>> THEN attr.linkage_name ELSE IF t # 0 THEN n[t].linkage ELSE <<>>
              scope == IF t # 0 THEN n[t].scope ELSE n[dies[d].parent].full
              name == IF attr.name = <<>> /\ t # 0 THEN n[t].name ELSE attr.name
          IN  IF dies[d].parent = 0 THEN [full |-> <<>>, linkage |-> <<>>, scope |-> <<>>, name |-> <<>>]
              ELSE [full |-> IF linkage # <<>> THEN linkage ELSE Joined(dies[d].language, scope, name),
                    linkage |-> linkage,
                    scope |-> IF linkage # <<>> THEN <<>> ELSE scope,
                    name |-> IF linkage # <<>> THEN <<>> ELSE name]
    IN  n

\* An abstract origin that is known.
IsOrigin(o) == o # 0 /\ dies[o].attr # <<>> /\ dies[o].attr.inline /\ dies[o].attr.high_pc = 0

(***************************************************************************)
(* The function of a DIE has the name that the tree gives it, across       *)
(* units, through chains of declarations and in any order of declarations  *)
(* and definitions; only one that has none is "<name omitted>" (lines 373  *)
(* to 431, 523 to 552).                                                    *)
(***************************************************************************)
NamesAsDeclared ==
    \A i \in 1..Len(added) :
        LET d == added[i].die
            own == Names[d].full
            o == dies[d].origin
        IN  added[i].name =
                IF own # <<>> THEN own
                ELSE IF IsOrigin(o) /\ Names[o].full # <<>> THEN Names[o].full ELSE <<"<name omitted>">>

Size(attr) == IF attr.length THEN attr.high_pc ELSE attr.high_pc - attr.low_pc

\* DIEs with code, in units that have functions.
WithCode == {d \in 1..Len(dies) : /\ dies[d].attr # <<>> /\ dies[d].language # "Assembler"
                                  /\ dies[d].attr.tag = "subprogram" /\ dies[d].attr.low_pc > 0 /\ Size(dies[d].attr) > 0}

(***************************************************************************)
(* Between units the module has each function with code of the units read, *)
(* once, with its size, and no function of a unit in assembler.            *)
(***************************************************************************)
EachFunctionOnce ==
    state = "file" =>
        /\ {added[i].die : i \in 1..Len(added)} = WithCode
        /\ \A i, j \in 1..Len(added) : i < j => added[i].die < added[j].die
        /\ \A i \in 1..Len(added) : added[i].size = Size(dies[added[i].die].attr)
=============================================================================
