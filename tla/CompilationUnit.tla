--------------------------- MODULE CompilationUnit ---------------------------
(***************************************************************************)
(* common/dwarf/dwarf2reader.cc, class CompilationUnit: reads the units of *)
(* a .debug_info section one after the other and reports their debugging   *)
(* information entries (DIEs) to a handler, which may skip any of them.    *)
(*                                                                         *)
(* A section is a sequence of units, a unit a sequence of DIEs in the      *)
(* order of the file, with Null where a list of children ends.  A DIE has  *)
(* the forms of its attributes; a form has a name and, where its size is   *)
(* in the data, that size, or the DIE it refers to.  Positions are in      *)
(* bytes.                                                                  *)
(***************************************************************************)
EXTENDS Integers, Sequences

CONSTANTS
    Sections     \* sequences of units

IsNull(die) == "null" \in DOMAIN die

VARIABLES
    section,
    unit,         \* the unit that is read
    offset,       \* offset_from_section_start_
    dieptr,       \* where the next DIE is read, from the start of the unit
    index,        \* the DIE that is there, 0 if there is none
    die_stack,    \* offsets of DIEs whose children are read
    offset_size_, address_size_,  \* of the ByteReader, shared with others
    calls,        \* what the handler has been told
    state         \* "unit", "dies", "done", or "faulted" if the reader read from NULL

vars == <<section, unit, offset, dieptr, index, die_stack, offset_size_, address_size_, calls, state>>

Init ==
    /\ section \in Sections
    /\ unit = 1 /\ offset = 0 /\ dieptr = 0 /\ index = 0 /\ die_stack = <<>>
    /\ offset_size_ = 0 /\ address_size_ = 0 /\ calls = <<>> /\ state = "unit"

-----------------------------------------------------------------------------
(* The file, as DWARF has it *)

WideOf(u) == IF u.wide THEN 8 ELSE 4
InitialLength(u) == IF u.wide THEN 12 ELSE 4
HeaderSize(u) == InitialLength(u) + 2 + WideOf(u) + 1

TrueSize(f, u) ==
    CASE f.form \in {"data1", "flag", "ref1"} -> 1
      [] f.form \in {"data2", "ref2"} -> 2
      [] f.form \in {"data4", "ref4"} -> 4
      [] f.form \in {"data8", "ref8", "ref_sig8"} -> 8
      [] f.form = "flag_present" -> 0
      [] f.form \in {"string", "udata", "ref_udata", "sdata"} -> f.n
      [] f.form = "block1" -> 1 + f.n
      [] f.form = "block2" -> 2 + f.n
      [] f.form = "block4" -> 4 + f.n
      [] f.form \in {"block", "exprloc"} -> 1 + f.n
      [] f.form = "addr" -> u.address_size
      [] f.form = "ref_addr" -> IF u.version = 2 THEN u.address_size ELSE WideOf(u)
      [] f.form \in {"strp", "sec_offset"} -> WideOf(u)
      [] f.form = "indirect" -> 1 + f.n
      [] f.form = "unhandled" -> f.n

\* A code of one byte, and the attributes.
DIESize(die, u) ==
    IF IsNull(die) THEN 1
    ELSE LET size[i \in 0..Len(die.forms)] == IF i = 0 THEN 1 ELSE size[i - 1] + TrueSize(die.forms[i], u)
         IN  size[Len(die.forms)]

\* Where the i-th DIE of a unit is, from the start of the unit.
TrueOffset(u, i) ==
    LET at[j \in 1..i] == IF j = 1 THEN HeaderSize(u) ELSE at[j - 1] + DIESize(u.dies[j - 1], u)
    IN  at[i]

UnitSize(u) == TrueOffset(u, Len(u.dies)) + DIESize(u.dies[Len(u.dies)], u)

\* Where the u-th unit is.
TrueStart(k) ==
    LET at[j \in 1..k] == IF j = 1 THEN 0 ELSE at[j - 1] + UnitSize(section[j - 1])
    IN  at[k]

-----------------------------------------------------------------------------
(* The code *)

this == section[unit]

\* Mutant: a reference to the section has the size of an offset.
SkipRefAddrAsOffset(f) == IF f.form = "ref_addr" THEN offset_size_ ELSE TrueSize(f, this)

SkipAttribute(f) ==
    CASE f.form = "indirect" -> 1 + f.n
      [] f.form = "flag_present" -> 0
      [] f.form \in {"data1", "flag", "ref1"} -> 1
      [] f.form \in {"ref2", "data2"} -> 2
      [] f.form \in {"ref4", "data4"} -> 4
      [] f.form \in {"ref8", "data8", "ref_sig8"} -> 8
      [] f.form \in {"string", "udata", "ref_udata", "sdata"} -> f.n
      [] f.form = "addr" -> address_size_
      [] f.form = "ref_addr" -> IF this.version = 2 THEN address_size_ ELSE offset_size_
      [] f.form = "block1" -> 1 + f.n
      [] f.form = "block2" -> 2 + f.n
      [] f.form = "block4" -> 4 + f.n
      [] f.form \in {"block", "exprloc"} -> f.n + 1
      [] f.form \in {"strp", "sec_offset"} -> offset_size_

ProcessAttribute(f) ==
    CASE f.form = "indirect" -> 1 + f.n
      [] f.form = "flag_present" -> 0
      [] f.form \in {"data1", "flag"} -> 1
      [] f.form = "data2" -> 2
      [] f.form = "data4" -> 4
      [] f.form = "data8" -> 8
      [] f.form \in {"string", "udata", "sdata"} -> f.n
      [] f.form = "addr" -> address_size_
      [] f.form = "sec_offset" -> offset_size_
      [] f.form = "ref1" -> 1
      [] f.form = "ref2" -> 2
      [] f.form = "ref4" -> 4
      [] f.form = "ref8" -> 8
      [] f.form = "ref_udata" -> f.n
      [] f.form = "ref_addr" -> IF this.version = 2 THEN address_size_ ELSE offset_size_
      [] f.form = "ref_sig8" -> 8
      [] f.form = "block1" -> 1 + f.n
      [] f.form = "block2" -> 2 + f.n
      [] f.form = "block4" -> 4 + f.n
      [] f.form \in {"block", "exprloc"} -> f.n + 1
      [] f.form = "strp" -> offset_size_

\* What a reference in the file is reported as.
Reference(value, form) == IF form = "ref_addr" THEN value ELSE value + offset

\* What the file has for it.
Stored(f) == (IF f.form = "ref_addr" THEN TrueStart(unit) ELSE 0) + TrueOffset(this, f.target)

SkipDIE(die) ==
    LET size[i \in 0..Len(die.forms)] == IF i = 0 THEN 1 ELSE size[i - 1] + SkipAttribute(die.forms[i])
    IN  size[Len(die.forms)]

ProcessDIE(die) ==
    LET size[i \in 0..Len(die.forms)] == IF i = 0 THEN 1 ELSE size[i - 1] + ProcessAttribute(die.forms[i])
    IN  size[Len(die.forms)]

References(die) ==
    LET refs == SelectSeq(die.forms, LAMBDA f : f.form \in {"ref1", "ref2", "ref4", "ref8", "ref_udata", "ref_addr"})
    IN  [i \in 1..Len(refs) |-> <<"Reference", unit, refs[i].target, Reference(Stored(refs[i]), refs[i].form)>>]

\* SkipAttribute and ProcessAttribute return NULL for a form that they do not
\* know, and whatever is read next is read from there.
FirstUnhandled(die) ==
    CHOOSE i \in 1..(Len(die.forms) + 1) :
        /\ i = Len(die.forms) + 1 \/ die.forms[i].form = "unhandled"
        /\ \A j \in 1..(i - 1) : die.forms[j].form # "unhandled"

Handled(die) == FirstUnhandled(die) > Len(die.forms)

\* The DIE at a position of this unit, 0 if none begins there.
At(p) ==
    IF \E i \in 1..Len(this.dies) : TrueOffset(this, i) = p
    THEN CHOOSE i \in 1..Len(this.dies) : TrueOffset(this, i) = p
    ELSE 0

\* The length of the unit, from where its length is counted.
EndOfUnit == UnitSize(this)

\* Start returns what lies between this unit and the next.
Leave ==
    /\ unit' = unit + 1
    /\ offset' = offset + EndOfUnit
    /\ dieptr' = 0 /\ index' = 0 /\ die_stack' = <<>>
    /\ state' = IF unit = Len(section) THEN "done" ELSE "unit"

\* ReadHeader, which sets up the reader; the handler may not want the unit.
StartUnit(wanted) ==
    /\ state = "unit"
    /\ offset_size_' = WideOf(this)
    /\ address_size_' = this.address_size
    /\ calls' = Append(calls, <<"StartCompilationUnit", unit, offset>>)
    /\ IF wanted
       THEN /\ state' = "dies" /\ dieptr' = HeaderSize(this) /\ index' = 1
            /\ UNCHANGED <<unit, offset, die_stack>>
       ELSE Leave
    /\ UNCHANGED section

\* The handler that ends the outermost DIE reads the lines of the unit, with
\* the same reader, which may leave another offset size.
Ends(ended, wide) ==
    offset_size_' = IF ended = offset + HeaderSize(this) THEN wide ELSE offset_size_

Move(size) ==
    /\ dieptr' = dieptr + size
    /\ index' = At(dieptr + size)

\* A code of zero: the end of a list, or padding.
NullDIE(wide) ==
    /\ state = "dies" /\ dieptr < EndOfUnit /\ index # 0
    /\ IsNull(this.dies[index])
    /\ IF die_stack = <<>>
       THEN Leave /\ UNCHANGED <<calls, offset_size_>>
       ELSE LET top == die_stack[Len(die_stack)]
            IN  /\ die_stack' = SubSeq(die_stack, 1, Len(die_stack) - 1)
                /\ calls' = Append(calls, <<"EndDIE", top>>)
                /\ Ends(top, wide)
                /\ Move(1)
                /\ UNCHANGED <<unit, offset, state>>
    /\ UNCHANGED <<section, address_size_>>

EndsAtOnce(die) == ~die.children

\* A DIE with a form that is not known: the handler is told of the attributes
\* before it, and the process faults.
UnhandledForm(wanted) ==
    /\ state = "dies" /\ dieptr < EndOfUnit /\ index # 0
    /\ ~IsNull(this.dies[index]) /\ ~Handled(this.dies[index])
    /\ LET die == this.dies[index]
           known == [die EXCEPT !.forms = SubSeq(@, 1, FirstUnhandled(die) - 1)]
       IN  calls' = calls \o <<<<"StartDIE", dieptr + offset, unit, index>>>> \o (IF wanted THEN References(known) ELSE <<>>)
    /\ state' = "faulted"
    /\ UNCHANGED <<section, unit, offset, dieptr, index, die_stack, offset_size_, address_size_>>

\* A DIE: skipped or reported, and ended if it has no children.
OneDIE(wanted, wide) ==
    /\ state = "dies" /\ dieptr < EndOfUnit /\ index # 0
    /\ ~IsNull(this.dies[index]) /\ Handled(this.dies[index])
    /\ LET die == this.dies[index]
           absolute_offset == dieptr + offset
           told == <<<<"StartDIE", absolute_offset, unit, index>>>> \o (IF wanted THEN References(die) ELSE <<>>)
       IN  /\ Move(IF wanted THEN ProcessDIE(die) ELSE SkipDIE(die))
           /\ die_stack' = IF die.children THEN Append(die_stack, absolute_offset) ELSE die_stack
           /\ calls' = calls \o told \o (IF EndsAtOnce(die) THEN <<<<"EndDIE", absolute_offset>>>> ELSE <<>>)
           /\ IF EndsAtOnce(die) THEN Ends(absolute_offset, wide) ELSE UNCHANGED offset_size_
    /\ UNCHANGED <<section, unit, offset, address_size_, state>>

\* The end of the unit, also inside lists of children.
EndOfDIEs ==
    /\ state = "dies" /\ dieptr >= EndOfUnit
    /\ Leave
    /\ UNCHANGED <<section, calls, offset_size_, address_size_>>

Over == state \in {"done", "faulted"} /\ UNCHANGED vars

Next ==
    \/ \E wanted \in BOOLEAN : StartUnit(wanted)
    \/ \E wide \in {4, 8} : NullDIE(wide)
    \/ \E wanted \in BOOLEAN : UnhandledForm(wanted)
    \/ \E wanted \in BOOLEAN, wide \in {4, 8} : OneDIE(wanted, wide)
    \/ EndOfDIEs \/ Over

Spec == Init /\ [][Next]_vars

-----------------------------------------------------------------------------
Is(c, name) == c[1] = name

(***************************************************************************)
(* Whichever DIEs and units the handler skips, and whatever it reads with  *)
(* the reader in between, each DIE and each unit is reported at its own    *)
(* place in the section (dwarf2reader.cc:135-213, 252-303, 464-516).  A    *)
(* form that the reader does not know ends the reading.                    *)
(***************************************************************************)
EverythingAtItsPlace ==
    /\ state = "dies" /\ dieptr < EndOfUnit => index # 0
    /\ \A i \in 1..Len(calls) :
        /\ Is(calls[i], "StartCompilationUnit") => calls[i][3] = TrueStart(calls[i][2])
        /\ Is(calls[i], "StartDIE") =>
               calls[i][2] = TrueStart(calls[i][3]) + TrueOffset(section[calls[i][3]], calls[i][4])

(***************************************************************************)
(* dwarf2reader.h:368: what is reported for a reference is "the offset of  *)
(* the DIE being referred to from the beginning of the .debug_info         *)
(* section", whether it is stored from there or from its unit.             *)
(***************************************************************************)
ReferencesResolve ==
    \A i \in 1..Len(calls) : Is(calls[i], "Reference") =>
        calls[i][4] = TrueStart(calls[i][2]) + TrueOffset(section[calls[i][2]], calls[i][3])

\* Calls about DIEs before the n-th that have started, and not ended.
Open(n) ==
    LET stack[i \in 0..n] ==
          IF i = 0 THEN <<>>
          ELSE IF Is(calls[i], "StartDIE") THEN Append(stack[i - 1], calls[i][2])
          ELSE IF Is(calls[i], "EndDIE") /\ stack[i - 1] # <<>> THEN SubSeq(stack[i - 1], 1, Len(stack[i - 1]) - 1)
          ELSE stack[i - 1]
    IN  stack[n]

(***************************************************************************)
(* DIEs are a tree: one that ends is the last that has started and not     *)
(* ended, and once the units are read all have ended, if each list of      *)
(* children in the file does (dwarf2reader.cc:492-514).                    *)
(***************************************************************************)
DIEsNest ==
    /\ \A i \in 1..Len(calls) : Is(calls[i], "EndDIE") =>
           Open(i - 1) # <<>> /\ Open(i - 1)[Len(Open(i - 1))] = calls[i][2]
    /\ state = "done" => Open(Len(calls)) = <<>>
=============================================================================
