------------------------------ MODULE LineInfo ------------------------------
(***************************************************************************)
(* common/dwarf/dwarf2reader.cc, class LineInfo, which runs the line       *)
(* number program of a unit, with common/dwarf_line_to_module.cc, the      *)
(* handler that collects its lines.                                        *)
(*                                                                         *)
(* The program is one opcode after the other, as a tuple; an opcode also   *)
(* has the size that it has in the file.  Addresses are modulo Space       *)
(* (2^64 in the code).                                                     *)
(***************************************************************************)
EXTENDS Integers, Sequences

CONSTANTS
    Space,
    Headers,            \* [min_insn_length, line_base, line_range, opcode_base]
    Opcodes,            \* opcodes of a program
    Dirs, Files,        \* the tables of the header: <<path, ...>>, <<[name, dir], ...>>
    compilation_dir_,   \* a path
    Pc,                 \* the address that a caller looks for
    MaxOpcodes,         \* bound: opcodes of a program
    MaxMisread          \* bound: opcodes that are read at a wrong place

VARIABLES
    header,
    lsm,        \* the line state machine
    pending,    \* <<row>> that has not been reported, or <<>>
    files_, highest_file_number_,
    omitted_line_end_,
    lines_,     \* what the handler keeps
    passes,     \* lsm_passes_pc after the last opcode
    misread,    \* opcodes that were read at a wrong place
    ahead,      \* lineptr, from the end of the last opcode that it has come to
    program,    \* the opcodes of the file that it has come to
    matrix      \* the rows that opcodes added: [row, end of sequence, at which opcode]

vars == <<header, lsm, pending, files_, highest_file_number_, omitted_line_end_, lines_, passes, misread, ahead, program, matrix>>

-----------------------------------------------------------------------------
(* The handler *)

NoPath == [absolute |-> FALSE, parts |-> <<>>]

ExpandPath(path, base) ==
    IF path.absolute \/ base = NoPath THEN path
    ELSE [absolute |-> base.absolute, parts |-> base.parts \o path.parts]

\* DefineDir, in the header, and what a number then means.
Directory(n) ==
    IF n = 0 THEN compilation_dir_
    ELSE IF n \in 1..Len(Dirs) THEN ExpandPath(Dirs[n], compilation_dir_) ELSE NoPath

\* DefineFile.
FilePath(name, dir) == ExpandPath(name, Directory(dir))

\* The end of the line if it is omitted, 0 if not.
OmittedEnd(address, size) ==
    IF address = 0 \/ address = omitted_line_end_ THEN (address + size) % Space ELSE 0

\* Lines are not to extend beyond the end of the address space.
Clipped(address, size) == IF (address + size) % Space < address THEN Space - address ELSE size

AddLine(address, size, row) ==
    LET clipped == Clipped(address, size)
    IN  IF size = 0 THEN UNCHANGED <<omitted_line_end_, lines_>>
        ELSE /\ omitted_line_end_' = OmittedEnd(address, clipped)
             /\ lines_' = IF address # 0 /\ address # omitted_line_end_ /\ row.file_num \in DOMAIN files_
                          THEN Append(lines_, [address |-> address, size |-> clipped,
                                               file |-> files_[row.file_num], number |-> row.line_num])
                          ELSE lines_

-----------------------------------------------------------------------------
(* The reader *)

Reset(file) == [address |-> 0, file_num |-> 1, line_num |-> 1]

Init ==
    /\ header \in Headers
    /\ lsm = Reset(1) /\ pending = <<>>
    /\ files_ = [i \in 1..Len(Files) |-> FilePath(Files[i].name, Files[i].dir)]
    /\ highest_file_number_ = IF Files = <<>> THEN -1 ELSE Len(Files)
    /\ omitted_line_end_ = 0 /\ lines_ = <<>> /\ passes = FALSE /\ misread = 0
    /\ ahead = 0 /\ program = <<>> /\ matrix = <<>>

\* How an opcode moves the address.
Advance(op) ==
    CASE op[1] = "special" -> ((op[2] - header.opcode_base) \div header.line_range) * header.min_insn_length
      [] op[1] = "advance_pc" -> header.min_insn_length * op[2]
      [] op[1] = "fixed_advance_pc" -> op[2]
      [] op[1] = "const_add_pc" -> header.min_insn_length * ((255 - header.opcode_base) \div header.line_range)
      [] OTHER -> 0

AdvanceLine(op) ==
    CASE op[1] = "special" -> ((op[2] - header.opcode_base) % header.line_range) + header.line_base
      [] op[1] = "advance_line" -> op[2]
      [] OTHER -> 0

\* The state machine after an opcode; set_column, negate_stmt and
\* set_basic_block change what is not looked at.
After(op) ==
    [address |-> IF op[1] = "set_address" THEN op[2] ELSE (lsm.address + Advance(op)) % Space,
     file_num |-> IF op[1] = "set_file" THEN op[2] ELSE lsm.file_num,
     line_num |-> lsm.line_num + AdvanceLine(op)]

AddsRow(op) == op[1] \in {"special", "copy", "end_sequence"}

\* Whether an opcode passes Pc.
Passes(op) ==
    \/ /\ op[1] \in {"special", "advance_pc", "fixed_advance_pc", "const_add_pc"}
       /\ lsm.address <= Pc /\ Pc < lsm.address + Advance(op)
    \/ op[1] = "advance_line" /\ lsm.address = Pc

\* What an opcode takes in the file: op[3] bytes of name in define_file, as
\* many operands as the header says in one that is not known.
Size(op) ==
    CASE op[1] \in {"advance_pc", "advance_line", "set_file", "set_column"} -> 2
      [] op[1] = "fixed_advance_pc" -> 3
      [] op[1] = "end_sequence" -> 3
      [] op[1] = "set_address" -> 3 + 8
      [] op[1] = "define_file" -> 3 + op[3] + 3
      [] op[1] = "unknown" -> 1 + op[2]
      [] op[1] = "unknown_extended" -> 3 + op[2]
      [] OTHER -> 1

\* What ProcessOneOpcode takes it to be.
OpcodeLength(op) == IF op[1] = "define_file" THEN Size(op) + 3 ELSE Size(op)

\* The row to report next.
PendingAfter(op) == IF op[1] = "end_sequence" THEN <<>> ELSE <<After(op)>>

\* ProcessOneOpcode, and what ReadLines does with the row it adds: a row is
\* reported when the next one is known, or the end of its sequence.
ProcessOneOpcode(op) ==
    /\ passes' = Passes(op)
    /\ IF op[1] = "define_file"
       THEN /\ files_' = [i \in DOMAIN files_ \cup {highest_file_number_ + 1} |->
                            IF i = highest_file_number_ + 1 THEN FilePath(op[2].name, op[2].dir) ELSE files_[i]]
            /\ highest_file_number_' = highest_file_number_ + 1
       ELSE UNCHANGED <<files_, highest_file_number_>>
    /\ IF AddsRow(op)
       THEN /\ IF pending # <<>>
               THEN AddLine(pending[1].address, (After(op).address - pending[1].address) % Space, pending[1])
               ELSE UNCHANGED <<omitted_line_end_, lines_>>
            /\ pending' = PendingAfter(op)
            /\ matrix' = Append(matrix, [row |-> After(op), end |-> op[1] = "end_sequence", at |-> Len(program')])
       ELSE UNCHANGED <<omitted_line_end_, lines_, pending, matrix>>
    /\ lsm' = IF op[1] = "end_sequence" THEN Reset(lsm.file_num) ELSE After(op)
    /\ UNCHANGED header

\* The next opcode of the file, when lineptr is where it begins.
OpcodeAtItsPlace(op) ==
    /\ ahead = 0 /\ Len(program) < MaxOpcodes
    /\ program' = Append(program, op)
    /\ ahead' = OpcodeLength(op) - Size(op)
    /\ ProcessOneOpcode(op)
    /\ UNCHANGED misread

\* The next opcode of the file begins before lineptr.
PassedOver(op) ==
    /\ ahead > 0 /\ Len(program) < MaxOpcodes
    /\ program' = Append(program, op)
    /\ ahead' = ahead - Size(op)
    /\ UNCHANGED <<header, lsm, pending, files_, highest_file_number_, omitted_line_end_, lines_, passes, misread, matrix>>

\* lineptr is inside the last opcode: its operands are read as another one.
OperandsAsOpcode(op) ==
    /\ ahead < 0 /\ misread < MaxMisread
    /\ misread' = misread + 1
    /\ UNCHANGED program
    /\ ahead' = ahead + OpcodeLength(op)
    /\ ProcessOneOpcode(op)

\* The program may end anywhere.
Over == UNCHANGED vars

Next ==
    \/ \E op \in Opcodes : OpcodeAtItsPlace(op) \/ PassedOver(op) \/ OperandsAsOpcode(op)
    \/ Over

Spec == Init /\ [][Next]_vars

-----------------------------------------------------------------------------
(* Properties *)

\* The rows of the matrix that have a next one in their sequence.
Reported == {i \in 1..(Len(matrix) - 1) : ~matrix[i].end}

RangeOf(i) == [address |-> matrix[i].row.address,
               size |-> (matrix[i + 1].row.address - matrix[i].row.address) % Space]

\* No opcode follows a DW_LNE_define_file.
NothingMisread == \A n \in 1..(Len(program) - 1) : program[n][1] # "define_file"

(***************************************************************************)
(* Each line that is kept is a row of the program with the code up to the  *)
(* next row of its sequence: no row is reported with the code of another   *)
(* sequence, or one of none (dwarf2reader.cc:819-848).  Not claimed of the *)
(* opcodes after a DW_LNE_define_file, whose length is taken three too     *)
(* large (dwarf2reader.cc:766-775): they are read at the wrong place.      *)
(***************************************************************************)
LinesAreRows ==
    NothingMisread =>
    \A k \in 1..Len(lines_) :
        \E i \in Reported :
            /\ lines_[k].address = RangeOf(i).address
            /\ lines_[k].size \in {RangeOf(i).size, Space - RangeOf(i).address}
            /\ lines_[k].number = matrix[i].row.line_num
            /\ lines_[k].file = files_[matrix[i].row.file_num]

\* The opcodes of a row's sequence, up to the one that added it.
OpcodesOf(i) ==
    {n \in 1..matrix[i].at : \A j \in n..(matrix[i].at - 1) : program[j][1] # "end_sequence"}

(***************************************************************************)
(* A sequence begins in the state that the standard gives: its rows are of *)
(* the first file until it says otherwise, whatever the sequences before   *)
(* it have said (line_state_machine.h:39).  Not claimed after a            *)
(* DW_LNE_define_file either.                                              *)
(***************************************************************************)
SequencesStartAfresh ==
    NothingMisread =>
    \A i \in 1..Len(matrix) :
        (\A n \in OpcodesOf(i) : program[n][1] # "set_file") => matrix[i].row.file_num = 1

\* The first row of the sequence of row i.
FirstRow(i) ==
    CHOOSE f \in 1..i : (f = 1 \/ matrix[f - 1].end) /\ \A j \in f..(i - 1) : ~matrix[j].end

Ascends(f, i) == \A j \in f..i : matrix[j].row.address <= matrix[j + 1].row.address

(***************************************************************************)
(* dwarf_line_to_module.h:109: the lines of code that the linker dropped   *)
(* are dropped with it: a sequence of ascending rows from address zero     *)
(* leaves no line.                                                         *)
(***************************************************************************)
DroppedCodeHasNoLines ==
    \A k \in 1..Len(lines_) :
        \E i \in Reported : /\ lines_[k].address = RangeOf(i).address
                            /\ ~(matrix[FirstRow(i)].row.address = 0 /\ Ascends(FirstRow(i), i))

\* Rows whose sequence begins where no line that was dropped can end.
KeptRows ==
    {i \in Reported : /\ RangeOf(i).size > 0 /\ Ascends(FirstRow(i), i)
                      /\ matrix[i].row.file_num \in DOMAIN files_
                      /\ matrix[FirstRow(i)].row.address > 0
                      /\ \A j \in Reported : j < FirstRow(i) => matrix[j + 1].row.address # matrix[FirstRow(i)].row.address}

(***************************************************************************)
(* Code that was dropped takes no line of other sequences with it, unless  *)
(* one begins right where it ended (dwarf_line_to_module.cc:119).          *)
(***************************************************************************)
LiveCodeHasLines ==
    \A i \in KeptRows :
        \E k \in 1..Len(lines_) : lines_[k].address = RangeOf(i).address /\ lines_[k].number = matrix[i].row.line_num

=============================================================================
