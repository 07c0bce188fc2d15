----------------------------- MODULE ByteReader -----------------------------
(***************************************************************************)
(* common/dwarf/bytereader.cc and bytereader-inl.h: reads numbers, LEB128  *)
(* numbers and the encoded pointers of C++ exception handling data.        *)
(*                                                                         *)
(* A byte has Radix values (256 in the code), so that an address of four   *)
(* and of eight bytes are small enough to check; a LEB128 byte then has    *)
(* Radix \div 2 values and a mark that more follow.  The encodings of      *)
(* pointers are those of the code.                                         *)
(***************************************************************************)
EXTENDS Integers, Sequences

CONSTANTS
    Radix,      \* values of a byte
    Addresses,  \* base addresses that callers give
    Buffers,    \* the contents of sections
    Positions,  \* where in a section callers read
    Sizes       \* address sizes

omit == 255
aligned == 80

VARIABLES
    big,        \* endian_
    address_size_,
    offset_size_,
    bases,      \* [section, text, data, function |-> <<base>> or <<>>]
    buffer,     \* what the reader is used on, which is buffer_base_
    result      \* what the last read returned

vars == <<big, address_size_, offset_size_, bases, buffer, result>>

None == <<>>
Bases == {"section", "text", "data", "function"}

Init ==
    /\ big \in BOOLEAN /\ address_size_ \in Sizes /\ offset_size_ = 0
    /\ bases = [b \in Bases |-> None]
    /\ buffer \in Buffers /\ result = None

-----------------------------------------------------------------------------
(* Numbers *)

Width == Radix ^ 8                       \* uint64 is modulo this

\* The n bytes at position p, from 1, as an unsigned number.
ReadBytes(p, n) ==
    LET value[i \in 0..n] ==
          IF i = 0 THEN 0
          ELSE IF big THEN value[i - 1] * Radix + buffer[p + i - 1]
               ELSE value[i - 1] * Radix + buffer[p + n - i]
    IN  value[n]

ReadAddress(p) == ReadBytes(p, address_size_)

Group == Radix \div 2

\* The bytes of a LEB128 number at p: up to the first without the mark.
LEB128Length(p) ==
    CHOOSE n \in 1..(Len(buffer) - p + 1) :
        /\ buffer[p + n - 1] < Group
        /\ \A i \in 1..(n - 1) : buffer[p + i - 1] >= Group

\* Their groups; what is shifted out of the number is lost.
Groups(p, n) ==
    LET value[i \in 0..n] ==
          IF i = 0 THEN 0
          ELSE IF Group ^ (i - 1) >= Width THEN value[i - 1]
          ELSE (value[i - 1] + (buffer[p + i - 1] % Group) * Group ^ (i - 1)) % Width
    IN  value[n]

ReadUnsignedLEB128(p) == [value |-> Groups(p, LEB128Length(p)), len |-> LEB128Length(p)]

\* The sign bit of the last group is extended if the number is not full.
Extends(p, n) == Group ^ n < Width /\ buffer[p + n - 1] % Group >= Group \div 2

\* As a number modulo Width.
ReadSignedLEB128(p) ==
    LET n == LEB128Length(p)
    IN  [value |-> IF Extends(p, n) THEN (Groups(p, n) + Width - Group ^ n) % Width ELSE Groups(p, n),
         len |-> n]

\* Sign extension from n bytes: (v ^ half) - half.
SignExtend(v, n) ==
    LET half == Radix ^ n \div 2
    IN  (Width + (IF v >= half THEN v - half ELSE v + half) - half) % Width

-----------------------------------------------------------------------------
(* Encoded pointers *)

Low(e) == e % 16
Base(e) == ((e % 128) \div 16) * 16     \* e & 0x70

BaseOf(e) ==
    CASE Base(e) = 16 -> "section" [] Base(e) = 32 -> "text"
      [] Base(e) = 48 -> "data"    [] Base(e) = 64 -> "function" [] OTHER -> "none"

ValidEncoding(e) == e = omit \/ e = aligned \/ (e % 8 <= 4 /\ Base(e) <= 64)

UsableEncoding(e) == Base(e) = 0 \/ (BaseOf(e) # "none" /\ bases[BaseOf(e)] # None)

\* The low nybble: the number as it is stored, and its length.
Stored(p, e) ==
    CASE Low(e) = 0  -> [value |-> ReadAddress(p), len |-> address_size_]
      [] Low(e) = 1  -> ReadUnsignedLEB128(p)
      [] Low(e) = 2  -> [value |-> ReadBytes(p, 2), len |-> 2]
      [] Low(e) = 3  -> [value |-> ReadBytes(p, 4), len |-> 4]
      [] Low(e) = 4  -> [value |-> ReadBytes(p, 8), len |-> 8]
      [] Low(e) = 9  -> ReadSignedLEB128(p)
      [] Low(e) = 10 -> [value |-> SignExtend(ReadBytes(p, 2), 2), len |-> 2]
      [] Low(e) = 11 -> [value |-> SignExtend(ReadBytes(p, 4), 4), len |-> 4]
      [] Low(e) = 12 -> [value |-> ReadBytes(p, 8), len |-> 8]

\* Where abort or an assertion ends the read.
Aborts(e) ==
    \/ e = omit
    \/ e = aligned /\ bases["section"] = None
    \/ e # aligned /\ (Low(e) \notin {0, 1, 2, 3, 4, 9, 10, 11, 12} \/ ~UsableEncoding(e))

\* The first position from p that is aligned once the section is loaded.
Aligned(p) ==
    LET skew == bases["section"][1] % address_size_
        offset == skew + (p - 1)
    IN  ((offset + address_size_ - 1) \div address_size_) * address_size_ - skew + 1

BaseAddress(p, e) ==
    IF Base(e) = 0 THEN 0
    ELSE IF BaseOf(e) = "section" THEN bases["section"][1] + (p - 1)
    ELSE bases[BaseOf(e)][1]

\* Inappropriate upper bits are removed.
AsAddress(v) == IF address_size_ = 4 THEN v % Radix ^ 4 ELSE v % Width

EncodedPointer(p, e) ==
    IF e = aligned THEN [value |-> ReadAddress(Aligned(p)), len |-> Aligned(p) - p + address_size_]
    ELSE [value |-> AsAddress(BaseAddress(p, e) + Stored(p, e).value), len |-> Stored(p, e).len]

-----------------------------------------------------------------------------
SetBase(b) ==
    /\ \E a \in Addresses : bases' = [bases EXCEPT ![b] = <<a>>]
    /\ result' = None
    /\ UNCHANGED <<big, address_size_, offset_size_, buffer>>

SetCFIDataBase == SetBase("section")
SetTextBase == SetBase("text")
SetDataBase == SetBase("data")
SetFunctionBase == SetBase("function")
ClearFunctionBase ==
    /\ bases' = [bases EXCEPT !["function"] = None]
    /\ result' = None
    /\ UNCHANGED <<big, address_size_, offset_size_, buffer>>

\* A length of all ones says that offsets are of eight bytes.
ReadInitialLength ==
    LET long == ReadBytes(1, 4) = Radix ^ 4 - 1
    IN  /\ offset_size_' = IF long THEN 8 ELSE 4
        /\ result' = IF long THEN <<"length", ReadBytes(5, 8), 12>> ELSE <<"length", ReadBytes(1, 4), 4>>
        /\ UNCHANGED <<big, address_size_, bases, buffer>>

\* A caller who has checked the encoding reads a pointer at p.
ReadEncodedPointer(p, e) ==
    /\ result' = IF Aborts(e) THEN <<"aborts", p, e>>
                 ELSE <<"pointer", p, e, EncodedPointer(p, e).value, EncodedPointer(p, e).len>>
    /\ UNCHANGED <<big, address_size_, offset_size_, bases, buffer>>

\* What callers have checked: ReadCIEFields does, ReadFDEFields for the
\* LSDA; an aligned pointer is read without a check of its base.
Checked(e) == ValidEncoding(e) /\ (UsableEncoding(e) \/ (e = aligned /\ bases["section"] # None))

\* A read leaves no trace that another one finds, so each follows a change
\* of the reader.
Next ==
    \/ SetCFIDataBase \/ SetTextBase \/ SetDataBase \/ SetFunctionBase \/ ClearFunctionBase
    \/ result = None /\ ReadInitialLength
    \/ result = None /\ \E p \in Positions, e \in 0..255 : Checked(e) /\ ReadEncodedPointer(p, e)

Spec == Init /\ [][Next]_vars

-----------------------------------------------------------------------------
(* Reference definitions *)

\* An integer for the low n bytes of a number, in two's complement.
TwosComplement(v, n) == IF v >= Radix ^ n \div 2 THEN v - Radix ^ n ELSE v

\* The LEB128 representation of v, as bytereader.h describes it.
Small(v, signed) == IF signed THEN -(Group \div 2) <= v /\ v < Group \div 2 ELSE v < Group

Represent(v, signed) ==
    LET digits == CHOOSE n \in 1..20 : Small(v \div Group ^ (n - 1), signed)
                                       /\ \A m \in 1..(n - 1) : ~Small(v \div Group ^ (m - 1), signed)
    IN  [i \in 1..digits |-> ((v \div Group ^ (i - 1)) % Group) + (IF i < digits THEN Group ELSE 0)]

\* The last group says something that the one before it does not.
Shortest(bytes, signed) ==
    LET n == Len(bytes)
        negative == n > 1 /\ bytes[n - 1] % Group >= Group \div 2
    IN  n = 1 \/ (IF signed /\ negative THEN bytes[n] # Group - 1 ELSE bytes[n] # 0)

(***************************************************************************)
(* The bytes that represent a number, signed or unsigned and of any number *)
(* of groups up to the full width, are read as that number and to their    *)
(* last byte (bytereader-inl.h:92-135).                                    *)
(***************************************************************************)
LEB128Inverts ==
    result # None /\ result[1] = "pointer" /\ Low(result[3]) \in {1, 9} /\ Base(result[3]) = 0 /\ address_size_ = 8 =>
        LET signed == Low(result[3]) = 9
            bytes == SubSeq(buffer, result[2], result[2] + result[5] - 1)
        IN  Shortest(bytes, signed) =>
                Represent(IF signed THEN TwosComplement(result[4], 8) ELSE result[4], signed) = bytes

(***************************************************************************)
(* A pointer is the sum of its base and of what is stored, taken as signed *)
(* or unsigned as the encoding says, cut to the size of an address         *)
(* (bytereader.cc:141-242), with any endianness and any bases set before.  *)
(***************************************************************************)
PointersResolve ==
    result # None /\ result[1] = "pointer" /\ result[3] # aligned =>
        LET p == result[2]
            e == result[3]
            n == CASE e % 8 = 0 -> address_size_ [] e % 8 = 2 -> 2 [] e % 8 = 3 -> 4 [] OTHER -> 8
            raw == ReadBytes(p, n)
            value == IF Low(e) \in {2, 3, 4} THEN raw ELSE TwosComplement(raw, n)
            base == CASE Base(e) = 0 -> 0
                      [] Base(e) = 16 -> bases["section"][1] + p - 1
                      [] OTHER -> bases[BaseOf(e)][1]
        IN  Low(e) % 8 # 1 => result[4] = (base + value) % Radix ^ address_size_ /\ result[5] = n

(***************************************************************************)
(* An aligned pointer is the first one at or after the position that lies  *)
(* at a multiple of the address size once the section is loaded, and its   *)
(* length is up to its end (bytereader.cc:126-135).                        *)
(***************************************************************************)
AlignedPointers ==
    result # None /\ result[1] = "pointer" /\ result[3] = aligned =>
        LET end == result[2] + result[5]
        IN  /\ (bases["section"][1] + end - 1) % address_size_ = 0
            /\ result[5] >= address_size_ /\ result[5] < 2 * address_size_
            /\ result[4] = ReadAddress(end - address_size_)

=============================================================================
