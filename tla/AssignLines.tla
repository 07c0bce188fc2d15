----------------------------- MODULE AssignLines -----------------------------
(***************************************************************************)
(* common/dwarf_cu_to_module.cc, AssignLinesToFunctions: one pass through  *)
(* the functions and the lines of a unit, both in order of address, which  *)
(* gives each function the pieces of lines that it covers and warns of     *)
(* what is covered by one of the two only.                                 *)
(*                                                                         *)
(* Functions and lines are ranges [address, size].  Addresses are modulo   *)
(* Space; ranges may overlap each other and end at the end of it.          *)
(***************************************************************************)
EXTENDS Integers, Sequences

CONSTANTS
    Space,
    MaxFunctions, MaxLines     \* bounds: functions and lines of the unit

VARIABLES
    functions, lines_,     \* sorted by address
    func_it, line_it,      \* the current ones; one past the last at the end
    current,
    pieces,                \* by function, <<address, size, line>>, ...
    last_line_used, last_function_cited, last_line_cited,   \* 0 if none
    cited,                 \* the warnings: <<"function" or "line", which>>
    asserts,               \* no assertion has failed
    state                  \* "start", "loop" or "done"

inputs == <<functions, lines_>>
vars == <<functions, lines_, func_it, line_it, current, pieces, last_line_used, last_function_cited, last_line_cited, cited, asserts, state>>

\* FuncHandler::Finish makes no empty function, and AddLine no empty line,
\* nor either at zero or past the end.
Items == {i \in [address : 1..(Space - 1), size : 1..(Space - 1)] : i.address + i.size <= Space}

Sorted(n) == {s \in UNION {[1..k -> Items] : k \in 0..n} :
                 \A i \in 1..(Len(s) - 1) : s[i].address <= s[i + 1].address}

Init ==
    /\ functions \in Sorted(MaxFunctions) /\ lines_ \in Sorted(MaxLines)
    /\ func_it = 1 /\ line_it = 1 /\ current = 0
    /\ pieces = [f \in 1..Len(functions) |-> <<>>]
    /\ last_line_used = 0 /\ last_function_cited = 0 /\ last_line_cited = 0
    /\ cited = <<>> /\ asserts = TRUE /\ state = "start"

within(item, address) == (address - item.address) % Space < item.size

hasFunc == func_it <= Len(functions)
hasLine == line_it <= Len(lines_)
func == functions[func_it]
line == lines_[line_it]

Least(a, b) == IF a < b THEN a ELSE b

Start ==
    /\ state = "start"
    /\ IF ~hasFunc /\ ~hasLine THEN state' = "done" /\ UNCHANGED current
       ELSE /\ state' = "loop"
            /\ current' = IF ~hasFunc THEN line.address ELSE IF ~hasLine THEN func.address
                          ELSE Least(func.address, line.address)
    /\ UNCHANGED <<inputs, func_it, line_it, pieces, last_line_used, last_function_cited, last_line_cited, cited, asserts>>

\* How far the function and the line go on together.
Left(f, l) == Least(f.size - (current - f.address), l.size - (current - l.address))

\* The iterators are advanced past what ends before the next transition.
Advance(s, it, next) ==
    CHOOSE i \in it..(Len(s) + 1) :
        /\ i = Len(s) + 1 \/ next < s[i].address \/ within(s[i], next)
        /\ \A j \in it..(i - 1) : next >= s[j].address /\ ~within(s[j], next)

\* Padding after a function: its last line goes on to the next function.
Padding == hasFunc /\ line_it = last_line_used /\ (func.address - line.address) % Space = line.size

\* A function or a line ends with the address space.
AtEnd(next) == next = 0

\* The assertion at the top of the loop, of one iterator.
NotPassed(s, it) == it > Len(s) \/ current < s[it].address \/ within(s[it], current)

\* Both at the top (929, 930), and that the loop goes forward (1024).
Asserted(next) == NotPassed(functions, func_it) /\ NotPassed(lines_, line_it) /\ (AtEnd(next) \/ next > current)

MoveTo(next) ==
    /\ asserts' = (asserts /\ Asserted(next))
    /\ IF AtEnd(next)
       THEN state' = "done" /\ UNCHANGED <<func_it, line_it, current>>
       ELSE
         /\ func_it' = Advance(functions, func_it, next)
         /\ line_it' = Advance(lines_, line_it, next)
         /\ current' = next
         /\ state' = IF func_it' > Len(functions) /\ line_it' > Len(lines_) THEN "done" ELSE "loop"

InFunc == hasFunc /\ current >= func.address
InLine == hasLine /\ current >= line.address

AtTop == state = "loop" /\ (hasFunc \/ hasLine)

Both ==
    /\ AtTop /\ InFunc /\ InLine
    /\ pieces' = [pieces EXCEPT ![func_it] = Append(@, <<current, Left(func, line), line_it>>)]
    /\ last_line_used' = line_it
    /\ MoveTo((current + Left(func, line)) % Space)
    /\ UNCHANGED <<inputs, last_function_cited, last_line_cited, cited>>

FunctionOnly ==
    /\ AtTop /\ InFunc /\ ~InLine
    /\ IF func_it # last_function_cited
       THEN cited' = Append(cited, <<"function", func_it>>) /\ last_function_cited' = func_it
       ELSE UNCHANGED <<cited, last_function_cited>>
    /\ MoveTo(IF hasLine /\ within(func, line.address) THEN line.address ELSE (func.address + func.size) % Space)
    /\ UNCHANGED <<inputs, pieces, last_line_used, last_line_cited>>

LineOnly ==
    /\ AtTop /\ ~InFunc /\ InLine
    /\ IF line_it # last_line_cited /\ ~Padding
       THEN cited' = Append(cited, <<"line", line_it>>) /\ last_line_cited' = line_it
       ELSE UNCHANGED <<cited, last_line_cited>>
    /\ MoveTo(IF hasFunc /\ within(line, func.address) THEN func.address ELSE (line.address + line.size) % Space)
    /\ UNCHANGED <<inputs, pieces, last_line_used, last_function_cited>>

Neither ==
    /\ AtTop /\ ~InFunc /\ ~InLine
    /\ MoveTo(IF ~hasLine THEN func.address ELSE IF ~hasFunc THEN line.address ELSE Least(func.address, line.address))
    /\ UNCHANGED <<inputs, pieces, last_line_used, last_function_cited, last_line_cited, cited>>

Over == state = "done" /\ UNCHANGED vars

Iterate == Both \/ FunctionOnly \/ LineOnly \/ Neither

Next == Start \/ Both \/ FunctionOnly \/ LineOnly \/ Neither \/ Over

\* A function that runs to its end.
Spec == Init /\ [][Next]_vars /\ WF_vars(Start \/ Iterate)

-----------------------------------------------------------------------------
Covers(item, a) == a >= item.address /\ a < item.address + item.size

Disjoint(s) == \A i, j \in 1..Len(s) : i < j => s[i].address + s[i].size <= s[j].address

PiecesAt(f, a) == {i \in 1..Len(pieces[f]) : pieces[f][i][1] <= a /\ a < pieces[f][i][1] + pieces[f][i][2]}

(***************************************************************************)
(* Each byte of a function that a line covers is given that line, once, in *)
(* that function, and nothing else is given any, when neither functions    *)
(* nor lines overlap.                                                      *)
(***************************************************************************)
LinesAreDoledOut ==
    state = "done" /\ Disjoint(functions) /\ Disjoint(lines_) =>
        \A f \in 1..Len(functions), a \in 1..(Space - 1) :
            {pieces[f][i][3] : i \in PiecesAt(f, a)}
                = IF Covers(functions[f], a) THEN {n \in 1..Len(lines_) : Covers(lines_[n], a)} ELSE {}

(***************************************************************************)
(* module.h:98: the lines of a function are "sorted by increasing          *)
(* address", do not overlap and stay within their line and the function,   *)
(* even if lines or functions do overlap.                                  *)
(***************************************************************************)
PiecesFit ==
    \A f \in 1..Len(functions) : \A i \in 1..Len(pieces[f]) :
        LET p == pieces[f][i]
        IN  /\ p[2] > 0
            /\ i > 1 => pieces[f][i - 1][1] + pieces[f][i - 1][2] <= p[1]
            /\ \A a \in p[1]..(p[1] + p[2] - 1) : Covers(functions[f], a) /\ Covers(lines_[p[3]], a)

(***************************************************************************)
(* The pass ends and no assertion fails, even if lines or functions        *)
(* overlap: the comment at line 1009 asks that it does not "hang or crash" *)
(* then.  It ends because each iteration but the last goes forward.        *)
(***************************************************************************)
NoHangOrCrash == asserts /\ current < Space

Lacks(item, others) == \E a \in 1..(Space - 1) : Covers(item, a) /\ \A i \in 1..Len(others) : ~Covers(others[i], a)

\* The line has a function's bytes, then none up to its end, where a
\* function begins.
IsPadding(l) ==
    \E f \in 1..Len(functions) :
        /\ functions[f].address = l.address + l.size
        /\ \E g \in 1..Len(functions) : Covers(functions[g], l.address)
        /\ \A a, b \in l.address..(l.address + l.size - 1) :
               a < b /\ ~(\E g \in 1..Len(functions) : Covers(functions[g], a)) =>
                   ~\E g \in 1..Len(functions) : Covers(functions[g], b)

(***************************************************************************)
(* Each function with bytes that have no line, and each line with bytes    *)
(* that no function has, is warned of exactly once, except for the padding *)
(* that the comment at line 965 describes.                                 *)
(***************************************************************************)
WarnedOnce ==
    state = "done" /\ Disjoint(functions) /\ Disjoint(lines_) =>
        /\ \A i, j \in 1..Len(cited) : cited[i] = cited[j] => i = j
        /\ \A f \in 1..Len(functions) : (\E i \in 1..Len(cited) : cited[i] = <<"function", f>>) <=> Lacks(functions[f], lines_)
        /\ \A l \in 1..Len(lines_) :
               (\E i \in 1..Len(cited) : cited[i] = <<"line", l>>)
                   <=> Lacks(lines_[l], functions) /\ ~IsPadding(lines_[l])

=============================================================================
