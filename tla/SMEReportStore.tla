--------------------------- MODULE SMEReportStore ---------------------------
(***************************************************************************)
(* What the server promises of the database when no two reports have the   *)
(* same file name: a report is registered in Dumps only when its file is   *)
(* whole, its rows go in one by one, in the order of its tables, under its *)
(* own Dumps row, and nothing is added once its receiver has ended.  It    *)
(* may end early: then what is there is a prefix of the report.            *)
(***************************************************************************)
EXTENDS Naturals, Sequences

CONSTANTS
    Reports,
    Layouts     \* per report: the sequences of tables it can have

VARIABLES
    phase,      \* per report: "new", "registered" or "ended"
    whole,      \* the reports whose file is stored in full
    saved       \* per report: its rows, each with the report it is filed under

vars == <<phase, whole, saved>>

Init ==
    /\ phase = [r \in Reports |-> "new"]
    /\ whole = {}
    /\ saved = [r \in Reports |-> <<>>]

Store(r) ==
    /\ phase[r] = "new" /\ r \notin whole
    /\ whole' = whole \cup {r}
    /\ UNCHANGED <<phase, saved>>

Register(r) ==
    /\ phase[r] = "new" /\ r \in whole
    /\ phase' = [phase EXCEPT ![r] = "registered"]
    /\ UNCHANGED <<whole, saved>>

SaveRow(r) ==
    /\ phase[r] = "registered"
    /\ \E layout \in Layouts[r] :
          LET n == Len(saved[r]) + 1 IN
          /\ n <= Len(layout)
          /\ \A k \in 1 .. n - 1 : saved[r][k].table = layout[k]
          /\ saved' = [saved EXCEPT ![r] =
                           Append(@, [table |-> layout[n], under |-> r])]
    /\ UNCHANGED <<phase, whole>>

End(r) ==
    /\ phase[r] # "ended"
    /\ phase' = [phase EXCEPT ![r] = "ended"]
    /\ UNCHANGED <<whole, saved>>

Next == \E r \in Reports : Store(r) \/ Register(r) \/ SaveRow(r) \/ End(r)

Spec == Init /\ [][Next]_vars
=============================================================================
