------------------------------- MODULE TableCopy -------------------------------
(***************************************************************************)
(* What Target.CopyTable promises the loader about one table.  The rows of  *)
(* the source table become visible in the target all at once or not at all; *)
(* the call reports success only for a table that holds every row.  A call  *)
(* that reports an error promises less: PostgreSQL may have committed, or   *)
(* may still commit, a COPY whose answer never reached the caller.          *)
(***************************************************************************)
EXTENDS Naturals, Sequences

CONSTANT NumRows        (* rows 1..NumRows of the source table, in the order read *)

VARIABLES
    table,              (* rows a reader of the target table sees *)
    outcome             (* "pending" until CopyTable returns, then "ok" or "error" *)

vars == <<table, outcome>>

AllRows == [i \in 1..NumRows |-> i]

Init ==
    /\ table = <<>>
    /\ outcome = "pending"

\* PostgreSQL commits the COPY; possibly after the caller has given up.
Load ==
    /\ outcome # "ok"
    /\ table' = AllRows
    /\ UNCHANGED outcome

ReportOk ==
    /\ outcome = "pending"
    /\ table = AllRows
    /\ outcome' = "ok"
    /\ UNCHANGED table

ReportError ==
    /\ outcome = "pending"
    /\ outcome' = "error"
    /\ UNCHANGED table

Next == Load \/ ReportOk \/ ReportError

Spec == Init /\ [][Next]_vars
================================================================================
