------------------------------ MODULE SharedTarget ------------------------------
(***************************************************************************)
(* What runs of the tool may do to the target they share, whatever becomes  *)
(* of them: each relation belongs for good to the run that has taken its    *)
(* name, only this run fills it, and only once, and a run that has reported *)
(* success leaves the target alone.                                         *)
(***************************************************************************)
EXTENDS Naturals

CONSTANTS
    Runs,
    Tables              (* names of tables *)

VARIABLES
    existing,           (* names that were taken before any run *)
    owned,              (* names each run has taken *)
    loads,              (* how often a table has received its rows *)
    result              (* what a run has reported, if anything *)

shared == <<existing, owned, loads, result>>

Init ==
    /\ owned = [r \in Runs |-> {}]
    /\ loads = [t \in Tables |-> 0]
    /\ result = [r \in Runs |-> "pending"]

Taken == existing \cup UNION {owned[r] : r \in Runs}

\* A statement takes names nobody has.
Take(r) ==
    /\ result[r] # "ok"
    /\ owned' = [owned EXCEPT ![r] = owned'[r]]
    /\ owned[r] \subseteq owned'[r] /\ (owned'[r] \ owned[r]) \cap Taken = {}
    /\ UNCHANGED <<existing, loads, result>>

\* A table receives its rows, all of them, from the run it belongs to.
Load(r) ==
    /\ result[r] # "ok"
    /\ \E t \in Tables :
           /\ t \in owned[r] /\ loads[t] = 0
           /\ loads' = [loads EXCEPT ![t] = 1]
    /\ UNCHANGED <<existing, owned, result>>

\* The run ends, or dies; a statement it left behind may still be carried out.
Return(r) ==
    /\ result[r] = "pending"
    /\ \E outcome \in {"ok", "error", "crashed"} : result' = [result EXCEPT ![r] = outcome]
    /\ UNCHANGED <<existing, owned, loads>>

Next == \E r \in Runs : Take(r) \/ Load(r) \/ Return(r)

Spec == Init /\ [][Next]_shared
================================================================================
