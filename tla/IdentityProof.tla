----------------------------- MODULE IdentityProof -----------------------------
(***************************************************************************)
(* Proofs about Identity: the sequence of a migrated column never hands out *)
(* a value the table has, and its bounds never refuse one SQL Server had    *)
(* accepted, for every width, seed and increment.                           *)
(***************************************************************************)
EXTENDS Identity, NumberProof, TLAPS

-------------------------------------------------------------------------------
(* The inductive invariant. *)

\* Once the sequence is set, it has reached or passed every value of the table, in the
\* direction in which it counts.
Passed ==
    stage = "live" =>
        IF isCalled
        THEN \A v \in rows : (increment > 0 => v <= last) /\ (increment < 0 => last <= v)
        ELSE rows = {}

IdentityInv == TypeOK /\ Passed

-------------------------------------------------------------------------------
(* The value setval is given. *)

\* Both sets of bounds are those of the type, and consist of integers.
LEMMA BoundsOfType ==
    ASSUME NEW t
    PROVE  /\ IdentityBounds(t) = Domain(t)
           /\ \E lo, hi \in Int : Domain(t) = lo..hi
<1>1. 2^Width \in Int /\ 2^(Width - 1) \in Int
    <2>1. Width \in Nat /\ Width - 1 \in Nat
        BY WidthAssumption
    <2> QED
        BY <2>1
<1>2. IdentityBounds(t) = Domain(t)
    BY DEF IdentityBounds, Domain
<1>3. \E lo, hi \in Int : Domain(t) = lo..hi
    <2>1. PICK m \in Int, n \in Int : m = 2^Width /\ n = 2^(Width - 1)
        BY <1>1
    <2>2. Domain(t) = IF t = "tinyint" THEN 0..(m - 1) ELSE (-n)..(n - 1)
        BY <2>1 DEF Domain
    <2>3. m - 1 \in Int /\ -n \in Int /\ n - 1 \in Int /\ 0 \in Int
        OBVIOUS
    <2> QED
        BY <2>2, <2>3
<1> QED
    BY <1>2, <1>3

\* ExtremeValue picks a value of the table beyond which there is none.
LEMMA ExtremeOfRows ==
    ASSUME NEW S, S \subseteq Domain(type), S # {}, increment \in Int
    PROVE  /\ ExtremeValue(S) \in S
           /\ \A w \in S : IF increment < 0 THEN ExtremeValue(S) <= w ELSE w <= ExtremeValue(S)
<1>1. PICK lo \in Int, hi \in Int : Domain(type) = lo..hi
    BY BoundsOfType
<1>2. \E v \in S : \A w \in S : IF increment < 0 THEN v <= w ELSE w <= v
    BY <1>1, Extremes
<1> QED
    BY <1>2 DEF ExtremeValue

-------------------------------------------------------------------------------
(* The steps. *)

\* No step breaks the types: a value that SQL Server allowed is within the bounds of the
\* sequence.
LEMMA TypePreserved ==
    ASSUME TypeOK, [Next]_vars
    PROVE  TypeOK'
<1> USE DEF TypeOK
<1>0. IdentityBounds(type) = Domain(type)
    BY BoundsOfType
<1>1. CASE SourceInsert
    BY <1>1 DEF SourceInsert, column
<1>2. CASE SourceInsertExplicit
    BY <1>2 DEF SourceInsertExplicit, column
<1>3. CASE SourceDelete
    BY <1>3 DEF SourceDelete, column
<1>4. CASE CreateColumn
    BY <1>4 DEF CreateColumn, column, src
<1>5. CASE CopyRows
    BY <1>5 DEF CopyRows, column, src
<1>6. CASE ResetSequence
    <2>1. isCalled' \in BOOLEAN
        BY <1>6 DEF ResetSequence, IsCalled
    <2> QED
        BY <1>6, <2>1 DEF ResetSequence, column, src
<1>7. CASE TargetInsert
    BY <1>0, <1>7 DEF TargetInsert, column, src
<1>8. CASE UNCHANGED vars
    BY <1>8 DEF vars, column, src
<1> QED
    BY <1>1, <1>2, <1>3, <1>4, <1>5, <1>6, <1>7, <1>8 DEF Next

\* The sequence stays ahead of the rows of the table.
LEMMA PassedPreserved ==
    ASSUME IdentityInv, [Next]_vars
    PROVE  Passed'
<1>0. /\ increment \in Int /\ increment # 0 /\ rows \subseteq Domain(type)
      /\ last \in Domain(type) /\ isCalled \in BOOLEAN
    BY IncrementsAssumption, BoundsOfType DEF IdentityInv, TypeOK
<1>1. PICK lo \in Int, hi \in Int : Domain(type) = lo..hi
    BY BoundsOfType
<1>2. CASE SourceInsert \/ SourceInsertExplicit \/ SourceDelete
    BY <1>2 DEF SourceInsert, SourceInsertExplicit, SourceDelete, Passed
<1>3. CASE CreateColumn \/ CopyRows
    BY <1>3 DEF CreateColumn, CopyRows, Passed
<1>4. CASE ResetSequence
    <2>1. /\ rows' = rows /\ increment' = increment /\ isCalled' = (rows # {})
          /\ rows # {} => last' = ExtremeValue(rows)
        BY <1>4 DEF ResetSequence, column, IsCalled
    <2>2. CASE rows = {}
        BY <2>1, <2>2 DEF Passed
    <2>3. CASE rows # {}
        <3>1. \A w \in rows : IF increment < 0 THEN last' <= w ELSE w <= last'
            BY <1>0, <2>1, <2>3, ExtremeOfRows
        <3>2. \A w \in rows : (increment > 0 => w <= last') /\ (increment < 0 => last' <= w)
            BY <1>0, <3>1
        <3> QED
            BY <2>1, <2>3, <3>2 DEF Passed
    <2> QED
        BY <2>2, <2>3
<1>5. CASE TargetInsert
    <2>1. /\ stage = "live" /\ rows' = rows \cup {NextValue} /\ last' = NextValue /\ isCalled' = TRUE
          /\ increment' = increment
        BY <1>5 DEF TargetInsert, column
    <2>2. CASE isCalled
        <3>1. NextValue = last + increment
            BY <2>2 DEF NextValue
        <3>2. \A v \in rows : (increment > 0 => v <= last) /\ (increment < 0 => last <= v)
            BY <2>1, <2>2 DEF IdentityInv, Passed
        <3>3. last \in Int /\ \A v \in rows : v \in Int
            BY <1>0, <1>1
        <3>4. \A v \in rows' : (increment > 0 => v <= last') /\ (increment < 0 => last' <= v)
            BY <1>0, <2>1, <3>1, <3>2, <3>3
        <3> QED
            BY <2>1, <3>4 DEF Passed
    <2>3. CASE ~isCalled
        <3>1. rows = {} /\ NextValue = last /\ last \in Int
            BY <1>0, <1>1, <2>1, <2>3 DEF IdentityInv, Passed, NextValue
        <3> QED
            BY <2>1, <3>1 DEF Passed
    <2> QED
        BY <2>2, <2>3
<1>6. CASE UNCHANGED vars
    BY <1>6 DEF vars, column, IdentityInv, Passed
<1> QED
    BY <1>2, <1>3, <1>4, <1>5, <1>6 DEF Next

\* The invariant holds throughout.
THEOREM IdentityInvariant == Spec => []IdentityInv
<1>1. Init => IdentityInv
    <2> SUFFICES ASSUME Init PROVE IdentityInv
        OBVIOUS
    <2>1. IdentityBounds(type) = Domain(type)
        BY BoundsOfType
    <2> QED
        BY <2>1 DEF Init, IdentityInv, TypeOK, Passed
<1>2. IdentityInv /\ [Next]_vars => IdentityInv'
    BY TypePreserved, PassedPreserved DEF IdentityInv
<1> QED
    BY <1>1, <1>2, PTL DEF Spec

-------------------------------------------------------------------------------
(* Consequences. *)

\* Every variable of Identity keeps its type.
THEOREM TypeCorrect == Spec => []TypeOK
<1>1. IdentityInv => TypeOK
    BY DEF IdentityInv
<1> QED
    BY <1>1, IdentityInvariant, PTL

\* No value the target generates is already in the table, whatever was inserted into and
\* deleted from the source, and whichever way it counts.
THEOREM Fresh == Spec => []NextIsFresh
<1>1. IdentityInv => NextIsFresh
    <2> SUFFICES ASSUME IdentityInv, stage = "live" PROVE NextValue \notin rows
        BY DEF NextIsFresh
    <2>1. increment \in Int /\ increment # 0 /\ isCalled \in BOOLEAN
        BY IncrementsAssumption DEF IdentityInv, TypeOK
    <2>2. PICK lo \in Int, hi \in Int : Domain(type) = lo..hi
        BY BoundsOfType
    <2>3. last \in Int /\ \A v \in rows : v \in Int
        BY <2>2, BoundsOfType DEF IdentityInv, TypeOK
    <2>4. CASE isCalled
        <3>1. \A v \in rows : (increment > 0 => v <= last) /\ (increment < 0 => last <= v)
            BY <2>4 DEF IdentityInv, Passed
        <3>2. \A v \in rows : v # last + increment
            BY <2>1, <2>3, <3>1
        <3> QED
            BY <2>4, <3>2 DEF NextValue
    <2>5. CASE ~isCalled
        BY <2>5 DEF IdentityInv, Passed
    <2> QED
        BY <2>4, <2>5
<1> QED
    BY <1>1, IdentityInvariant, PTL

\* PostgreSQL refuses neither the start value, nor the value setval is given, nor a next
\* value that SQL Server would have generated.
THEOREM BoundsSuffice == Spec => []BoundsAgree
<1>1. IdentityInv => BoundsAgree
    <2> SUFFICES ASSUME IdentityInv PROVE BoundsAgree
        OBVIOUS
    <2>1. IdentityBounds(type) = Domain(type) /\ seed \in Domain(type) /\ rows \subseteq Domain(type)
        BY BoundsOfType DEF IdentityInv, TypeOK
    <2>2. increment \in Int
        BY IncrementsAssumption DEF IdentityInv, TypeOK
    <2>3. rows # {} => ExtremeValue(rows) \in rows
        BY <2>1, <2>2, ExtremeOfRows
    <2> QED
        BY <2>1, <2>3 DEF BoundsAgree
<1> QED
    BY <1>1, IdentityInvariant, PTL
================================================================================
