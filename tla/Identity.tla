-------------------------------- MODULE Identity -------------------------------
(***************************************************************************)
(* An identity column, from SQL Server to the sequence behind its           *)
(* PostgreSQL column: the bounds and start of the sequence are rendered     *)
(* into CREATE TABLE, the rows are copied with their values, and            *)
(* ResetSequences then sets the sequence from the rows that arrived.        *)
(* The width of the integer types is scaled down to Width bits.             *)
(***************************************************************************)
EXTENDS Integers, FiniteSets

CONSTANTS
    Types,              (* SQL Server types of the column, of "tinyint" and "int" *)
    Increments,         (* increments of the identity property *)
    Width,              (* bits of the types: 8 for a tinyint, 32 for an int *)
    MaxRows,            (* bound: rows in the source table at a time *)
    ExplicitValues      (* values are inserted under SET IDENTITY_INSERT ON, too *)

ASSUME WidthAssumption == Width \in Nat \ {0}
ASSUME IncrementsAssumption == Increments \subseteq Int \ {0}

VARIABLES
    type, seed, increment,  (* the identity property *)
    stage,              (* "source" while the source is in use, "created", "copied", "live" *)
    srcRows,            (* values in the source table *)
    srcLast,            (* the last identity value of the source table *)
    srcUsed,            (* a value has been generated or inserted since it was created *)
    rows,               (* values in the target table *)
    last, isCalled      (* the sequence *)

column == <<type, seed, increment>>
src == <<srcRows, srcLast, srcUsed>>
vars == <<column, stage, src, rows, last, isCalled>>

\* Mutant: a tinyint gets the bounds of a signed type.
SignedBounds(t) == (-(2^(Width - 1)))..(2^(Width - 1) - 1)

\* identityBounds: a tinyint is unsigned.
IdentityBounds(t) ==
    IF t = "tinyint" THEN 0..(2^Width - 1) ELSE (-(2^(Width - 1)))..(2^(Width - 1) - 1)

\* The values SQL Server allows in the column.
Domain(t) == IF t = "tinyint" THEN 0..(2^Width - 1) ELSE (-(2^(Width - 1)))..(2^(Width - 1) - 1)

TypeOK ==
    /\ type \in Types /\ seed \in Domain(type) /\ increment \in Increments
    /\ stage \in {"source", "created", "copied", "live"}
    /\ srcRows \subseteq Domain(type) /\ srcLast \in Domain(type) /\ srcUsed \in BOOLEAN
    /\ rows \subseteq Domain(type)
    /\ last \in IdentityBounds(type) /\ isCalled \in BOOLEAN

Init ==
    /\ type \in Types /\ seed \in Domain(type) /\ increment \in Increments
    /\ stage = "source"
    /\ srcRows = {} /\ srcLast = seed /\ srcUsed = FALSE
    /\ rows = {} /\ last = seed /\ isCalled = FALSE

-------------------------------------------------------------------------------
(* The source table in use, before the migration. *)

SourceNext == IF srcUsed THEN srcLast + increment ELSE srcLast

\* SQL Server generates the next value, until it overflows the type.
SourceInsert ==
    /\ stage = "source" /\ Cardinality(srcRows) < MaxRows
    /\ SourceNext \in Domain(type) \ srcRows
    /\ srcRows' = srcRows \cup {SourceNext}
    /\ srcLast' = SourceNext /\ srcUsed' = TRUE
    /\ UNCHANGED <<column, stage, rows, last, isCalled>>

\* SET IDENTITY_INSERT ON: a value beyond the last one becomes the last one.
SourceInsertExplicit ==
    /\ ExplicitValues
    /\ stage = "source" /\ Cardinality(srcRows) < MaxRows
    /\ \E v \in Domain(type) \ srcRows :
           /\ srcRows' = srcRows \cup {v}
           /\ srcLast' = IF (increment > 0 /\ v > srcLast) \/ (increment < 0 /\ v < srcLast)
                         THEN v ELSE srcLast
    /\ srcUsed' = TRUE
    /\ UNCHANGED <<column, stage, rows, last, isCalled>>

SourceDelete ==
    /\ stage = "source"
    /\ \E v \in srcRows : srcRows' = srcRows \ {v}
    /\ UNCHANGED <<column, stage, srcLast, srcUsed, rows, last, isCalled>>

-------------------------------------------------------------------------------
(* The migration. *)

\* renderColumn: GENERATED BY DEFAULT AS IDENTITY with bounds and START WITH the
\* seed, which PostgreSQL refuses outside the bounds.
CreateColumn ==
    /\ stage = "source" /\ seed \in IdentityBounds(type)
    /\ stage' = "created"
    /\ last' = seed /\ isCalled' = FALSE
    /\ UNCHANGED <<column, src, rows>>

CopyRows ==
    /\ stage = "created"
    /\ rows' = srcRows
    /\ stage' = "copied"
    /\ UNCHANGED <<column, src, last, isCalled>>

\* Mutant: always MAX.
GreatestValue(values) == CHOOSE v \in values : \A w \in values : w <= v

\* MAX, or MIN for a negative increment.
ExtremeValue(values) ==
    CHOOSE v \in values : \A w \in values : IF increment < 0 THEN v <= w ELSE w <= v

\* Mutant: setval leaves the value it sets to be handed out next.
NeverCalled(values) == FALSE

IsCalled(values) == values # {}

\* ResetSequences reads the rows that are in the target; setval refuses a value
\* outside the bounds.
ResetSequence ==
    /\ stage = "copied"
    /\ last' = IF rows = {} THEN seed ELSE ExtremeValue(rows)
    /\ last' \in IdentityBounds(type)
    /\ isCalled' = IsCalled(rows)
    /\ stage' = "live"
    /\ UNCHANGED <<column, src, rows>>

-------------------------------------------------------------------------------
(* The target in use. *)

NextValue == IF isCalled THEN last + increment ELSE last

\* nextval fails once the bounds are reached.
TargetInsert ==
    /\ stage = "live" /\ NextValue \in IdentityBounds(type)
    /\ rows' = rows \cup {NextValue}
    /\ last' = NextValue /\ isCalled' = TRUE
    /\ UNCHANGED <<column, stage, src>>

Next ==
    \/ SourceInsert \/ SourceInsertExplicit \/ SourceDelete
    \/ CreateColumn \/ CopyRows \/ ResetSequence
    \/ TargetInsert

Spec == Init /\ [][Next]_vars

-------------------------------------------------------------------------------
(* Properties. *)

\* No value the target generates is already in the table, whatever values were
\* inserted and deleted in the source and whichever way it counts.
NextIsFresh == stage = "live" => NextValue \notin rows

\* PostgreSQL never refuses what SQL Server accepted: not the start value, not the
\* value setval is given, and not the next value before the column type is exhausted.
BoundsAgree ==
    /\ seed \in IdentityBounds(type)
    /\ stage = "copied" /\ rows # {} => ExtremeValue(rows) \in IdentityBounds(type)
    /\ stage = "live" => (NextValue \in Domain(type) <=> NextValue \in IdentityBounds(type))

\* README: the sequence state is preserved: until the target generates a value of
\* its own, it would generate the one the source would.
StatePreserved == stage = "live" /\ rows = srcRows => NextValue = SourceNext
================================================================================
