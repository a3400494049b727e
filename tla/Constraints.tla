------------------------------ MODULE Constraints ------------------------------
(***************************************************************************)
(* What becomes of a unique key, a check constraint and a foreign key of a  *)
(* SQL Server table, from their life in the source (enforced, disabled, not *)
(* trusted) through Introspect, Validate, PrepareDatabase and the copy to   *)
(* the constraints created over the copied rows.                            *)
(*                                                                          *)
(* Rows of the child table have a column under the check and a column under *)
(* the foreign key; rows of the parent table are their key.  The source may *)
(* go on changing while the tables are copied: each table is read by a      *)
(* query of its own, and nothing locks it.                                  *)
(***************************************************************************)
EXTENDS Naturals, Sequences, SequencesExt

CONSTANTS
    Columns, Values,    (* columns of the child table; values other than NULL *)
    Null,
    CheckColumn, Allowed,   (* the check is CheckColumn IN Allowed *)
    RefColumn,          (* the column of the foreign key *)
    Keys,               (* keys tried: [columns, filter, constraint]; filter is a set of columns
                           that are IS NOT NULL in the predicate, constraint tells a unique
                           constraint from a unique index *)
    Nullables,          (* sets of columns that allow NULL *)
    Versions,           (* PostgreSQL versions *)
    UniqueDisable,      (* the index behind a unique constraint may be disabled *)
    MaxRows,            (* bound: rows of the child table *)
    MaxChanges          (* bound: changes of the source after the catalogue is read *)

ASSUME ColumnsAssumption == CheckColumn \in Columns /\ RefColumn \in Columns
ASSUME KeysAssumption == \A k \in Keys : k.columns \subseteq Columns /\ k.constraint \in BOOLEAN
ASSUME BoundsAssumption == MaxRows \in Nat /\ MaxChanges \in Nat

VARIABLES
    key, nullable, version,     (* the key and columns of the source, the target server *)
    parents, children,  (* rows of the source tables *)
    keyDisabled,        (* the unique key is not enforced *)
    check, fk,          (* "trusted", "untrusted" (enforced for new rows only) or "disabled" *)
    stage,              (* how far the migration has come *)
    catalogue,          (* check and fk as Introspect has read them *)
    changes,            (* changes of the source since then *)
    copied,             (* tables copied *)
    tgtParents, tgtChildren,    (* rows in the target *)
    tgtKey,             (* the key exists in the target *)
    tgtCheck, tgtFk     (* "none", "valid" or "notValid" *)

config == <<key, nullable, version>>
rowVars == <<parents, children>>
stateVars == <<keyDisabled, check, fk>>
tgtRows == <<copied, tgtParents, tgtChildren>>
tgtConstraints == <<tgtKey, tgtCheck, tgtFk>>
vars == <<config, rowVars, stateVars, stage, catalogue, changes, tgtRows, tgtConstraints>>

SourceStates == {"trusted", "untrusted", "disabled"}
TargetStates == {"none", "valid", "notValid"}

AnyRow == [Columns -> Values \cup {Null}]

\* The rows a table with these NOT NULL columns can hold.
Rows == {r \in AnyRow : \A c \in Columns : r[c] = Null => c \in nullable}

TypeOK ==
    /\ key \in Keys /\ nullable \in Nullables /\ version \in Versions
    /\ parents \subseteq Values
    /\ children \in Seq(Rows) /\ Len(children) <= MaxRows
    /\ keyDisabled \in BOOLEAN
    /\ check \in SourceStates /\ fk \in SourceStates
    /\ stage \in {"source", "catalogue", "rejected", "copy", "key", "check", "fk", "live", "failed"}
    /\ catalogue.check \in SourceStates /\ catalogue.fk \in SourceStates
    /\ changes \in 0..MaxChanges
    /\ copied \subseteq {"parents", "children"}
    /\ tgtParents \subseteq Values
    /\ tgtChildren \in Seq(Rows)
    /\ tgtKey \in BOOLEAN
    /\ tgtCheck \in TargetStates /\ tgtFk \in TargetStates

Init ==
    /\ key \in Keys /\ nullable \in Nullables /\ version \in Versions
    /\ parents = {} /\ children = <<>>
    /\ keyDisabled = FALSE /\ check = "trusted" /\ fk = "trusted"
    /\ stage = "source"
    /\ catalogue = [check |-> "trusted", fk |-> "trusted"]
    /\ changes = 0
    /\ copied = {} /\ tgtParents = {} /\ tgtChildren = <<>>
    /\ tgtKey = FALSE /\ tgtCheck = "none" /\ tgtFk = "none"

-------------------------------------------------------------------------------
(* What the two servers enforce. *)

\* A row is in the unique index when the predicate is true of it.
Indexed(r) == \A c \in key.filter : r[c] # Null

SameKey(r, s, nullsEqual) ==
    \A c \in key.columns : r[c] = s[c] /\ (r[c] = Null => nullsEqual)

Unique(rows, nullsEqual) ==
    \A i, j \in DOMAIN rows :
        i # j /\ Indexed(rows[i]) /\ Indexed(rows[j]) => ~SameKey(rows[i], rows[j], nullsEqual)

\* UNKNOWN passes a check.
Checked(r) == r[CheckColumn] \in Allowed \cup {Null}

Refers(r, ps) == r[RefColumn] \in ps \cup {Null}

\* SQL Server takes two NULLs for the same key.
SourceAccepts(r) ==
    /\ r \in Rows
    /\ keyDisabled \/ Unique(Append(children, r), TRUE)
    /\ check = "disabled" \/ Checked(r)
    /\ fk = "disabled" \/ Refers(r, parents)

SourceReleases(p) == fk = "disabled" \/ \A i \in DOMAIN children : children[i][RefColumn] # p

-------------------------------------------------------------------------------
(* The source in use. *)

SourceChanges ==
    /\ \/ stage = "source" /\ UNCHANGED changes
       \/ stage = "copy" /\ changes < MaxChanges /\ changes' = changes + 1
    /\ UNCHANGED <<config, stage, catalogue, tgtRows, tgtConstraints>>

InsertParent ==
    /\ SourceChanges
    /\ \E p \in Values \ parents : parents' = parents \cup {p}
    /\ UNCHANGED <<children, stateVars>>

DeleteParent ==
    /\ SourceChanges
    /\ \E p \in parents : SourceReleases(p) /\ parents' = parents \ {p}
    /\ UNCHANGED <<children, stateVars>>

InsertChild ==
    /\ SourceChanges /\ Len(children) < MaxRows
    /\ \E r \in AnyRow : SourceAccepts(r) /\ children' = Append(children, r)
    /\ UNCHANGED <<parents, stateVars>>

DeleteChild ==
    /\ SourceChanges
    /\ \E i \in DOMAIN children : children' = RemoveAt(children, i)
    /\ UNCHANGED <<parents, stateVars>>

\* ALTER INDEX ... DISABLE and REBUILD.
DisableKey ==
    /\ SourceChanges /\ ~keyDisabled /\ (key.constraint => UniqueDisable)
    /\ keyDisabled' = TRUE
    /\ UNCHANGED <<rowVars, check, fk>>

RebuildKey ==
    /\ SourceChanges /\ keyDisabled /\ Unique(children, TRUE)
    /\ keyDisabled' = FALSE
    /\ UNCHANGED <<rowVars, check, fk>>

\* ALTER TABLE ... NOCHECK, WITH NOCHECK CHECK and WITH CHECK CHECK CONSTRAINT.
AlterCheck ==
    /\ SourceChanges
    /\ \/ check' = "disabled"
       \/ check = "disabled" /\ check' = "untrusted"
       \/ (\A i \in DOMAIN children : Checked(children[i])) /\ check' = "trusted"
    /\ UNCHANGED <<rowVars, keyDisabled, fk>>

AlterForeignKey ==
    /\ SourceChanges
    /\ \/ fk' = "disabled"
       \/ fk = "disabled" /\ fk' = "untrusted"
       \/ (\A i \in DOMAIN children : Refers(children[i], parents)) /\ fk' = "trusted"
    /\ UNCHANGED <<rowVars, keyDisabled, check>>

-------------------------------------------------------------------------------
(* The migration. *)

\* Mutant: NULLS NOT DISTINCT only when every column of the key allows NULL.
EveryColumnNullable == key.columns \subseteq nullable

\* needsNullsNotDistinct.
NeedsNullsNotDistinct == key.columns \cap nullable # {}

\* Mutant: the version is checked for unique constraints only.
NeedsPG15ForConstraint == key.constraint /\ NeedsNullsNotDistinct

NeedsPG15 == NeedsNullsNotDistinct

\* The query for indexes asks whether they are disabled, the one for unique
\* constraints does not.
KeySeenDisabled == keyDisabled /\ ~key.constraint

\* Validate rejects what it sees disabled.
Rejected == check = "disabled" \/ fk = "disabled" \/ KeySeenDisabled

Introspect ==
    /\ stage = "source"
    /\ catalogue' = [check |-> check, fk |-> fk]
    /\ stage' = IF Rejected THEN "rejected" ELSE "catalogue"
    /\ UNCHANGED <<config, rowVars, stateVars, changes, tgtRows, tgtConstraints>>

\* Before PostgreSQL 15 there is no NULLS NOT DISTINCT.
Supported == NeedsPG15 => version >= 15

\* PrepareDatabase: the version first, then the tables.
PrepareDatabase ==
    /\ stage = "catalogue"
    /\ stage' = IF Supported THEN "copy" ELSE "rejected"
    /\ UNCHANGED <<config, rowVars, stateVars, catalogue, changes, tgtRows, tgtConstraints>>

\* The tables are copied one after the other, in the order of their names.
CopyParents ==
    /\ stage = "copy" /\ "parents" \notin copied
    /\ copied' = copied \cup {"parents"}
    /\ tgtParents' = parents
    /\ UNCHANGED <<config, rowVars, stateVars, stage, catalogue, changes, tgtChildren, tgtConstraints>>

CopyChildren ==
    /\ stage = "copy" /\ "children" \notin copied
    /\ copied' = copied \cup {"children"}
    /\ tgtChildren' = children
    /\ UNCHANGED <<config, rowVars, stateVars, stage, catalogue, changes, tgtParents, tgtConstraints>>

Copied ==
    /\ stage = "copy" /\ copied = {"parents", "children"}
    /\ stage' = "key"
    /\ UNCHANGED <<config, rowVars, stateVars, catalogue, changes, tgtRows, tgtConstraints>>

\* The index or unique constraint, over the copied rows.
CreateKey ==
    /\ stage = "key"
    /\ tgtKey' = /\ NeedsNullsNotDistinct => version >= 15
                 /\ Unique(tgtChildren, NeedsNullsNotDistinct)
    /\ stage' = IF tgtKey' THEN "check" ELSE "failed"
    /\ UNCHANGED <<config, rowVars, stateVars, catalogue, changes, tgtRows, tgtCheck, tgtFk>>

\* Mutant: the state is kept as SQL Server names it.
SameState(state) == state

\* Mutant: NOT VALID is forgotten.
AlwaysValid(state) == "valid"

\* Mutant: every constraint is created NOT VALID.
NeverValid(state) == "notValid"

\* A constraint that is not trusted is created NOT VALID.
Rendered(state) == IF state = "untrusted" THEN "notValid" ELSE "valid"

\* Adding a constraint checks the rows that are there, unless it is NOT VALID.
CreateCheck ==
    /\ stage = "check"
    /\ LET wanted == Rendered(catalogue.check)
       IN IF wanted = "valid" => \A i \in DOMAIN tgtChildren : Checked(tgtChildren[i])
          THEN tgtCheck' = wanted /\ stage' = "fk"
          ELSE stage' = "failed" /\ UNCHANGED tgtCheck
    /\ UNCHANGED <<config, rowVars, stateVars, catalogue, changes, tgtRows, tgtKey, tgtFk>>

CreateForeignKey ==
    /\ stage = "fk"
    /\ LET wanted == Rendered(catalogue.fk)
       IN IF wanted = "valid" => \A i \in DOMAIN tgtChildren : Refers(tgtChildren[i], tgtParents)
          THEN tgtFk' = wanted /\ stage' = "live"
          ELSE stage' = "failed" /\ UNCHANGED tgtFk
    /\ UNCHANGED <<config, rowVars, stateVars, catalogue, changes, tgtRows, tgtKey, tgtCheck>>

Next ==
    \/ InsertParent \/ DeleteParent \/ InsertChild \/ DeleteChild
    \/ DisableKey \/ RebuildKey \/ AlterCheck \/ AlterForeignKey
    \/ Introspect \/ PrepareDatabase \/ CopyParents \/ CopyChildren \/ Copied
    \/ CreateKey \/ CreateCheck \/ CreateForeignKey

Spec == Init /\ [][Next]_vars

-------------------------------------------------------------------------------
(* Properties. *)

\* NOT VALID constraints are enforced for new rows.
TargetAccepts(r) ==
    /\ r \in Rows
    /\ tgtKey => Unique(Append(tgtChildren, r), NeedsNullsNotDistinct)
    /\ tgtCheck # "none" => Checked(r)
    /\ tgtFk # "none" => Refers(r, tgtParents)

TargetReleases(p) == tgtFk # "none" => \A i \in DOMAIN tgtChildren : tgtChildren[i][RefColumn] # p

\* README: unique keys keep SQL Server's treatment of NULL, filtered indexes their
\* predicate, untrusted constraints their state.  A migrated table takes the next row
\* exactly when its source would, and lets go of the same parents.
SameWrites ==
    stage = "live" /\ changes = 0 =>
        /\ \A r \in AnyRow : SourceAccepts(r) <=> TargetAccepts(r)
        /\ \A p \in parents : SourceReleases(p) <=> TargetReleases(p)

\* Once the rows are being copied, no constraint can fail on them unless the source
\* has changed in the meantime: what cannot be kept was refused before the target
\* was touched.
NoLateFailure == stage = "failed" => changes > 0

\* A migration that ends well has brought over rows that keep every constraint the
\* source trusted, even when it read the tables at different moments of a changing
\* source: a torn copy is noticed.
TornCopyNoticed ==
    stage = "live" =>
        /\ Unique(tgtChildren, NeedsNullsNotDistinct)
        /\ catalogue.check = "trusted" => \A i \in DOMAIN tgtChildren : Checked(tgtChildren[i])
        /\ catalogue.fk = "trusted" => \A i \in DOMAIN tgtChildren : Refers(tgtChildren[i], tgtParents)
================================================================================
