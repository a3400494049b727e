---------------------------- MODULE ConstraintsProof ----------------------------
(***************************************************************************)
(* Proofs about Constraints, for any columns, values, keys and bounds: a    *)
(* torn copy is noticed whatever the source does; and when unique           *)
(* constraints cannot be disabled, constraint creation does not fail on an  *)
(* unchanged source, and the migrated table accepts the same writes.        *)
(***************************************************************************)
EXTENDS Constraints, SequenceTheorems, TLAPS

USE ColumnsAssumption, KeysAssumption, BoundsAssumption
USE DEF config, rowVars, stateVars, tgtRows, tgtConstraints

-------------------------------------------------------------------------------
(* The inductive invariant behind these properties. *)

AfterCopy == {"key", "check", "fk", "live", "failed"}    (* stages after the copy *)

\* What SQL Server guarantees about its own rows.
SourceSound ==
    /\ keyDisabled \/ Unique(children, TRUE)
    /\ check = "trusted" => \A i \in DOMAIN children : Checked(children[i])
    /\ fk = "trusted" => \A i \in DOMAIN children : Refers(children[i], parents)
    /\ keyDisabled => ~key.constraint \/ UniqueDisable

\* What is known of the source as long as it has not changed.
StillTrue ==
    changes = 0 =>
        /\ stage \in {"catalogue", "copy"} \cup AfterCopy =>
               catalogue.check = check /\ catalogue.fk = fk /\ ~Rejected
        /\ "parents" \in copied => tgtParents = parents
        /\ "children" \in copied => tgtChildren = children

\* What is done at which stage.
Stages ==
    /\ stage \in {"source", "catalogue", "rejected"} => copied = {}
    /\ stage \in {"source", "catalogue", "rejected", "copy", "key"} => ~tgtKey /\ tgtCheck = "none"
    /\ tgtFk # "none" => stage = "live"
    /\ stage = "source" => changes = 0
    /\ stage \in AfterCopy => copied = {"parents", "children"}
    /\ stage \in {"copy"} \cup AfterCopy => Supported
    /\ stage \in {"check", "fk", "live"} => tgtKey
    /\ stage \in {"fk", "live"} => tgtCheck = Rendered(catalogue.check)
    /\ stage = "live" => tgtFk = Rendered(catalogue.fk)

\* PostgreSQL vouches for the rows under a valid constraint.
TargetSound ==
    /\ tgtKey => Unique(tgtChildren, NeedsNullsNotDistinct)
    /\ tgtCheck = "valid" => \A i \in DOMAIN tgtChildren : Checked(tgtChildren[i])
    /\ tgtFk = "valid" => \A i \in DOMAIN tgtChildren : Refers(tgtChildren[i], tgtParents)

\* Holds whether unique constraints can be disabled or not.
IInv == TypeOK /\ SourceSound /\ StillTrue /\ Stages /\ TargetSound

-------------------------------------------------------------------------------
(* Rows. *)

\* RemoveAt closes the gap and keeps the other rows in order.
LEMMA RemoveAtRows ==
    ASSUME NEW s \in Seq(Rows), NEW i \in DOMAIN s
    PROVE  /\ RemoveAt(s, i) \in Seq(Rows)
           /\ Len(RemoveAt(s, i)) = Len(s) - 1
           /\ \A j \in 1..Len(s) - 1 :
                  RemoveAt(s, i)[j] = IF j < i THEN s[j] ELSE s[j + 1]
<1> DEFINE front == SubSeq(s, 1, i - 1)
           back == SubSeq(s, i + 1, Len(s))
<1>0. Len(s) \in Nat /\ i \in 1..Len(s)
  BY LenProperties
<1>1. /\ front \in Seq(Rows) /\ Len(front) = i - 1
      /\ \A j \in 1..i - 1 : front[j] = s[j]
  BY <1>0, SubSeqProperties
<1>2. /\ back \in Seq(Rows) /\ Len(back) = Len(s) - i
      /\ \A j \in 1..Len(s) - i : back[j] = s[i + j]
  BY <1>0, SubSeqProperties
<1> HIDE DEF front, back
<1>3. /\ front \o back \in Seq(Rows)
      /\ Len(front \o back) = Len(s) - 1
      /\ \A j \in 1..Len(s) - 1 :
             (front \o back)[j] = IF j <= i - 1 THEN front[j] ELSE back[j - (i - 1)]
  BY <1>0, <1>1, <1>2, ConcatProperties
<1>4. \A j \in 1..Len(s) - 1 : (front \o back)[j] = IF j < i THEN s[j] ELSE s[j + 1]
  <2> SUFFICES ASSUME NEW j \in 1..Len(s) - 1
               PROVE  (front \o back)[j] = IF j < i THEN s[j] ELSE s[j + 1]
    OBVIOUS
  <2>1. CASE j < i
    BY <1>0, <1>1, <1>3, <2>1
  <2>2. CASE i <= j
    <3>1. j - (i - 1) \in 1..Len(s) - i /\ i + (j - (i - 1)) = j + 1
      BY <1>0, <2>2
    <3>2. (front \o back)[j] = back[j - (i - 1)]
      BY <1>0, <1>3, <2>2
    <3> QED BY <1>0, <1>2, <2>2, <3>1, <3>2
  <2>3. j < i \/ i <= j
    BY <1>0
  <2> QED BY <2>1, <2>2, <2>3
<1>5. RemoveAt(s, i) = front \o back
  BY DEF RemoveAt, front, back
<1> QED BY <1>3, <1>4, <1>5

\* NULLS NOT DISTINCT is asked for exactly when it makes a difference: under a key
\* without nullable columns no two rows agree in a NULL.
LEMMA SameUniqueness ==
    ASSUME TypeOK, NEW s \in Seq(Rows)
    PROVE  Unique(s, TRUE) <=> Unique(s, NeedsNullsNotDistinct)
<1>1. ASSUME NEW i \in DOMAIN s, NEW j \in DOMAIN s
      PROVE  SameKey(s[i], s[j], TRUE) <=> SameKey(s[i], s[j], NeedsNullsNotDistinct)
  <2>1. CASE NeedsNullsNotDistinct
    BY <2>1 DEF SameKey
  <2>2. CASE ~NeedsNullsNotDistinct
    <3>1. s[i] \in Rows
      BY <1>1, LenProperties
    <3>2. \A c \in key.columns : s[i][c] # Null
      BY <2>2, <3>1 DEF NeedsNullsNotDistinct, Rows, TypeOK
    <3> QED BY <3>2 DEF SameKey
  <2> QED BY <2>1, <2>2
<1> QED BY <1>1 DEF Unique

-------------------------------------------------------------------------------
(* Steps of the source and of the migration. *)

SourceStep ==
    \/ InsertParent \/ DeleteParent \/ InsertChild \/ DeleteChild
    \/ DisableKey \/ RebuildKey \/ AlterCheck \/ AlterForeignKey

MigrationStep ==
    \/ Introspect \/ PrepareDatabase \/ CopyParents \/ CopyChildren \/ Copied
    \/ CreateKey \/ CreateCheck \/ CreateForeignKey

\* A step is one of the source or one of the migration.
LEMMA Steps == Next => SourceStep \/ MigrationStep
BY DEF Next, SourceStep, MigrationStep

\* Source and migration leave each other's variables alone.
LEMMA Frames ==
    /\ SourceStep => SourceChanges
    /\ MigrationStep => UNCHANGED <<config, rowVars, stateVars, changes>>
<1>1. SourceStep => SourceChanges
  BY DEF SourceStep, InsertParent, DeleteParent, InsertChild, DeleteChild, DisableKey,
         RebuildKey, AlterCheck, AlterForeignKey
<1>2. MigrationStep => UNCHANGED <<config, rowVars, stateVars, changes>>
  BY DEF MigrationStep, Introspect, PrepareDatabase, CopyParents, CopyChildren, Copied,
         CreateKey, CreateCheck, CreateForeignKey
<1> QED BY <1>1, <1>2

-------------------------------------------------------------------------------
(* Every step preserves each part of the invariant. *)

\* Every action leaves every variable in its type.
LEMMA TypeStep == IInv /\ [Next]_vars => TypeOK'
<1> SUFFICES ASSUME TypeOK, [Next]_vars
             PROVE  TypeOK'
  BY DEF IInv
<1> USE DEF TypeOK, SourceStates, TargetStates
<1>1. CASE InsertParent
  BY <1>1 DEF InsertParent, SourceChanges, Rows
<1>2. CASE DeleteParent
  BY <1>2 DEF DeleteParent, SourceChanges, Rows
<1>3. CASE InsertChild
  <2>1. PICK r \in Rows : children' = Append(children, r)
    BY <1>3 DEF InsertChild, SourceAccepts
  <2>2. children' \in Seq(Rows) /\ Len(children') = Len(children) + 1
    BY <2>1, AppendProperties
  <2> QED BY <1>3, <2>2 DEF InsertChild, SourceChanges, Rows
<1>4. CASE DeleteChild
  <2>1. PICK i \in DOMAIN children : children' = RemoveAt(children, i)
    BY <1>4 DEF DeleteChild
  <2>2. children' \in Seq(Rows) /\ Len(children') = Len(children) - 1 /\ Len(children) \in Nat
    BY <2>1, RemoveAtRows, LenProperties
  <2> QED BY <1>4, <2>2 DEF DeleteChild, SourceChanges, Rows
<1>5. CASE DisableKey
  BY <1>5 DEF DisableKey, SourceChanges, Rows
<1>6. CASE RebuildKey
  <2>1. /\ UNCHANGED <<config, rowVars, check, fk, stage, catalogue, tgtRows, tgtConstraints>>
        /\ keyDisabled' = FALSE /\ changes' \in {changes, changes + 1} \cap 0..MaxChanges
    BY <1>6 DEF RebuildKey, SourceChanges
  <2>2. Rows' = Rows
    BY <2>1 DEF Rows
  <2>3. keyDisabled' \in BOOLEAN /\ changes' \in 0..MaxChanges
    BY <2>1
  <2> HIDE DEF SourceStates, TargetStates
  <2> QED BY <2>1, <2>2, <2>3
<1>7. CASE AlterCheck
  BY <1>7 DEF AlterCheck, SourceChanges, Rows
<1>8. CASE AlterForeignKey
  BY <1>8 DEF AlterForeignKey, SourceChanges, Rows
<1>9. CASE Introspect
  BY <1>9 DEF Introspect, Rows
<1>10. CASE PrepareDatabase
  BY <1>10 DEF PrepareDatabase, Rows
<1>11. CASE CopyParents
  BY <1>11 DEF CopyParents, Rows
<1>12. CASE CopyChildren
  BY <1>12 DEF CopyChildren, Rows
<1>13. CASE Copied
  BY <1>13 DEF Copied, Rows
<1>14. CASE CreateKey
  BY <1>14 DEF CreateKey, Rows
<1>15. CASE CreateCheck
  BY <1>15 DEF CreateCheck, Rows, Rendered
<1>16. CASE CreateForeignKey
  BY <1>16 DEF CreateForeignKey, Rows, Rendered
<1>17. CASE UNCHANGED vars
  BY <1>17 DEF vars, Rows
<1> QED BY <1>1, <1>2, <1>3, <1>4, <1>5, <1>6, <1>7, <1>8, <1>9, <1>10, <1>11, <1>12, <1>13,
          <1>14, <1>15, <1>16, <1>17 DEF Next

\* SQL Server never lets a row in that an enforced constraint rejects.
LEMMA SourceSoundStep == IInv /\ [Next]_vars => SourceSound'
<1> SUFFICES ASSUME TypeOK, SourceSound, [Next]_vars
             PROVE  SourceSound'
  BY DEF IInv
<1>1. CASE InsertParent
  BY <1>1 DEF InsertParent, SourceChanges, SourceSound, Unique, SameKey, Indexed, Checked, Refers
<1>2. CASE DeleteParent
  <2>1. PICK p \in parents : SourceReleases(p) /\ parents' = parents \ {p}
    BY <1>2 DEF DeleteParent
  <2> QED
    BY <1>2, <2>1 DEF DeleteParent, SourceChanges, SourceReleases,
           SourceSound, Unique, SameKey, Indexed, Checked, Refers
<1>3. CASE InsertChild
  <2>1. PICK r \in AnyRow : SourceAccepts(r) /\ children' = Append(children, r)
    BY <1>3 DEF InsertChild
  <2>2. /\ Len(children) \in Nat /\ DOMAIN children = 1..Len(children)
        /\ DOMAIN children' = 1..Len(children) + 1
        /\ children'[Len(children) + 1] = r
        /\ \A i \in 1..Len(children) : children'[i] = children[i]
    BY <2>1, AppendProperties, LenProperties DEF TypeOK, SourceAccepts
  <2>3. UNCHANGED <<key, nullable, keyDisabled, check, fk, parents>>
    BY <1>3 DEF InsertChild, SourceChanges
  <2>4. keyDisabled' \/ Unique(children, TRUE)'
    BY <2>1, <2>3 DEF SourceAccepts, Unique, SameKey, Indexed
  <2>5. (check = "trusted" => \A i \in DOMAIN children : Checked(children[i]))'
    BY <2>1, <2>2, <2>3 DEF SourceAccepts, SourceSound, Checked
  <2>6. (fk = "trusted" => \A i \in DOMAIN children : Refers(children[i], parents))'
    BY <2>1, <2>2, <2>3 DEF SourceAccepts, SourceSound, Refers
  <2> QED BY <2>3, <2>4, <2>5, <2>6 DEF SourceSound
<1>4. CASE DeleteChild
  <2>1. PICK i \in DOMAIN children : children' = RemoveAt(children, i)
    BY <1>4 DEF DeleteChild
  <2>2. /\ Len(children) \in Nat /\ DOMAIN children = 1..Len(children) /\ i \in 1..Len(children)
        /\ DOMAIN children' = 1..Len(children) - 1
        /\ \A j \in 1..Len(children) - 1 :
               children'[j] = IF j < i THEN children[j] ELSE children[j + 1]
    BY <2>1, RemoveAtRows, LenProperties DEF TypeOK
  <2> DEFINE old(j) == IF j < i THEN j ELSE j + 1
  <2>3. \A j \in DOMAIN children' : old(j) \in DOMAIN children /\ children'[j] = children[old(j)]
    BY <2>2
  <2>4. \A j, k \in DOMAIN children' : j # k => old(j) # old(k)
    BY <2>2
  <2> HIDE DEF old
  <2>5. UNCHANGED <<key, nullable, keyDisabled, check, fk, parents>>
    BY <1>4 DEF DeleteChild, SourceChanges
  <2>6. Unique(children, TRUE) => Unique(children, TRUE)'
    BY <2>3, <2>4, <2>5 DEF Unique, SameKey, Indexed
  <2> QED BY <2>3, <2>5, <2>6 DEF SourceSound, Checked, Refers
<1>5. CASE DisableKey
  BY <1>5 DEF DisableKey, SourceChanges, SourceSound, Unique, SameKey, Indexed, Checked, Refers
<1>6. CASE RebuildKey
  BY <1>6 DEF RebuildKey, SourceChanges, SourceSound, Unique, SameKey, Indexed, Checked, Refers
<1>7. CASE AlterCheck
  BY <1>7 DEF AlterCheck, SourceChanges, SourceSound, Unique, SameKey, Indexed, Checked, Refers
<1>8. CASE AlterForeignKey
  BY <1>8 DEF AlterForeignKey, SourceChanges, SourceSound, Unique, SameKey, Indexed, Checked, Refers
<1>9. CASE MigrationStep \/ UNCHANGED vars
  <2>1. UNCHANGED <<config, rowVars, stateVars>>
    BY <1>9, Frames DEF vars
  <2> QED BY <2>1 DEF SourceSound, Unique, SameKey, Indexed, Checked, Refers
<1> QED BY Steps, <1>1, <1>2, <1>3, <1>4, <1>5, <1>6, <1>7, <1>8, <1>9 DEF SourceStep

\* The catalogue and the copies stay true until the source changes.
LEMMA StillTrueStep == IInv /\ [Next]_vars => StillTrue'
<1> SUFFICES ASSUME TypeOK, StillTrue, Stages, [Next]_vars
             PROVE  StillTrue'
  BY DEF IInv
<1> USE DEF StillTrue, Stages, TypeOK, AfterCopy, Rejected, KeySeenDisabled
<1>1. CASE SourceStep
  BY <1>1, Frames DEF SourceChanges
<1>2. CASE Introspect
  BY <1>2 DEF Introspect
<1>3. CASE PrepareDatabase
  BY <1>3 DEF PrepareDatabase
<1>4. CASE CopyParents
  BY <1>4 DEF CopyParents
<1>5. CASE CopyChildren
  BY <1>5 DEF CopyChildren
<1>6. CASE Copied
  BY <1>6 DEF Copied
<1>7. CASE CreateKey
  BY <1>7 DEF CreateKey
<1>8. CASE CreateCheck
  BY <1>8 DEF CreateCheck
<1>9. CASE CreateForeignKey
  BY <1>9 DEF CreateForeignKey
<1>10. CASE UNCHANGED vars
  BY <1>10 DEF vars
<1> QED BY Steps, <1>1, <1>2, <1>3, <1>4, <1>5, <1>6, <1>7, <1>8, <1>9, <1>10 DEF MigrationStep

\* The migration goes through its stages in order.
LEMMA StagesStep == IInv /\ [Next]_vars => Stages'
<1> SUFFICES ASSUME TypeOK, Stages, [Next]_vars
             PROVE  Stages'
  BY DEF IInv
<1> USE DEF Stages, AfterCopy, Supported, NeedsPG15, NeedsNullsNotDistinct, Rendered
<1>1. CASE SourceStep
  BY <1>1, Frames DEF SourceChanges
<1>2. CASE Introspect
  BY <1>2 DEF Introspect
<1>3. CASE PrepareDatabase
  BY <1>3 DEF PrepareDatabase
<1>4. CASE CopyParents
  BY <1>4 DEF CopyParents
<1>5. CASE CopyChildren
  BY <1>5 DEF CopyChildren
<1>6. CASE Copied
  BY <1>6 DEF Copied
<1>7. CASE CreateKey
  BY <1>7 DEF CreateKey
<1>8. CASE CreateCheck
  BY <1>8 DEF CreateCheck
<1>9. CASE CreateForeignKey
  BY <1>9 DEF CreateForeignKey
<1>10. CASE UNCHANGED vars
  BY <1>10 DEF vars
<1> QED BY Steps, <1>1, <1>2, <1>3, <1>4, <1>5, <1>6, <1>7, <1>8, <1>9, <1>10 DEF MigrationStep

\* What PostgreSQL has validated stays valid.
LEMMA TargetSoundStep == IInv /\ [Next]_vars => TargetSound'
<1> SUFFICES ASSUME TypeOK, Stages, TargetSound, [Next]_vars
             PROVE  TargetSound'
  BY DEF IInv
<1> USE DEF TargetSound, Stages, Unique, SameKey, Indexed, NeedsNullsNotDistinct, Checked,
           Refers, Rendered
<1>1. CASE SourceStep
  BY <1>1, Frames DEF SourceChanges
<1>2. CASE Introspect
  BY <1>2 DEF Introspect
<1>3. CASE PrepareDatabase
  BY <1>3 DEF PrepareDatabase
<1>4. CASE CopyParents
  BY <1>4 DEF CopyParents
<1>5. CASE CopyChildren
  BY <1>5 DEF CopyChildren
<1>6. CASE Copied
  BY <1>6 DEF Copied
<1>7. CASE CreateKey
  BY <1>7 DEF CreateKey
<1>8. CASE CreateCheck
  BY <1>8 DEF CreateCheck
<1>9. CASE CreateForeignKey
  BY <1>9 DEF CreateForeignKey
<1>10. CASE UNCHANGED vars
  BY <1>10 DEF vars
<1> QED BY Steps, <1>1, <1>2, <1>3, <1>4, <1>5, <1>6, <1>7, <1>8, <1>9, <1>10 DEF MigrationStep

\* While the source is as the catalogue says, the rows that were copied are its rows.
LEMMA CopiedRows ==
    ASSUME TypeOK, SourceSound, StillTrue, Stages, stage \in AfterCopy, changes = 0, ~UniqueDisable
    PROVE  /\ tgtParents = parents /\ tgtChildren = children /\ children \in Seq(Rows)
           /\ catalogue.check = check /\ catalogue.fk = fk
           /\ check \in {"trusted", "untrusted"} /\ fk \in {"trusted", "untrusted"}
           /\ ~keyDisabled
           /\ Unique(tgtChildren, NeedsNullsNotDistinct)
           /\ NeedsNullsNotDistinct => version >= 15
<1>1. /\ tgtParents = parents /\ tgtChildren = children /\ children \in Seq(Rows)
      /\ catalogue.check = check /\ catalogue.fk = fk
      /\ check \in {"trusted", "untrusted"} /\ fk \in {"trusted", "untrusted"}
      /\ ~KeySeenDisabled
  BY DEF TypeOK, StillTrue, Stages, AfterCopy, Rejected, SourceStates
<1>2. key.constraint \in BOOLEAN /\ keyDisabled \in BOOLEAN
  BY DEF TypeOK
<1>3. ~keyDisabled
  BY <1>1, <1>2 DEF KeySeenDisabled, SourceSound
<1>4. Unique(tgtChildren, NeedsNullsNotDistinct)
  BY <1>1, <1>3, SameUniqueness DEF SourceSound
<1>5. NeedsNullsNotDistinct => version >= 15
  BY DEF Stages, AfterCopy, Supported, NeedsPG15
<1> QED BY <1>1, <1>3, <1>4, <1>5

\* Over an unchanged source no constraint fails on the rows that were copied.
LEMMA LateStep == ~UniqueDisable /\ IInv /\ NoLateFailure /\ [Next]_vars => NoLateFailure'
<1> SUFFICES ASSUME ~UniqueDisable, TypeOK, SourceSound, StillTrue, Stages, NoLateFailure,
                    [Next]_vars
             PROVE  NoLateFailure'
  BY DEF IInv
<1>1. ASSUME UNCHANGED <<stage, changes>> PROVE NoLateFailure'
  BY <1>1 DEF NoLateFailure
<1>2. CASE SourceStep
  BY <1>2, Frames DEF SourceChanges, NoLateFailure
<1>3. CASE CreateKey
  <2>1. SUFFICES ASSUME changes = 0 PROVE tgtKey'
    BY <1>3, <2>1 DEF CreateKey, NoLateFailure, TypeOK
  <2>2. stage \in AfterCopy
    BY <1>3 DEF CreateKey, AfterCopy
  <2> QED BY <1>3, <2>1, <2>2, CopiedRows DEF CreateKey
<1>4. CASE CreateCheck
  <2>1. SUFFICES ASSUME changes = 0, Rendered(catalogue.check) = "valid",
                        NEW i \in DOMAIN tgtChildren
                 PROVE  Checked(tgtChildren[i])
    BY <1>4 DEF CreateCheck, NoLateFailure, TypeOK
  <2>2. stage \in AfterCopy
    BY <1>4 DEF CreateCheck, AfterCopy
  <2>3. check = "trusted" /\ tgtChildren = children
    BY <2>1, <2>2, CopiedRows DEF Rendered
  <2> QED BY <2>1, <2>3 DEF SourceSound
<1>5. CASE CreateForeignKey
  <2>1. SUFFICES ASSUME changes = 0, Rendered(catalogue.fk) = "valid",
                        NEW i \in DOMAIN tgtChildren
                 PROVE  Refers(tgtChildren[i], tgtParents)
    BY <1>5 DEF CreateForeignKey, NoLateFailure, TypeOK
  <2>2. stage \in AfterCopy
    BY <1>5 DEF CreateForeignKey, AfterCopy
  <2>3. fk = "trusted" /\ tgtChildren = children /\ tgtParents = parents
    BY <2>1, <2>2, CopiedRows DEF Rendered
  <2> QED BY <2>1, <2>3 DEF SourceSound
<1>6. CASE Introspect \/ PrepareDatabase \/ CopyParents \/ CopyChildren \/ Copied
  BY <1>6 DEF Introspect, PrepareDatabase, CopyParents, CopyChildren, Copied, NoLateFailure
<1>7. CASE UNCHANGED vars
  BY <1>1, <1>7 DEF vars
<1> QED BY Steps, <1>2, <1>3, <1>4, <1>5, <1>6, <1>7 DEF MigrationStep

-------------------------------------------------------------------------------
(* The theorems. *)

\* The invariant holds before the migration.
LEMMA InitIInv == Init => IInv
<1> SUFFICES ASSUME Init PROVE IInv
  OBVIOUS
<1>1. TypeOK
  <2>1. children \in Seq(Rows) /\ tgtChildren \in Seq(Rows) /\ Len(children) = 0
    BY EmptySeq DEF Init
  <2>2. /\ key \in Keys /\ nullable \in Nullables /\ version \in Versions
        /\ keyDisabled \in BOOLEAN /\ check \in SourceStates /\ fk \in SourceStates
        /\ stage = "source" /\ tgtKey \in BOOLEAN
        /\ tgtCheck \in TargetStates /\ tgtFk \in TargetStates
    BY DEF Init, SourceStates, TargetStates
  <2>3. catalogue.check \in SourceStates /\ catalogue.fk \in SourceStates
    BY DEF Init, SourceStates
  <2>4. /\ parents \subseteq Values /\ tgtParents \subseteq Values
        /\ copied \subseteq {"parents", "children"}
    BY DEF Init
  <2>5. changes \in 0..MaxChanges /\ Len(children) <= MaxRows
    BY <2>1 DEF Init
  <2> QED BY <2>1, <2>2, <2>3, <2>4, <2>5 DEF TypeOK
<1>2. SourceSound /\ TargetSound
  <2>1. DOMAIN children = {} /\ DOMAIN tgtChildren = {}
    BY DEF Init
  <2> QED BY <2>1 DEF Init, SourceSound, TargetSound, Unique
<1>3. StillTrue /\ Stages
  BY DEF Init, StillTrue, Stages, AfterCopy
<1> QED BY <1>1, <1>2, <1>3 DEF IInv

\* The invariant holds for any tables and any changes of the source.
THEOREM Invariance == Spec => []IInv
<1>1. IInv /\ [Next]_vars => IInv'
  BY TypeStep, SourceSoundStep, StillTrueStep, StagesStep, TargetSoundStep DEF IInv
<1> QED BY InitIInv, <1>1, PTL DEF Spec

\* Every variable keeps its type.
THEOREM TypeCorrect == Spec => []TypeOK
<1>1. IInv => TypeOK
  BY DEF IInv
<1> QED BY Invariance, <1>1, PTL

\* When unique constraints cannot be disabled, creating the constraints fails only if the
\* source has changed since Introspect.
THEOREM NoneFailsLate ==
    ASSUME ~UniqueDisable
    PROVE  Spec => []NoLateFailure
<1>1. Init => NoLateFailure
  BY DEF Init, NoLateFailure
<1>2. IInv /\ NoLateFailure /\ [Next]_vars => NoLateFailure'
  BY LateStep
<1> QED BY Invariance, <1>1, <1>2, PTL DEF Spec

\* Whatever the source was doing during the copy, the constraints it trusted hold for
\* the rows of a migration that ended well.
THEOREM TornCopiesFail == Spec => []TornCopyNoticed
<1>1. IInv => TornCopyNoticed
  BY DEF IInv, TornCopyNoticed, TargetSound, Stages, Rendered, AfterCopy
<1> QED BY Invariance, <1>1, PTL

\* When unique constraints cannot be disabled, the migrated table takes the next row
\* exactly when its source would.  (A disabled one is created as a unique constraint.)
THEOREM WritesAgree ==
    ASSUME ~UniqueDisable
    PROVE  Spec => []SameWrites
<1>1. ASSUME IInv PROVE SameWrites
  <2> SUFFICES ASSUME stage = "live", changes = 0
               PROVE  /\ \A r \in AnyRow : SourceAccepts(r) <=> TargetAccepts(r)
                      /\ \A p \in parents : SourceReleases(p) <=> TargetReleases(p)
    BY DEF SameWrites
  <2> USE <1>1 DEF IInv
  <2>1. /\ tgtParents = parents /\ tgtChildren = children /\ children \in Seq(Rows)
        /\ check # "disabled" /\ fk # "disabled" /\ ~keyDisabled
    BY CopiedRows DEF AfterCopy
  <2>2. tgtKey /\ tgtCheck # "none" /\ tgtFk # "none"
    BY DEF Stages, Rendered
  <2>3. ASSUME NEW r \in AnyRow PROVE SourceAccepts(r) <=> TargetAccepts(r)
    <3>1. CASE r \in Rows
      <4>1. Append(children, r) \in Seq(Rows)
        BY <2>1, <3>1, AppendProperties
      <4>2. Unique(Append(children, r), TRUE)
            <=> Unique(Append(children, r), NeedsNullsNotDistinct)
        BY <4>1, SameUniqueness
      <4> QED BY <2>1, <2>2, <4>2 DEF SourceAccepts, TargetAccepts
    <3>2. CASE r \notin Rows
      BY <3>2 DEF SourceAccepts, TargetAccepts
    <3> QED BY <3>1, <3>2
  <2>4. ASSUME NEW p \in parents PROVE SourceReleases(p) <=> TargetReleases(p)
    BY <2>1, <2>2 DEF SourceReleases, TargetReleases
  <2> QED BY <2>3, <2>4
<1> QED BY Invariance, <1>1, PTL

================================================================================
