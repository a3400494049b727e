-------------------------------- MODULE Catalog --------------------------------
(***************************************************************************)
(* What a run makes of the source catalogue before it touches the target:   *)
(* the selection by the filters, the pruning of foreign keys, the checks of *)
(* Validate, and the sequence of statements the catalogue turns into.       *)
(*                                                                          *)
(* A catalogue is a record of sequences, each in the order the loops of the *)
(* code visit it.  One schema is modelled: a name stands for a              *)
(* schema-qualified name, and PostgreSQL has one name space for the tables, *)
(* views, indexes and sequences of a schema.                                *)
(*                                                                          *)
(*   schemas      [name]                                                    *)
(*   tables       [name, primaryKey, sequence]: primaryKey is the name of   *)
(*                the primary key; sequence is the name PostgreSQL gives    *)
(*                the sequence behind an identity column ("<table>_<column>_seq")*)
(*   indexes, uniques, checks, defaults      [name, table]                  *)
(*   foreignKeys  [name, table, referenced, backing]: backing is the primary*)
(*                key, unique constraint or unique index it refers to       *)
(*   views        [name, uses]: the relations a view selects from           *)
(*   unsupported  names of the objects whose definition has no translation  *)
(***************************************************************************)
EXTENDS Naturals, Sequences, SequencesExt

NoName == "none"        (* a table without a primary key, or without an identity column *)

Names(s) == {s[i].name : i \in DOMAIN s}

\* The elements of a sequence that are in a set, in their order.
Among(s, S) ==
    LET among[i \in 0..Len(s)] ==
            IF i = 0 THEN <<>>
            ELSE IF s[i] \in S THEN Append(among[i - 1], s[i])
            ELSE among[i - 1]
    IN among[Len(s)]

-------------------------------------------------------------------------------
(* What SQL Server guarantees about a catalogue. *)

AnySchema == [name : STRING]
AnyTable == [name : STRING, primaryKey : STRING, sequence : STRING]
AnyPart == [name : STRING, table : STRING]
AnyForeignKey == [name : STRING, table : STRING, referenced : STRING, backing : STRING]
AnyView == [name : STRING, uses : SUBSET STRING]

Catalogues ==
    [schemas : Seq(AnySchema), tables : Seq(AnyTable),
     indexes : Seq(AnyPart), uniques : Seq(AnyPart), checks : Seq(AnyPart), defaults : Seq(AnyPart),
     foreignKeys : Seq(AnyForeignKey), views : Seq(AnyView), unsupported : SUBSET STRING]

\* The primary key, unique constraints and indexes of a table.
Backings(c, table) ==
    {t.primaryKey : t \in {u \in ToSet(c.tables) : u.name = table}}
    \cup {x.name : x \in {y \in ToSet(c.uniques) \cup ToSet(c.indexes) : y.table = table}}

\* Everything hangs on a table, a foreign key on two of them and on a key of the second;
\* names of foreign keys are unique; schemas have no definition.
Consistent(c) ==
    /\ \A x \in ToSet(c.indexes) \cup ToSet(c.uniques) \cup ToSet(c.checks) \cup ToSet(c.defaults) :
           x.table \in Names(c.tables)
    /\ \A f \in ToSet(c.foreignKeys) :
           /\ {f.table, f.referenced} \subseteq Names(c.tables)
           /\ f.backing \in Backings(c, f.referenced) \ {NoName}
    /\ \A f, g \in ToSet(c.foreignKeys) : f.name = g.name => f = g
    /\ NoName \notin Names(c.tables) \cup Names(c.views) \cup Names(c.indexes) \cup Names(c.uniques)
    /\ c.unsupported \cap Names(c.schemas) = {}

\* A view selects from tables and views created before it.
Layered(c) ==
    /\ \A v \in ToSet(c.views) : v.uses \subseteq Names(c.tables) \cup Names(c.views)
    /\ \E rank \in [Names(c.views) -> 0..Len(c.views)] :
           \A v \in ToSet(c.views) : \A u \in v.uses \cap Names(c.views) : rank[u] < rank[v.name]

-------------------------------------------------------------------------------
(* Selection. *)

\* Introspect: tables and views that match the filters, and what hangs on the tables.
Introspect(source, chosen) ==
    LET Chosen(s) == Among(s, {x \in ToSet(s) : x.name \in chosen})
        OnChosen(s) == Among(s, {x \in ToSet(s) : x.table \in chosen})
    IN [schemas |-> source.schemas,
        tables |-> Chosen(source.tables),
        indexes |-> OnChosen(source.indexes),
        uniques |-> OnChosen(source.uniques),
        checks |-> OnChosen(source.checks),
        defaults |-> OnChosen(source.defaults),
        foreignKeys |-> OnChosen(source.foreignKeys),
        views |-> Chosen(source.views),
        unsupported |-> source.unsupported]

\* Mutant: foreign keys to tables outside the selection are kept.
KeepForeignKeys(c) == c

\* filterForeignKeys drops the foreign keys to tables outside the selection.
FilterForeignKeys(c) ==
    [c EXCEPT !.foreignKeys = Among(@, {f \in ToSet(@) : f.referenced \in Names(c.tables)})]

-------------------------------------------------------------------------------
(* Validate. *)

\* The relations the catalogue declares: kind and position.  The sequences PostgreSQL
\* creates for identity columns are not among them.
TargetRelations(c) ==
    ({"table"} \X DOMAIN c.tables)
    \cup ({"primaryKey"} \X {i \in DOMAIN c.tables : c.tables[i].primaryKey # NoName})
    \cup ({"unique"} \X DOMAIN c.uniques)
    \cup ({"index"} \X DOMAIN c.indexes)
    \cup ({"view"} \X DOMAIN c.views)

RelationName(c, relation) ==
    LET i == relation[2]
    IN CASE relation[1] = "table" -> c.tables[i].name
         [] relation[1] = "primaryKey" -> c.tables[i].primaryKey
         [] relation[1] = "unique" -> c.uniques[i].name
         [] relation[1] = "index" -> c.indexes[i].name
         [] relation[1] = "view" -> c.views[i].name

\* Mutant: views are left out of the names the run is going to create.
RelationNamesWithoutViews(c) ==
    [relation \in TargetRelations([c EXCEPT !.views = <<>>]) |-> RelationName(c, relation)]

\* targetRelationNames
TargetRelationNames(c) == [relation \in TargetRelations(c) |-> RelationName(c, relation)]

\* Objects whose definition is translated.
Translated(c) ==
    Names(c.tables) \cup Names(c.views) \cup Names(c.indexes) \cup Names(c.uniques)
    \cup Names(c.checks) \cup Names(c.defaults) \cup Names(c.foreignKeys)

\* Mutant: untranslatable definitions are let through.
ValidNamesOnly(c) == IsInjective(TargetRelationNames(c))

\* mapCatalog and Validate: every definition can be translated, and no two objects
\* need the same name.
Valid(c) ==
    /\ c.unsupported \cap Translated(c) = {}
    /\ IsInjective(TargetRelationNames(c))

-------------------------------------------------------------------------------
(* Statements: needs are relations that must exist, creates are names that   *)
(* must be free, implicit are names PostgreSQL takes if they are free.       *)

Kinds == {"schema", "table", "default", "rows", "sequence", "index", "unique", "check",
          "foreignKey", "view"}

AnyStatement == [op : Kinds, name : STRING, needs : SUBSET STRING,
                 creates : SUBSET STRING, implicit : SUBSET STRING]

Statement(op, name, needs, creates, implicit) ==
    [op |-> op, name |-> name, needs |-> needs, creates |-> creates \ {NoName},
     implicit |-> implicit \ {NoName}]

CreateSchema(s) == Statement("schema", s.name, {}, {}, {})
CreateTable(t) == Statement("table", t.name, {}, {t.name, t.primaryKey}, {t.sequence})
CopyTable(t) == Statement("rows", t.name, {t.name}, {}, {})
ResetSequence(t) == Statement("sequence", t.name, {t.name}, {}, {})
CreateDefault(d) == Statement("default", d.name, {d.table}, {}, {})
CreateIndex(x) == Statement("index", x.name, {x.table}, {x.name}, {})
CreateUnique(u) == Statement("unique", u.name, {u.table}, {u.name}, {})
CreateCheck(k) == Statement("check", k.name, {k.table}, {}, {})
CreateForeignKey(f) ==
    Statement("foreignKey", f.name, {f.table, f.referenced, f.backing}, {}, {})
CreateView(v) == Statement("view", v.name, v.uses, {v.name}, {})

\* One statement for each element of a sequence.
Each(Op(_), s) == [i \in DOMAIN s |-> Op(s[i])]

Identities(c) == Among(c.tables, {t \in ToSet(c.tables) : t.sequence # NoName})

\* CreateIndexes passes over an index it cannot render, without an error.
RenderedIndexes(c) == Among(c.indexes, {x \in ToSet(c.indexes) : x.name \notin c.unsupported})

\* The statements of Run in the order it sends them, up to the views.
Program(c, schemaOnly) ==
    Each(CreateSchema, c.schemas) \o Each(CreateTable, c.tables) \o Each(CreateDefault, c.defaults)
    \o (IF schemaOnly THEN <<>> ELSE Each(CopyTable, c.tables) \o Each(ResetSequence, Identities(c)))
    \o Each(CreateIndex, RenderedIndexes(c)) \o Each(CreateUnique, c.uniques)
    \o Each(CreateCheck, c.checks) \o Each(CreateForeignKey, c.foreignKeys)
================================================================================
