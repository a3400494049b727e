----------------------------- MODULE Introspection -----------------------------
(***************************************************************************)
(* Source.Introspect: ten queries of the SQL Server catalogue, one after the*)
(* other and in no transaction, while other sessions create, alter and drop *)
(* tables; and what a run makes of the catalogue it gets.                   *)
(*                                                                          *)
(* The source maps the names of its tables to definitions:                  *)
(*   columns   in the order of their column_id: [name, seed]; seed is 0     *)
(*             unless the column is an identity column                      *)
(*   keys      what hangs on the table: [kind, name, referenced, entries];  *)
(*             an entry is a column with a detail: of a foreign key the     *)
(*             column it refers to, of an index whether it is only included *)
(* A query sees one state of the source.                                    *)
(***************************************************************************)
EXTENDS Filters

CONSTANTS
    Scenarios,          (* [source, views, filters, ddl], see Init *)
    Alterations         (* <<table, definition>>: what other sessions may make of a table *)

VARIABLES
    filters,            (* of the run *)
    schemaOnly,         (* -schema-only *)
    source,             (* the tables of the source *)
    views,              (* the names of its views *)
    ddl,                (* how many statements of other sessions may still come *)
    at,                 (* the query that is next *)
    phase,              (* how far the run has come *)
    tables,             (* the catalogue: the names of its tables *)
    columns,            (* their columns *)
    keys,               (* what hangs on them: [table, kind, name, referenced, entries] *)
    selectedViews,      (* its views *)
    copied,             (* tables whose rows have been copied *)
    steady,             (* history: what has been in the source all the time *)
    ever                (* history: what has been in the source at any time *)

catalogue == <<tables, columns, keys, selectedViews>>
vars == <<filters, schemaOnly, source, views, ddl, at, phase, catalogue, copied, steady, ever>>

KeyKinds == {"primaryKey", "unique", "index", "default", "foreignKey", "check"}

Queries == <<"tables", "columns", "identity", "primaryKey", "unique", "index", "default",
             "foreignKey", "check", "views">>

\* Names and patterns consist of symbols, see Filters.
Name == Seq(STRING)

AnyObject == [schema : Name, name : Name]
AnyColumn == [name : STRING, seed : Int]
AnyKey == [kind : KeyKinds, name : Name, referenced : AnyObject, entries : Seq(STRING \X STRING)]
AnyTable == [columns : Seq(AnyColumn), keys : SUBSET AnyKey]

\* A table has columns of different names, and a key has at least one; keys of the same
\* kind have different names.
WellFormed(table) ==
    /\ table.columns # <<>>
    /\ \A i, j \in DOMAIN table.columns : i # j => table.columns[i].name # table.columns[j].name
    /\ \A k \in table.keys : k.entries # <<>>
    /\ \A k, l \in table.keys : k.kind = l.kind /\ k.name = l.name => k = l

Definitions ==
    (UNION {{s.source[t] : t \in DOMAIN s.source} : s \in Scenarios}) \cup {a[2] : a \in Alterations}

ASSUME DefinitionsAssumption == Definitions \subseteq AnyTable /\ \A d \in Definitions : WellFormed(d)
ASSUME ScenariosAssumption ==
    \A s \in Scenarios :
        /\ s.ddl \in Nat
        /\ s.views \cup DOMAIN s.source \subseteq AnyObject
        /\ s.filters.includeSchemas \cup s.filters.includeTables
              \cup s.filters.excludeSchemas \cup s.filters.excludeTables \subseteq Name
ASSUME AlterationsAssumption == \A a \in Alterations : a[1] \in AnyObject

ColumnNames(cols) == [i \in DOMAIN cols |-> cols[i].name]

IsIdentity(column) == column.seed # 0

\* A list of columns as the columns query gives it, without the seeds.
Outline(cols) == [i \in DOMAIN cols |-> [name |-> cols[i].name, identity |-> IsIdentity(cols[i])]]

EntryColumns(key) == {key.entries[i][1] : i \in DOMAIN key.entries}
EntryDetails(key) == {key.entries[i][2] : i \in DOMAIN key.entries}

-------------------------------------------------------------------------------
(* The source. *)

OnTable(t, key) ==
    [table |-> t, kind |-> key.kind, name |-> key.name, referenced |-> key.referenced,
     entries |-> key.entries]

\* What the histories keep of a source.
Contents(s) ==
    [columns |-> UNION {{<<t, c>> : c \in ToSet(s[t].columns)} : t \in DOMAIN s},
     keys |-> UNION {{OnTable(t, k) : k \in s[t].keys} : t \in DOMAIN s},
     outlines |-> {<<t, Outline(s[t].columns)>> : t \in DOMAIN s}]

\* SQL Server drops nothing a foreign key refers to, nor a column with a key on it.
Consistent(s) ==
    \A t \in DOMAIN s : \A k \in s[t].keys :
        /\ EntryColumns(k) \subseteq ToSet(ColumnNames(s[t].columns))
        /\ k.kind = "foreignKey" =>
               /\ k.referenced \in DOMAIN s
               /\ EntryDetails(k) \subseteq ToSet(ColumnNames(s[k.referenced].columns))

Becomes(s) ==
    /\ phase \notin {"ok", "error"} /\ ddl > 0
    /\ Consistent(s)
    /\ source' = s
    /\ ddl' = ddl - 1
    /\ LET now == Contents(s)
       IN /\ steady' = [f \in DOMAIN steady |-> steady[f] \cap now[f]]
          /\ ever' = [f \in DOMAIN ever |-> ever[f] \cup now[f]]
    /\ UNCHANGED <<filters, schemaOnly, views, at, phase, catalogue, copied>>

\* CREATE TABLE, ALTER TABLE, sp_rename of a column.
Alter ==
    \E a \in Alterations :
        Becomes([t \in DOMAIN source \cup {a[1]} |-> IF t = a[1] THEN a[2] ELSE source[t]])

Drop == \E t \in DOMAIN source : Becomes([u \in DOMAIN source \ {t} |-> source[u]])

-------------------------------------------------------------------------------
(* The queries. *)

Asks(query) == phase = "introspect" /\ at <= Len(Queries) /\ Queries[at] = query

Answered ==
    /\ at' = at + 1
    /\ UNCHANGED <<filters, schemaOnly, source, views, ddl, phase, copied, steady, ever>>

LoadTables ==
    /\ Asks("tables")
    /\ tables' = {t \in DOMAIN source : MatchesTable(filters, t.schema, t.name)}
    /\ columns' = [t \in tables' |-> <<>>]
    /\ UNCHANGED <<keys, selectedViews>>
    /\ Answered

\* An identity column counts from 1 for now.  Tables that are not in the catalogue, or
\* no longer in the source, get no columns.
LoadColumns ==
    /\ Asks("columns")
    /\ LET Loaded(c) == [c EXCEPT !.seed = IF IsIdentity(c) THEN 1 ELSE 0]
       IN columns' = [t \in tables |->
              IF t \notin DOMAIN source THEN <<>>
              ELSE [i \in DOMAIN source[t].columns |-> Loaded(source[t].columns[i])]]
    /\ UNCHANGED <<tables, keys, selectedViews>>
    /\ Answered

\* Mutant: the identity columns found set the column of the same position.
SeedByPosition(t, i) ==
    IF t \in DOMAIN source /\ i \in DOMAIN source[t].columns /\ IsIdentity(source[t].columns[i])
    THEN source[t].columns[i].seed
    ELSE columns[t][i].seed

\* The seed the identity query gives for a column, if it gives one.
SeedOf(t, i) ==
    LET column == columns[t][i]
        found == {c \in ToSet(source[t].columns) : IsIdentity(c) /\ c.name = column.name}
    IN IF IsIdentity(column) /\ t \in DOMAIN source /\ found # {}
       THEN (CHOOSE c \in found : TRUE).seed
       ELSE column.seed

LoadIdentityColumns ==
    /\ Asks("identity")
    /\ columns' = [t \in tables |->
           [i \in DOMAIN columns[t] |-> [columns[t][i] EXCEPT !.seed = SeedOf(t, i)]]]
    /\ UNCHANGED <<tables, keys, selectedViews>>
    /\ Answered

\* The rows of a query: one for each entry.
Rows(kind) ==
    LET Found == {k \in Contents(source).keys : k.kind = kind}
        RowsOf(k) == {[key |-> k, entry |-> k.entries[i], ordinal |-> i] : i \in DOMAIN k.entries}
    IN UNION {RowsOf(k) : k \in Found}

\* Rows as the ORDER BY of the query sorts them.
InOrder(q) ==
    IsInjective(q) /\ \A i, j \in DOMAIN q : i < j => q[i].ordinal <= q[j].ordinal

\* The first row makes the key, all of them its entries.
KeyOf(rows) ==
    LET sorted == CHOOSE q \in [1..Cardinality(rows) -> rows] : InOrder(q)
    IN [sorted[1].key EXCEPT !.entries = [i \in DOMAIN sorted |-> sorted[i].entry]]

\* Mutant: rows of tables outside the catalogue are not skipped.
InAnyTable(row) == TRUE

InCatalogue(row) == row.key.table \in tables

\* Mutant: rows are collected by the name of the key alone.
SameName(row, other) == row.key.name = other.key.name

\* Rows with the same key of the map: schema, table and name.  (Primary keys are not
\* looked up by their name, a table has only one.)
SameKey(row, other) == row.key.table = other.key.table /\ row.key.name = other.key.name

\* Keys of tables that are not in the catalogue are left out.
LoadKeys(kind) ==
    /\ Asks(kind)
    /\ LET rows == {r \in Rows(kind) : InCatalogue(r)}
       IN keys' = keys \cup {KeyOf({q \in rows : SameKey(r, q)}) : r \in rows}
    /\ UNCHANGED <<tables, columns, selectedViews>>
    /\ Answered

LoadPrimaryKeys == LoadKeys("primaryKey")
LoadUniqueConstraints == LoadKeys("unique")
LoadIndexes == LoadKeys("index")
LoadDefaultConstraints == LoadKeys("default")
LoadForeignKeys == LoadKeys("foreignKey")
LoadCheckConstraints == LoadKeys("check")

LoadViews ==
    /\ Asks("views")
    /\ selectedViews' = {v \in views : MatchesTable(filters, v.schema, v.name)}
    /\ UNCHANGED <<tables, columns, keys>>
    /\ Answered

-------------------------------------------------------------------------------
(* The run. *)

MovesTo(stage) ==
    /\ phase' = stage
    /\ UNCHANGED <<filters, schemaOnly, source, views, ddl, at, tables, columns, selectedViews,
                   steady, ever>>

ValidateFilters ==
    /\ phase = "filters"
    /\ MovesTo(IF ValidFilters(filters) THEN "introspect" ELSE "error")
    /\ UNCHANGED <<keys, copied>>

\* What a key is made of is there, on both sides of a foreign key.
KeyFits(key) ==
    /\ EntryColumns(key) \subseteq ToSet(ColumnNames(columns[key.table]))
    /\ key.kind = "foreignKey" =>
           EntryDetails(key) \subseteq ToSet(ColumnNames(columns[key.referenced]))

\* filterForeignKeys, CREATE TABLE for every table with its primary key, and the defaults.
\* Validate in between looks at names and definitions, not at whether columns are there.
CreateTables ==
    /\ phase = "introspect" /\ at > Len(Queries)
    /\ keys' = {k \in keys : k.kind = "foreignKey" => k.referenced \in tables}
    /\ MovesTo(IF \A k \in keys' : k.kind \in {"primaryKey", "default"} => KeyFits(k)
               THEN "copy" ELSE "error")
    /\ UNCHANGED copied

\* Mutant: an empty list of columns selects all of them.
SelectAll(t) ==
    t \in DOMAIN source /\ ToSet(ColumnNames(columns[t])) \subseteq ToSet(ColumnNames(source[t].columns))

\* StreamTable: SELECT the columns, by name, FROM the table as it is by now.
Selectable(t) ==
    /\ t \in DOMAIN source /\ columns[t] # <<>>
    /\ ToSet(ColumnNames(columns[t])) \subseteq ToSet(ColumnNames(source[t].columns))

CopyTable ==
    /\ phase = "copy" /\ ~schemaOnly
    /\ \E t \in tables \ copied :
           /\ copied' = copied \cup {t}
           /\ MovesTo(IF Selectable(t) THEN "copy" ELSE "error")
    /\ UNCHANGED keys

\* Indexes, unique constraints, checks and foreign keys, none of which PostgreSQL creates
\* on columns that are not there.
Constrain ==
    /\ phase = "copy" /\ (schemaOnly \/ copied = tables)
    /\ MovesTo(IF \A k \in keys : KeyFits(k) THEN "ok" ELSE "error")
    /\ UNCHANGED <<keys, copied>>

\* A query that fails, a connection that is lost, a context that is cancelled.
Fail ==
    /\ phase \notin {"ok", "error"}
    /\ MovesTo("error")
    /\ UNCHANGED <<keys, copied>>

-------------------------------------------------------------------------------
Init ==
    /\ \E s \in Scenarios :
           /\ source = s.source /\ views = s.views /\ filters = s.filters /\ ddl = s.ddl
           /\ steady = Contents(s.source) /\ ever = Contents(s.source)
    /\ schemaOnly \in BOOLEAN
    /\ at = 1 /\ phase = "filters"
    /\ tables = {} /\ columns = <<>> /\ keys = {} /\ selectedViews = {}
    /\ copied = {}

Next ==
    \/ Alter \/ Drop
    \/ ValidateFilters
    \/ LoadTables \/ LoadColumns \/ LoadIdentityColumns \/ LoadPrimaryKeys
    \/ LoadUniqueConstraints \/ LoadIndexes \/ LoadDefaultConstraints \/ LoadForeignKeys
    \/ LoadCheckConstraints \/ LoadViews
    \/ CreateTables \/ CopyTable \/ Constrain
    \/ Fail

Spec == Init /\ [][Next]_vars

-------------------------------------------------------------------------------
(* Properties. *)

TypeOK ==
    /\ ddl \in Nat /\ at \in 1..(Len(Queries) + 1)
    /\ phase \in {"filters", "introspect", "copy", "ok", "error"}
    /\ DOMAIN columns = tables
    /\ \A k \in keys : k.kind \in KeyKinds /\ k.table \in tables
    /\ selectedViews \subseteq views
    /\ copied \subseteq tables

Introspected == at > Len(Queries)

Undotted(x) == ~Contains(x.schema, ".") /\ ~Contains(x.name, ".")

\* The filters select tables and views the way they read: patterns for the schema and
\* for the object, whatever their case, exclusions last.  (Where a name itself contains a
\* dot, the code may take a part of the schema for the whole.)
SelectedByParts ==
    Introspected =>
        /\ \A v \in views : Undotted(v) => (v \in selectedViews <=> Selected(filters, v.schema, v.name))
        /\ \A t \in tables : Undotted(t) => Selected(filters, t.schema, t.name)
        /\ \A l \in steady.outlines :
               Undotted(l[1]) /\ Selected(filters, l[1].schema, l[1].name) => l[1] \in tables

\* Whatever other sessions do between the queries, a column or a key of a selected table
\* that was there all the time is in the catalogue, the column with its own seed, the
\* key with its columns in their order.  Only foreign keys to tables outside the
\* selection are dropped afterwards.
SteadyIsComplete ==
    LET Dropped(k) == k.kind = "foreignKey" /\ k.referenced \notin tables /\ phase # "introspect"
    IN Introspected =>
           /\ \A c \in steady.columns : c[1] \in tables => c[2] \in ToSet(columns[c[1]])
           /\ \A k \in steady.keys : k.table \in tables /\ ~Dropped(k) => k \in keys

\* A column is as it was in the source at some time; or it still has the provisional seed,
\* which is possible only if it was not an identity column all the time.
ColumnExplained(t, column) ==
    \/ <<t, column>> \in ever.columns
    \/ /\ column.seed = 1
       /\ ~\E c \in steady.columns :
              c[1] = t /\ c[2].name = column.name /\ IsIdentity(c[2])

\* No key is put together from two tables, two keys or two moments, and neither are the
\* names of a table's columns, their order and which of them are identity columns: all
\* this was in the source at one moment.  The seeds come from a later query, so a list
\* with its seeds may be of two moments; each seed was that of its column at some time,
\* except for the provisional one of a column that another session changed in between.
NothingInvented ==
    /\ keys \subseteq ever.keys
    /\ \A t \in tables : columns[t] # <<>> =>
           /\ <<t, Outline(columns[t])>> \in ever.outlines
           /\ \A i \in DOMAIN columns[t] :
                  at > 3 \/ ~IsIdentity(columns[t][i]) => ColumnExplained(t, columns[t][i])

\* A run that reports success has no table without columns, unless it was to copy no
\* rows: a table that was dropped or renamed behind the first query makes it fail.
SuccessHasColumns == phase = "ok" /\ ~schemaOnly => \A t \in tables : columns[t] # <<>>
================================================================================
