-------------------------- MODULE IntrospectionProof --------------------------
(***************************************************************************)
(* Proofs about Introspection: whatever other sessions do between the       *)
(* queries, the catalogue has everything that was there all the time, and   *)
(* nothing that was never there.                                            *)
(***************************************************************************)
EXTENDS Introspection, NumberProof, FiniteSetTheorems

-------------------------------------------------------------------------------
(* The inductive invariant. *)

\* The queries a run has had answered.
Asked(query) == \E i \in DOMAIN Queries : i < at /\ Queries[i] = query

\* The source is made of known tables, and the histories are on either side of it.
SourceOK ==
    /\ \A t \in DOMAIN source : source[t] \in Definitions
    /\ steady.columns \subseteq Contents(source).columns
    /\ steady.keys \subseteq Contents(source).keys
    /\ Contents(source).columns \subseteq ever.columns
    /\ Contents(source).keys \subseteq ever.keys
    /\ Contents(source).outlines \subseteq ever.outlines
    /\ DOMAIN steady = {"columns", "keys", "outlines"} /\ DOMAIN ever = {"columns", "keys", "outlines"}

\* The run asks its queries before it copies, and copies before it succeeds.
PhasesOK ==
    /\ phase = "filters" => at = 1
    /\ phase \in {"copy", "ok"} => Introspected
    /\ phase \in {"filters", "introspect"} => copied = {}
    /\ phase = "ok" /\ ~schemaOnly => copied = tables
    /\ phase \in {"copy", "ok"} => \A t \in copied : columns[t] # <<>>
    /\ at = 1 => tables = {} /\ keys = {} /\ copied = {}

\* The columns of a table were those of the source at some time, but for their seeds, which
\* are provisional until the identity columns have been loaded.
ColumnsReal ==
    \A t \in tables :
        /\ columns[t] \in Seq(AnyColumn)
        /\ columns[t] # <<>> => <<t, Outline(columns[t])>> \in ever.outlines
        /\ \A i \in DOMAIN columns[t] :
               IF at > 3 \/ ~IsIdentity(columns[t][i])
               THEN ColumnExplained(t, columns[t][i])
               ELSE columns[t][i].seed = 1

\* Column i of a table is column c of the source, but perhaps for its seed.
Resembles(t, i, c) ==
    /\ columns[t][i].name = c.name
    /\ IsIdentity(c) => IsIdentity(columns[t][i])
    /\ ~IsIdentity(c) => columns[t][i] = c

\* A column that has been there all the time is in the catalogue once the columns have been
\* loaded, and has its seed once the identity columns have been.
ColumnsComplete ==
    \A c \in steady.columns : c[1] \in tables =>
        /\ at > 2 => \E i \in DOMAIN columns[c[1]] : Resembles(c[1], i, c[2])
        /\ at > 3 => \E i \in DOMAIN columns[c[1]] : columns[c[1]][i] = c[2]

\* Foreign keys to tables outside the selection are dropped after the last query.
Dropped(k) == k.kind = "foreignKey" /\ k.referenced \notin tables /\ phase # "introspect"

\* A key is in the catalogue as it was in the source, and is there if it has been there all
\* the time.
KeysOK ==
    /\ keys \subseteq ever.keys
    /\ \A k \in steady.keys : Asked(k.kind) /\ k.table \in tables /\ ~Dropped(k) => k \in keys

IntroInv == TypeOK /\ SourceOK /\ PhasesOK /\ ColumnsReal /\ ColumnsComplete /\ KeysOK

\* The filters of the run, the names they are applied to, and what they have selected so far.
SelectionOK ==
    /\ filters.includeSchemas \cup filters.includeTables
           \cup filters.excludeSchemas \cup filters.excludeTables \subseteq Name
    /\ views \subseteq AnyObject /\ DOMAIN source \subseteq AnyObject /\ tables \subseteq AnyObject
    /\ \A l \in steady.outlines : l[1] \in DOMAIN source
    /\ \A t \in tables : MatchesTable(filters, t.schema, t.name)
    /\ at > 1 => \A l \in steady.outlines :
           MatchesTable(filters, l[1].schema, l[1].name) => l[1] \in tables
    /\ at > 10 => \A v \in views : v \in selectedViews <=> MatchesTable(filters, v.schema, v.name)

-------------------------------------------------------------------------------
(* The source. *)

\* The order of the queries.
LEMMA QueryOrder ==
    /\ Len(Queries) = 10 /\ DOMAIN Queries = 1..10
    /\ Queries[1] = "tables" /\ Queries[2] = "columns" /\ Queries[3] = "identity"
    /\ Queries[4] = "primaryKey" /\ Queries[5] = "unique" /\ Queries[6] = "index"
    /\ Queries[7] = "default" /\ Queries[8] = "foreignKey" /\ Queries[9] = "check"
    /\ Queries[10] = "views"
    BY DEF Queries

\* The query a run asks for is not one of the others.
LEMMA AsksAt ==
    ASSUME at \in 1..(Len(Queries) + 1)
    PROVE  /\ Asks("tables") => at = 1
           /\ Asks("columns") => at = 2
           /\ Asks("identity") => at = 3
           /\ \A kind \in KeyKinds : Asks(kind) => at \in 4..9
           /\ Asks("views") => at = 10
<1>1. at \in 1..11
    BY QueryOrder
<1>2. \A query : Asks(query) => at \in 1..10 /\ Queries[at] = query
    BY <1>1, QueryOrder DEF Asks
<1>3. \A i \in 1..10 : i = 1 \/ i = 2 \/ i = 3 \/ i = 4 \/ i = 5 \/ i = 6 \/ i = 7 \/ i = 8 \/ i = 9 \/ i = 10
    OBVIOUS
<1>4. /\ Asks("tables") => at = 1
      /\ Asks("columns") => at = 2
      /\ Asks("identity") => at = 3
      /\ Asks("views") => at = 10
    BY <1>2, <1>3, QueryOrder
<1>5. ASSUME NEW kind \in KeyKinds, Asks(kind) PROVE at \in 4..9
    <2>1. kind \notin {"tables", "columns", "identity", "views"}
        BY DEF KeyKinds
    <2>2. at \notin {1, 2, 3, 10}
        BY <1>2, <1>5, <2>1, QueryOrder
    <2> QED
        BY <1>2, <1>3, <1>5, <2>2
<1> QED
    BY <1>4, <1>5

\* Lists have the same outline if their columns agree in name and in being identity columns.
LEMMA SameOutline ==
    ASSUME NEW s, NEW u, DOMAIN s = DOMAIN u,
           \A i \in DOMAIN s : s[i].name = u[i].name /\ (IsIdentity(s[i]) <=> IsIdentity(u[i]))
    PROVE  Outline(s) = Outline(u)
<1>1. \A c : IsIdentity(c) \in BOOLEAN
    BY DEF IsIdentity
<1>2. \A i \in DOMAIN s : IsIdentity(s[i]) = IsIdentity(u[i])
    BY <1>1
<1> QED
    BY <1>2, Zenon DEF Outline

\* What is on a table in the source.
LEMMA ContentsOf ==
    ASSUME NEW s
    PROVE  /\ \A c \in Contents(s).columns : c[1] \in DOMAIN s /\ c[2] \in ToSet(s[c[1]].columns)
           /\ \A k \in Contents(s).keys :
                  k.table \in DOMAIN s /\ \E l \in s[k.table].keys : k = OnTable(k.table, l)
           /\ \A t \in DOMAIN s : /\ <<t, Outline(s[t].columns)>> \in Contents(s).outlines
                                 /\ \A c \in ToSet(s[t].columns) : <<t, c>> \in Contents(s).columns
<1>1. ASSUME NEW c \in Contents(s).columns PROVE c[1] \in DOMAIN s /\ c[2] \in ToSet(s[c[1]].columns)
    <2>1. PICK t \in DOMAIN s : c \in {<<t, d>> : d \in ToSet(s[t].columns)}
        BY DEF Contents
    <2> QED
        BY <2>1
<1>2. ASSUME NEW k \in Contents(s).keys
      PROVE  k.table \in DOMAIN s /\ \E l \in s[k.table].keys : k = OnTable(k.table, l)
    <2>1. PICK t \in DOMAIN s : k \in {OnTable(t, l) : l \in s[t].keys}
        BY DEF Contents
    <2>2. PICK l \in s[t].keys : k = OnTable(t, l)
        BY <2>1
    <2>3. k.table = t
        BY <2>2 DEF OnTable
    <2> QED
        BY <2>2, <2>3
<1>3. \A t \in DOMAIN s : /\ <<t, Outline(s[t].columns)>> \in Contents(s).outlines
                          /\ \A c \in ToSet(s[t].columns) : <<t, c>> \in Contents(s).columns
    BY DEF Contents
<1> QED
    BY <1>1, <1>2, <1>3

\* The rows of a key.
RowsOf(k) == {[key |-> k, entry |-> k.entries[i], ordinal |-> i] : i \in DOMAIN k.entries}

\* A key of the source.
IsKey(k) == \E t : \E l \in AnyKey : l.entries # <<>> /\ k = OnTable(t, l)

\* The rows of one key, put in their order, make this key again.
LEMMA KeyOfItsRows ==
    ASSUME NEW k, IsKey(k)
    PROVE  KeyOf(RowsOf(k)) = k
<1> DEFINE n == Len(k.entries)
<1> DEFINE R == RowsOf(k)
<1> DEFINE row == [i \in 1..n |-> [key |-> k, entry |-> k.entries[i], ordinal |-> i]]
<1>1. PICK t : \E l \in AnyKey : l.entries # <<>> /\ k = OnTable(t, l)
    BY DEF IsKey
<1>1a. PICK l \in AnyKey : l.entries # <<>> /\ k = OnTable(t, l)
    BY <1>1
<1>2. /\ k.entries \in Seq(STRING \X STRING) /\ k.entries # <<>>
      /\ k = [table |-> k.table, kind |-> k.kind, name |-> k.name, referenced |-> k.referenced,
              entries |-> k.entries]
    BY <1>1a DEF OnTable, AnyKey
<1>3. n \in Nat /\ n > 0 /\ DOMAIN k.entries = 1..n /\ k.entries = [i \in 1..n |-> k.entries[i]]
    BY <1>2
<1>4. R = {row[i] : i \in 1..n}
    BY <1>3 DEF RowsOf
<1> HIDE DEF n
<1>5. \A i \in 1..n : row[i].ordinal = i /\ row[i].key = k /\ row[i].entry = k.entries[i]
    OBVIOUS
<1>6. row \in [1..n -> R] /\ IsInjective(row)
    <2>1. row \in [1..n -> R]
        BY <1>4
    <2>2. \A i, j \in 1..n : row[i] = row[j] => i = j
        BY <1>5
    <2> QED
        BY <2>1, <2>2 DEF IsInjective
<1>7. Cardinality(R) = n
    <2>1. row \in Bijection(1..n, R)
        BY <1>4, <1>6 DEF Bijection, Injection, Surjection, IsInjective
    <2>2. ExistsBijection(1..n, R)
        BY <2>1 DEF ExistsBijection
    <2>3. IsFiniteSet(1..n) /\ Cardinality(1..n) = n
        BY <1>3, FS_Interval
    <2> QED
        BY <2>2, <2>3, FS_Bijection
<1> HIDE DEF row, R
<1>8. InOrder(row)
    <2>1. DOMAIN row = 1..n
        BY <1>6
    <2>2. \A i, j \in 1..n : i < j => row[i].ordinal <= row[j].ordinal
        BY <1>3, <1>5
    <2> QED
        BY <1>6, <2>1, <2>2 DEF InOrder
<1>9. ASSUME NEW q \in [1..n -> R], InOrder(q) PROVE q = row
    <2> DEFINE g == [i \in 1..n |-> q[i].ordinal]
    <2>1. \A i \in 1..n : \E j \in 1..n : q[i] = row[j] /\ g[i] = j
        BY <1>4, <1>5, <1>9
    <2>2. g \in [1..n -> 1..n] /\ \A i \in 1..n : q[i] = row[g[i]]
        BY <2>1
    <2>3. ASSUME NEW i \in 1..n, NEW j \in 1..n, i < j PROVE g[i] < g[j]
        <3>1. g[i] <= g[j]
            BY <1>9, <2>3 DEF InOrder
        <3>2. q[i] # q[j]
            BY <1>3, <1>9, <2>3 DEF InOrder, IsInjective
        <3>3. g[i] # g[j]
            BY <2>2, <3>2
        <3>4. g[i] \in 1..n /\ g[j] \in 1..n
            BY <2>2
        <3> QED
            BY <3>1, <3>3, <3>4
    <2> HIDE DEF g
    <2>4. \A i \in 1..n : g[i] = i
        BY <1>3, <2>2, <2>3, Increasing
    <2>5. \A i \in 1..n : q[i] = row[i]
        BY <2>2, <2>4
    <2>6. q = [i \in 1..n |-> q[i]] /\ row = [i \in 1..n |-> row[i]]
        BY <1>6, <1>9
    <2> QED
        BY <2>5, <2>6
<1>10. (CHOOSE q \in [1..n -> R] : InOrder(q)) = row
    BY <1>6, <1>8, <1>9
<1>11. KeyOf(R) = [row[1].key EXCEPT !.entries = [i \in DOMAIN row |-> row[i].entry]]
    <2> DEFINE Made(q) == [q[1].key EXCEPT !.entries = [i \in DOMAIN q |-> q[i].entry]]
    <2>1. KeyOf(R) = Made(CHOOSE q \in [1..Cardinality(R) -> R] : InOrder(q))
        BY DEF KeyOf
    <2> HIDE DEF Made
    <2>2. KeyOf(R) = Made(row)
        BY <1>7, <1>10, <2>1
    <2> QED
        BY <2>2 DEF Made
<1>12. [i \in DOMAIN row |-> row[i].entry] = k.entries /\ row[1].key = k
    <2>1. DOMAIN row = 1..n /\ 1 \in 1..n
        BY <1>3, <1>6
    <2>2. [i \in 1..n |-> row[i].entry] = [i \in 1..n |-> k.entries[i]]
        BY <1>5
    <2> QED
        BY <1>3, <1>5, <2>1, <2>2
<1>13. [k EXCEPT !.entries = k.entries] = k
    BY <1>2
<1> QED
    BY <1>11, <1>12, <1>13 DEF R

\* The keys of the source: what they look like, and that table, kind and name tell them
\* apart.
LEMMA SourceKeys ==
    ASSUME SourceOK
    PROVE  /\ \A k \in Contents(source).keys : IsKey(k) /\ k.kind \in KeyKinds
           /\ \A k, l \in Contents(source).keys :
                  k.table = l.table /\ k.kind = l.kind /\ k.name = l.name => k = l
<1>1. \A t \in DOMAIN source : source[t] \in AnyTable /\ WellFormed(source[t])
    BY DefinitionsAssumption DEF SourceOK
<1>2. ASSUME NEW k \in Contents(source).keys PROVE IsKey(k) /\ k.kind \in KeyKinds
    <2>1. PICK l \in source[k.table].keys : k = OnTable(k.table, l) /\ k.table \in DOMAIN source
        BY ContentsOf
    <2>2. l \in AnyKey /\ l.entries # <<>>
        BY <1>1, <2>1 DEF AnyTable, WellFormed
    <2>3. k.kind = l.kind /\ l.kind \in KeyKinds
        BY <2>1, <2>2 DEF OnTable, AnyKey
    <2> QED
        BY <2>1, <2>2, <2>3 DEF IsKey
<1>3. ASSUME NEW k \in Contents(source).keys, NEW l \in Contents(source).keys,
             k.table = l.table, k.kind = l.kind, k.name = l.name
      PROVE  k = l
    <2>1. PICK x \in source[k.table].keys : k = OnTable(k.table, x) /\ k.table \in DOMAIN source
        BY ContentsOf
    <2>2. PICK y \in source[l.table].keys : l = OnTable(l.table, y)
        BY ContentsOf
    <2>3. k.kind = x.kind /\ k.name = x.name /\ l.kind = y.kind /\ l.name = y.name
        BY <2>1, <2>2 DEF OnTable
    <2>4. x = y
        <3>1. PICK d : d = source[k.table]
            OBVIOUS
        <3>2. WellFormed(d) /\ x \in d.keys /\ y \in d.keys
            BY <1>1, <1>3, <2>1, <2>2, <3>1
        <3>3. x.kind = y.kind /\ x.name = y.name
            BY <1>3, <2>3
        <3> QED
            BY <3>2, <3>3 DEF WellFormed
    <2> QED
        BY <1>3, <2>1, <2>2, <2>4
<1> QED
    BY <1>2, <1>3

\* What LoadKeys adds to the catalogue, and what there is of this kind for it.
CatalogueRows(kind) == {r \in Rows(kind) : InCatalogue(r)}
Made(kind) ==
    {KeyOf({q \in CatalogueRows(kind) : SameKey(r, q)}) : r \in CatalogueRows(kind)}
Wanted(kind) == {k \in Contents(source).keys : k.kind = kind /\ k.table \in tables}

\* Collecting the rows of a query by table and name gives the keys of the selected tables.
LEMMA KeysOfRows ==
    ASSUME SourceOK, NEW kind \in KeyKinds
    PROVE  Made(kind) = Wanted(kind)
<1> DEFINE R == CatalogueRows(kind)
           K == Wanted(kind)
<1>1. /\ \A k \in K : \A r \in RowsOf(k) : r \in R /\ r.key = k
      /\ \A r \in R : r.key \in K /\ r \in RowsOf(r.key)
    <2>1. Rows(kind) = UNION {RowsOf(k) : k \in {l \in Contents(source).keys : l.kind = kind}}
        BY DEF Rows, RowsOf
    <2>2. \A k : \A r \in RowsOf(k) : r.key = k
        BY DEF RowsOf
    <2> QED
        BY <2>1, <2>2 DEF InCatalogue, CatalogueRows, Wanted
<1>2. ASSUME NEW r \in R PROVE {q \in R : SameKey(r, q)} = RowsOf(r.key)
    <2>1. ASSUME NEW q \in R, SameKey(r, q) PROVE q \in RowsOf(r.key)
        <3>1. r.key.table = q.key.table /\ r.key.name = q.key.name
            BY <2>1 DEF SameKey
        <3>2. r.key = q.key
            BY <1>1, <3>1, SourceKeys DEF Wanted
        <3> QED
            BY <1>1, <3>2
    <2>2. ASSUME NEW q \in RowsOf(r.key) PROVE q \in R /\ SameKey(r, q)
        <3>1. q \in R /\ q.key = r.key
            BY <1>1
        <3> QED
            BY <3>1 DEF SameKey
    <2> QED
        BY <2>1, <2>2
<1>3. \A k \in K : KeyOf(RowsOf(k)) = k
    BY SourceKeys, KeyOfItsRows DEF Wanted
<1>4. ASSUME NEW r \in R PROVE KeyOf({q \in R : SameKey(r, q)}) \in K
    BY <1>1, <1>2, <1>3
<1>5. ASSUME NEW k \in K PROVE \E r \in R : KeyOf({q \in R : SameKey(r, q)}) = k
    <2>1. k.entries # <<>> /\ k.entries \in Seq(STRING \X STRING)
        <3>1. PICK t : \E l \in AnyKey : l.entries # <<>> /\ k = OnTable(t, l)
            BY SourceKeys DEF IsKey, Wanted
        <3> QED
            BY <3>1 DEF OnTable, AnyKey
    <2>2. 1 \in DOMAIN k.entries
        BY <2>1
    <2>3. PICK r : r \in RowsOf(k)
        BY <2>2 DEF RowsOf
    <2>4. r \in R /\ r.key = k
        BY <1>1, <2>3
    <2> QED
        BY <1>2, <1>3, <2>4
<1> QED
    BY <1>4, <1>5 DEF Made

-------------------------------------------------------------------------------
(* The steps. *)

\* A query that is answered joins those answered before.
LEMMA AskedNext ==
    ASSUME at \in 1..(Len(Queries) + 1), NEW query, Asks(query), at' = at + 1
    PROVE  /\ at' \in 1..(Len(Queries) + 1)
           /\ \A q : Asked(q)' <=> Asked(q) \/ q = query
<1>1. at \in DOMAIN Queries /\ Queries[at] = query /\ DOMAIN Queries = 1..10 /\ Len(Queries) = 10
    BY QueryOrder DEF Asks
<1>2. \A i \in 1..10 : i < at' <=> i < at \/ i = at
    BY <1>1
<1>3. \A q : Asked(q)' <=> \E i \in DOMAIN Queries : i < at' /\ Queries[i] = q
    BY DEF Asked, Queries
<1> QED
    BY <1>1, <1>2, <1>3 DEF Asked

\* What other sessions do, they do to the source alone.
LEMMA BecomesOK ==
    ASSUME IntroInv, NEW s, Becomes(s), \A t \in DOMAIN s : s[t] \in Definitions
    PROVE  IntroInv'
<1>1. /\ source' = s /\ ddl' = ddl - 1 /\ ddl > 0
      /\ UNCHANGED <<schemaOnly, views, at, phase, tables, columns, keys, selectedViews, copied>>
    BY DEF Becomes, catalogue
<1>2. /\ steady' = [f \in DOMAIN steady |-> steady[f] \cap Contents(s)[f]]
      /\ ever' = [f \in DOMAIN ever |-> ever[f] \cup Contents(s)[f]]
      /\ DOMAIN steady = {"columns", "keys", "outlines"} /\ DOMAIN ever = {"columns", "keys", "outlines"}
    BY DEF Becomes, IntroInv, SourceOK
<1>3. /\ steady'.columns = steady.columns \cap Contents(s).columns
      /\ steady'.keys = steady.keys \cap Contents(s).keys
      /\ ever'.columns = ever.columns \cup Contents(s).columns
      /\ ever'.keys = ever.keys \cup Contents(s).keys
      /\ ever'.outlines = ever.outlines \cup Contents(s).outlines
      /\ DOMAIN steady' = {"columns", "keys", "outlines"} /\ DOMAIN ever' = {"columns", "keys", "outlines"}
    BY <1>2
<1>4. TypeOK'
    BY <1>1 DEF IntroInv, TypeOK
<1>5. SourceOK'
    <2>1. Contents(source)' = Contents(s)
        BY <1>1 DEF Contents, OnTable
    <2> QED
        BY <1>1, <1>3, <2>1 DEF SourceOK
<1>6. PhasesOK'
    BY <1>1 DEF IntroInv, PhasesOK, Introspected
<1>7. ColumnsReal'
    <2>1. \A t, c : ColumnExplained(t, c) => ColumnExplained(t, c)'
        BY <1>3 DEF ColumnExplained
    <2> QED
        BY <1>1, <1>3, <2>1 DEF IntroInv, ColumnsReal
<1>8. ColumnsComplete'
    BY <1>1, <1>3 DEF IntroInv, ColumnsComplete, Resembles
<1>9. KeysOK'
    <2>1. \A q : Asked(q)' <=> Asked(q)
        BY <1>1 DEF Asked
    <2>2. \A k : Dropped(k)' <=> Dropped(k)
        BY <1>1 DEF Dropped
    <2> QED
        BY <1>1, <1>3, <2>1, <2>2 DEF IntroInv, KeysOK
<1> QED
    BY <1>4, <1>5, <1>6, <1>7, <1>8, <1>9 DEF IntroInv

\* CREATE TABLE, ALTER TABLE, DROP TABLE.
LEMMA OtherSessions ==
    ASSUME IntroInv, Alter \/ Drop
    PROVE  IntroInv'
<1>1. CASE Alter
    <2>1. PICK a \in Alterations :
              Becomes([t \in DOMAIN source \cup {a[1]} |-> IF t = a[1] THEN a[2] ELSE source[t]])
        BY <1>1 DEF Alter
    <2>2. PICK s : s = [t \in DOMAIN source \cup {a[1]} |-> IF t = a[1] THEN a[2] ELSE source[t]]
        OBVIOUS
    <2>3. a[2] \in Definitions
        BY DEF Definitions
    <2>4. \A t \in DOMAIN s : s[t] \in Definitions
        BY <2>2, <2>3 DEF IntroInv, SourceOK
    <2> QED
        BY <2>1, <2>2, <2>4, BecomesOK
<1>2. CASE Drop
    <2>1. PICK t \in DOMAIN source : Becomes([u \in DOMAIN source \ {t} |-> source[u]])
        BY <1>2 DEF Drop
    <2>2. PICK s : s = [u \in DOMAIN source \ {t} |-> source[u]]
        OBVIOUS
    <2>3. \A u \in DOMAIN s : s[u] \in Definitions
        BY <2>2 DEF IntroInv, SourceOK
    <2> QED
        BY <2>1, <2>2, <2>3, BecomesOK
<1> QED
    BY <1>1, <1>2

\* What the run does leaves the source alone.
LEMMA SourceUntouched ==
    ASSUME SourceOK, UNCHANGED <<source, steady, ever>>
    PROVE  SourceOK'
<1>1. Contents(source)' = Contents(source)
    BY DEF Contents, OnTable
<1> QED
    BY <1>1 DEF SourceOK

\* Columns are left alone by what neither loads them nor comes from other sessions.
LEMMA ColumnsKept ==
    ASSUME ColumnsReal, UNCHANGED <<tables, columns, steady, ever>>,
           at' = at \/ (at > 3 /\ at' > 3)
    PROVE  ColumnsReal'
<1>1. \A t, c : ColumnExplained(t, c)' <=> ColumnExplained(t, c)
    BY DEF ColumnExplained
<1>2. at' > 3 <=> at > 3
    OBVIOUS
<1> QED
    BY <1>1, <1>2 DEF ColumnsReal

\* The tables.
LEMMA TablesLoaded ==
    ASSUME IntroInv, LoadTables
    PROVE  IntroInv'
<1>1. /\ at = 1 /\ at' = 2 /\ phase = "introspect"
      /\ DOMAIN columns' = tables' /\ \A t \in tables' : columns'[t] = <<>>
      /\ UNCHANGED <<keys, selectedViews, schemaOnly, source, views, ddl, phase, copied, steady, ever>>
    BY AsksAt DEF LoadTables, Answered, IntroInv, TypeOK, Asks
<1>2. keys = {} /\ copied = {}
    BY <1>1 DEF IntroInv, PhasesOK
<1>3. TypeOK'
    BY <1>1, <1>2, QueryOrder DEF IntroInv, TypeOK
<1>4. SourceOK'
    BY <1>1, SourceUntouched DEF IntroInv
<1>5. PhasesOK'
    BY <1>1, <1>2 DEF PhasesOK
<1>6. ColumnsReal' /\ ColumnsComplete'
    <2>1. <<>> \in Seq(AnyColumn)
        OBVIOUS
    <2>2. ColumnsReal'
        <3>1. DOMAIN <<>> = {}
            OBVIOUS
        <3> QED
            BY <1>1, <2>1, <3>1 DEF ColumnsReal
    <2>3. ~(at' > 2) /\ ~(at' > 3)
        BY <1>1
    <2> QED
        BY <2>2, <2>3 DEF ColumnsComplete
<1>7. KeysOK'
    <2>1. \A k \in steady.keys : k.kind \in KeyKinds
        BY SourceKeys DEF IntroInv, SourceOK
    <2>2. ~Asked("primaryKey")' /\ \A kind \in KeyKinds : ~Asked(kind)'
        <3>1. \A q : Asked(q)' => q = "tables"
            BY <1>1, QueryOrder DEF Asked
        <3>2. "tables" \notin KeyKinds
            BY DEF KeyKinds
        <3> QED
            BY <3>1, <3>2 DEF KeyKinds
    <2>3. \A k \in steady'.keys : ~Asked(k.kind)'
        BY <1>1, <2>1, <2>2
    <2> QED
        BY <1>1, <1>2, <2>3 DEF KeysOK
<1> QED
    BY <1>3, <1>4, <1>5, <1>6, <1>7 DEF IntroInv

\* The columns of a table of the source.
LEMMA SourceColumns ==
    ASSUME SourceOK, NEW t \in DOMAIN source
    PROVE  /\ source[t].columns \in Seq(AnyColumn)
           /\ \A i, j \in DOMAIN source[t].columns :
                  i # j => source[t].columns[i].name # source[t].columns[j].name
           /\ <<t, Outline(source[t].columns)>> \in ever.outlines
           /\ \A i \in DOMAIN source[t].columns : <<t, source[t].columns[i]>> \in ever.columns
<1>1. source[t] \in AnyTable /\ WellFormed(source[t])
    BY DefinitionsAssumption DEF SourceOK
<1>2. <<t, Outline(source[t].columns)>> \in ever.outlines
    BY ContentsOf DEF SourceOK
<1>3. \A i \in DOMAIN source[t].columns : <<t, source[t].columns[i]>> \in ever.columns
    BY ContentsOf DEF SourceOK, ToSet
<1> QED
    BY <1>1, <1>2, <1>3 DEF AnyTable, WellFormed

\* A column that has been there all the time is in the source.
LEMMA SteadyColumn ==
    ASSUME SourceOK, NEW c \in steady.columns
    PROVE  /\ c[1] \in DOMAIN source /\ c[2] \in AnyColumn
           /\ \E i \in DOMAIN source[c[1]].columns : source[c[1]].columns[i] = c[2]
<1>1. c[1] \in DOMAIN source /\ c[2] \in ToSet(source[c[1]].columns)
    BY ContentsOf DEF SourceOK
<1>2. PICK i \in DOMAIN source[c[1]].columns : source[c[1]].columns[i] = c[2]
    BY <1>1 DEF ToSet
<1>3. source[c[1]].columns \in Seq(AnyColumn)
    BY <1>1, SourceColumns
<1> QED
    BY <1>1, <1>2, <1>3

\* The columns, with a provisional seed.
LEMMA ColumnsLoaded ==
    ASSUME IntroInv, LoadColumns
    PROVE  IntroInv'
<1> DEFINE Loaded(c) == [c EXCEPT !.seed = IF IsIdentity(c) THEN 1 ELSE 0]
<1>1. /\ at = 2 /\ at' = 3 /\ phase = "introspect"
      /\ columns' = [t \in tables |-> IF t \notin DOMAIN source THEN <<>>
                         ELSE [i \in DOMAIN source[t].columns |-> Loaded(source[t].columns[i])]]
      /\ UNCHANGED <<tables, keys, selectedViews, schemaOnly, source, views, ddl, phase, copied,
                     steady, ever>>
    BY AsksAt DEF LoadColumns, Answered, IntroInv, TypeOK, Asks
<1>a. Asks("columns") /\ at \in 1..(Len(Queries) + 1)
    BY DEF LoadColumns, IntroInv, TypeOK
<1>2. copied = {}
    BY <1>1 DEF IntroInv, PhasesOK
<1>3. \A c \in AnyColumn : /\ Loaded(c) \in AnyColumn /\ Loaded(c).name = c.name
                           /\ IsIdentity(c) <=> IsIdentity(Loaded(c))
                           /\ ~IsIdentity(c) => Loaded(c) = c
                           /\ IsIdentity(c) => Loaded(c).seed = 1
    <2> SUFFICES ASSUME NEW c \in AnyColumn
                 PROVE  /\ Loaded(c) \in AnyColumn /\ Loaded(c).name = c.name
                        /\ IsIdentity(c) <=> IsIdentity(Loaded(c))
                        /\ ~IsIdentity(c) => Loaded(c) = c
                        /\ IsIdentity(c) => Loaded(c).seed = 1
        OBVIOUS
    <2>1. c = [name |-> c.name, seed |-> c.seed] /\ c.name \in STRING /\ c.seed \in Int
        BY DEF AnyColumn
    <2>2. Loaded(c) = [name |-> c.name, seed |-> IF IsIdentity(c) THEN 1 ELSE 0]
        BY <2>1
    <2> QED
        BY <2>1, <2>2 DEF AnyColumn, IsIdentity
<1> HIDE DEF Loaded
<1>4. ASSUME NEW t \in tables, t \in DOMAIN source
      PROVE  /\ columns'[t] \in Seq(AnyColumn)
             /\ DOMAIN columns'[t] = DOMAIN source[t].columns
             /\ \A i \in DOMAIN source[t].columns : columns'[t][i] = Loaded(source[t].columns[i])
             /\ Outline(columns'[t]) = Outline(source[t].columns)
    <2>1. PICK s \in Seq(AnyColumn) : s = source[t].columns
        BY <1>4, SourceColumns DEF IntroInv
    <2>2. columns'[t] = [i \in DOMAIN s |-> Loaded(s[i])]
        BY <1>1, <1>4, <2>1
    <2>3. \A i \in DOMAIN s : s[i] \in AnyColumn
        BY <2>1
    <2>4. DOMAIN s = 1..Len(s) /\ Len(s) \in Nat
        BY <2>1
    <2>5. columns'[t] \in Seq(AnyColumn)
        BY <1>3, <2>2, <2>3, <2>4
    <2>6. Outline(columns'[t]) = Outline(s)
        <3>1. PICK u : u = columns'[t]
            OBVIOUS
        <3>2. DOMAIN u = DOMAIN s /\ \A i \in DOMAIN s : u[i] = Loaded(s[i])
            BY <2>2, <3>1
        <3>3. \A i \in DOMAIN u : u[i].name = s[i].name /\ (IsIdentity(u[i]) <=> IsIdentity(s[i]))
            <4> SUFFICES ASSUME NEW i \in DOMAIN s
                         PROVE  u[i].name = s[i].name /\ (IsIdentity(u[i]) <=> IsIdentity(s[i]))
                BY <3>2
            <4>1. s[i] \in AnyColumn /\ u[i] = Loaded(s[i])
                BY <2>3, <3>2
            <4> QED
                BY <1>3, <4>1
        <3>4. Outline(u) = Outline(s)
            BY <3>2, <3>3, SameOutline
        <3> QED
            BY <3>1, <3>4
    <2> QED
        BY <2>1, <2>2, <2>5, <2>6
<1>5. TypeOK'
    BY <1>1, QueryOrder DEF IntroInv, TypeOK
<1>6. SourceOK'
    BY <1>1, SourceUntouched DEF IntroInv
<1>7. PhasesOK'
    BY <1>1, <1>2 DEF PhasesOK
<1>8. ColumnsReal'
    <2>1. <<>> \in Seq(AnyColumn)
        OBVIOUS
    <2>2. ASSUME NEW t \in tables, t \notin DOMAIN source PROVE columns'[t] = <<>>
        BY <1>1, <2>2
    <2>3. ASSUME NEW t \in tables
          PROVE  /\ columns'[t] \in Seq(AnyColumn)
                 /\ columns'[t] # <<>> => <<t, Outline(columns'[t])>> \in ever.outlines
        BY <1>4, <2>1, <2>2, SourceColumns DEF IntroInv
    <2>4. ASSUME NEW t \in tables, NEW i \in DOMAIN columns'[t]
          PROVE  IF IsIdentity(columns'[t][i]) THEN columns'[t][i].seed = 1
                 ELSE <<t, columns'[t][i]>> \in ever.columns
        <3>1. t \in DOMAIN source
            BY <2>2
        <3>2. /\ i \in DOMAIN source[t].columns /\ source[t].columns \in Seq(AnyColumn)
              /\ columns'[t][i] = Loaded(source[t].columns[i])
            BY <1>4, <3>1, SourceColumns DEF IntroInv
        <3>3. source[t].columns[i] \in AnyColumn
            BY <3>2
        <3>4. <<t, source[t].columns[i]>> \in ever.columns
            BY <3>1, <3>2, SourceColumns DEF IntroInv
        <3> QED
            BY <1>3, <3>2, <3>3, <3>4
    <2>5. ~(at' > 3) /\ ever' = ever
        BY <1>1
    <2> QED
        BY <1>1, <2>3, <2>4, <2>5 DEF ColumnsReal, ColumnExplained, IsIdentity
<1>9. ColumnsComplete'
    <2>1. ASSUME NEW c \in steady.columns, c[1] \in tables
          PROVE  \E i \in DOMAIN columns'[c[1]] : Resembles(c[1], i, c[2])'
        <3>1. PICK i \in DOMAIN source[c[1]].columns : source[c[1]].columns[i] = c[2]
            BY SteadyColumn DEF IntroInv
        <3>2. c[1] \in DOMAIN source /\ c[2] \in AnyColumn
            BY SteadyColumn DEF IntroInv
        <3>3. i \in DOMAIN columns'[c[1]] /\ columns'[c[1]][i] = Loaded(c[2])
            BY <1>4, <2>1, <3>1, <3>2
        <3> QED
            BY <1>3, <3>2, <3>3 DEF Resembles
    <2>2. ~(at' > 3)
        BY <1>1
    <2> QED
        BY <1>1, <2>1, <2>2 DEF ColumnsComplete
<1>10. KeysOK'
    <2>1. \A k \in steady.keys : k.kind \in KeyKinds
        BY SourceKeys DEF IntroInv, SourceOK
    <2>2. \A q : Asked(q)' => Asked(q) \/ q = "columns"
        BY <1>1, <1>a, AskedNext
    <2>3. "columns" \notin KeyKinds
        BY DEF KeyKinds
    <2>4. \A k \in steady.keys : Asked(k.kind)' => Asked(k.kind)
        BY <2>1, <2>2, <2>3
    <2> QED
        BY <1>1, <2>4 DEF IntroInv, KeysOK, Dropped
<1> QED
    BY <1>5, <1>6, <1>7, <1>8, <1>9, <1>10 DEF IntroInv

\* The seeds, column by column.
LEMMA SeedsLoaded ==
    ASSUME IntroInv, LoadIdentityColumns
    PROVE  IntroInv'
<1> DEFINE Seeded(t, i) == [columns[t][i] EXCEPT !.seed = SeedOf(t, i)]
<1>1. /\ at = 3 /\ at' = 4 /\ phase = "introspect"
      /\ columns' = [t \in tables |-> [i \in DOMAIN columns[t] |-> Seeded(t, i)]]
      /\ UNCHANGED <<tables, keys, selectedViews, schemaOnly, source, views, ddl, phase, copied,
                     steady, ever>>
    BY AsksAt DEF LoadIdentityColumns, Answered, IntroInv, TypeOK, Asks
<1>2. Asks("identity") /\ at \in 1..(Len(Queries) + 1) /\ copied = {}
    BY <1>1 DEF LoadIdentityColumns, IntroInv, TypeOK, PhasesOK
<1>3. ASSUME NEW t \in tables, NEW i \in DOMAIN columns[t]
      PROVE  /\ Seeded(t, i) \in AnyColumn /\ Seeded(t, i).name = columns[t][i].name
             /\ Seeded(t, i) = [name |-> columns[t][i].name, seed |-> SeedOf(t, i)]
             /\ IsIdentity(Seeded(t, i)) <=> IsIdentity(columns[t][i])
             /\ ColumnExplained(t, Seeded(t, i))
    <2>1. columns[t] \in Seq(AnyColumn)
        BY DEF IntroInv, ColumnsReal
    <2>2. columns[t][i] \in AnyColumn
        BY <2>1
    <2> DEFINE found == {c \in ToSet(source[t].columns) : IsIdentity(c) /\ c.name = columns[t][i].name}
    <2>3. SeedOf(t, i) = IF IsIdentity(columns[t][i]) /\ t \in DOMAIN source /\ found # {}
                         THEN (CHOOSE c \in found : TRUE).seed
                         ELSE columns[t][i].seed
        BY DEF SeedOf
    <2>4. ASSUME t \in DOMAIN source, NEW c \in found
          PROVE  /\ c \in AnyColumn /\ <<t, c>> \in ever.columns
                 /\ IsIdentity(c) /\ c.name = columns[t][i].name
        <3>1. PICK j \in DOMAIN source[t].columns : source[t].columns[j] = c
            BY DEF ToSet
        <3>2. source[t].columns \in Seq(AnyColumn) /\ <<t, source[t].columns[j]>> \in ever.columns
            BY <2>4, SourceColumns DEF IntroInv
        <3> QED
            BY <3>1, <3>2
    <2>5. ASSUME NEW c \in steady.columns, c[1] = t, c[2].name = columns[t][i].name, IsIdentity(c[2])
          PROVE  t \in DOMAIN source /\ c[2] \in found
        BY <2>5, SteadyColumn DEF IntroInv, ToSet
    <2> HIDE DEF found
    <2>6. PICK d : d = CHOOSE c \in found : TRUE
        OBVIOUS
    <2>7. found # {} => d \in found
        BY <2>6
    <2>8. /\ columns[t][i] = [name |-> columns[t][i].name, seed |-> columns[t][i].seed]
          /\ columns[t][i].name \in STRING /\ columns[t][i].seed \in Int
        BY <2>2 DEF AnyColumn
    <2>9. Seeded(t, i) = [name |-> columns[t][i].name, seed |-> SeedOf(t, i)]
        BY <2>8
    <2>10. IF at > 3 \/ ~IsIdentity(columns[t][i]) THEN ColumnExplained(t, columns[t][i])
           ELSE columns[t][i].seed = 1
        BY DEF IntroInv, ColumnsReal
    <2>11. CASE IsIdentity(columns[t][i]) /\ t \in DOMAIN source /\ found # {}
        <3>1. d \in AnyColumn /\ <<t, d>> \in ever.columns /\ IsIdentity(d) /\ d.name = columns[t][i].name
            BY <2>4, <2>7, <2>11
        <3>2. d = [name |-> d.name, seed |-> d.seed] /\ d.seed \in Int
            BY <3>1 DEF AnyColumn
        <3>3. Seeded(t, i) = d
            BY <2>3, <2>6, <2>9, <2>11, <3>1, <3>2
        <3> QED
            BY <2>9, <2>11, <3>1, <3>3 DEF ColumnExplained
    <2>12. CASE IsIdentity(columns[t][i]) /\ ~(t \in DOMAIN source /\ found # {})
        <3>1. Seeded(t, i) = columns[t][i]
            BY <2>3, <2>8, <2>9, <2>12
        <3>2. columns[t][i].seed = 1
            BY <1>1, <2>10, <2>12
        <3>3. ColumnExplained(t, columns[t][i])
            BY <2>5, <2>12, <3>2 DEF ColumnExplained
        <3> QED
            BY <2>2, <2>9, <3>1, <3>3
    <2>13. CASE ~IsIdentity(columns[t][i])
        <3>1. Seeded(t, i) = columns[t][i]
            BY <2>3, <2>8, <2>9, <2>13
        <3> QED
            BY <2>2, <2>9, <2>10, <2>13, <3>1
    <2> QED
        BY <2>11, <2>12, <2>13
<1>4. ASSUME NEW t \in tables
      PROVE  /\ columns'[t] = [i \in DOMAIN columns[t] |-> Seeded(t, i)]
             /\ columns'[t] \in Seq(AnyColumn) /\ DOMAIN columns'[t] = DOMAIN columns[t]
             /\ Outline(columns'[t]) = Outline(columns[t])
             /\ columns'[t] # <<>> => columns[t] # <<>>
             /\ \A i \in DOMAIN columns'[t] : ColumnExplained(t, columns'[t][i])
    <2>1. columns'[t] = [i \in DOMAIN columns[t] |-> Seeded(t, i)]
        BY <1>1
    <2>2. columns[t] \in Seq(AnyColumn)
        BY DEF IntroInv, ColumnsReal
    <2>3. DOMAIN columns[t] = 1..Len(columns[t]) /\ Len(columns[t]) \in Nat
        BY <2>2
    <2> HIDE DEF Seeded
    <2>4. columns'[t] \in Seq(AnyColumn) /\ DOMAIN columns'[t] = DOMAIN columns[t]
        BY <1>3, <2>1, <2>3
    <2>5. \A i \in DOMAIN columns[t] : columns'[t][i] = Seeded(t, i)
        BY <2>1
    <2>6. Outline(columns'[t]) = Outline(columns[t])
        <3>1. \A i \in DOMAIN columns[t] : /\ columns'[t][i].name = columns[t][i].name
                                           /\ IsIdentity(columns'[t][i]) <=> IsIdentity(columns[t][i])
            BY <1>3, <2>5
        <3> QED
            BY <2>4, <3>1, SameOutline
    <2>7. columns[t] = <<>> => columns'[t] = <<>>
        BY <2>1, <2>3, <2>4
    <2>8. \A i \in DOMAIN columns'[t] : ColumnExplained(t, columns'[t][i])
        BY <1>3, <2>4, <2>5
    <2> QED
        BY <2>1, <2>4, <2>6, <2>7, <2>8
<1>5. TypeOK'
    BY <1>1, QueryOrder DEF IntroInv, TypeOK
<1>6. SourceOK'
    BY <1>1, SourceUntouched DEF IntroInv
<1>7. PhasesOK'
    BY <1>1, <1>2 DEF PhasesOK
<1>8. ColumnsReal'
    <2>1. \A t, c : ColumnExplained(t, c) => ColumnExplained(t, c)'
        BY <1>1 DEF ColumnExplained
    <2>2. at' > 3
        BY <1>1
    <2>3. \A t \in tables : columns[t] # <<>> => <<t, Outline(columns[t])>> \in ever.outlines
        BY DEF IntroInv, ColumnsReal
    <2> QED
        BY <1>1, <1>4, <2>1, <2>2, <2>3 DEF ColumnsReal
<1>9. ColumnsComplete'
    <2> SUFFICES ASSUME NEW c \in steady.columns, c[1] \in tables
                 PROVE  \E i \in DOMAIN columns'[c[1]] : columns'[c[1]][i] = c[2]
        <3>1. \A t, i, c : columns'[t][i] = c => Resembles(t, i, c)'
            BY DEF Resembles
        <3> QED
            BY <1>1, <3>1 DEF ColumnsComplete
    <2>1. PICK i \in DOMAIN columns[c[1]] : Resembles(c[1], i, c[2])
        BY <1>1 DEF IntroInv, ColumnsComplete
    <2>2. PICK j \in DOMAIN source[c[1]].columns : source[c[1]].columns[j] = c[2]
        BY SteadyColumn DEF IntroInv
    <2>3. c[1] \in DOMAIN source /\ c[2] \in AnyColumn /\ source[c[1]].columns \in Seq(AnyColumn)
        BY SteadyColumn, SourceColumns DEF IntroInv
    <2>4. columns[c[1]][i].name = c[2].name
        BY <2>1 DEF Resembles
    <2>5. SeedOf(c[1], i) = c[2].seed
        <3>1. CASE IsIdentity(c[2])
            <4> DEFINE found == {d \in ToSet(source[c[1]].columns) : IsIdentity(d) /\ d.name = columns[c[1]][i].name}
            <4>1. IsIdentity(columns[c[1]][i])
                BY <2>1, <3>1 DEF Resembles
            <4>2. c[2] \in found
                BY <2>2, <2>4, <3>1 DEF ToSet
            <4>3. ASSUME NEW d \in found PROVE d = c[2]
                <5>1. PICK k \in DOMAIN source[c[1]].columns : source[c[1]].columns[k] = d
                    BY DEF ToSet
                <5>2. d.name = c[2].name
                    BY <2>4
                <5>3. k = j
                    BY <2>2, <2>3, <5>1, <5>2, SourceColumns DEF IntroInv
                <5> QED
                    BY <2>2, <5>1, <5>3
            <4>4. SeedOf(c[1], i) = (CHOOSE d \in found : TRUE).seed
                BY <2>3, <4>1, <4>2 DEF SeedOf
            <4> HIDE DEF found
            <4>5. (CHOOSE d \in found : TRUE) = c[2]
                BY <4>2, <4>3
            <4> QED
                BY <4>4, <4>5
        <3>2. CASE ~IsIdentity(c[2])
            <4>1. columns[c[1]][i] = c[2]
                BY <2>1, <3>2 DEF Resembles
            <4> QED
                BY <3>2, <4>1 DEF SeedOf
        <3> QED
            BY <3>1, <3>2
    <2>6. Seeded(c[1], i) = [name |-> c[2].name, seed |-> c[2].seed]
        BY <1>3, <2>4, <2>5
    <2>7. c[2] = [name |-> c[2].name, seed |-> c[2].seed]
        BY <2>3 DEF AnyColumn
    <2> HIDE DEF Seeded
    <2>8. i \in DOMAIN columns'[c[1]] /\ columns'[c[1]][i] = c[2]
        BY <1>4, <2>6, <2>7
    <2> QED
        BY <2>8
<1>10. KeysOK'
    <2>1. \A k \in steady.keys : k.kind \in KeyKinds
        BY SourceKeys DEF IntroInv, SourceOK
    <2>2. \A q : Asked(q)' => Asked(q) \/ q = "identity"
        BY <1>1, <1>2, AskedNext
    <2>3. "identity" \notin KeyKinds
        BY DEF KeyKinds
    <2>4. \A k \in steady.keys : Asked(k.kind)' => Asked(k.kind)
        BY <2>1, <2>2, <2>3
    <2> QED
        BY <1>1, <2>4 DEF IntroInv, KeysOK, Dropped
<1> QED
    BY <1>5, <1>6, <1>7, <1>8, <1>9, <1>10 DEF IntroInv

\* The keys of one kind.
LEMMA KeysLoaded ==
    ASSUME IntroInv, NEW kind \in KeyKinds, LoadKeys(kind)
    PROVE  IntroInv'
<1>1. /\ at \in 4..9 /\ at' = at + 1 /\ phase = "introspect" /\ Asks(kind)
      /\ at \in 1..(Len(Queries) + 1)
      /\ UNCHANGED <<tables, columns, selectedViews, schemaOnly, source, views, ddl, phase, copied,
                     steady, ever>>
    BY AsksAt DEF LoadKeys, Answered, IntroInv, TypeOK, Asks
<1>2. keys' = keys \cup {k \in Contents(source).keys : k.kind = kind /\ k.table \in tables}
    <2>1. keys' = keys \cup Made(kind)
        BY DEF LoadKeys, Made, CatalogueRows
    <2>2. SourceOK
        BY DEF IntroInv
    <2>3. Made(kind) = Wanted(kind)
        BY <2>2, KeysOfRows
    <2> QED
        BY <2>1, <2>3 DEF Wanted
<1>3. at' \in 1..(Len(Queries) + 1) /\ \A q : Asked(q)' <=> Asked(q) \/ q = kind
    BY <1>1, AskedNext
<1>4. TypeOK'
    <2>1. \A k \in keys' : k.kind \in KeyKinds /\ k.table \in tables
        BY <1>2 DEF IntroInv, TypeOK
    <2> QED
        BY <1>1, <1>3, <2>1 DEF IntroInv, TypeOK
<1>5. SourceOK'
    BY <1>1, SourceUntouched DEF IntroInv
<1>6. PhasesOK'
    BY <1>1 DEF IntroInv, PhasesOK
<1>7. ColumnsReal'
    BY <1>1, ColumnsKept DEF IntroInv
<1>8. ColumnsComplete'
    BY <1>1 DEF IntroInv, ColumnsComplete, Resembles
<1>9. KeysOK'
    <2>1. keys' \subseteq ever.keys
        BY <1>2 DEF IntroInv, KeysOK, SourceOK
    <2>2. ASSUME NEW k \in steady.keys, Asked(k.kind)', k.table \in tables, ~Dropped(k)
          PROVE  k \in keys'
        <3>1. k \in Contents(source).keys
            BY DEF IntroInv, SourceOK
        <3>2. CASE k.kind = kind
            BY <1>2, <2>2, <3>1, <3>2
        <3>3. CASE Asked(k.kind)
            BY <1>2, <2>2, <3>3 DEF IntroInv, KeysOK
        <3> QED
            BY <1>3, <2>2, <3>2, <3>3
    <2>3. \A k : Dropped(k)' <=> Dropped(k)
        BY <1>1 DEF Dropped
    <2> QED
        BY <1>1, <2>1, <2>2, <2>3 DEF KeysOK
<1> QED
    BY <1>4, <1>5, <1>6, <1>7, <1>8, <1>9 DEF IntroInv

\* The views.
LEMMA ViewsLoaded ==
    ASSUME IntroInv, LoadViews
    PROVE  IntroInv'
<1>1. /\ at = 10 /\ at' = 11 /\ phase = "introspect" /\ Asks("views")
      /\ at \in 1..(Len(Queries) + 1)
      /\ selectedViews' \subseteq views
      /\ UNCHANGED <<tables, columns, keys, schemaOnly, source, views, ddl, phase, copied, steady, ever>>
    BY AsksAt DEF LoadViews, Answered, IntroInv, TypeOK, Asks
<1>2. TypeOK'
    BY <1>1, QueryOrder DEF IntroInv, TypeOK
<1>3. SourceOK'
    BY <1>1, SourceUntouched DEF IntroInv
<1>4. PhasesOK'
    BY <1>1 DEF IntroInv, PhasesOK
<1>5. ColumnsReal'
    BY <1>1, ColumnsKept DEF IntroInv
<1>6. ColumnsComplete'
    BY <1>1 DEF IntroInv, ColumnsComplete, Resembles
<1>7. KeysOK'
    <2>1. \A k \in steady.keys : k.kind \in KeyKinds
        BY SourceKeys DEF IntroInv, SourceOK
    <2>2. \A q : Asked(q)' => Asked(q) \/ q = "views"
        BY <1>1, AskedNext
    <2>3. "views" \notin KeyKinds
        BY DEF KeyKinds
    <2>4. \A k \in steady.keys : Asked(k.kind)' => Asked(k.kind)
        BY <2>1, <2>2, <2>3
    <2> QED
        BY <1>1, <2>4 DEF IntroInv, KeysOK, Dropped
<1> QED
    BY <1>2, <1>3, <1>4, <1>5, <1>6, <1>7 DEF IntroInv

\* The checks of the filters, the target's tables, the copies, the constraints, and any
\* failure.
LEMMA RunSteps ==
    ASSUME IntroInv, ValidateFilters \/ CreateTables \/ CopyTable \/ Constrain \/ Fail
    PROVE  IntroInv'
<1>1. /\ phase' \in {"introspect", "copy", "ok", "error"}
      /\ UNCHANGED <<schemaOnly, source, views, ddl, at, tables, columns, selectedViews, steady, ever>>
    BY DEF ValidateFilters, CreateTables, CopyTable, Constrain, Fail, MovesTo
<1>2. keys' \subseteq keys /\ copied' \subseteq tables
    BY DEF ValidateFilters, CreateTables, CopyTable, Constrain, Fail, IntroInv, TypeOK
<1>3. TypeOK'
    BY <1>1, <1>2 DEF IntroInv, TypeOK
<1>4. SourceOK'
    BY <1>1, SourceUntouched DEF IntroInv
<1>5. PhasesOK'
    <2>0. at \in 1..11 /\ PhasesOK /\ TypeOK
        BY QueryOrder DEF IntroInv, TypeOK
    <2>1. CASE ValidateFilters
        BY <1>1, <2>0, <2>1 DEF ValidateFilters, MovesTo, PhasesOK
    <2>2. CASE CreateTables
        BY <1>1, <2>0, <2>2, QueryOrder DEF CreateTables, MovesTo, PhasesOK, Introspected
    <2>3. CASE CopyTable
        <3>1. PICK t \in tables \ copied :
                  copied' = copied \cup {t} /\ phase' = (IF Selectable(t) THEN "copy" ELSE "error")
            BY <2>3 DEF CopyTable, MovesTo
        <3>2. phase = "copy" /\ keys' = keys
            BY <2>3 DEF CopyTable
        <3>3. phase' = "copy" => columns[t] # <<>>
            BY <3>1 DEF Selectable
        <3> QED
            BY <1>1, <2>0, <3>1, <3>2, <3>3, QueryOrder DEF PhasesOK, Introspected
    <2>4. CASE Constrain
        BY <1>1, <2>0, <2>4, QueryOrder DEF Constrain, MovesTo, PhasesOK, Introspected
    <2>5. CASE Fail
        BY <1>1, <2>0, <2>5 DEF Fail, MovesTo, PhasesOK
    <2> QED
        BY <2>1, <2>2, <2>3, <2>4, <2>5
<1>6. ColumnsReal'
    BY <1>1, ColumnsKept DEF IntroInv
<1>7. ColumnsComplete'
    BY <1>1 DEF IntroInv, ColumnsComplete, Resembles
<1>8. KeysOK'
    <2>1. keys' \subseteq ever.keys
        BY <1>2 DEF IntroInv, KeysOK
    <2>2. \A q : Asked(q)' <=> Asked(q)
        BY <1>1 DEF Asked
    <2>3. ASSUME NEW k \in steady.keys, Asked(k.kind), k.table \in tables, ~Dropped(k)' PROVE k \in keys'
        <3>1. CASE ValidateFilters
            <4>1. at = 1
                BY <3>1 DEF ValidateFilters, IntroInv, PhasesOK
            <4> QED
                BY <2>3, <4>1, QueryOrder DEF Asked
        <3>2. CASE CreateTables
            <4>1. phase' # "introspect" /\ phase = "introspect"
                BY <3>2 DEF CreateTables, MovesTo
            <4>2. k.kind = "foreignKey" => k.referenced \in tables
                BY <1>1, <2>3, <4>1 DEF Dropped
            <4>3. k \in keys
                BY <2>3, <4>1 DEF IntroInv, KeysOK, Dropped
            <4> QED
                BY <3>2, <4>2, <4>3 DEF CreateTables
        <3>3. CASE CopyTable \/ Constrain \/ Fail
            <4>1. phase' # "introspect" /\ keys' = keys
                BY <3>3 DEF CopyTable, Constrain, Fail, MovesTo
            <4>2. ~Dropped(k)
                BY <1>1, <2>3, <4>1 DEF Dropped
            <4> QED
                BY <2>3, <4>1, <4>2 DEF IntroInv, KeysOK
        <3> QED
            BY <3>1, <3>2, <3>3
    <2> QED
        BY <1>1, <2>1, <2>2, <2>3 DEF KeysOK
<1> QED
    BY <1>3, <1>4, <1>5, <1>6, <1>7, <1>8 DEF IntroInv

\* The source as the run finds it.
LEMMA InitIntroInv ==
    ASSUME Init
    PROVE  IntroInv
<1>1. PICK s \in Scenarios :
          /\ source = s.source /\ views = s.views /\ ddl = s.ddl
          /\ steady = Contents(s.source) /\ ever = Contents(s.source)
    BY DEF Init
<1>2. /\ at = 1 /\ phase = "filters"
      /\ tables = {} /\ columns = <<>> /\ keys = {} /\ selectedViews = {} /\ copied = {}
    BY DEF Init
<1>3. TypeOK
    <2>1. DOMAIN columns = tables
        BY <1>2
    <2> QED
        BY <1>1, <1>2, <2>1, ScenariosAssumption, QueryOrder DEF TypeOK
<1>4. SourceOK
    <2>1. \A t \in DOMAIN source : source[t] \in Definitions
        BY <1>1 DEF Definitions
    <2>2. DOMAIN Contents(s.source) = {"columns", "keys", "outlines"}
        BY DEF Contents
    <2> QED
        BY <1>1, <2>1, <2>2 DEF SourceOK
<1>5. PhasesOK /\ ColumnsReal /\ ColumnsComplete
    BY <1>2 DEF PhasesOK, ColumnsReal, ColumnsComplete
<1>6. KeysOK
    <2>1. \A q : ~Asked(q)
        BY <1>2, QueryOrder DEF Asked
    <2> QED
        BY <1>2, <2>1 DEF KeysOK
<1> QED
    BY <1>3, <1>4, <1>5, <1>6 DEF IntroInv

\* Whatever the order of the queries and of what other sessions do, the invariant holds.
THEOREM IntrospectionInvariant == Spec => []IntroInv
<1>1. Init => IntroInv
    BY InitIntroInv
<1>2. IntroInv /\ [Next]_vars => IntroInv'
    <2> SUFFICES ASSUME IntroInv, [Next]_vars PROVE IntroInv'
        OBVIOUS
    <2>1. CASE \/ LoadPrimaryKeys \/ LoadUniqueConstraints \/ LoadIndexes \/ LoadDefaultConstraints
               \/ LoadForeignKeys \/ LoadCheckConstraints
        <3>1. \E kind \in KeyKinds : LoadKeys(kind)
            BY <2>1 DEF KeyKinds, LoadPrimaryKeys, LoadUniqueConstraints, LoadIndexes,
                        LoadDefaultConstraints, LoadForeignKeys, LoadCheckConstraints
        <3> QED
            BY <3>1, KeysLoaded
    <2>2. CASE UNCHANGED vars
        <3>1. UNCHANGED <<schemaOnly, source, views, ddl, at, phase, tables, columns, keys,
                          selectedViews, copied, steady, ever>>
            BY <2>2 DEF vars, catalogue
        <3>2. TypeOK' /\ PhasesOK' /\ ColumnsReal' /\ ColumnsComplete'
            BY <3>1 DEF IntroInv, TypeOK, PhasesOK, Introspected, ColumnsReal, ColumnExplained, ColumnsComplete, Resembles
        <3>3. SourceOK'
            BY <3>1, SourceUntouched DEF IntroInv
        <3>4. KeysOK'
            BY <3>1 DEF IntroInv, KeysOK, Asked, Dropped
        <3> QED
            BY <3>2, <3>3, <3>4 DEF IntroInv
    <2> QED
        BY <2>1, <2>2, OtherSessions, TablesLoaded, ColumnsLoaded, SeedsLoaded, ViewsLoaded, RunSteps
           DEF Next
<1> QED
    BY <1>1, <1>2, PTL DEF Spec

-------------------------------------------------------------------------------
(* Consequences. *)

\* Every variable of Introspection keeps its type.
THEOREM TypeCorrect == Spec => []TypeOK
<1>1. IntroInv => TypeOK
    BY DEF IntroInv
<1> QED
    BY <1>1, IntrospectionInvariant, PTL

\* Each key in the catalogue was in the source just like this, and so were the names of the
\* columns of a table, their order and which are identity columns; the seed of each is the
\* one the column had at some time, or the provisional one of a column that was changed.
THEOREM CatalogueReal == Spec => []NothingInvented
<1>1. IntroInv => NothingInvented
    BY DEF IntroInv, KeysOK, ColumnsReal, NothingInvented
<1> QED
    BY <1>1, IntrospectionInvariant, PTL

\* A column or a key of a selected table that was there all the time is in the catalogue,
\* whatever other sessions do between the queries.
THEOREM CatalogueComplete == Spec => []SteadyIsComplete
<1>1. IntroInv => SteadyIsComplete
    <2> SUFFICES ASSUME IntroInv, Introspected PROVE SteadyIsComplete
        BY DEF SteadyIsComplete
    <2>1. at > 10 /\ at \in Nat
        BY QueryOrder DEF Introspected, IntroInv, TypeOK
    <2>2. \A c \in steady.columns : c[1] \in tables => c[2] \in ToSet(columns[c[1]])
        BY <2>1 DEF IntroInv, ColumnsComplete, ToSet
    <2>3. \A kind \in KeyKinds : Asked(kind)
        BY <2>1, QueryOrder DEF KeyKinds, Asked
    <2>4. \A k \in steady.keys : k.kind \in KeyKinds
        BY SourceKeys DEF IntroInv, SourceOK
    <2>5. \A k \in steady.keys : k.table \in tables /\ ~Dropped(k) => k \in keys
        BY <2>3, <2>4 DEF IntroInv, KeysOK
    <2> QED
        BY <2>2, <2>5 DEF SteadyIsComplete, Dropped
<1> QED
    BY <1>1, IntrospectionInvariant, PTL

\* A run that reports success has no table without columns, unless it was to copy no rows.
THEOREM SuccessfulTables == Spec => []SuccessHasColumns
<1>1. IntroInv => SuccessHasColumns
    BY DEF IntroInv, PhasesOK, SuccessHasColumns
<1> QED
    BY <1>1, IntrospectionInvariant, PTL

-------------------------------------------------------------------------------
(* Patterns. *)

\* The equation that the recursive function of Reach satisfies.
Reaching(f, p, s, n) ==
    f = [k \in 0..n |-> IF k = 0 THEN {0}
                        ELSE {j \in 0..Len(s) : \E i \in f[k - 1] : Consumes(p[k], s, i, j)}]

\* The recursive function of Reach exists.
LEMMA ReachingExists ==
    ASSUME NEW p, NEW s, NEW n \in Nat
    PROVE  \E f : Reaching(f, p, s, n)
<1> DEFINE P == {m \in Nat : \E f : Reaching(f, p, s, m)}
           Behind(S, k) == {j \in 0..Len(s) : \E i \in S : Consumes(p[k], s, i, j)}
<1>1. 0 \in P
    <2> DEFINE f == [k \in 0..0 |-> {0}]
    <2>1. Reaching(f, p, s, 0)
        BY DEF Reaching
    <2> QED
        BY <2>1
<1>2. ASSUME NEW m \in Nat, m \in P PROVE m + 1 \in P
    <2>1. PICK f : Reaching(f, p, s, m)
        BY <1>2
    <2>2. f = [k \in 0..m |-> IF k = 0 THEN {0} ELSE Behind(f[k - 1], k)]
        BY <2>1 DEF Reaching
    <2> HIDE DEF Behind
    <2> DEFINE g == [k \in 0..(m + 1) |-> IF k = m + 1 THEN Behind(f[m], m + 1) ELSE f[k]]
    <2>3. \A k \in 0..(m + 1) : g[k] = IF k = 0 THEN {0} ELSE Behind(g[k - 1], k)
        <3> TAKE k \in 0..(m + 1)
        <3>1. CASE k = m + 1
            <4>1. g[m + 1] = Behind(f[m], m + 1) /\ g[m] = f[m]
                OBVIOUS
            <4> QED
                BY <3>1, <4>1
        <3>2. CASE k \in 0..m
            <4>1. g[k] = f[k] /\ (k # 0 => g[k - 1] = f[k - 1])
                BY <3>2
            <4> QED
                BY <2>2, <3>2, <4>1
        <3> QED
            BY <3>1, <3>2
    <2>4. g = [k \in 0..(m + 1) |-> IF k = 0 THEN {0} ELSE Behind(g[k - 1], k)]
        BY <2>3
    <2> HIDE DEF g
    <2>5. Reaching(g, p, s, m + 1)
        BY <2>4 DEF Reaching, Behind
    <2> QED
        BY <2>5
<1>3. Nat \subseteq P
    <2> HIDE DEF P
    <2> QED
        BY <1>1, <1>2, Induction
<1> QED
    BY <1>3

\* What each symbol of a pattern reaches from what the symbols before it have reached.
LEMMA ReachSteps ==
    ASSUME NEW p \in Seq(STRING), NEW s \in Seq(STRING)
    PROVE  /\ Reach(p, s)[0] = {0}
           /\ \A k \in 1..Len(p) : \A j :
                  j \in Reach(p, s)[k] <=>
                      j \in 0..Len(s) /\ \E i \in Reach(p, s)[k - 1] : Consumes(p[k], s, i, j)
           /\ \A k \in 0..Len(p) : Reach(p, s)[k] \subseteq 0..Len(s)
<1> DEFINE f == CHOOSE g : Reaching(g, p, s, Len(p))
<1>1. Reaching(f, p, s, Len(p))
    BY ReachingExists
<1>2. Reach(p, s) = f
    BY DEF Reach, Reaching
<1>3. Reaching(Reach(p, s), p, s, Len(p))
    BY <1>1, <1>2
<1> HIDE DEF f
<1>4. PICK r : r = Reach(p, s)
    OBVIOUS
<1> DEFINE Behind(S, k) == {j \in 0..Len(s) : \E i \in S : Consumes(p[k], s, i, j)}
<1>5. r = [k \in 0..Len(p) |-> IF k = 0 THEN {0} ELSE Behind(r[k - 1], k)]
    BY <1>3, <1>4 DEF Reaching
<1>6. Len(s) \in Nat /\ Len(p) \in Nat
    OBVIOUS
<1>7. r[0] = {0} /\ \A k \in 1..Len(p) : r[k] = Behind(r[k - 1], k)
    <2> HIDE DEF Behind
    <2> QED
        BY <1>5, <1>6
<1> QED
    BY <1>4, <1>6, <1>7

\* The same, for the next symbol.
LEMMA ReachNext ==
    ASSUME NEW p \in Seq(STRING), NEW s \in Seq(STRING), NEW k \in Nat, k + 1 <= Len(p), NEW j
    PROVE  /\ j \in Reach(p, s)[k + 1] <=>
                  j \in 0..Len(s) /\ \E i \in Reach(p, s)[k] : Consumes(p[k + 1], s, i, j)
           /\ Reach(p, s)[k] \subseteq 0..Len(s)
<1>1. k + 1 \in 1..Len(p) /\ (k + 1) - 1 = k /\ k \in 0..Len(p)
    OBVIOUS
<1> QED
    BY <1>1, ReachSteps

\* No symbol of a pattern goes back.
LEMMA ConsumesForward ==
    ASSUME NEW symbol, NEW q, NEW i \in Nat, NEW j \in Nat, Consumes(symbol, q, i, j)
    PROVE  i <= j
<1>1. CASE symbol = "*"
    BY <1>1 DEF Consumes
<1>2. CASE symbol # "*"
    BY <1>2 DEF Consumes
<1> QED
    BY <1>1, <1>2

\* What a symbol takes depends on the name only as far as it goes.
LEMMA ConsumesAlike ==
    ASSUME NEW symbol, NEW q, NEW s, NEW m \in Nat, NEW i \in Nat, NEW j \in Nat,
           \A k \in 1..j : q[m + k] = s[k]
    PROVE  Consumes(symbol, q, m + i, m + j) <=> Consumes(symbol, s, i, j)
<1>1. (\A x \in (m + i + 1)..(m + j) : q[x] # "/") <=> (\A x \in (i + 1)..j : s[x] # "/")
    <2>1. ASSUME \A x \in (m + i + 1)..(m + j) : q[x] # "/", NEW x \in (i + 1)..j PROVE s[x] # "/"
        <3>1. m + x \in (m + i + 1)..(m + j) /\ x \in 1..j
            OBVIOUS
        <3> QED
            BY <2>1, <3>1
    <2>2. ASSUME \A x \in (i + 1)..j : s[x] # "/", NEW x \in (m + i + 1)..(m + j) PROVE q[x] # "/"
        <3>1. x - m \in (i + 1)..j /\ x - m \in 1..j /\ m + (x - m) = x
            OBVIOUS
        <3> QED
            BY <2>2, <3>1
    <2> QED
        BY <2>1, <2>2
<1>2. (m + i <= m + j) <=> (i <= j)
    OBVIOUS
<1>3. (m + j = m + i + 1) <=> (j = i + 1)
    OBVIOUS
<1>4. j = i + 1 => q[m + j] = s[j]
    <2> SUFFICES ASSUME j = i + 1 PROVE q[m + j] = s[j]
        OBVIOUS
    <2>1. j \in 1..j
        OBVIOUS
    <2> QED
        BY <2>1
<1>5. CASE symbol = "*"
    BY <1>1, <1>2, <1>5 DEF Consumes
<1>6. CASE symbol # "*"
    BY <1>3, <1>4, <1>6 DEF Consumes
<1> QED
    BY <1>5, <1>6

\* A sequence begins with another one, or ends with it, behind its first n elements.
Begins(p, r) == Len(r) <= Len(p) /\ \A k \in 1..Len(r) : p[k] = r[k]
Ends(p, n, r) == Len(p) = n + Len(r) /\ \A k \in 1..Len(r) : p[n + k] = r[k]

\* A beginning of a pattern reaches the end of a beginning of a name if it matches it.
LEMMA PrefixReach ==
    ASSUME NEW p \in Seq(STRING), NEW q \in Seq(STRING), NEW r \in Seq(STRING), NEW s \in Seq(STRING),
           Begins(p, r), Begins(q, s)
    PROVE  Len(s) \in Reach(p, q)[Len(r)] <=> Match(r, s)
<1> USE DEF Begins
<1> DEFINE Same(k) == \A j \in 0..Len(s) : j \in Reach(p, q)[k] <=> j \in Reach(r, s)[k]
           P == {k \in Nat : k <= Len(r) => Same(k)}
<1>1. 0 \in P
    BY ReachSteps
<1>2. ASSUME NEW n \in Nat, n \in P PROVE n + 1 \in P
    <2> SUFFICES ASSUME n + 1 <= Len(r), NEW j \in 0..Len(s)
                 PROVE  j \in Reach(p, q)[n + 1] <=> j \in Reach(r, s)[n + 1]
        OBVIOUS
    <2>1. /\ j \in Reach(p, q)[n + 1] <=>
                 j \in 0..Len(q) /\ \E i \in Reach(p, q)[n] : Consumes(p[n + 1], q, i, j)
          /\ j \in Reach(r, s)[n + 1] <=>
                 j \in 0..Len(s) /\ \E i \in Reach(r, s)[n] : Consumes(r[n + 1], s, i, j)
          /\ Reach(p, q)[n] \subseteq 0..Len(q) /\ Reach(r, s)[n] \subseteq 0..Len(s)
        <3>1. n + 1 \in 1..Len(p) /\ n + 1 \in 1..Len(r) /\ (n + 1) - 1 = n /\ n \in 0..Len(p) /\ n \in 0..Len(r)
            OBVIOUS
        <3> QED
            BY <3>1, ReachSteps
    <2>2. p[n + 1] = r[n + 1]
        OBVIOUS
    <2>3. ASSUME NEW i \in Nat
          PROVE  /\ Consumes(p[n + 1], q, i, j) <=> Consumes(p[n + 1], s, i, j)
                 /\ Consumes(p[n + 1], q, i, j) => i <= j
        <3>1. j \in Nat /\ 0 + i = i /\ 0 + j = j /\ \A k \in 1..j : q[0 + k] = s[k]
            OBVIOUS
        <3>2. Consumes(p[n + 1], q, 0 + i, 0 + j) <=> Consumes(p[n + 1], s, i, j)
            BY <3>1, ConsumesAlike
        <3> QED
            BY <3>1, <3>2, ConsumesForward
    <2>4. Same(n)
        BY <1>2
    <2> QED
        BY <2>1, <2>2, <2>3, <2>4
<1>3. Nat \subseteq P
    <2> HIDE DEF P
    <2> QED
        BY <1>1, <1>2, Induction
<1>4. Same(Len(r)) /\ Len(s) \in 0..Len(s)
    BY <1>3
<1> QED
    BY <1>4 DEF Match

\* Where a pattern has reached one place only, the rest of it has to match the rest of the
\* name.
LEMMA SuffixReach ==
    ASSUME NEW p \in Seq(STRING), NEW q \in Seq(STRING), NEW r \in Seq(STRING), NEW s \in Seq(STRING),
           NEW n \in Nat, Ends(p, n, r), NEW m \in Nat, Ends(q, m, s), Reach(p, q)[n] = {m}
    PROVE  Match(p, q) <=> Match(r, s)
<1> DEFINE Same(k) == /\ \A i \in Reach(p, q)[n + k] : i >= m
                      /\ \A j \in 0..Len(s) : m + j \in Reach(p, q)[n + k] <=> j \in Reach(r, s)[k]
           P == {k \in Nat : k <= Len(r) => Same(k)}
<1>1. 0 \in P
    <2>1. Reach(r, s)[0] = {0} /\ Reach(p, q)[n + 0] = {m}
        BY ReachSteps
    <2> QED
        BY <2>1
<1> USE DEF Ends
<1>2. ASSUME NEW k \in Nat, k \in P PROVE k + 1 \in P
    <2> SUFFICES ASSUME k + 1 <= Len(r) PROVE Same(k + 1)
        OBVIOUS
    <2>1. /\ \A j : j \in Reach(p, q)[n + (k + 1)] <=>
                 j \in 0..Len(q) /\ \E i \in Reach(p, q)[n + k] : Consumes(p[n + (k + 1)], q, i, j)
          /\ \A j : j \in Reach(r, s)[k + 1] <=>
                 j \in 0..Len(s) /\ \E i \in Reach(r, s)[k] : Consumes(r[k + 1], s, i, j)
          /\ Reach(p, q)[n + k] \subseteq 0..Len(q) /\ Reach(r, s)[k] \subseteq 0..Len(s)
        <3>1. PICK x \in Nat : x = n + k
            OBVIOUS
        <3>2. x + 1 <= Len(p) /\ n + (k + 1) = x + 1
            BY <3>1
        <3>3. /\ \A j : j \in Reach(p, q)[x + 1] <=>
                     j \in 0..Len(q) /\ \E i \in Reach(p, q)[x] : Consumes(p[x + 1], q, i, j)
              /\ Reach(p, q)[x] \subseteq 0..Len(q)
            BY <3>2, ReachNext
        <3>4. /\ \A j : j \in Reach(r, s)[k + 1] <=>
                     j \in 0..Len(s) /\ \E i \in Reach(r, s)[k] : Consumes(r[k + 1], s, i, j)
              /\ Reach(r, s)[k] \subseteq 0..Len(s)
            BY ReachNext
        <3> QED
            BY <3>1, <3>2, <3>3, <3>4
    <2>2. p[n + (k + 1)] = r[k + 1]
        OBVIOUS
    <2>3. ASSUME NEW i \in 0..Len(s), NEW j \in 0..Len(s)
          PROVE  Consumes(r[k + 1], q, m + i, m + j) <=> Consumes(r[k + 1], s, i, j)
        <3>1. i \in Nat /\ j \in Nat
            OBVIOUS
        <3>2. ASSUME NEW x \in 1..j PROVE q[m + x] = s[x]
            <4>1. x \in 1..Len(s)
                OBVIOUS
            <4> QED
                BY <4>1
        <3> QED
            BY <3>1, <3>2, ConsumesAlike
    <2>4. \A i, j \in Nat : Consumes(r[k + 1], q, i, j) => i <= j
        BY ConsumesForward
    <2>5. Same(k)
        BY <1>2
    <2>6. ASSUME NEW j \in Reach(p, q)[n + (k + 1)] PROVE j >= m
        <3>1. PICK i \in Reach(p, q)[n + k] : Consumes(r[k + 1], q, i, j)
            BY <2>1, <2>2
        <3>2. i \in Nat /\ j \in Nat /\ i >= m
            BY <2>1, <2>5
        <3> QED
            BY <2>4, <3>1, <3>2
    <2>7. ASSUME NEW j \in 0..Len(s)
          PROVE  m + j \in Reach(p, q)[n + (k + 1)] <=> j \in Reach(r, s)[k + 1]
        <3>1. ASSUME m + j \in Reach(p, q)[n + (k + 1)] PROVE j \in Reach(r, s)[k + 1]
            <4>1. PICK i \in Reach(p, q)[n + k] : Consumes(r[k + 1], q, i, m + j)
                BY <2>1, <2>2, <3>1
            <4>2. i \in Nat /\ i >= m /\ i <= m + j
                BY <2>1, <2>4, <2>5, <4>1
            <4>3. i - m \in 0..Len(s) /\ m + (i - m) = i
                BY <4>2
            <4>4. Consumes(r[k + 1], s, i - m, j) /\ i - m \in Reach(r, s)[k]
                BY <2>3, <2>5, <4>1, <4>3
            <4> QED
                BY <2>1, <4>4
        <3>2. ASSUME j \in Reach(r, s)[k + 1] PROVE m + j \in Reach(p, q)[n + (k + 1)]
            <4>1. PICK i \in Reach(r, s)[k] : Consumes(r[k + 1], s, i, j)
                BY <2>1, <3>2
            <4>2. i \in 0..Len(s)
                BY <2>1
            <4>3. Consumes(r[k + 1], q, m + i, m + j) /\ m + i \in Reach(p, q)[n + k]
                BY <2>3, <2>5, <4>1, <4>2
            <4>4. m + j \in 0..Len(q)
                OBVIOUS
            <4> QED
                BY <2>1, <2>2, <4>3, <4>4
        <3> QED
            BY <3>1, <3>2
    <2> QED
        BY <2>6, <2>7
<1>3. Nat \subseteq P
    <2> HIDE DEF P
    <2> QED
        BY <1>1, <1>2, Induction
<1>4. Same(Len(r)) /\ Len(s) \in 0..Len(s)
    BY <1>3
<1>5. n + Len(r) = Len(p) /\ m + Len(s) = Len(q)
    OBVIOUS
<1> QED
    BY <1>4, <1>5 DEF Match

\* A pattern that is stuck stays so.
LEMMA StuckReach ==
    ASSUME NEW p \in Seq(STRING), NEW q \in Seq(STRING), NEW n \in 0..Len(p), Reach(p, q)[n] = {}
    PROVE  Reach(p, q)[Len(p)] = {}
<1> DEFINE P == {k \in Nat : n + k <= Len(p) => Reach(p, q)[n + k] = {}}
<1>1. 0 \in P
    OBVIOUS
<1>2. ASSUME NEW k \in Nat, k \in P PROVE k + 1 \in P
    <2> SUFFICES ASSUME n + (k + 1) <= Len(p) PROVE Reach(p, q)[n + (k + 1)] = {}
        OBVIOUS
    <2>1. n + (k + 1) \in 1..Len(p) /\ (n + (k + 1)) - 1 = n + k
        OBVIOUS
    <2>2. \A j : j \in Reach(p, q)[n + (k + 1)] => \E i \in Reach(p, q)[n + k] : TRUE
        BY <2>1, ReachSteps
    <2>3. Reach(p, q)[n + k] = {}
        BY <1>2
    <2> QED
        BY <2>2, <2>3
<1>3. Nat \subseteq P
    <2> HIDE DEF P
    <2> QED
        BY <1>1, <1>2, Induction
<1>4. Len(p) - n \in Nat /\ n + (Len(p) - n) = Len(p)
    OBVIOUS
<1>5. PICK k \in P : k = Len(p) - n
    BY <1>3, <1>4
<1> QED
    BY <1>4, <1>5

\* A dot of the pattern reaches the only dot of a qualified name, and that from in front of it.
LEMMA DotReach ==
    ASSUME NEW p \in Seq(STRING), NEW q \in Seq(STRING), NEW n \in 1..Len(p), p[n] = ".",
           NEW m \in Nat, m + 1 <= Len(q), \A k \in 1..Len(q) : q[k] = "." <=> k = m + 1
    PROVE  \A j : j \in Reach(p, q)[n] <=> j = m + 1 /\ m \in Reach(p, q)[n - 1]
<1>1. \A j : j \in Reach(p, q)[n] <=>
          j \in 0..Len(q) /\ \E i \in Reach(p, q)[n - 1] : Consumes(p[n], q, i, j)
    BY ReachSteps
<1>2. Reach(p, q)[n - 1] \subseteq 0..Len(q)
    <2>1. n - 1 \in 0..Len(p)
        OBVIOUS
    <2> QED
        BY <2>1, ReachSteps
<1>3. \A i, j : Consumes(p[n], q, i, j) <=> j = i + 1 /\ q[j] = "."
    BY DEF Consumes
<1>4. m + 1 \in 1..Len(q)
    OBVIOUS
<1>5. ASSUME NEW i \in 0..Len(q), NEW j \in 0..Len(q), j = i + 1, q[j] = "." PROVE j = m + 1 /\ i = m
    <2>1. j \in 1..Len(q)
        BY <1>5
    <2> QED
        BY <1>5, <2>1
<1>6. ASSUME NEW j, j \in Reach(p, q)[n] PROVE j = m + 1 /\ m \in Reach(p, q)[n - 1]
    <2>1. PICK i \in Reach(p, q)[n - 1] : j = i + 1 /\ q[j] = "."
        BY <1>1, <1>3, <1>6
    <2> QED
        BY <1>1, <1>2, <1>5, <1>6, <2>1
<1>7. ASSUME m \in Reach(p, q)[n - 1] PROVE m + 1 \in Reach(p, q)[n]
    <2>1. Consumes(p[n], q, m, m + 1)
        BY <1>3, <1>4
    <2> QED
        BY <1>1, <1>4, <1>7, <2>1
<1> QED
    BY <1>6, <1>7

\* What is in front of an element of a sequence, and behind it.
LEMMA SplitAt ==
    ASSUME NEW p \in Seq(STRING), NEW n \in 1..Len(p)
    PROVE  /\ SubSeq(p, 1, n - 1) \in Seq(STRING) /\ Len(SubSeq(p, 1, n - 1)) = n - 1
           /\ Begins(p, SubSeq(p, 1, n - 1))
           /\ SubSeq(p, n + 1, Len(p)) \in Seq(STRING) /\ Len(p) = n + Len(SubSeq(p, n + 1, Len(p)))
           /\ Ends(p, n, SubSeq(p, n + 1, Len(p)))
<1>1. PICK front, rear : front = SubSeq(p, 1, n - 1) /\ rear = SubSeq(p, n + 1, Len(p))
    OBVIOUS
<1>2. /\ front \in Seq(STRING) /\ Len(front) = n - 1 /\ \A k \in 1..(n - 1) : front[k] = p[k]
      /\ n - 1 <= Len(p)
    BY <1>1
<1>3. Begins(p, front)
    BY <1>2 DEF Begins
<1>4. rear \in Seq(STRING) /\ Len(rear) = Len(p) - n
    BY <1>1
<1>5. ASSUME NEW k \in 1..(Len(p) - n) PROVE rear[k] = p[n + k]
    <2>1. PICK size \in Nat : size = Len(p)
        OBVIOUS
    <2>2. PICK lo \in Nat : lo = n + 1
        OBVIOUS
    <2>3. k \in 1..(size - lo + 1) /\ lo + k - 1 = n + k
        BY <2>1, <2>2
    <2>4. SubSeq(p, lo, size)[k] = p[lo + k - 1]
        BY <2>1, <2>2, <2>3
    <2> QED
        BY <1>1, <2>1, <2>2, <2>3, <2>4
<1>6. Len(p) = n + Len(rear)
    BY <1>4
<1>7. Ends(p, n, rear)
    BY <1>4, <1>5, <1>6 DEF Ends
<1> QED
    BY <1>1, <1>2, <1>3, <1>4, <1>6, <1>7

\* A pattern with a dot matches a qualified name exactly when what is in front of the dot
\* matches the schema and what is behind it the object, neither of which has a dot.
LEMMA QualifiedMatch ==
    ASSUME NEW p \in Seq(STRING), NEW n \in 1..Len(p), p[n] = ".",
           NEW s \in Seq(STRING), ~Contains(s, "."), NEW o \in Seq(STRING), ~Contains(o, ".")
    PROVE  Match(p, s \o <<".">> \o o) <=>
               Match(SubSeq(p, 1, n - 1), s) /\ Match(SubSeq(p, n + 1, Len(p)), o)
<1>1. PICK q : q = s \o <<".">> \o o
    OBVIOUS
<1>2. PICK m \in Nat : m = Len(s)
    OBVIOUS
<1>3. /\ q \in Seq(STRING) /\ Len(q) = m + 1 + Len(o) /\ q[m + 1] = "."
      /\ \A k \in 1..m : q[k] = s[k]
      /\ \A k \in 1..Len(o) : q[m + 1 + k] = o[k]
    <2>1. <<".">> \in Seq(STRING)
        OBVIOUS
    <2> QED
        BY <1>1, <1>2, <2>1
<1>4. \A k \in 1..Len(q) : q[k] = "." <=> k = m + 1
    <2> SUFFICES ASSUME NEW k \in 1..Len(q), k # m + 1 PROVE q[k] # "."
        BY <1>3
    <2>1. CASE k <= m
        BY <1>2, <1>3, <2>1 DEF Contains
    <2>2. CASE k > m
        <3>1. k - (m + 1) \in 1..Len(o) /\ m + 1 + (k - (m + 1)) = k
            BY <1>3, <2>2
        <3> QED
            BY <1>3, <3>1 DEF Contains
    <2> QED
        BY <2>1, <2>2
<1>5. n \in 1..Len(p) /\ n \in Nat
    OBVIOUS
<1>6. PICK front, rear : front = SubSeq(p, 1, n - 1) /\ rear = SubSeq(p, n + 1, Len(p))
    OBVIOUS
<1>7. /\ front \in Seq(STRING) /\ Len(front) = n - 1 /\ Begins(p, front)
      /\ rear \in Seq(STRING) /\ Len(p) = n + Len(rear) /\ Ends(p, n, rear)
    BY <1>5, <1>6, SplitAt
<1>8. m \in Reach(p, q)[n - 1] <=> Match(front, s)
    <2>1. q \in Seq(STRING) /\ front \in Seq(STRING) /\ Begins(p, front)
        BY <1>3, <1>7
    <2>2. Begins(q, s)
        BY <1>2, <1>3 DEF Begins
    <2>3. Len(s) \in Reach(p, q)[Len(front)] <=> Match(front, s)
        BY <2>1, <2>2, PrefixReach
    <2> QED
        BY <1>2, <1>7, <2>3
<1>9. \A j : j \in Reach(p, q)[n] <=> j = m + 1 /\ m \in Reach(p, q)[n - 1]
    <2>1. m + 1 <= Len(q)
        BY <1>3
    <2> QED
        BY <1>3, <1>4, <1>5, <2>1, DotReach
<1>10. CASE Match(front, s)
    <2>1. Reach(p, q)[n] = {m + 1}
        BY <1>8, <1>9, <1>10
    <2>2. PICK x \in Nat : x = m + 1
        OBVIOUS
    <2>3. Ends(q, x, o) /\ Reach(p, q)[n] = {x} /\ n \in Nat
        BY <1>3, <1>5, <2>1, <2>2 DEF Ends
    <2>4. q \in Seq(STRING) /\ rear \in Seq(STRING) /\ Ends(p, n, rear)
        BY <1>3, <1>7
    <2>5. Match(p, q) <=> Match(rear, o)
        BY <2>3, <2>4, SuffixReach
    <2> QED
        BY <1>1, <1>6, <1>10, <2>5
<1>11. CASE ~Match(front, s)
    <2>1. Reach(p, q)[n] = {}
        BY <1>8, <1>9, <1>11
    <2>2. n \in 0..Len(p)
        BY <1>5
    <2>3. Reach(p, q)[Len(p)] = {}
        BY <1>3, <2>1, <2>2, StuckReach
    <2>4. ~Match(p, q)
        BY <2>3 DEF Match
    <2> QED
        BY <1>1, <1>6, <1>11, <2>4
<1> QED
    BY <1>10, <1>11

\* Lower case has no dots of its own.
LEMMA LowerName ==
    ASSUME NEW s \in Seq(STRING)
    PROVE  Lower(s) \in Seq(STRING) /\ (Contains(Lower(s), ".") => Contains(s, "."))
<1>1. Len(s) \in Nat /\ DOMAIN s = 1..Len(s) /\ \A i \in 1..Len(s) : s[i] \in STRING
    OBVIOUS
<1>2. PICK l : l = Lower(s)
    OBVIOUS
<1>3. \A i \in 1..Len(s) : l[i] \in STRING /\ (l[i] = "." => s[i] = ".")
    BY <1>1, <1>2, LowerCaseAssumption DEF Lower
<1>4. l = [i \in 1..Len(s) |-> l[i]]
    BY <1>1, <1>2 DEF Lower
<1>5. l \in Seq(STRING) /\ Len(l) = Len(s)
    BY <1>1, <1>3, <1>4
<1>6. Contains(l, ".") => Contains(s, ".")
    BY <1>3, <1>5 DEF Contains
<1> QED
    BY <1>2, <1>5, <1>6

\* MatchPattern is matching by parts, for a pattern of either form.
LEMMA MatchesByParts ==
    ASSUME NEW pattern \in Seq(STRING),
           NEW schema \in Seq(STRING), ~Contains(schema, "."), NEW object \in Seq(STRING), ~Contains(object, ".")
    PROVE  MatchPattern(pattern, Lower(schema) \o <<".">> \o Lower(object), Lower(object)) <=>
               ByParts(pattern, schema, object)
<1>1. PICK p, s, o : p = Lower(pattern) /\ s = Lower(schema) /\ o = Lower(object)
    OBVIOUS
<1>2. /\ p \in Seq(STRING) /\ s \in Seq(STRING) /\ o \in Seq(STRING)
      /\ ~Contains(s, ".") /\ ~Contains(o, ".")
    BY <1>1, LowerName
<1>3. \A i \in DOMAIN p : p[i] = "." =>
          (Match(p, s \o <<".">> \o o) <=> Match(SubSeq(p, 1, i - 1), s) /\ Match(SubSeq(p, i + 1, Len(p)), o))
    <2>1. DOMAIN p = 1..Len(p)
        BY <1>2
    <2> QED
        BY <1>2, <2>1, QualifiedMatch
<1>4. CASE Contains(p, ".")
    <2>1. \E i \in DOMAIN p : p[i] = "."
        BY <1>2, <1>4 DEF Contains
    <2>2. MatchPattern(pattern, s \o <<".">> \o o, o) <=> Match(p, s \o <<".">> \o o)
        BY <1>1, <1>4 DEF MatchPattern
    <2>3. ByParts(pattern, schema, object) <=>
              \E i \in DOMAIN p : /\ p[i] = "."
                                  /\ Match(SubSeq(p, 1, i - 1), s)
                                  /\ Match(SubSeq(p, i + 1, Len(p)), o)
        BY <1>1, <1>4 DEF ByParts
    <2> QED
        BY <1>1, <1>3, <2>1, <2>2, <2>3
<1>5. CASE ~Contains(p, ".")
    BY <1>1, <1>5 DEF MatchPattern, ByParts
<1> QED
    BY <1>4, <1>5

\* What the code selects is what the filters are meant to select.
LEMMA SelectedAsMeant ==
    ASSUME NEW f, f.includeSchemas \cup f.includeTables \cup f.excludeSchemas \cup f.excludeTables
                      \subseteq Seq(STRING),
           NEW schema \in Seq(STRING), ~Contains(schema, "."), NEW object \in Seq(STRING), ~Contains(object, ".")
    PROVE  MatchesTable(f, schema, object) <=> Selected(f, schema, object)
<1>1. \A p : MatchPattern(p, Lower(schema), Lower(schema)) <=> Match(Lower(p), Lower(schema))
    BY DEF MatchPattern
<1>2. MatchesSchema(f, schema) <=>
          /\ f.includeSchemas = {} \/ \E p \in f.includeSchemas : Match(Lower(p), Lower(schema))
          /\ ~\E p \in f.excludeSchemas : Match(Lower(p), Lower(schema))
    BY <1>1 DEF MatchesSchema
<1>3. ASSUME NEW P, P \subseteq Seq(STRING)
      PROVE  MatchesAny(P, schema, object) <=> \E p \in P : ByParts(p, schema, object)
    <2>1. \A p \in P : MatchPattern(p, Lower(schema) \o <<".">> \o Lower(object), Lower(object)) <=>
                           ByParts(p, schema, object)
        BY <1>3, MatchesByParts
    <2> QED
        BY <2>1 DEF MatchesAny
<1>4. /\ MatchesAny(f.includeTables, schema, object) <=> \E p \in f.includeTables : ByParts(p, schema, object)
      /\ MatchesAny(f.excludeTables, schema, object) <=> \E p \in f.excludeTables : ByParts(p, schema, object)
    BY <1>3
<1> QED
    BY <1>2, <1>4 DEF MatchesTable, Selected

-------------------------------------------------------------------------------
(* The selection. *)

\* Where the selection is made, and where it is not.
LEMMA SelectionNext ==
    ASSUME IntroInv, SelectionOK, [Next]_vars
    PROVE  SelectionOK'
<1>1. CASE Alter \/ Drop
    <2>1. PICK s : Becomes(s) /\ DOMAIN s \subseteq AnyObject
        <3>1. CASE Alter
            <4>1. PICK a \in Alterations :
                      Becomes([t \in DOMAIN source \cup {a[1]} |-> IF t = a[1] THEN a[2] ELSE source[t]])
                BY <3>1 DEF Alter
            <4>2. DOMAIN source \cup {a[1]} \subseteq AnyObject
                BY AlterationsAssumption DEF SelectionOK
            <4> QED
                BY <4>1, <4>2
        <3>2. CASE Drop
            <4>1. PICK t \in DOMAIN source : Becomes([u \in DOMAIN source \ {t} |-> source[u]])
                BY <3>2 DEF Drop
            <4>2. DOMAIN source \ {t} \subseteq AnyObject
                BY DEF SelectionOK
            <4> QED
                BY <4>1, <4>2
        <3> QED
            BY <1>1, <3>1, <3>2
    <2>2. source' = s /\ UNCHANGED <<filters, views, at, tables, selectedViews>>
        BY <2>1 DEF Becomes, catalogue
    <2>3. steady'.outlines = steady.outlines \cap Contents(s).outlines
        <3>1. /\ steady' = [f \in DOMAIN steady |-> steady[f] \cap Contents(s)[f]]
              /\ DOMAIN steady = {"columns", "keys", "outlines"}
            BY <2>1 DEF Becomes, IntroInv, SourceOK
        <3> QED
            BY <3>1
    <2>4. \A l \in Contents(s).outlines : l[1] \in DOMAIN s
        BY DEF Contents
    <2> QED
        BY <2>1, <2>2, <2>3, <2>4 DEF SelectionOK
<1>2. CASE LoadTables
    <2>1. /\ at = 1 /\ at' = 2 /\ UNCHANGED <<filters, source, views, steady, selectedViews>>
          /\ tables' = {t \in DOMAIN source : MatchesTable(filters, t.schema, t.name)}
        BY <1>2, AsksAt DEF LoadTables, Answered, IntroInv, TypeOK, Asks
    <2> QED
        BY <2>1 DEF SelectionOK
<1>3. CASE LoadViews
    <2>1. /\ at = 10 /\ at' = 11 /\ UNCHANGED <<filters, source, views, steady, tables>>
          /\ selectedViews' = {v \in views : MatchesTable(filters, v.schema, v.name)}
        BY <1>3, AsksAt DEF LoadViews, Answered, IntroInv, TypeOK, Asks
    <2> QED
        BY <2>1 DEF SelectionOK
<1>4. CASE \/ LoadColumns \/ LoadIdentityColumns \/ LoadPrimaryKeys \/ LoadUniqueConstraints
           \/ LoadIndexes \/ LoadDefaultConstraints \/ LoadForeignKeys \/ LoadCheckConstraints
    <2>1. /\ UNCHANGED <<filters, source, views, steady, tables, selectedViews>>
          /\ at' = at + 1 /\ at \in 2..9
        <3>1. CASE LoadColumns
            BY <3>1, AsksAt DEF LoadColumns, Answered, IntroInv, TypeOK, Asks
        <3>2. CASE LoadIdentityColumns
            BY <3>2, AsksAt DEF LoadIdentityColumns, Answered, IntroInv, TypeOK, Asks
        <3>3. CASE \E kind \in KeyKinds : LoadKeys(kind)
            <4>1. PICK kind \in KeyKinds : LoadKeys(kind)
                BY <3>3
            <4> QED
                BY <4>1, AsksAt DEF LoadKeys, Answered, IntroInv, TypeOK, Asks
        <3> QED
            BY <1>4, <3>1, <3>2, <3>3
               DEF KeyKinds, LoadPrimaryKeys, LoadUniqueConstraints, LoadIndexes,
                   LoadDefaultConstraints, LoadForeignKeys, LoadCheckConstraints
    <2>2. at > 1 /\ ~(at' > 10)
        BY <2>1
    <2> QED
        BY <2>1, <2>2 DEF SelectionOK
<1>5. CASE ValidateFilters \/ CreateTables \/ CopyTable \/ Constrain \/ Fail \/ UNCHANGED vars
    <2>1. UNCHANGED <<filters, source, views, at, tables, selectedViews, steady>>
        BY <1>5 DEF ValidateFilters, CreateTables, CopyTable, Constrain, Fail, MovesTo, vars, catalogue
    <2> QED
        BY <2>1 DEF SelectionOK
<1> QED
    BY <1>1, <1>2, <1>3, <1>4, <1>5 DEF Next

\* What has been selected, MatchesTable has selected, whatever other sessions do.
THEOREM SelectionInvariant == Spec => []SelectionOK
<1>1. Init => SelectionOK
    <2> SUFFICES ASSUME Init PROVE SelectionOK
        OBVIOUS
    <2>1. PICK s \in Scenarios :
              /\ source = s.source /\ views = s.views /\ filters = s.filters
              /\ steady = Contents(s.source)
        BY DEF Init
    <2>2. at = 1 /\ tables = {}
        BY DEF Init
    <2>3. \A l \in Contents(s.source).outlines : l[1] \in DOMAIN s.source
        BY DEF Contents
    <2>4. /\ s.views \cup DOMAIN s.source \subseteq AnyObject
          /\ s.filters.includeSchemas \cup s.filters.includeTables
                 \cup s.filters.excludeSchemas \cup s.filters.excludeTables \subseteq Name
        BY ScenariosAssumption
    <2> QED
        BY <2>1, <2>2, <2>3, <2>4 DEF SelectionOK
<1>2. IntroInv /\ SelectionOK /\ [Next]_vars => SelectionOK'
    BY SelectionNext
<1> QED
    BY <1>1, <1>2, IntrospectionInvariant, PTL DEF Spec

\* The filters select tables and views the way they read, for any patterns and any names
\* that have no dot of their own.
THEOREM SelectionAsMeant == Spec => []SelectedByParts
<1>1. IntroInv /\ SelectionOK => SelectedByParts
    <2> SUFFICES ASSUME IntroInv, SelectionOK, Introspected PROVE SelectedByParts
        BY DEF SelectedByParts
    <2>1. at > 10 /\ at > 1
        BY QueryOrder DEF Introspected, IntroInv, TypeOK
    <2>2. ASSUME NEW x \in AnyObject, Undotted(x)
          PROVE  MatchesTable(filters, x.schema, x.name) <=> Selected(filters, x.schema, x.name)
        <3>1. x.schema \in Seq(STRING) /\ x.name \in Seq(STRING)
            BY DEF AnyObject, Name
        <3>2. ~Contains(x.schema, ".") /\ ~Contains(x.name, ".")
            BY <2>2 DEF Undotted
        <3>3. filters.includeSchemas \cup filters.includeTables
                  \cup filters.excludeSchemas \cup filters.excludeTables \subseteq Seq(STRING)
            BY DEF SelectionOK, Name
        <3> QED
            BY <3>1, <3>2, <3>3, SelectedAsMeant
    <2>3. \A v \in views : Undotted(v) => (v \in selectedViews <=> Selected(filters, v.schema, v.name))
        BY <2>1, <2>2 DEF SelectionOK
    <2>4. \A t \in tables : Undotted(t) => Selected(filters, t.schema, t.name)
        BY <2>2 DEF SelectionOK
    <2>5. \A l \in steady.outlines :
              Undotted(l[1]) /\ Selected(filters, l[1].schema, l[1].name) => l[1] \in tables
        BY <2>1, <2>2 DEF SelectionOK
    <2> QED
        BY <2>3, <2>4, <2>5 DEF SelectedByParts
<1> QED
    BY <1>1, IntrospectionInvariant, SelectionInvariant, PTL
================================================================================
