----------------------------- MODULE CatalogProof -----------------------------
(***************************************************************************)
(* Lemmas about the operators of Catalog: what the selection keeps, and the *)
(* order and independence of the statements of a run.                       *)
(***************************************************************************)
EXTENDS Catalog, NumberProof, FiniteSets, TLAPS

-------------------------------------------------------------------------------
(* Among. *)

\* The equation that the recursive function of Among satisfies.
Selecting(f, s, S, n) ==
    f = [i \in 0..n |-> IF i = 0 THEN <<>>
                        ELSE IF s[i] \in S THEN Append(f[i - 1], s[i])
                        ELSE f[i - 1]]

\* Its value after i elements.
Kept(f, s, S, T, i) ==
    /\ f[i] \in Seq(T)
    /\ {f[i][k] : k \in 1..Len(f[i])} = {s[k] : k \in 1..i} \cap S

\* The recursive function of Among exists.
LEMMA SelectingExists ==
    ASSUME NEW s, NEW S, NEW n \in Nat
    PROVE  \E f : Selecting(f, s, S, n)
<1> DEFINE P == {m \in Nat : \E f : Selecting(f, s, S, m)}
<1>1. 0 \in P
    <2> DEFINE f == [i \in 0..0 |-> <<>>]
    <2>1. Selecting(f, s, S, 0)
        BY DEF Selecting
    <2> QED
        BY <2>1
<1>2. ASSUME NEW m \in Nat, m \in P PROVE m + 1 \in P
    <2>1. PICK f : Selecting(f, s, S, m)
        BY <1>2
    <2> DEFINE last == IF s[m + 1] \in S THEN Append(f[m], s[m + 1]) ELSE f[m]
    <2> DEFINE g == [i \in 0..(m + 1) |-> IF i = m + 1 THEN last ELSE f[i]]
    <2>2. \A i \in 0..m : f[i] = IF i = 0 THEN <<>>
                                 ELSE IF s[i] \in S THEN Append(f[i - 1], s[i])
                                 ELSE f[i - 1]
        BY <2>1 DEF Selecting
    <2>3. \A i \in 0..(m + 1) : g[i] = IF i = 0 THEN <<>>
                                       ELSE IF s[i] \in S THEN Append(g[i - 1], s[i])
                                       ELSE g[i - 1]
        <3> TAKE i \in 0..(m + 1)
        <3>1. CASE i = m + 1
            <4>1. g[m + 1] = last /\ g[m] = f[m]
                OBVIOUS
            <4> QED
                BY <3>1, <4>1
        <3>2. CASE i \in 0..m
            <4>1. g[i] = f[i] /\ (i # 0 => g[i - 1] = f[i - 1])
                BY <3>2
            <4> QED
                BY <2>2, <3>2, <4>1
        <3> QED
            BY <3>1, <3>2
    <2>4. Selecting(g, s, S, m + 1)
        BY <2>3 DEF Selecting
    <2> QED
        BY <2>4
<1>3. Nat \subseteq P
    <2> HIDE DEF P
    <2> QED
        BY <1>1, <1>2, Induction
<1> QED
    BY <1>3

\* Among is the last value of that function.
LEMMA AmongFunction ==
    ASSUME NEW T, NEW s \in Seq(T), NEW S
    PROVE  \E f : Selecting(f, s, S, Len(s)) /\ Among(s, S) = f[Len(s)]
<1> DEFINE g == CHOOSE f : Selecting(f, s, S, Len(s))
<1>1. Selecting(g, s, S, Len(s))
    BY SelectingExists
<1>2. Among(s, S) = g[Len(s)]
    BY DEF Among, Selecting
<1> QED
    BY <1>1, <1>2

\* Among keeps exactly the elements of the sequence that are in the set.
LEMMA AmongElements ==
    ASSUME NEW T, NEW s \in Seq(T), NEW S
    PROVE  /\ Among(s, S) \in Seq(T)
           /\ ToSet(Among(s, S)) = ToSet(s) \cap S
<1>1. PICK f : Selecting(f, s, S, Len(s)) /\ Among(s, S) = f[Len(s)]
    BY AmongFunction
<1>n. Len(s) \in Nat
    OBVIOUS
<1>3. /\ f[0] = <<>>
      /\ \A i \in 1..Len(s) : f[i] = IF s[i] \in S THEN Append(f[i - 1], s[i]) ELSE f[i - 1]
    <2>1. \A i \in 0..Len(s) : f[i] = IF i = 0 THEN <<>>
                                      ELSE IF s[i] \in S THEN Append(f[i - 1], s[i])
                                      ELSE f[i - 1]
        BY <1>1 DEF Selecting
    <2>2. 0 \in 0..Len(s)
        BY <1>n
    <2>3. \A i \in 1..Len(s) : i \in 0..Len(s) /\ i # 0
        BY <1>n
    <2> QED
        BY <2>1, <2>2, <2>3
<1> DEFINE P == {m \in Nat : m <= Len(s) => Kept(f, s, S, T, m)}
<1>4. 0 \in P
    <2>1. f[0] \in Seq(T) /\ Len(f[0]) = 0
        BY <1>3
    <2>2. {s[k] : k \in 1..0} = {} /\ {f[0][k] : k \in 1..0} = {}
        OBVIOUS
    <2> QED
        BY <2>1, <2>2 DEF Kept
<1>5. ASSUME NEW i \in Nat, i \in P PROVE i + 1 \in P
    <2> SUFFICES ASSUME i + 1 <= Len(s) PROVE Kept(f, s, S, T, i + 1)
        OBVIOUS
    <2>1. Kept(f, s, S, T, i)
        BY <1>5, <1>n
    <2>2. s[i + 1] \in T /\ i + 1 \in 1..Len(s)
        BY <1>n
    <2>3. {s[k] : k \in 1..(i + 1)} = {s[k] : k \in 1..i} \cup {s[i + 1]}
        OBVIOUS
    <2>4. CASE s[i + 1] \in S
        <3>1. f[i + 1] = Append(f[i], s[i + 1])
            <4>1. (i + 1) - 1 = i
                OBVIOUS
            <4> QED
                BY <1>3, <2>2, <2>4, <4>1
        <3>2. {f[i + 1][k] : k \in 1..Len(f[i + 1])} = {f[i][k] : k \in 1..Len(f[i])} \cup {s[i + 1]}
            <4>1. f[i] \in Seq(T)
                BY <2>1 DEF Kept
            <4> QED
                BY <4>1, <2>2, <3>1
        <3>3. f[i + 1] \in Seq(T)
            BY <2>1, <2>2, <3>1 DEF Kept
        <3>4. \A A : (A \cap S) \cup {s[i + 1]} = (A \cup {s[i + 1]}) \cap S
            BY <2>4
        <3> QED
            BY <2>1, <2>3, <3>2, <3>3, <3>4 DEF Kept
    <2>5. CASE s[i + 1] \notin S
        <3>1. f[i + 1] = f[i]
            BY <1>3, <2>2, <2>5
        <3> QED
            BY <2>1, <2>3, <2>5, <3>1 DEF Kept
    <2> QED
        BY <2>4, <2>5
<1>6. Len(s) \in P
    <2> HIDE DEF P
    <2> QED
        BY <1>4, <1>5, <1>n, Induction
<1>7. Kept(f, s, S, T, Len(s))
    BY <1>6
<1>8. ToSet(s) = {s[k] : k \in 1..Len(s)}
    BY DEF ToSet
<1>9. ASSUME f[Len(s)] \in Seq(T)
      PROVE  ToSet(f[Len(s)]) = {f[Len(s)][k] : k \in 1..Len(f[Len(s)])}
    BY <1>9 DEF ToSet
<1> QED
    BY <1>1, <1>7, <1>8, <1>9 DEF Kept

\* Among keeps a sequence whose elements are all in the set.
LEMMA AmongAll ==
    ASSUME NEW T, NEW s \in Seq(T), NEW S, ToSet(s) \subseteq S
    PROVE  Among(s, S) = s
<1>1. PICK f : Selecting(f, s, S, Len(s)) /\ Among(s, S) = f[Len(s)]
    BY AmongFunction
<1>n. Len(s) \in Nat
    OBVIOUS
<1>2. f[0] = <<>> /\ \A i \in 0..Len(s) : i # 0 => f[i] = Append(f[i - 1], s[i])
    <2>1. \A i \in 0..Len(s) : f[i] = IF i = 0 THEN <<>>
                                      ELSE IF s[i] \in S THEN Append(f[i - 1], s[i])
                                      ELSE f[i - 1]
        BY <1>1 DEF Selecting
    <2>2. \A i \in 1..Len(s) : s[i] \in S
        BY DEF ToSet
    <2>3. 0 \in 0..Len(s) /\ \A i \in 0..Len(s) : i # 0 => i \in 1..Len(s)
        BY <1>n
    <2> QED
        BY <2>1, <2>2, <2>3
<1> DEFINE P == {m \in Nat : m <= Len(s) => f[m] = SubSeq(s, 1, m)}
<1>3. 0 \in P
    <2>1. SubSeq(s, 1, 0) = <<>>
        OBVIOUS
    <2> QED
        BY <1>2, <2>1
<1>4. ASSUME NEW i \in Nat, i \in P PROVE i + 1 \in P
    <2> SUFFICES ASSUME i + 1 <= Len(s) PROVE f[i + 1] = SubSeq(s, 1, i + 1)
        OBVIOUS
    <2>1. (i + 1) - 1 = i /\ i + 1 \in 0..Len(s) /\ i + 1 # 0
        BY <1>n
    <2>2. f[i + 1] = Append(f[i], s[i + 1])
        BY <1>2, <2>1
    <2>3. f[i] = SubSeq(s, 1, i)
        BY <1>4, <1>n
    <2>4. Append(SubSeq(s, 1, i), s[i + 1]) = SubSeq(s, 1, i + 1)
        BY <1>n
    <2> QED
        BY <2>2, <2>3, <2>4
<1>5. Len(s) \in P
    <2> HIDE DEF P
    <2> QED
        BY <1>3, <1>4, <1>n, Induction
<1>6. SubSeq(s, 1, Len(s)) = s
    OBVIOUS
<1> QED
    BY <1>1, <1>5, <1>6

-------------------------------------------------------------------------------
(* The selection. *)

Selected(s, chosen) == FilterForeignKeys(Introspect(s, chosen))

\* The fields of a catalogue are what Catalogues says.
LEMMA CatalogueFields ==
    ASSUME NEW c \in Catalogues
    PROVE  /\ c.schemas \in Seq(AnySchema)
           /\ c.tables \in Seq(AnyTable)
           /\ c.indexes \in Seq(AnyPart)
           /\ c.uniques \in Seq(AnyPart)
           /\ c.checks \in Seq(AnyPart)
           /\ c.defaults \in Seq(AnyPart)
           /\ c.foreignKeys \in Seq(AnyForeignKey)
           /\ c.views \in Seq(AnyView)
           /\ c.unsupported \in SUBSET STRING
    BY DEF Catalogues

\* Introspect keeps what the filters select, and everything on the selected tables.
LEMMA IntrospectElements ==
    ASSUME NEW s \in Catalogues, NEW chosen
    PROVE  LET c == Introspect(s, chosen)
           IN /\ c \in Catalogues
              /\ c.schemas = s.schemas /\ c.unsupported = s.unsupported
              /\ ToSet(c.tables) = {x \in ToSet(s.tables) : x.name \in chosen}
              /\ ToSet(c.views) = {x \in ToSet(s.views) : x.name \in chosen}
              /\ ToSet(c.indexes) = {x \in ToSet(s.indexes) : x.table \in chosen}
              /\ ToSet(c.uniques) = {x \in ToSet(s.uniques) : x.table \in chosen}
              /\ ToSet(c.checks) = {x \in ToSet(s.checks) : x.table \in chosen}
              /\ ToSet(c.defaults) = {x \in ToSet(s.defaults) : x.table \in chosen}
              /\ ToSet(c.foreignKeys) = {x \in ToSet(s.foreignKeys) : x.table \in chosen}
<1> DEFINE c == Introspect(s, chosen)
<1> DEFINE Chosen(q) == Among(q, {x \in ToSet(q) : x.name \in chosen})
           OnChosen(q) == Among(q, {x \in ToSet(q) : x.table \in chosen})
<1>1. /\ c.schemas = s.schemas /\ c.unsupported = s.unsupported
      /\ c.tables = Chosen(s.tables) /\ c.views = Chosen(s.views)
      /\ c.indexes = OnChosen(s.indexes) /\ c.uniques = OnChosen(s.uniques)
      /\ c.checks = OnChosen(s.checks) /\ c.defaults = OnChosen(s.defaults)
      /\ c.foreignKeys = OnChosen(s.foreignKeys)
      /\ c = [schemas |-> s.schemas, tables |-> c.tables, indexes |-> c.indexes,
              uniques |-> c.uniques, checks |-> c.checks, defaults |-> c.defaults,
              foreignKeys |-> c.foreignKeys, views |-> c.views, unsupported |-> s.unsupported]
    BY DEF Introspect
<1>2. ASSUME NEW T, NEW q \in Seq(T)
      PROVE  Chosen(q) \in Seq(T) /\ ToSet(Chosen(q)) = {x \in ToSet(q) : x.name \in chosen}
    BY AmongElements
<1>a. ASSUME NEW T, NEW q \in Seq(T)
      PROVE  OnChosen(q) \in Seq(T) /\ ToSet(OnChosen(q)) = {x \in ToSet(q) : x.table \in chosen}
    BY AmongElements
<1> HIDE DEF c, Chosen, OnChosen
<1>3. /\ ToSet(c.tables) = {x \in ToSet(s.tables) : x.name \in chosen}
      /\ c.tables \in Seq(AnyTable)
    BY <1>1, <1>2, CatalogueFields
<1>4. /\ ToSet(c.views) = {x \in ToSet(s.views) : x.name \in chosen}
      /\ c.views \in Seq(AnyView)
    BY <1>1, <1>2, CatalogueFields
<1>5. /\ ToSet(c.indexes) = {x \in ToSet(s.indexes) : x.table \in chosen}
      /\ c.indexes \in Seq(AnyPart)
    <2>1. s.indexes \in Seq(AnyPart)
        BY CatalogueFields
    <2> QED
        BY <1>1, <1>a, <2>1
<1>6. /\ ToSet(c.uniques) = {x \in ToSet(s.uniques) : x.table \in chosen}
      /\ c.uniques \in Seq(AnyPart)
    <2>1. s.uniques \in Seq(AnyPart)
        BY CatalogueFields
    <2> QED
        BY <1>1, <1>a, <2>1
<1>7. /\ ToSet(c.checks) = {x \in ToSet(s.checks) : x.table \in chosen}
      /\ c.checks \in Seq(AnyPart)
    <2>1. s.checks \in Seq(AnyPart)
        BY CatalogueFields
    <2> QED
        BY <1>1, <1>a, <2>1
<1>8. /\ ToSet(c.defaults) = {x \in ToSet(s.defaults) : x.table \in chosen}
      /\ c.defaults \in Seq(AnyPart)
    <2>1. s.defaults \in Seq(AnyPart)
        BY CatalogueFields
    <2> QED
        BY <1>1, <1>a, <2>1
<1>9. /\ ToSet(c.foreignKeys) = {x \in ToSet(s.foreignKeys) : x.table \in chosen}
      /\ c.foreignKeys \in Seq(AnyForeignKey)
    <2>1. s.foreignKeys \in Seq(AnyForeignKey)
        BY CatalogueFields
    <2> QED
        BY <1>1, <1>a, <2>1
<1>10. s.schemas \in Seq(AnySchema) /\ s.unsupported \in SUBSET STRING
    BY CatalogueFields
<1>11. c \in Catalogues
    BY <1>1, <1>3, <1>4, <1>5, <1>6, <1>7, <1>8, <1>9, <1>10 DEF Catalogues
<1> QED
    BY <1>1, <1>3, <1>4, <1>5, <1>6, <1>7, <1>8, <1>9, <1>11 DEF c

\* filterForeignKeys drops exactly the foreign keys to tables that are not there.
LEMMA FilterElements ==
    ASSUME NEW c \in Catalogues
    PROVE  LET d == FilterForeignKeys(c)
           IN /\ d \in Catalogues
              /\ d.schemas = c.schemas /\ d.unsupported = c.unsupported
              /\ d.tables = c.tables /\ d.views = c.views /\ d.indexes = c.indexes
              /\ d.uniques = c.uniques /\ d.checks = c.checks /\ d.defaults = c.defaults
              /\ ToSet(d.foreignKeys) = {f \in ToSet(c.foreignKeys) : f.referenced \in Names(c.tables)}
<1> DEFINE kept == Among(c.foreignKeys, {f \in ToSet(c.foreignKeys) : f.referenced \in Names(c.tables)})
<1>1. FilterForeignKeys(c) = [c EXCEPT !.foreignKeys = kept]
    BY DEF FilterForeignKeys
<1>2. /\ kept \in Seq(AnyForeignKey)
      /\ ToSet(kept) = {f \in ToSet(c.foreignKeys) : f.referenced \in Names(c.tables)}
    BY CatalogueFields, AmongElements
<1> HIDE DEF kept
<1> QED
    BY <1>1, <1>2 DEF Catalogues

-------------------------------------------------------------------------------
(* The order of the statements of a run. *)

\* The place of the statements of a kind in Run.
Place(op) ==
    CASE op = "schema" -> 0 [] op = "table" -> 1 [] op = "default" -> 2 [] op = "rows" -> 3
      [] op = "sequence" -> 4 [] op = "index" -> 5 [] op = "unique" -> 6 [] op = "check" -> 7
      [] op = "foreignKey" -> 8 [] OTHER -> 9

\* Two statements create different relations, and copy the rows of different tables.
Apart(a, b) == a.creates \cap b.creates = {} /\ (a.op = "rows" => a.name # b.name)

\* Statements of the kinds from lo to hi, one kind after the other.
Tidy(s, lo, hi) ==
    /\ s \in Seq(AnyStatement)
    /\ \A i \in DOMAIN s : Place(s[i].op) \in lo..hi
    /\ \A i, j \in DOMAIN s : i < j =>
           \/ Place(s[i].op) < Place(s[j].op)
           \/ Place(s[i].op) = Place(s[j].op) /\ Apart(s[i], s[j])

\* The elements of two sequences one after the other.
LEMMA ConcatElements ==
    ASSUME NEW T, NEW s \in Seq(T), NEW t \in Seq(T)
    PROVE  s \o t \in Seq(T) /\ ToSet(s \o t) = ToSet(s) \cup ToSet(t)
<1>1. \A i \in 1..Len(s) : (s \o t)[i] = s[i]
    OBVIOUS
<1>2. \A i \in 1..Len(t) : (s \o t)[Len(s) + i] = t[i]
    OBVIOUS
<1>3. DOMAIN (s \o t) = 1..(Len(s) + Len(t)) /\ DOMAIN s = 1..Len(s) /\ DOMAIN t = 1..Len(t)
    OBVIOUS
<1>4. ASSUME NEW i \in 1..(Len(s) + Len(t)) PROVE (s \o t)[i] \in ToSet(s) \cup ToSet(t)
    <2>1. CASE i <= Len(s)
        <3>1. i \in 1..Len(s)
            BY <2>1
        <3> QED
            BY <1>1, <1>3, <3>1 DEF ToSet
    <2>2. CASE i > Len(s)
        <3>1. i - Len(s) \in 1..Len(t) /\ i = Len(s) + (i - Len(s))
            BY <2>2
        <3> QED
            BY <1>2, <1>3, <3>1 DEF ToSet
    <2> QED
        BY <2>1, <2>2
<1>5. ASSUME NEW x \in ToSet(s) PROVE x \in ToSet(s \o t)
    <2>1. PICK i \in 1..Len(s) : x = s[i]
        BY DEF ToSet
    <2>2. i \in 1..(Len(s) + Len(t))
        OBVIOUS
    <2> QED
        BY <1>1, <1>3, <2>1, <2>2 DEF ToSet
<1>6. ASSUME NEW x \in ToSet(t) PROVE x \in ToSet(s \o t)
    <2>1. PICK i \in 1..Len(t) : x = t[i]
        BY DEF ToSet
    <2>2. Len(s) + i \in 1..(Len(s) + Len(t))
        OBVIOUS
    <2> QED
        BY <1>2, <1>3, <2>1, <2>2 DEF ToSet
<1>7. \A x \in ToSet(s \o t) : x \in ToSet(s) \cup ToSet(t)
    BY <1>3, <1>4 DEF ToSet
<1> QED
    BY <1>5, <1>6, <1>7

\* Statements of later kinds after statements of earlier kinds are in order.
LEMMA TidyConcat ==
    ASSUME NEW s, NEW t, NEW lo \in Nat, NEW m \in Nat, NEW n \in Nat, NEW hi \in Nat,
           Tidy(s, lo, m), Tidy(t, n, hi), m < n, lo <= n, m <= hi
    PROVE  Tidy(s \o t, lo, hi) /\ ToSet(s \o t) = ToSet(s) \cup ToSet(t)
<1> DEFINE st == s \o t
<1>1. s \in Seq(AnyStatement) /\ t \in Seq(AnyStatement)
    BY DEF Tidy
<1>2. /\ st \in Seq(AnyStatement)
      /\ Len(s) \in Nat /\ Len(t) \in Nat
      /\ DOMAIN st = 1..(Len(s) + Len(t)) /\ DOMAIN s = 1..Len(s) /\ DOMAIN t = 1..Len(t)
      /\ \A i \in 1..Len(s) : st[i] = s[i]
      /\ \A i \in 1..(Len(s) + Len(t)) : i > Len(s) => i - Len(s) \in 1..Len(t) /\ st[i] = t[i - Len(s)]
    BY <1>1
<1> HIDE DEF st
<1>3. ASSUME NEW i \in DOMAIN st
      PROVE  Place(st[i].op) \in lo..hi /\ (i <= Len(s) => Place(st[i].op) <= m)
                                       /\ (i > Len(s) => Place(st[i].op) >= n)
    <2>1. CASE i <= Len(s)
        BY <1>2, <2>1 DEF Tidy
    <2>2. CASE i > Len(s)
        <3>1. PICK k \in DOMAIN t : st[i] = t[k]
            BY <1>2, <2>2
        <3>2. Place(t[k].op) \in n..hi
            BY DEF Tidy
        <3>3. Place(t[k].op) \in lo..hi /\ Place(t[k].op) >= n
            BY <3>2
        <3> QED
            BY <1>2, <2>2, <3>1, <3>3
    <2> QED
        BY <1>2, <2>1, <2>2
<1>4. ASSUME NEW i \in DOMAIN st, NEW j \in DOMAIN st, i < j
      PROVE  \/ Place(st[i].op) < Place(st[j].op)
             \/ Place(st[i].op) = Place(st[j].op) /\ Apart(st[i], st[j])
    <2>1. CASE j <= Len(s)
        <3>1. i \in DOMAIN s /\ j \in DOMAIN s /\ st[i] = s[i] /\ st[j] = s[j]
            BY <1>2, <1>4, <2>1
        <3> QED
            BY <1>4, <3>1 DEF Tidy
    <2>2. CASE i > Len(s)
        <3>1. /\ i - Len(s) \in DOMAIN t /\ j - Len(s) \in DOMAIN t /\ i - Len(s) < j - Len(s)
              /\ st[i] = t[i - Len(s)] /\ st[j] = t[j - Len(s)]
            BY <1>2, <1>4, <2>2
        <3>2. PICK a \in DOMAIN t, b \in DOMAIN t : a < b /\ st[i] = t[a] /\ st[j] = t[b]
            BY <3>1
        <3> QED
            BY <3>2 DEF Tidy
    <2>3. CASE i <= Len(s) /\ j > Len(s)
        BY <1>3, <2>3
    <2> QED
        BY <1>2, <1>4, <2>1, <2>2, <2>3
<1>5. Tidy(st, lo, hi)
    BY <1>2, <1>3, <1>4 DEF Tidy
<1> QED
    BY <1>1, <1>5, ConcatElements DEF st

-------------------------------------------------------------------------------
(* The parts of Program. *)

\* A catalogue that Validate accepts, and in which no name is NoName.
Sound(c) ==
    /\ c \in Catalogues
    /\ Valid(c)
    /\ NoName \notin Names(c.tables) \cup Names(c.views) \cup Names(c.indexes) \cup Names(c.uniques)

\* Two relations of a valid catalogue have different names.
LEMMA NamesDiffer ==
    ASSUME NEW c, Valid(c),
           NEW a \in TargetRelations(c), NEW b \in TargetRelations(c), a # b
    PROVE  RelationName(c, a) # RelationName(c, b)
    BY DEF Valid, IsInjective, TargetRelationNames

\* What Validate guarantees for the objects by their positions.
LEMMA ObjectNamesDiffer ==
    ASSUME NEW c, Sound(c)
    PROVE  /\ \A i, j \in DOMAIN c.tables : i # j => c.tables[i].name # c.tables[j].name
           /\ \A i, j \in DOMAIN c.tables : c.tables[j].primaryKey # NoName =>
                  /\ c.tables[i].name # c.tables[j].primaryKey
                  /\ i # j => c.tables[i].primaryKey # c.tables[j].primaryKey
           /\ \A i, j \in DOMAIN c.indexes : i # j => c.indexes[i].name # c.indexes[j].name
           /\ \A i, j \in DOMAIN c.uniques : i # j => c.uniques[i].name # c.uniques[j].name
           /\ \A i, j \in DOMAIN c.views : i # j => c.views[i].name # c.views[j].name
           /\ \A i \in DOMAIN c.indexes, j \in DOMAIN c.uniques : c.indexes[i].name # c.uniques[j].name
           /\ \A i \in DOMAIN c.indexes, j \in DOMAIN c.views : c.indexes[i].name # c.views[j].name
           /\ \A i \in DOMAIN c.uniques, j \in DOMAIN c.views : c.uniques[i].name # c.views[j].name
           /\ \A i \in DOMAIN c.tables :
                  /\ \A j \in DOMAIN c.indexes : c.indexes[j].name \notin {c.tables[i].name, c.tables[i].primaryKey}
                  /\ \A j \in DOMAIN c.uniques : c.uniques[j].name \notin {c.tables[i].name, c.tables[i].primaryKey}
                  /\ \A j \in DOMAIN c.views : c.views[j].name \notin {c.tables[i].name, c.tables[i].primaryKey}
<1>0. Valid(c)
    BY DEF Sound
<1>1. ASSUME NEW i \in DOMAIN c.tables
      PROVE  <<"table", i>> \in TargetRelations(c) /\ RelationName(c, <<"table", i>>) = c.tables[i].name
    BY DEF TargetRelations, RelationName
<1>2. ASSUME NEW i \in DOMAIN c.tables, c.tables[i].primaryKey # NoName
      PROVE  /\ <<"primaryKey", i>> \in TargetRelations(c)
             /\ RelationName(c, <<"primaryKey", i>>) = c.tables[i].primaryKey
    BY <1>2 DEF TargetRelations, RelationName
<1>3. ASSUME NEW i \in DOMAIN c.uniques
      PROVE  <<"unique", i>> \in TargetRelations(c) /\ RelationName(c, <<"unique", i>>) = c.uniques[i].name
    BY DEF TargetRelations, RelationName
<1>4. ASSUME NEW i \in DOMAIN c.indexes
      PROVE  <<"index", i>> \in TargetRelations(c) /\ RelationName(c, <<"index", i>>) = c.indexes[i].name
    BY DEF TargetRelations, RelationName
<1>5. ASSUME NEW i \in DOMAIN c.views
      PROVE  <<"view", i>> \in TargetRelations(c) /\ RelationName(c, <<"view", i>>) = c.views[i].name
    BY DEF TargetRelations, RelationName
<1>6. \A i, j \in DOMAIN c.tables : i # j => c.tables[i].name # c.tables[j].name
    <2> TAKE i, j \in DOMAIN c.tables
    <2> HAVE i # j
    <2>1. <<"table", i>> # <<"table", j>>
        OBVIOUS
    <2> QED
        BY <1>0, <1>1, <2>1, NamesDiffer
<1>7. \A i, j \in DOMAIN c.tables : c.tables[j].primaryKey # NoName =>
                  /\ c.tables[i].name # c.tables[j].primaryKey
                  /\ i # j => c.tables[i].primaryKey # c.tables[j].primaryKey
    <2> TAKE i, j \in DOMAIN c.tables
    <2> HAVE c.tables[j].primaryKey # NoName
    <2>1. c.tables[i].name # c.tables[j].primaryKey
        <3>1. <<"table", i>> # <<"primaryKey", j>>
            OBVIOUS
        <3> QED
            BY <1>0, <1>1, <1>2, <3>1, NamesDiffer
    <2>2. ASSUME i # j, c.tables[i].primaryKey # NoName
          PROVE  c.tables[i].primaryKey # c.tables[j].primaryKey
        <3>1. <<"primaryKey", i>> # <<"primaryKey", j>>
            BY <2>2
        <3> QED
            BY <1>0, <1>2, <2>2, <3>1, NamesDiffer
    <2> QED
        BY <2>1, <2>2
<1>8. \A i, j \in DOMAIN c.indexes : i # j => c.indexes[i].name # c.indexes[j].name
    <2> TAKE i, j \in DOMAIN c.indexes
    <2>1. i # j => <<"index", i>> # <<"index", j>>
        OBVIOUS
    <2> QED
        BY <1>0, <1>4, <2>1, NamesDiffer
<1>9. \A i, j \in DOMAIN c.uniques : i # j => c.uniques[i].name # c.uniques[j].name
    <2> TAKE i, j \in DOMAIN c.uniques
    <2>1. i # j => <<"unique", i>> # <<"unique", j>>
        OBVIOUS
    <2> QED
        BY <1>0, <1>3, <2>1, NamesDiffer
<1>10. \A i, j \in DOMAIN c.views : i # j => c.views[i].name # c.views[j].name
    <2> TAKE i, j \in DOMAIN c.views
    <2>1. i # j => <<"view", i>> # <<"view", j>>
        OBVIOUS
    <2> QED
        BY <1>0, <1>5, <2>1, NamesDiffer
<1>11. \A i \in DOMAIN c.indexes, j \in DOMAIN c.uniques : c.indexes[i].name # c.uniques[j].name
    <2> TAKE i \in DOMAIN c.indexes, j \in DOMAIN c.uniques
    <2>1. <<"index", i>> # <<"unique", j>>
        OBVIOUS
    <2> QED
        BY <1>0, <1>3, <1>4, <2>1, NamesDiffer
<1>12. \A i \in DOMAIN c.indexes, j \in DOMAIN c.views : c.indexes[i].name # c.views[j].name
    <2> TAKE i \in DOMAIN c.indexes, j \in DOMAIN c.views
    <2>1. <<"index", i>> # <<"view", j>>
        OBVIOUS
    <2> QED
        BY <1>0, <1>4, <1>5, <2>1, NamesDiffer
<1>13. \A i \in DOMAIN c.uniques, j \in DOMAIN c.views : c.uniques[i].name # c.views[j].name
    <2> TAKE i \in DOMAIN c.uniques, j \in DOMAIN c.views
    <2>1. <<"unique", i>> # <<"view", j>>
        OBVIOUS
    <2> QED
        BY <1>0, <1>3, <1>5, <2>1, NamesDiffer
<1>14. ASSUME NEW i \in DOMAIN c.tables, NEW j \in DOMAIN c.indexes
       PROVE  c.indexes[j].name \notin {c.tables[i].name, c.tables[i].primaryKey}
    <2>1. <<"index", j>> # <<"table", i>> /\ <<"index", j>> # <<"primaryKey", i>>
        OBVIOUS
    <2>2. c.indexes[j].name # c.tables[i].name
        BY <1>0, <1>1, <1>4, <2>1, NamesDiffer
    <2>3. c.tables[i].primaryKey # NoName => c.indexes[j].name # c.tables[i].primaryKey
        BY <1>0, <1>2, <1>4, <2>1, NamesDiffer
    <2>4. c.indexes[j].name # NoName
        BY DEF Sound, Names
    <2> QED
        BY <2>2, <2>3, <2>4
<1>15. ASSUME NEW i \in DOMAIN c.tables, NEW j \in DOMAIN c.uniques
       PROVE  c.uniques[j].name \notin {c.tables[i].name, c.tables[i].primaryKey}
    <2>1. <<"unique", j>> # <<"table", i>> /\ <<"unique", j>> # <<"primaryKey", i>>
        OBVIOUS
    <2>2. c.uniques[j].name # c.tables[i].name
        BY <1>0, <1>1, <1>3, <2>1, NamesDiffer
    <2>3. c.tables[i].primaryKey # NoName => c.uniques[j].name # c.tables[i].primaryKey
        BY <1>0, <1>2, <1>3, <2>1, NamesDiffer
    <2>4. c.uniques[j].name # NoName
        BY DEF Sound, Names
    <2> QED
        BY <2>2, <2>3, <2>4
<1>16. ASSUME NEW i \in DOMAIN c.tables, NEW j \in DOMAIN c.views
       PROVE  c.views[j].name \notin {c.tables[i].name, c.tables[i].primaryKey}
    <2>1. <<"view", j>> # <<"table", i>> /\ <<"view", j>> # <<"primaryKey", i>>
        OBVIOUS
    <2>2. c.views[j].name # c.tables[i].name
        BY <1>0, <1>1, <1>5, <2>1, NamesDiffer
    <2>3. c.tables[i].primaryKey # NoName => c.views[j].name # c.tables[i].primaryKey
        BY <1>0, <1>2, <1>5, <2>1, NamesDiffer
    <2>4. c.views[j].name # NoName
        BY DEF Sound, Names
    <2> QED
        BY <2>2, <2>3, <2>4
<1> QED
    BY <1>6, <1>7, <1>8, <1>9, <1>10, <1>11, <1>12, <1>13, <1>14, <1>15, <1>16

\* The places of the kinds.
LEMMA Places ==
    /\ Place("schema") = 0 /\ Place("table") = 1 /\ Place("default") = 2 /\ Place("rows") = 3
    /\ Place("sequence") = 4 /\ Place("index") = 5 /\ Place("unique") = 6 /\ Place("check") = 7
    /\ Place("foreignKey") = 8
    BY DEF Place

\* Statements made of typed objects are typed.
LEMMA StatementTypes ==
    /\ \A x \in AnySchema : CreateSchema(x) \in AnyStatement
    /\ \A x \in AnyTable : CreateTable(x) \in AnyStatement
    /\ \A x \in AnyPart : CreateDefault(x) \in AnyStatement
    /\ \A x \in AnyTable : CopyTable(x) \in AnyStatement
    /\ \A x \in AnyTable : ResetSequence(x) \in AnyStatement
    /\ \A x \in AnyPart : CreateIndex(x) \in AnyStatement
    /\ \A x \in AnyPart : CreateUnique(x) \in AnyStatement
    /\ \A x \in AnyPart : CreateCheck(x) \in AnyStatement
    /\ \A x \in AnyForeignKey : CreateForeignKey(x) \in AnyStatement
    /\ \A x \in AnyView : CreateView(x) \in AnyStatement
<1>0. /\ "schema" \in Kinds /\ "table" \in Kinds /\ "default" \in Kinds /\ "rows" \in Kinds
      /\ "sequence" \in Kinds /\ "index" \in Kinds /\ "unique" \in Kinds /\ "check" \in Kinds
      /\ "foreignKey" \in Kinds /\ "view" \in Kinds
    BY DEF Kinds
<1>1. \A x \in AnySchema : CreateSchema(x) \in AnyStatement
    BY <1>0 DEF CreateSchema, Statement, AnyStatement, AnySchema
<1>2. \A x \in AnyTable : CreateTable(x) \in AnyStatement
    BY <1>0 DEF CreateTable, Statement, AnyStatement, AnyTable
<1>3. \A x \in AnyPart : CreateDefault(x) \in AnyStatement
    BY <1>0 DEF CreateDefault, Statement, AnyStatement, AnyPart
<1>4. \A x \in AnyTable : CopyTable(x) \in AnyStatement
    BY <1>0 DEF CopyTable, Statement, AnyStatement, AnyTable
<1>5. \A x \in AnyTable : ResetSequence(x) \in AnyStatement
    BY <1>0 DEF ResetSequence, Statement, AnyStatement, AnyTable
<1>6. \A x \in AnyPart : CreateIndex(x) \in AnyStatement
    BY <1>0 DEF CreateIndex, Statement, AnyStatement, AnyPart
<1>7. \A x \in AnyPart : CreateUnique(x) \in AnyStatement
    BY <1>0 DEF CreateUnique, Statement, AnyStatement, AnyPart
<1>8. \A x \in AnyPart : CreateCheck(x) \in AnyStatement
    BY <1>0 DEF CreateCheck, Statement, AnyStatement, AnyPart
<1>9. \A x \in AnyForeignKey : CreateForeignKey(x) \in AnyStatement
    BY <1>0 DEF CreateForeignKey, Statement, AnyStatement, AnyForeignKey
<1>10. \A x \in AnyView : CreateView(x) \in AnyStatement
    BY <1>0 DEF CreateView, Statement, AnyStatement, AnyView
<1> QED
    BY <1>1, <1>2, <1>3, <1>4, <1>5, <1>6, <1>7, <1>8, <1>9, <1>10

\* Statements of one kind that are apart are in order.
LEMMA TidyPart ==
    ASSUME NEW e \in Seq(AnyStatement), NEW k \in Nat,
           \A i \in DOMAIN e : Place(e[i].op) = k,
           \A i, j \in DOMAIN e : i < j => Apart(e[i], e[j])
    PROVE  Tidy(e, k, k)
    BY DEF Tidy

\* One statement for each schema, in the order of the catalogue.
LEMMA SchemasPart ==
    ASSUME NEW q \in Seq(AnySchema)
    PROVE  /\ Tidy(Each(CreateSchema, q), 0, 0)
           /\ ToSet(Each(CreateSchema, q)) = {CreateSchema(x) : x \in ToSet(q)}
<1>1. PICK e : e = Each(CreateSchema, q)
    OBVIOUS
<1>2. e = [i \in 1..Len(q) |-> CreateSchema(q[i])] /\ DOMAIN q = 1..Len(q)
    BY <1>1 DEF Each
<1>3. \A i \in 1..Len(q) : e[i] = CreateSchema(q[i]) /\ q[i] \in AnySchema
    BY <1>2
<1>4. e \in Seq(AnyStatement) /\ DOMAIN e = 1..Len(q)
    BY <1>2, StatementTypes
<1>5. \A i \in DOMAIN e : Place(e[i].op) = 0
    <2>1. \A i \in DOMAIN e : e[i].op = "schema"
        BY <1>3, <1>4 DEF CreateSchema, Statement
    <2> QED
        BY <2>1, Places
<1>6. \A i, j \in DOMAIN e : i < j => Apart(e[i], e[j])
    <2>1. ASSUME NEW i \in DOMAIN e
          PROVE  e[i].op = "schema" /\ e[i].name = q[i].name /\ e[i].creates = {}
        BY <1>3, <1>4 DEF CreateSchema, Statement
    <2> QED
        BY <1>2, <1>4, <2>1 DEF Apart
<1>7. Tidy(e, 0, 0)
    BY <1>4, <1>5, <1>6, TidyPart
<1>8. ToSet(e) = {CreateSchema(x) : x \in ToSet(q)}
    BY <1>2, <1>3, <1>4 DEF ToSet
<1> QED
    BY <1>1, <1>7, <1>8

\* One statement for each table, in the order of the catalogue.
LEMMA TablesPart ==
    ASSUME NEW q \in Seq(AnyTable),
           \A i, j \in DOMAIN q : i < j =>
               ({q[i].name, q[i].primaryKey} \cap {q[j].name, q[j].primaryKey}) \subseteq {NoName}
    PROVE  /\ Tidy(Each(CreateTable, q), 1, 1)
           /\ ToSet(Each(CreateTable, q)) = {CreateTable(x) : x \in ToSet(q)}
<1>1. PICK e : e = Each(CreateTable, q)
    OBVIOUS
<1>2. e = [i \in 1..Len(q) |-> CreateTable(q[i])] /\ DOMAIN q = 1..Len(q)
    BY <1>1 DEF Each
<1>3. \A i \in 1..Len(q) : e[i] = CreateTable(q[i]) /\ q[i] \in AnyTable
    BY <1>2
<1>4. e \in Seq(AnyStatement) /\ DOMAIN e = 1..Len(q)
    BY <1>2, StatementTypes
<1>5. \A i \in DOMAIN e : Place(e[i].op) = 1
    <2>1. \A i \in DOMAIN e : e[i].op = "table"
        BY <1>3, <1>4 DEF CreateTable, Statement
    <2> QED
        BY <2>1, Places
<1>6. \A i, j \in DOMAIN e : i < j => Apart(e[i], e[j])
    <2>1. ASSUME NEW i \in DOMAIN e
          PROVE  e[i].op = "table" /\ e[i].name = q[i].name /\ e[i].creates = {q[i].name, q[i].primaryKey} \ {NoName}
        BY <1>3, <1>4 DEF CreateTable, Statement
    <2> QED
        BY <1>2, <1>4, <2>1 DEF Apart
<1>7. Tidy(e, 1, 1)
    BY <1>4, <1>5, <1>6, TidyPart
<1>8. ToSet(e) = {CreateTable(x) : x \in ToSet(q)}
    BY <1>2, <1>3, <1>4 DEF ToSet
<1> QED
    BY <1>1, <1>7, <1>8

\* One statement for each default, in the order of the catalogue.
LEMMA DefaultsPart ==
    ASSUME NEW q \in Seq(AnyPart)
    PROVE  /\ Tidy(Each(CreateDefault, q), 2, 2)
           /\ ToSet(Each(CreateDefault, q)) = {CreateDefault(x) : x \in ToSet(q)}
<1>1. PICK e : e = Each(CreateDefault, q)
    OBVIOUS
<1>2. e = [i \in 1..Len(q) |-> CreateDefault(q[i])] /\ DOMAIN q = 1..Len(q)
    BY <1>1 DEF Each
<1>3. \A i \in 1..Len(q) : e[i] = CreateDefault(q[i]) /\ q[i] \in AnyPart
    BY <1>2
<1>4. e \in Seq(AnyStatement) /\ DOMAIN e = 1..Len(q)
    BY <1>2, StatementTypes
<1>5. \A i \in DOMAIN e : Place(e[i].op) = 2
    <2>1. \A i \in DOMAIN e : e[i].op = "default"
        BY <1>3, <1>4 DEF CreateDefault, Statement
    <2> QED
        BY <2>1, Places
<1>6. \A i, j \in DOMAIN e : i < j => Apart(e[i], e[j])
    <2>1. ASSUME NEW i \in DOMAIN e
          PROVE  e[i].op = "default" /\ e[i].name = q[i].name /\ e[i].creates = {}
        BY <1>3, <1>4 DEF CreateDefault, Statement
    <2> QED
        BY <1>2, <1>4, <2>1 DEF Apart
<1>7. Tidy(e, 2, 2)
    BY <1>4, <1>5, <1>6, TidyPart
<1>8. ToSet(e) = {CreateDefault(x) : x \in ToSet(q)}
    BY <1>2, <1>3, <1>4 DEF ToSet
<1> QED
    BY <1>1, <1>7, <1>8

\* One COPY for each table, in the order of the catalogue.
LEMMA RowsPart ==
    ASSUME NEW q \in Seq(AnyTable),
           \A i, j \in DOMAIN q : i < j => q[i].name # q[j].name
    PROVE  /\ Tidy(Each(CopyTable, q), 3, 3)
           /\ ToSet(Each(CopyTable, q)) = {CopyTable(x) : x \in ToSet(q)}
<1>1. PICK e : e = Each(CopyTable, q)
    OBVIOUS
<1>2. e = [i \in 1..Len(q) |-> CopyTable(q[i])] /\ DOMAIN q = 1..Len(q)
    BY <1>1 DEF Each
<1>3. \A i \in 1..Len(q) : e[i] = CopyTable(q[i]) /\ q[i] \in AnyTable
    BY <1>2
<1>4. e \in Seq(AnyStatement) /\ DOMAIN e = 1..Len(q)
    BY <1>2, StatementTypes
<1>5. \A i \in DOMAIN e : Place(e[i].op) = 3
    <2>1. \A i \in DOMAIN e : e[i].op = "rows"
        BY <1>3, <1>4 DEF CopyTable, Statement
    <2> QED
        BY <2>1, Places
<1>6. \A i, j \in DOMAIN e : i < j => Apart(e[i], e[j])
    <2>1. ASSUME NEW i \in DOMAIN e
          PROVE  e[i].op = "rows" /\ e[i].name = q[i].name /\ e[i].creates = {}
        BY <1>3, <1>4 DEF CopyTable, Statement
    <2> QED
        BY <1>2, <1>4, <2>1 DEF Apart
<1>7. Tidy(e, 3, 3)
    BY <1>4, <1>5, <1>6, TidyPart
<1>8. ToSet(e) = {CopyTable(x) : x \in ToSet(q)}
    BY <1>2, <1>3, <1>4 DEF ToSet
<1> QED
    BY <1>1, <1>7, <1>8

\* One reset for each identity column, in the order of the catalogue.
LEMMA SequencesPart ==
    ASSUME NEW q \in Seq(AnyTable)
    PROVE  /\ Tidy(Each(ResetSequence, q), 4, 4)
           /\ ToSet(Each(ResetSequence, q)) = {ResetSequence(x) : x \in ToSet(q)}
<1>1. PICK e : e = Each(ResetSequence, q)
    OBVIOUS
<1>2. e = [i \in 1..Len(q) |-> ResetSequence(q[i])] /\ DOMAIN q = 1..Len(q)
    BY <1>1 DEF Each
<1>3. \A i \in 1..Len(q) : e[i] = ResetSequence(q[i]) /\ q[i] \in AnyTable
    BY <1>2
<1>4. e \in Seq(AnyStatement) /\ DOMAIN e = 1..Len(q)
    BY <1>2, StatementTypes
<1>5. \A i \in DOMAIN e : Place(e[i].op) = 4
    <2>1. \A i \in DOMAIN e : e[i].op = "sequence"
        BY <1>3, <1>4 DEF ResetSequence, Statement
    <2> QED
        BY <2>1, Places
<1>6. \A i, j \in DOMAIN e : i < j => Apart(e[i], e[j])
    <2>1. ASSUME NEW i \in DOMAIN e
          PROVE  e[i].op = "sequence" /\ e[i].name = q[i].name /\ e[i].creates = {}
        BY <1>3, <1>4 DEF ResetSequence, Statement
    <2> QED
        BY <1>2, <1>4, <2>1 DEF Apart
<1>7. Tidy(e, 4, 4)
    BY <1>4, <1>5, <1>6, TidyPart
<1>8. ToSet(e) = {ResetSequence(x) : x \in ToSet(q)}
    BY <1>2, <1>3, <1>4 DEF ToSet
<1> QED
    BY <1>1, <1>7, <1>8

\* One statement for each index, in the order of the catalogue.
LEMMA IndexesPart ==
    ASSUME NEW q \in Seq(AnyPart),
           \A i, j \in DOMAIN q : i < j => q[i].name # q[j].name
    PROVE  /\ Tidy(Each(CreateIndex, q), 5, 5)
           /\ ToSet(Each(CreateIndex, q)) = {CreateIndex(x) : x \in ToSet(q)}
<1>1. PICK e : e = Each(CreateIndex, q)
    OBVIOUS
<1>2. e = [i \in 1..Len(q) |-> CreateIndex(q[i])] /\ DOMAIN q = 1..Len(q)
    BY <1>1 DEF Each
<1>3. \A i \in 1..Len(q) : e[i] = CreateIndex(q[i]) /\ q[i] \in AnyPart
    BY <1>2
<1>4. e \in Seq(AnyStatement) /\ DOMAIN e = 1..Len(q)
    BY <1>2, StatementTypes
<1>5. \A i \in DOMAIN e : Place(e[i].op) = 5
    <2>1. \A i \in DOMAIN e : e[i].op = "index"
        BY <1>3, <1>4 DEF CreateIndex, Statement
    <2> QED
        BY <2>1, Places
<1>6. \A i, j \in DOMAIN e : i < j => Apart(e[i], e[j])
    <2>1. ASSUME NEW i \in DOMAIN e
          PROVE  e[i].op = "index" /\ e[i].name = q[i].name /\ e[i].creates = {q[i].name} \ {NoName}
        BY <1>3, <1>4 DEF CreateIndex, Statement
    <2> QED
        BY <1>2, <1>4, <2>1 DEF Apart
<1>7. Tidy(e, 5, 5)
    BY <1>4, <1>5, <1>6, TidyPart
<1>8. ToSet(e) = {CreateIndex(x) : x \in ToSet(q)}
    BY <1>2, <1>3, <1>4 DEF ToSet
<1> QED
    BY <1>1, <1>7, <1>8

\* One statement for each unique constraint, in the order of the catalogue.
LEMMA UniquesPart ==
    ASSUME NEW q \in Seq(AnyPart),
           \A i, j \in DOMAIN q : i < j => q[i].name # q[j].name
    PROVE  /\ Tidy(Each(CreateUnique, q), 6, 6)
           /\ ToSet(Each(CreateUnique, q)) = {CreateUnique(x) : x \in ToSet(q)}
<1>1. PICK e : e = Each(CreateUnique, q)
    OBVIOUS
<1>2. e = [i \in 1..Len(q) |-> CreateUnique(q[i])] /\ DOMAIN q = 1..Len(q)
    BY <1>1 DEF Each
<1>3. \A i \in 1..Len(q) : e[i] = CreateUnique(q[i]) /\ q[i] \in AnyPart
    BY <1>2
<1>4. e \in Seq(AnyStatement) /\ DOMAIN e = 1..Len(q)
    BY <1>2, StatementTypes
<1>5. \A i \in DOMAIN e : Place(e[i].op) = 6
    <2>1. \A i \in DOMAIN e : e[i].op = "unique"
        BY <1>3, <1>4 DEF CreateUnique, Statement
    <2> QED
        BY <2>1, Places
<1>6. \A i, j \in DOMAIN e : i < j => Apart(e[i], e[j])
    <2>1. ASSUME NEW i \in DOMAIN e
          PROVE  e[i].op = "unique" /\ e[i].name = q[i].name /\ e[i].creates = {q[i].name} \ {NoName}
        BY <1>3, <1>4 DEF CreateUnique, Statement
    <2> QED
        BY <1>2, <1>4, <2>1 DEF Apart
<1>7. Tidy(e, 6, 6)
    BY <1>4, <1>5, <1>6, TidyPart
<1>8. ToSet(e) = {CreateUnique(x) : x \in ToSet(q)}
    BY <1>2, <1>3, <1>4 DEF ToSet
<1> QED
    BY <1>1, <1>7, <1>8

\* One statement for each check, in the order of the catalogue.
LEMMA ChecksPart ==
    ASSUME NEW q \in Seq(AnyPart)
    PROVE  /\ Tidy(Each(CreateCheck, q), 7, 7)
           /\ ToSet(Each(CreateCheck, q)) = {CreateCheck(x) : x \in ToSet(q)}
<1>1. PICK e : e = Each(CreateCheck, q)
    OBVIOUS
<1>2. e = [i \in 1..Len(q) |-> CreateCheck(q[i])] /\ DOMAIN q = 1..Len(q)
    BY <1>1 DEF Each
<1>3. \A i \in 1..Len(q) : e[i] = CreateCheck(q[i]) /\ q[i] \in AnyPart
    BY <1>2
<1>4. e \in Seq(AnyStatement) /\ DOMAIN e = 1..Len(q)
    BY <1>2, StatementTypes
<1>5. \A i \in DOMAIN e : Place(e[i].op) = 7
    <2>1. \A i \in DOMAIN e : e[i].op = "check"
        BY <1>3, <1>4 DEF CreateCheck, Statement
    <2> QED
        BY <2>1, Places
<1>6. \A i, j \in DOMAIN e : i < j => Apart(e[i], e[j])
    <2>1. ASSUME NEW i \in DOMAIN e
          PROVE  e[i].op = "check" /\ e[i].name = q[i].name /\ e[i].creates = {}
        BY <1>3, <1>4 DEF CreateCheck, Statement
    <2> QED
        BY <1>2, <1>4, <2>1 DEF Apart
<1>7. Tidy(e, 7, 7)
    BY <1>4, <1>5, <1>6, TidyPart
<1>8. ToSet(e) = {CreateCheck(x) : x \in ToSet(q)}
    BY <1>2, <1>3, <1>4 DEF ToSet
<1> QED
    BY <1>1, <1>7, <1>8

\* One statement for each foreign key, in the order of the catalogue.
LEMMA ForeignKeysPart ==
    ASSUME NEW q \in Seq(AnyForeignKey)
    PROVE  /\ Tidy(Each(CreateForeignKey, q), 8, 8)
           /\ ToSet(Each(CreateForeignKey, q)) = {CreateForeignKey(x) : x \in ToSet(q)}
<1>1. PICK e : e = Each(CreateForeignKey, q)
    OBVIOUS
<1>2. e = [i \in 1..Len(q) |-> CreateForeignKey(q[i])] /\ DOMAIN q = 1..Len(q)
    BY <1>1 DEF Each
<1>3. \A i \in 1..Len(q) : e[i] = CreateForeignKey(q[i]) /\ q[i] \in AnyForeignKey
    BY <1>2
<1>4. e \in Seq(AnyStatement) /\ DOMAIN e = 1..Len(q)
    BY <1>2, StatementTypes
<1>5. \A i \in DOMAIN e : Place(e[i].op) = 8
    <2>1. \A i \in DOMAIN e : e[i].op = "foreignKey"
        BY <1>3, <1>4 DEF CreateForeignKey, Statement
    <2> QED
        BY <2>1, Places
<1>6. \A i, j \in DOMAIN e : i < j => Apart(e[i], e[j])
    <2>1. ASSUME NEW i \in DOMAIN e
          PROVE  e[i].op = "foreignKey" /\ e[i].name = q[i].name /\ e[i].creates = {}
        BY <1>3, <1>4 DEF CreateForeignKey, Statement
    <2> QED
        BY <1>2, <1>4, <2>1 DEF Apart
<1>7. Tidy(e, 8, 8)
    BY <1>4, <1>5, <1>6, TidyPart
<1>8. ToSet(e) = {CreateForeignKey(x) : x \in ToSet(q)}
    BY <1>2, <1>3, <1>4 DEF ToSet
<1> QED
    BY <1>1, <1>7, <1>8

-------------------------------------------------------------------------------
(* Program. *)

\* The statements for the objects of a catalogue.
StatementsFor(c, schemaOnly) ==
    {CreateSchema(x) : x \in ToSet(c.schemas)} \cup {CreateTable(x) : x \in ToSet(c.tables)}
    \cup {CreateDefault(x) : x \in ToSet(c.defaults)}
    \cup (IF schemaOnly THEN {}
          ELSE {CopyTable(x) : x \in ToSet(c.tables)}
               \cup {ResetSequence(x) : x \in {t \in ToSet(c.tables) : t.sequence # NoName}})
    \cup {CreateIndex(x) : x \in ToSet(c.indexes)} \cup {CreateUnique(x) : x \in ToSet(c.uniques)}
    \cup {CreateCheck(x) : x \in ToSet(c.checks)} \cup {CreateForeignKey(x) : x \in ToSet(c.foreignKeys)}

\* In a catalogue that Validate accepts every index is rendered.
LEMMA RenderedIndexesAll ==
    ASSUME NEW c, Sound(c)
    PROVE  RenderedIndexes(c) = c.indexes
<1>1. c.indexes \in Seq(AnyPart) /\ Valid(c)
    BY CatalogueFields DEF Sound
<1>2. ToSet(c.indexes) \subseteq {x \in ToSet(c.indexes) : x.name \notin c.unsupported}
    BY <1>1 DEF Valid, Translated, Names, ToSet
<1> QED
    BY <1>1, <1>2, AmongAll DEF RenderedIndexes

\* Run has one statement for each object, kind after kind, and no two of a kind create
\* the same relation or copy the same table.
LEMMA ProgramInOrder ==
    ASSUME NEW c, Sound(c), NEW schemaOnly \in BOOLEAN
    PROVE  /\ Tidy(Program(c, schemaOnly), 0, 8)
           /\ ToSet(Program(c, schemaOnly)) = StatementsFor(c, schemaOnly)
<1>0. c \in Catalogues /\ NoName \notin Names(c.tables)
    BY DEF Sound
<1>a. PICK a : /\ a = Each(CreateSchema, c.schemas) /\ Tidy(a, 0, 0)
                 /\ ToSet(a) = {CreateSchema(x) : x \in ToSet(c.schemas)}
    BY <1>0, CatalogueFields, SchemasPart
<1>b. PICK b : /\ b = Each(CreateTable, c.tables) /\ Tidy(b, 1, 1)
                 /\ ToSet(b) = {CreateTable(x) : x \in ToSet(c.tables)}
    <2>1. ASSUME NEW i \in DOMAIN c.tables, NEW j \in DOMAIN c.tables, i < j
          PROVE  ({c.tables[i].name, c.tables[i].primaryKey} \cap {c.tables[j].name, c.tables[j].primaryKey})
                     \subseteq {NoName}
        <3>1. i # j
            BY <2>1, <1>0, CatalogueFields
        <3> QED
            BY <3>1, ObjectNamesDiffer
    <2> QED
        BY <1>0, <2>1, CatalogueFields, TablesPart
<1>d. PICK d : /\ d = Each(CreateDefault, c.defaults) /\ Tidy(d, 2, 2)
                 /\ ToSet(d) = {CreateDefault(x) : x \in ToSet(c.defaults)}
    BY <1>0, CatalogueFields, DefaultsPart
<1>e. PICK e : /\ e = Each(CopyTable, c.tables) /\ Tidy(e, 3, 3)
                 /\ ToSet(e) = {CopyTable(x) : x \in ToSet(c.tables)}
    <2>1. \A i, j \in DOMAIN c.tables : i < j => c.tables[i].name # c.tables[j].name
        <3>1. \A i, j \in DOMAIN c.tables : i < j => i # j
            BY <1>0, CatalogueFields
        <3> QED
            BY <3>1, ObjectNamesDiffer
    <2> QED
        BY <1>0, <2>1, CatalogueFields, RowsPart
<1>f. PICK f : /\ f = Each(ResetSequence, Identities(c)) /\ Tidy(f, 4, 4)
                 /\ ToSet(f) = {ResetSequence(x) : x \in ToSet(Identities(c))}
    <2>1. Identities(c) \in Seq(AnyTable)
        BY <1>0, CatalogueFields, AmongElements DEF Identities
    <2> QED
        BY <2>1, SequencesPart
<1>g. PICK g : /\ g = Each(CreateIndex, c.indexes) /\ Tidy(g, 5, 5)
                 /\ ToSet(g) = {CreateIndex(x) : x \in ToSet(c.indexes)}
    <2>1. \A i, j \in DOMAIN c.indexes : i < j => c.indexes[i].name # c.indexes[j].name
        <3>1. \A i, j \in DOMAIN c.indexes : i < j => i # j
            BY <1>0, CatalogueFields
        <3> QED
            BY <3>1, ObjectNamesDiffer
    <2> QED
        BY <1>0, <2>1, CatalogueFields, IndexesPart
<1>h. PICK h : /\ h = Each(CreateUnique, c.uniques) /\ Tidy(h, 6, 6)
                 /\ ToSet(h) = {CreateUnique(x) : x \in ToSet(c.uniques)}
    <2>1. \A i, j \in DOMAIN c.uniques : i < j => c.uniques[i].name # c.uniques[j].name
        <3>1. \A i, j \in DOMAIN c.uniques : i < j => i # j
            BY <1>0, CatalogueFields
        <3> QED
            BY <3>1, ObjectNamesDiffer
    <2> QED
        BY <1>0, <2>1, CatalogueFields, UniquesPart
<1>k. PICK k : /\ k = Each(CreateCheck, c.checks) /\ Tidy(k, 7, 7)
                 /\ ToSet(k) = {CreateCheck(x) : x \in ToSet(c.checks)}
    BY <1>0, CatalogueFields, ChecksPart
<1>m. PICK m : /\ m = Each(CreateForeignKey, c.foreignKeys) /\ Tidy(m, 8, 8)
                 /\ ToSet(m) = {CreateForeignKey(x) : x \in ToSet(c.foreignKeys)}
    BY <1>0, CatalogueFields, ForeignKeysPart
<1>n. PICK rows : /\ rows = IF schemaOnly THEN <<>> ELSE e \o f
                  /\ Tidy(rows, 3, 4)
                  /\ ToSet(rows) = IF schemaOnly THEN {} ELSE ToSet(e) \cup ToSet(f)
    <2>1. Tidy(<<>>, 3, 4) /\ ToSet(<<>>) = {}
        BY DEF Tidy, ToSet
    <2>2. Tidy(e, 3, 3) /\ Tidy(f, 4, 4)
        BY <1>e, <1>f
    <2>3. Tidy(e \o f, 3, 4)
        BY <2>2, TidyConcat
    <2>4. ToSet(e \o f) = ToSet(e) \cup ToSet(f)
        BY <2>2, TidyConcat
    <2> QED
        BY <2>1, <2>3, <2>4
<1>1. Program(c, schemaOnly) = a \o b \o d \o rows \o g \o h \o k \o m
    BY <1>a, <1>b, <1>d, <1>e, <1>f, <1>g, <1>h, <1>k, <1>m, <1>n, RenderedIndexesAll DEF Program
<1>2. PICK p2 : p2 = a \o b /\ Tidy(p2, 0, 1) /\ ToSet(p2) = ToSet(a) \cup ToSet(b)
    <2>1. Tidy(a, 0, 0) /\ Tidy(b, 1, 1)
        BY <1>a, <1>b
    <2>2. Tidy(a \o b, 0, 1)
        BY <2>1, TidyConcat
    <2>3. ToSet(a \o b) = ToSet(a) \cup ToSet(b)
        BY <2>1, TidyConcat
    <2> QED
        BY <2>2, <2>3
<1>3. PICK p3 : p3 = p2 \o d /\ Tidy(p3, 0, 2) /\ ToSet(p3) = ToSet(p2) \cup ToSet(d)
    <2>1. Tidy(p2, 0, 1) /\ Tidy(d, 2, 2)
        BY <1>2, <1>d
    <2>2. Tidy(p2 \o d, 0, 2)
        BY <2>1, TidyConcat
    <2>3. ToSet(p2 \o d) = ToSet(p2) \cup ToSet(d)
        BY <2>1, TidyConcat
    <2> QED
        BY <2>2, <2>3
<1>4. PICK p4 : p4 = p3 \o rows /\ Tidy(p4, 0, 4) /\ ToSet(p4) = ToSet(p3) \cup ToSet(rows)
    <2>1. Tidy(p3, 0, 2) /\ Tidy(rows, 3, 4)
        BY <1>3, <1>n
    <2>2. Tidy(p3 \o rows, 0, 4)
        BY <2>1, TidyConcat
    <2>3. ToSet(p3 \o rows) = ToSet(p3) \cup ToSet(rows)
        BY <2>1, TidyConcat
    <2> QED
        BY <2>2, <2>3
<1>5. PICK p5 : p5 = p4 \o g /\ Tidy(p5, 0, 5) /\ ToSet(p5) = ToSet(p4) \cup ToSet(g)
    <2>1. Tidy(p4, 0, 4) /\ Tidy(g, 5, 5)
        BY <1>4, <1>g
    <2>2. Tidy(p4 \o g, 0, 5)
        BY <2>1, TidyConcat
    <2>3. ToSet(p4 \o g) = ToSet(p4) \cup ToSet(g)
        BY <2>1, TidyConcat
    <2> QED
        BY <2>2, <2>3
<1>6. PICK p6 : p6 = p5 \o h /\ Tidy(p6, 0, 6) /\ ToSet(p6) = ToSet(p5) \cup ToSet(h)
    <2>1. Tidy(p5, 0, 5) /\ Tidy(h, 6, 6)
        BY <1>5, <1>h
    <2>2. Tidy(p5 \o h, 0, 6)
        BY <2>1, TidyConcat
    <2>3. ToSet(p5 \o h) = ToSet(p5) \cup ToSet(h)
        BY <2>1, TidyConcat
    <2> QED
        BY <2>2, <2>3
<1>7. PICK p7 : p7 = p6 \o k /\ Tidy(p7, 0, 7) /\ ToSet(p7) = ToSet(p6) \cup ToSet(k)
    <2>1. Tidy(p6, 0, 6) /\ Tidy(k, 7, 7)
        BY <1>6, <1>k
    <2>2. Tidy(p6 \o k, 0, 7)
        BY <2>1, TidyConcat
    <2>3. ToSet(p6 \o k) = ToSet(p6) \cup ToSet(k)
        BY <2>1, TidyConcat
    <2> QED
        BY <2>2, <2>3
<1>8. PICK p8 : p8 = p7 \o m /\ Tidy(p8, 0, 8) /\ ToSet(p8) = ToSet(p7) \cup ToSet(m)
    <2>1. Tidy(p7, 0, 7) /\ Tidy(m, 8, 8)
        BY <1>7, <1>m
    <2>2. Tidy(p7 \o m, 0, 8)
        BY <2>1, TidyConcat
    <2>3. ToSet(p7 \o m) = ToSet(p7) \cup ToSet(m)
        BY <2>1, TidyConcat
    <2> QED
        BY <2>2, <2>3
<1>9. Program(c, schemaOnly) = p8 /\ Tidy(p8, 0, 8)
    BY <1>1, <1>2, <1>3, <1>4, <1>5, <1>6, <1>7, <1>8
<1>10. ToSet(p8) = ToSet(a) \cup ToSet(b) \cup ToSet(d) \cup ToSet(rows) \cup ToSet(g) \cup ToSet(h)
                      \cup ToSet(k) \cup ToSet(m)
    BY <1>2, <1>3, <1>4, <1>5, <1>6, <1>7, <1>8
<1>11. ToSet(Identities(c)) = {t \in ToSet(c.tables) : t.sequence # NoName}
    BY <1>0, CatalogueFields, AmongElements DEF Identities
<1>12. ToSet(p8) = StatementsFor(c, schemaOnly)
    BY <1>a, <1>b, <1>d, <1>e, <1>f, <1>g, <1>h, <1>k, <1>m, <1>n, <1>10, <1>11 DEF StatementsFor
<1> QED
    BY <1>9, <1>12

\* The statements of a kind are made of the objects of a kind.
LEMMA StatementsOfKind ==
    ASSUME NEW c, NEW schemaOnly \in BOOLEAN, NEW x \in StatementsFor(c, schemaOnly)
    PROVE  \/ x.op = "schema" /\ \E y \in ToSet(c.schemas) : x = CreateSchema(y)
           \/ x.op = "table" /\ \E y \in ToSet(c.tables) : x = CreateTable(y)
           \/ x.op = "default" /\ \E y \in ToSet(c.defaults) : x = CreateDefault(y)
           \/ x.op = "rows" /\ ~schemaOnly /\ \E y \in ToSet(c.tables) : x = CopyTable(y)
           \/ /\ x.op = "sequence" /\ ~schemaOnly
              /\ \E y \in ToSet(c.tables) : y.sequence # NoName /\ x = ResetSequence(y)
           \/ x.op = "index" /\ \E y \in ToSet(c.indexes) : x = CreateIndex(y)
           \/ x.op = "unique" /\ \E y \in ToSet(c.uniques) : x = CreateUnique(y)
           \/ x.op = "check" /\ \E y \in ToSet(c.checks) : x = CreateCheck(y)
           \/ x.op = "foreignKey" /\ \E y \in ToSet(c.foreignKeys) : x = CreateForeignKey(y)
<1>0. \/ x \in {CreateSchema(y) : y \in ToSet(c.schemas)}
      \/ x \in {CreateTable(y) : y \in ToSet(c.tables)}
      \/ x \in {CreateDefault(y) : y \in ToSet(c.defaults)}
      \/ ~schemaOnly /\ x \in {CopyTable(y) : y \in ToSet(c.tables)}
      \/ ~schemaOnly /\ x \in {ResetSequence(y) : y \in {t \in ToSet(c.tables) : t.sequence # NoName}}
      \/ x \in {CreateIndex(y) : y \in ToSet(c.indexes)}
      \/ x \in {CreateUnique(y) : y \in ToSet(c.uniques)}
      \/ x \in {CreateCheck(y) : y \in ToSet(c.checks)}
      \/ x \in {CreateForeignKey(y) : y \in ToSet(c.foreignKeys)}
    BY DEF StatementsFor
<1>1. ASSUME x \in {CreateSchema(y) : y \in ToSet(c.schemas)}
      PROVE  x.op = "schema" /\ \E y \in ToSet(c.schemas) : x = CreateSchema(y)
    BY <1>1 DEF CreateSchema, Statement
<1>2. ASSUME x \in {CreateTable(y) : y \in ToSet(c.tables)}
      PROVE  x.op = "table" /\ \E y \in ToSet(c.tables) : x = CreateTable(y)
    BY <1>2 DEF CreateTable, Statement
<1>3. ASSUME x \in {CreateDefault(y) : y \in ToSet(c.defaults)}
      PROVE  x.op = "default" /\ \E y \in ToSet(c.defaults) : x = CreateDefault(y)
    BY <1>3 DEF CreateDefault, Statement
<1>4. ASSUME x \in {CopyTable(y) : y \in ToSet(c.tables)}
      PROVE  x.op = "rows" /\ \E y \in ToSet(c.tables) : x = CopyTable(y)
    BY <1>4 DEF CopyTable, Statement
<1>5. ASSUME x \in {ResetSequence(y) : y \in {t \in ToSet(c.tables) : t.sequence # NoName}}
      PROVE  x.op = "sequence" /\ \E y \in ToSet(c.tables) : y.sequence # NoName /\ x = ResetSequence(y)
    BY <1>5 DEF ResetSequence, Statement
<1>6. ASSUME x \in {CreateIndex(y) : y \in ToSet(c.indexes)}
      PROVE  x.op = "index" /\ \E y \in ToSet(c.indexes) : x = CreateIndex(y)
    BY <1>6 DEF CreateIndex, Statement
<1>7. ASSUME x \in {CreateUnique(y) : y \in ToSet(c.uniques)}
      PROVE  x.op = "unique" /\ \E y \in ToSet(c.uniques) : x = CreateUnique(y)
    BY <1>7 DEF CreateUnique, Statement
<1>8. ASSUME x \in {CreateCheck(y) : y \in ToSet(c.checks)}
      PROVE  x.op = "check" /\ \E y \in ToSet(c.checks) : x = CreateCheck(y)
    BY <1>8 DEF CreateCheck, Statement
<1>9. ASSUME x \in {CreateForeignKey(y) : y \in ToSet(c.foreignKeys)}
      PROVE  x.op = "foreignKey" /\ \E y \in ToSet(c.foreignKeys) : x = CreateForeignKey(y)
    BY <1>9 DEF CreateForeignKey, Statement
<1> QED
    BY <1>0, <1>1, <1>2, <1>3, <1>4, <1>5, <1>6, <1>7, <1>8, <1>9

\* A statement of an earlier kind comes earlier.
LEMMA EarlierKindFirst ==
    ASSUME NEW p, Tidy(p, 0, 8), NEW i \in DOMAIN p, NEW j \in DOMAIN p,
           Place(p[j].op) < Place(p[i].op)
    PROVE  j < i
<1>1. p \in Seq(AnyStatement) /\ i \in Nat /\ j \in Nat
    BY DEF Tidy
<1>2. Place(p[i].op) \in Nat /\ Place(p[j].op) \in Nat
    BY DEF Tidy
<1>3. i < j => Place(p[i].op) <= Place(p[j].op)
    BY <1>2 DEF Tidy
<1> QED
    BY <1>1, <1>2, <1>3

\* The table a statement needs is created by a statement of an earlier kind.
LEMMA TableFirst ==
    ASSUME NEW c, Sound(c), NEW schemaOnly \in BOOLEAN, NEW name \in Names(c.tables)
    PROVE  \E y \in StatementsFor(c, schemaOnly) : Place(y.op) = 1 /\ name \in y.creates
<1>1. PICK t \in ToSet(c.tables) : t.name = name
    BY DEF Names, ToSet
<1>2. CreateTable(t) \in StatementsFor(c, schemaOnly)
    BY DEF StatementsFor
<1>3. name # NoName
    BY DEF Sound
<1>4. CreateTable(t).op = "table" /\ name \in CreateTable(t).creates
    BY <1>1, <1>3 DEF CreateTable, Statement
<1> QED
    BY <1>2, <1>4, Places

\* The primary key, unique constraint or index a foreign key refers to is created by a
\* statement of an earlier kind.
LEMMA BackingFirst ==
    ASSUME NEW c, NEW schemaOnly \in BOOLEAN, NEW table,
           NEW name \in Backings(c, table), name # NoName
    PROVE  \E y \in StatementsFor(c, schemaOnly) : Place(y.op) \in {1, 5, 6} /\ name \in y.creates
<1>1. CASE \E t \in ToSet(c.tables) : t.primaryKey = name
    <2>1. PICK t \in ToSet(c.tables) : t.primaryKey = name
        BY <1>1
    <2>2. CreateTable(t) \in StatementsFor(c, schemaOnly)
        BY DEF StatementsFor
    <2>3. CreateTable(t).op = "table" /\ name \in CreateTable(t).creates
        BY <2>1 DEF CreateTable, Statement
    <2> QED
        BY <2>2, <2>3, Places
<1>2. CASE \E x \in ToSet(c.uniques) : x.name = name
    <2>1. PICK x \in ToSet(c.uniques) : x.name = name
        BY <1>2
    <2>2. CreateUnique(x) \in StatementsFor(c, schemaOnly)
        BY DEF StatementsFor
    <2>3. CreateUnique(x).op = "unique" /\ name \in CreateUnique(x).creates
        BY <2>1 DEF CreateUnique, Statement
    <2> QED
        BY <2>2, <2>3, Places
<1>3. CASE \E x \in ToSet(c.indexes) : x.name = name
    <2>1. PICK x \in ToSet(c.indexes) : x.name = name
        BY <1>3
    <2>2. CreateIndex(x) \in StatementsFor(c, schemaOnly)
        BY DEF StatementsFor
    <2>3. CreateIndex(x).op = "index" /\ name \in CreateIndex(x).creates
        BY <2>1 DEF CreateIndex, Statement
    <2> QED
        BY <2>2, <2>3, Places
<1> QED
    BY <1>1, <1>2, <1>3 DEF Backings

\* In a consistent catalogue the needs of every statement are created by statements of
\* earlier kinds.
LEMMA NeedsFirst ==
    ASSUME NEW c, Sound(c), Consistent(c), NEW schemaOnly \in BOOLEAN,
           NEW x \in StatementsFor(c, schemaOnly), NEW name \in x.needs
    PROVE  \E y \in StatementsFor(c, schemaOnly) : Place(y.op) < Place(x.op) /\ name \in y.creates
<1>t. ASSUME NEW t \in ToSet(c.tables) PROVE t.name \in Names(c.tables)
    BY DEF Names, ToSet
<1>p. ASSUME NEW y \in ToSet(c.indexes) \cup ToSet(c.uniques) \cup ToSet(c.checks) \cup ToSet(c.defaults)
      PROVE  y.table \in Names(c.tables)
    BY DEF Consistent
<1>1. CASE x.op \in {"schema", "table"}
    <2>1. \/ \E y \in ToSet(c.schemas) : x = CreateSchema(y)
          \/ \E y \in ToSet(c.tables) : x = CreateTable(y)
        BY <1>1, StatementsOfKind
    <2> QED
        BY <2>1 DEF CreateSchema, CreateTable, Statement
<1>2. CASE x.op = "default"
    <2>1. PICK y \in ToSet(c.defaults) : x = CreateDefault(y)
        BY <1>2, StatementsOfKind
    <2>2. name = y.table /\ name \in Names(c.tables)
        BY <1>t, <1>p, <2>1 DEF CreateDefault, Statement
    <2> QED
        BY <1>2, <2>2, TableFirst, Places
<1>3. CASE x.op = "rows"
    <2>1. PICK y \in ToSet(c.tables) : x = CopyTable(y)
        BY <1>3, StatementsOfKind
    <2>2. name = y.name /\ name \in Names(c.tables)
        BY <1>t, <1>p, <2>1 DEF CopyTable, Statement
    <2> QED
        BY <1>3, <2>2, TableFirst, Places
<1>4. CASE x.op = "sequence"
    <2>1. PICK y \in ToSet(c.tables) : x = ResetSequence(y)
        BY <1>4, StatementsOfKind
    <2>2. name = y.name /\ name \in Names(c.tables)
        BY <1>t, <1>p, <2>1 DEF ResetSequence, Statement
    <2> QED
        BY <1>4, <2>2, TableFirst, Places
<1>5. CASE x.op = "index"
    <2>1. PICK y \in ToSet(c.indexes) : x = CreateIndex(y)
        BY <1>5, StatementsOfKind
    <2>2. name = y.table /\ name \in Names(c.tables)
        BY <1>t, <1>p, <2>1 DEF CreateIndex, Statement
    <2> QED
        BY <1>5, <2>2, TableFirst, Places
<1>6. CASE x.op = "unique"
    <2>1. PICK y \in ToSet(c.uniques) : x = CreateUnique(y)
        BY <1>6, StatementsOfKind
    <2>2. name = y.table /\ name \in Names(c.tables)
        BY <1>t, <1>p, <2>1 DEF CreateUnique, Statement
    <2> QED
        BY <1>6, <2>2, TableFirst, Places
<1>7. CASE x.op = "check"
    <2>1. PICK y \in ToSet(c.checks) : x = CreateCheck(y)
        BY <1>7, StatementsOfKind
    <2>2. name = y.table /\ name \in Names(c.tables)
        BY <1>t, <1>p, <2>1 DEF CreateCheck, Statement
    <2> QED
        BY <1>7, <2>2, TableFirst, Places
<1>8. CASE x.op = "foreignKey"
    <2>1. PICK f \in ToSet(c.foreignKeys) : x = CreateForeignKey(f)
        BY <1>8, StatementsOfKind
    <2>2. name \in {f.table, f.referenced, f.backing}
        BY <2>1 DEF CreateForeignKey, Statement
    <2>3. /\ f.table \in Names(c.tables) /\ f.referenced \in Names(c.tables)
          /\ f.backing \in Backings(c, f.referenced) /\ f.backing # NoName
        BY DEF Consistent
    <2>4. CASE name \in Names(c.tables)
        BY <1>8, <2>4, TableFirst, Places
    <2>5. CASE name = f.backing
        <3>1. PICK y \in StatementsFor(c, schemaOnly) : Place(y.op) \in {1, 5, 6} /\ name \in y.creates
            BY <2>3, <2>5, BackingFirst
        <3> QED
            BY <1>8, <3>1, Places
    <2> QED
        BY <2>2, <2>3, <2>4, <2>5
<1> QED
    BY <1>1, <1>2, <1>3, <1>4, <1>5, <1>6, <1>7, <1>8, StatementsOfKind

\* The selection of a consistent catalogue is consistent, once the foreign keys to
\* tables outside it are dropped.
LEMMA SelectedConsistent ==
    ASSUME NEW s \in Catalogues, Consistent(s), NEW chosen
    PROVE  /\ Selected(s, chosen) \in Catalogues
           /\ Consistent(Selected(s, chosen))
           /\ Valid(Selected(s, chosen)) => Sound(Selected(s, chosen))
<1>1. PICK c : c = Introspect(s, chosen)
    OBVIOUS
<1>2. PICK d : d = FilterForeignKeys(c)
    OBVIOUS
<1>3. c \in Catalogues
    BY <1>1, IntrospectElements
<1>4. /\ d \in Catalogues /\ d.schemas = s.schemas /\ d.unsupported = s.unsupported
      /\ ToSet(d.tables) = {x \in ToSet(s.tables) : x.name \in chosen}
      /\ ToSet(d.views) = {x \in ToSet(s.views) : x.name \in chosen}
      /\ ToSet(d.indexes) = {x \in ToSet(s.indexes) : x.table \in chosen}
      /\ ToSet(d.uniques) = {x \in ToSet(s.uniques) : x.table \in chosen}
      /\ ToSet(d.checks) = {x \in ToSet(s.checks) : x.table \in chosen}
      /\ ToSet(d.defaults) = {x \in ToSet(s.defaults) : x.table \in chosen}
    <2>1. /\ d \in Catalogues /\ d.schemas = c.schemas /\ d.unsupported = c.unsupported
          /\ d.tables = c.tables /\ d.views = c.views /\ d.indexes = c.indexes
          /\ d.uniques = c.uniques /\ d.checks = c.checks /\ d.defaults = c.defaults
        BY <1>2, <1>3, FilterElements
    <2>2. /\ c.schemas = s.schemas /\ c.unsupported = s.unsupported
          /\ ToSet(c.tables) = {x \in ToSet(s.tables) : x.name \in chosen}
          /\ ToSet(c.views) = {x \in ToSet(s.views) : x.name \in chosen}
          /\ ToSet(c.indexes) = {x \in ToSet(s.indexes) : x.table \in chosen}
          /\ ToSet(c.uniques) = {x \in ToSet(s.uniques) : x.table \in chosen}
          /\ ToSet(c.checks) = {x \in ToSet(s.checks) : x.table \in chosen}
          /\ ToSet(c.defaults) = {x \in ToSet(s.defaults) : x.table \in chosen}
        BY <1>1, IntrospectElements
    <2> QED
        BY <2>1, <2>2
<1>5. ToSet(d.foreignKeys) = {f \in ToSet(s.foreignKeys) : f.table \in chosen /\ f.referenced \in Names(d.tables)}
    <2>1. d.tables = c.tables
        BY <1>2, <1>3, FilterElements
    <2>2. ToSet(d.foreignKeys) = {f \in ToSet(c.foreignKeys) : f.referenced \in Names(c.tables)}
        BY <1>2, <1>3, FilterElements
    <2>3. ToSet(c.foreignKeys) = {f \in ToSet(s.foreignKeys) : f.table \in chosen}
        BY <1>1, IntrospectElements
    <2> QED
        BY <2>1, <2>2, <2>3
<1>6. \A q : Names(q) = {x.name : x \in ToSet(q)}
    BY DEF Names, ToSet
<1>7. Names(d.tables) = Names(s.tables) \cap chosen
    BY <1>4, <1>6
<1>8. /\ Names(d.views) \subseteq Names(s.views) /\ Names(d.indexes) \subseteq Names(s.indexes)
      /\ Names(d.uniques) \subseteq Names(s.uniques)
    BY <1>4, <1>6
<1>9. \A table \in chosen : Backings(d, table) = Backings(s, table)
    BY <1>4 DEF Backings
<1>10. NoName \notin Names(d.tables) \cup Names(d.views) \cup Names(d.indexes) \cup Names(d.uniques)
    BY <1>7, <1>8 DEF Consistent
<1>11. ASSUME NEW x \in ToSet(d.indexes) \cup ToSet(d.uniques) \cup ToSet(d.checks) \cup ToSet(d.defaults)
       PROVE  x.table \in Names(d.tables)
    <2>1. x.table \in chosen
        BY <1>4
    <2>2. x \in ToSet(s.indexes) \cup ToSet(s.uniques) \cup ToSet(s.checks) \cup ToSet(s.defaults)
        BY <1>4
    <2> QED
        BY <1>7, <2>1, <2>2 DEF Consistent
<1>12. ASSUME NEW f \in ToSet(d.foreignKeys)
       PROVE  /\ {f.table, f.referenced} \subseteq Names(d.tables)
              /\ f.backing \in Backings(d, f.referenced) \ {NoName}
    <2>1. f \in ToSet(s.foreignKeys) /\ f.table \in chosen /\ f.referenced \in Names(d.tables)
        BY <1>5
    <2>2. f.table \in Names(s.tables) /\ f.backing \in Backings(s, f.referenced) \ {NoName}
        BY <2>1 DEF Consistent
    <2> QED
        BY <1>7, <1>9, <2>1, <2>2
<1>13. \A f, g \in ToSet(d.foreignKeys) : f.name = g.name => f = g
    BY <1>5 DEF Consistent
<1>14. d.unsupported \cap Names(d.schemas) = {}
    BY <1>4 DEF Consistent
<1>15. Consistent(d)
    BY <1>10, <1>11, <1>12, <1>13, <1>14 DEF Consistent
<1> QED
    BY <1>1, <1>2, <1>4, <1>10, <1>15 DEF Selected, Sound

\* The statements for the views.
LEMMA ViewStatements ==
    ASSUME NEW q \in Seq(AnyView)
    PROVE  ToSet(Each(CreateView, q)) = {CreateView(v) : v \in ToSet(q)}
<1>1. PICK e : e = Each(CreateView, q)
    OBVIOUS
<1>2. e = [i \in 1..Len(q) |-> CreateView(q[i])] /\ DOMAIN q = 1..Len(q)
    BY <1>1 DEF Each
<1>3. ToSet(e) = {CreateView(x) : x \in ToSet(q)}
    BY <1>2 DEF ToSet
<1> QED
    BY <1>1, <1>3

\* The names of the relations the catalogue declares.
LEMMA DeclaredNames ==
    ASSUME NEW c
    PROVE  /\ \A t \in ToSet(c.tables) : t.name \in ToSet(TargetRelationNames(c))
           /\ \A t \in ToSet(c.tables) :
                  t.primaryKey # NoName => t.primaryKey \in ToSet(TargetRelationNames(c))
           /\ \A x \in ToSet(c.indexes) : x.name \in ToSet(TargetRelationNames(c))
           /\ \A x \in ToSet(c.uniques) : x.name \in ToSet(TargetRelationNames(c))
           /\ \A v \in ToSet(c.views) : v.name \in ToSet(TargetRelationNames(c))
<1>1. ASSUME NEW a \in TargetRelations(c)
      PROVE  RelationName(c, a) \in ToSet(TargetRelationNames(c))
    BY DEF TargetRelationNames, ToSet
<1>2. ASSUME NEW i \in DOMAIN c.tables PROVE c.tables[i].name \in ToSet(TargetRelationNames(c))
    <2>1. <<"table", i>> \in TargetRelations(c) /\ RelationName(c, <<"table", i>>) = c.tables[i].name
        BY DEF TargetRelations, RelationName
    <2> QED
        BY <1>1, <2>1
<1>3. ASSUME NEW i \in DOMAIN c.tables, c.tables[i].primaryKey # NoName
      PROVE  c.tables[i].primaryKey \in ToSet(TargetRelationNames(c))
    <2>1. /\ <<"primaryKey", i>> \in TargetRelations(c)
          /\ RelationName(c, <<"primaryKey", i>>) = c.tables[i].primaryKey
        BY <1>3 DEF TargetRelations, RelationName
    <2> QED
        BY <1>1, <2>1
<1>4. ASSUME NEW i \in DOMAIN c.indexes PROVE c.indexes[i].name \in ToSet(TargetRelationNames(c))
    <2>1. <<"index", i>> \in TargetRelations(c) /\ RelationName(c, <<"index", i>>) = c.indexes[i].name
        BY DEF TargetRelations, RelationName
    <2> QED
        BY <1>1, <2>1
<1>5. ASSUME NEW i \in DOMAIN c.uniques PROVE c.uniques[i].name \in ToSet(TargetRelationNames(c))
    <2>1. <<"unique", i>> \in TargetRelations(c) /\ RelationName(c, <<"unique", i>>) = c.uniques[i].name
        BY DEF TargetRelations, RelationName
    <2> QED
        BY <1>1, <2>1
<1>6. ASSUME NEW i \in DOMAIN c.views PROVE c.views[i].name \in ToSet(TargetRelationNames(c))
    <2>1. <<"view", i>> \in TargetRelations(c) /\ RelationName(c, <<"view", i>>) = c.views[i].name
        BY DEF TargetRelations, RelationName
    <2> QED
        BY <1>1, <2>1
<1>7. \A q : ToSet(q) = {q[i] : i \in DOMAIN q}
    BY DEF ToSet
<1> QED
    BY <1>2, <1>3, <1>4, <1>5, <1>6, <1>7

\* Run creates only relations that Validate and ensureRelationsAbsent know about, apart
\* from the sequences of identity columns.
LEMMA CreatesAreDeclared ==
    ASSUME NEW c, NEW schemaOnly \in BOOLEAN,
           NEW x \in StatementsFor(c, schemaOnly) \cup {CreateView(v) : v \in ToSet(c.views)}
    PROVE  x.creates \subseteq ToSet(TargetRelationNames(c))
<1>1. CASE \E v \in ToSet(c.views) : x = CreateView(v)
    <2>1. PICK v \in ToSet(c.views) : x = CreateView(v)
        BY <1>1
    <2>2. x.creates \subseteq {v.name}
        BY <2>1 DEF CreateView, Statement
    <2> QED
        BY <2>2, DeclaredNames
<1>2. CASE x \in StatementsFor(c, schemaOnly) /\ x.op = "table"
    <2>1. PICK t \in ToSet(c.tables) : x = CreateTable(t)
        BY <1>2, StatementsOfKind
    <2>2. x.creates = {t.name, t.primaryKey} \ {NoName}
        BY <2>1 DEF CreateTable, Statement
    <2> QED
        BY <2>2, DeclaredNames
<1>3. CASE x \in StatementsFor(c, schemaOnly) /\ x.op = "index"
    <2>1. PICK t \in ToSet(c.indexes) : x = CreateIndex(t)
        BY <1>3, StatementsOfKind
    <2>2. x.creates \subseteq {t.name}
        BY <2>1 DEF CreateIndex, Statement
    <2> QED
        BY <2>2, DeclaredNames
<1>4. CASE x \in StatementsFor(c, schemaOnly) /\ x.op = "unique"
    <2>1. PICK t \in ToSet(c.uniques) : x = CreateUnique(t)
        BY <1>4, StatementsOfKind
    <2>2. x.creates \subseteq {t.name}
        BY <2>1 DEF CreateUnique, Statement
    <2> QED
        BY <2>2, DeclaredNames
<1>5. CASE x \in StatementsFor(c, schemaOnly) /\ x.op \notin {"table", "index", "unique"}
    <2>1. \/ \E y \in ToSet(c.schemas) : x = CreateSchema(y)
          \/ \E y \in ToSet(c.defaults) : x = CreateDefault(y)
          \/ \E y \in ToSet(c.tables) : x = CopyTable(y)
          \/ \E y \in ToSet(c.tables) : x = ResetSequence(y)
          \/ \E y \in ToSet(c.checks) : x = CreateCheck(y)
          \/ \E y \in ToSet(c.foreignKeys) : x = CreateForeignKey(y)
        BY <1>5, StatementsOfKind
    <2>2. x.creates = {}
        BY <2>1 DEF CreateSchema, CreateDefault, CopyTable, ResetSequence, CreateCheck, CreateForeignKey, Statement
    <2> QED
        BY <2>2
<1> QED
    BY <1>1, <1>2, <1>3, <1>4, <1>5
================================================================================
