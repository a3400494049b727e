-------------------------------- MODULE Filters --------------------------------
(***************************************************************************)
(* catalog.Filters: which schemas, tables and views a run selects.          *)
(*                                                                          *)
(* A name is a sequence of symbols, and so is a pattern, in which "*" and   *)
(* "?" are wildcards.  Of path.Match the character classes are not modelled *)
(* ("[" stands for one that is never closed), nor is the "\" that takes the *)
(* meaning from the symbol behind it.  The command line has trimmed the     *)
(* patterns and left out empty ones.                                        *)
(***************************************************************************)
EXTENDS Naturals, Sequences, SequencesExt

CONSTANT LowerCase      (* the lower-case symbol of every upper-case one *)

ASSUME LowerCaseAssumption == \A c \in DOMAIN LowerCase : LowerCase[c] \in STRING \ {"."}

\* strings.ToLower
Lower(s) == [i \in DOMAIN s |-> IF s[i] \in DOMAIN LowerCase THEN LowerCase[s[i]] ELSE s[i]]

\* A symbol of a pattern takes a matcher from behind symbol i of the name behind symbol j.
Consumes(symbol, name, i, j) ==
    IF symbol = "*" THEN i <= j /\ \A k \in (i + 1)..j : name[k] # "/"
    ELSE j = i + 1 /\ IF symbol = "?" THEN name[j] # "/" ELSE name[j] = symbol

\* How far into the name the first k symbols of a pattern can reach.
Reach(pattern, name) ==
    LET reach[k \in 0..Len(pattern)] ==
            IF k = 0 THEN {0}
            ELSE {j \in 0..Len(name) : \E i \in reach[k - 1] : Consumes(pattern[k], name, i, j)}
    IN reach

\* path.Match
Match(pattern, name) == Len(name) \in Reach(pattern, name)[Len(pattern)]

\* A pattern with a dot is matched with the qualified name.
MatchPattern(pattern, qualified, unqualified) ==
    LET lower == Lower(pattern)
    IN Match(lower, IF Contains(lower, ".") THEN qualified ELSE unqualified)

MatchesAny(patterns, schema, object) ==
    LET qualified == Lower(schema) \o <<".">> \o Lower(object)
    IN \E p \in patterns : MatchPattern(p, qualified, Lower(object))

MatchesSchema(filters, schema) ==
    LET Matches(p) == MatchPattern(p, Lower(schema), Lower(schema))
    IN /\ filters.includeSchemas # {} => \E p \in filters.includeSchemas : Matches(p)
       /\ ~\E p \in filters.excludeSchemas : Matches(p)

\* Mutant: tables are excluded only from those that are included by a pattern.
MatchesIncluded(filters, schema, object) ==
    /\ MatchesSchema(filters, schema)
    /\ filters.includeTables # {} =>
           /\ MatchesAny(filters.includeTables, schema, object)
           /\ ~MatchesAny(filters.excludeTables, schema, object)

\* Tables and views alike.
MatchesTable(filters, schema, object) ==
    /\ MatchesSchema(filters, schema)
    /\ filters.includeTables # {} => MatchesAny(filters.includeTables, schema, object)
    /\ ~MatchesAny(filters.excludeTables, schema, object)

\* Filters.Validate
ValidFilters(filters) ==
    \A p \in filters.includeSchemas \cup filters.includeTables
             \cup filters.excludeSchemas \cup filters.excludeTables : ~Contains(p, "[")

-------------------------------------------------------------------------------
(* What the filters are meant to select. *)

\* README: table filters "can be unqualified, such as users, or schema-qualified": a
\* pattern with a dot is a pattern for the schema and one for the object.
ByParts(pattern, schema, object) ==
    LET p == Lower(pattern)
    IN IF ~Contains(p, ".") THEN Match(p, Lower(object))
       ELSE \E i \in DOMAIN p :
                /\ p[i] = "."
                /\ Match(SubSeq(p, 1, i - 1), Lower(schema))
                /\ Match(SubSeq(p, i + 1, Len(p)), Lower(object))

\* README: "Exclude filters are applied after include filters."
Selected(filters, schema, object) ==
    LET SchemaIn(patterns) == \E p \in patterns : Match(Lower(p), Lower(schema))
        ObjectIn(patterns) == \E p \in patterns : ByParts(p, schema, object)
    IN /\ filters.includeSchemas = {} \/ SchemaIn(filters.includeSchemas)
       /\ filters.includeTables = {} \/ ObjectIn(filters.includeTables)
       /\ ~SchemaIn(filters.excludeSchemas)
       /\ ~ObjectIn(filters.excludeTables)
================================================================================
