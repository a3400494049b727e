---------------------------- MODULE MCIntrospection ----------------------------
(* Sources, filters and statements of other sessions on which TLC checks Introspection. *)
EXTENDS Introspection

Letters == [A |-> "a", B |-> "b", U |-> "u"]

Object(schema, name) == [schema |-> schema, name |-> name]

Filter(includeSchemas, includeTables, excludeSchemas, excludeTables) ==
    [includeSchemas |-> includeSchemas, includeTables |-> includeTables,
     excludeSchemas |-> excludeSchemas, excludeTables |-> excludeTables]

Scenario(s, v, f, n) == [source |-> s, views |-> v, filters |-> f, ddl |-> n]

-------------------------------------------------------------------------------
(* Filters. *)

SchemaNames == {<<"a">>, <<"A", "b">>}
ObjectNames == {<<"u">>, <<"U", "b">>, <<"b", "/", "a">>}

Objects == {Object(s, n) : s \in SchemaNames, n \in ObjectNames}

\* A dot in a table name, and one in a schema name.
Dotted == {Object(<<"a">>, <<"b", ".", "u">>), Object(<<"a", ".", "b">>, <<"u">>)}

SchemaPatterns == {{}, {<<"a">>}, {<<"a", "*">>}, {<<"?", "B">>, <<"b">>}}

TablePatterns == {
    {}, {<<"u">>}, {<<"U", "*">>}, {<<"*">>}, {<<"?", "b">>}, {<<"a", ".", "*">>},
    {<<"A", "*", ".", "u">>}, {<<"*", ".", "U", "b">>, <<"b", "/", "?">>},
    {<<"*", "b", ".", "*">>, <<"a", ".", "u">>}, {<<"a", ".", "b", ".", "u">>}, {<<"*", "b">>}}

Unclosed == {{<<"a", ".", "[">>}}

Plain == [columns |-> <<[name |-> "c", seed |-> 0]>>, keys |-> {}]

FilterScenarios ==
    {Scenario([o \in Objects \cup Dotted |-> Plain], Objects \cup Dotted, Filter(is, it, es, et), 0) :
         is \in SchemaPatterns, es \in SchemaPatterns, it \in TablePatterns, et \in TablePatterns}
    \cup {Scenario([o \in Objects |-> Plain], {}, Filter({}, it, {}, et), 0) :
              it \in Unclosed \cup {{}}, et \in Unclosed}

-------------------------------------------------------------------------------
(* Statements of other sessions. *)

T == Object(<<"a">>, <<"u">>)
U == Object(<<"a">>, <<"b">>)
W == Object(<<"b">>, <<"u">>)

Column(name, seed) == [name |-> name, seed |-> seed]

Key(kind, name, referenced, entries) ==
    [kind |-> kind, name |-> name, referenced |-> referenced, entries |-> entries]

\* Names of constraints are unique in a schema, those of indexes and columns are not.
Keys(t, first, second) == {
    Key("primaryKey", <<"pk">> \o t.name, t, <<<<first, "">>, <<second, "">>>>),
    Key("unique", <<"uq">> \o t.name, t, <<<<second, "">>>>),
    Key("index", <<"ix">>, t, <<<<second, "key">>, <<first, "included">>>>),
    Key("default", <<"df">> \o t.name, t, <<<<first, "">>>>),
    Key("check", <<"ck">> \o t.name, t, <<<<second, "">>>>)}

Referenced == [columns |-> <<Column("c", 5), Column("d", 0)>>, keys |-> Keys(T, "c", "d")]

Referring ==
    [columns |-> <<Column("d", 0), Column("c", 7), Column("e", 0)>>,
     keys |-> Keys(U, "d", "c")
              \cup {Key("foreignKey", <<"fk">>, T, <<<<"e", "c">>, <<"d", "d">>>>)}]

\* A column is renamed, and the keys on it follow; the order of the columns changes; the
\* keys are dropped.
Renamed == [columns |-> <<Column("c", 5), Column("e", 0)>>, keys |-> Keys(T, "c", "e")]
Reordered == [columns |-> <<Column("d", 0), Column("c", 3)>>, keys |-> Keys(T, "d", "c")]
Freed == [Referring EXCEPT !.keys = {}]

Changes == {<<T, Referenced>>, <<T, Renamed>>, <<T, Reordered>>, <<U, Referring>>, <<U, Freed>>,
            <<W, Referenced>>}

Everything == Filter({}, {}, {}, {})

ChangeScenarios ==
    {Scenario(s, {}, f, 2) :
         s \in {[t \in {T, U} |-> IF t = T THEN Referenced ELSE Referring], [t \in {T} |-> Renamed],
                [t \in {T, U, W} |-> IF t = U THEN Freed ELSE Reordered]},
         f \in {Everything, Filter({}, {<<"a", ".", "*">>}, {}, {}), Filter({}, {}, {}, {<<"u">>})}}

AllScenarios == FilterScenarios \cup ChangeScenarios
================================================================================
