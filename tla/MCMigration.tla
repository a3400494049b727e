------------------------------ MODULE MCMigration ------------------------------
(* Source catalogues, selections and targets on which TLC checks Migration. *)
EXTENDS Migration

Obj(n) == [name |-> n]
On(n, t) == [name |-> n, table |-> t]
Table(n, pk, seq) == [name |-> n, primaryKey |-> pk, sequence |-> seq]
View(n, uses) == [name |-> n, uses |-> uses]

Users == Table("users", "pk_users", "users_id_seq")
Orders == Table("orders", "pk_orders", NoName)

\* Two tables, a foreign key backed by a unique index, a view.
Shop == [
    schemas |-> <<Obj("dbo")>>,
    tables |-> <<Orders, Users>>,
    indexes |-> <<On("ux_users_email", "users")>>,
    uniques |-> <<>>,
    checks |-> <<>>,
    defaults |-> <<>>,
    foreignKeys |-> <<[name |-> "fk_orders_users", table |-> "orders", referenced |-> "users",
                       backing |-> "ux_users_email"]>>,
    views |-> <<View("buyers", {"users"})>>,
    unsupported |-> {}]

\* Every kind of object, in which the views come in the wrong order.
Full == [Shop EXCEPT
    !.uniques = <<On("uq_orders_no", "orders")>>,
    !.checks = <<On("ck_total", "orders")>>,
    !.defaults = <<On("df_created", "orders")>>,
    !.views = <<View("a_report", {"b_totals", "users"}), View("b_totals", {"c_lines"}),
                View("c_lines", {"orders"})>>]

\* Catalogues Validate must reject.
BadIndex == [Full EXCEPT !.unsupported = {"ux_users_email"}]
BadView == [Full EXCEPT !.unsupported = {"c_lines"}]
SameName == [Full EXCEPT !.indexes = <<On("c_lines", "users")>>, !.foreignKeys = <<>>]

\* A table has the name PostgreSQL gives the sequence of users.id.
SequenceName == [Shop EXCEPT !.tables = <<Orders, Users, Table("users_id_seq", NoName, NoName)>>]

\* The race needs names to collide, not many of them.
RaceSources == {[Shop EXCEPT !.tables = <<Table("orders", NoName, NoName),
                                          Table("users", NoName, "users_id_seq")>>]}
RaceSelections == {{"orders", "users", "buyers"}, {"users", "buyers"}}
RaceTargets == {{}}

AloneSources == {Full, BadIndex, BadView, SameName}
AloneSelections ==
    {tables \cup views : tables \in SUBSET {"orders", "users"},
                         views \in {{}, {"a_report"}, {"a_report", "b_totals"},
                                    {"b_totals", "c_lines"}, {"a_report", "b_totals", "c_lines"}}}
AloneTargets == {{}, {"users"}, {"pk_orders"}, {"c_lines"}, {"users_id_seq"}}

Symmetry == Permutations(Runs)

CollisionSources == {SequenceName}
CollisionSelections == {{"orders", "users", "users_id_seq", "buyers"}}
================================================================================
