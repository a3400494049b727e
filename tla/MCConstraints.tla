----------------------------- MODULE MCConstraints -----------------------------
(* Keys for Constraints: over one or both columns, filtered or not, as an index or  *)
(* as a constraint.                                                                 *)
EXTENDS Constraints

Key(columns, filter, constraint) ==
    [columns |-> columns, filter |-> filter, constraint |-> constraint]

MCKeys == {Key({"a"}, {}, FALSE), Key({"a", "b"}, {}, FALSE), Key({"a"}, {"a"}, FALSE),
           Key({"a", "b"}, {"b"}, FALSE), Key({"a", "b"}, {}, TRUE)}
================================================================================
