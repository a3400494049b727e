------------------------------- MODULE MCIdentity ------------------------------
(* Increments of either sign for Identity, as a .cfg cannot write a negative one. *)
EXTENDS Identity

MCIncrements == {-2, -1, 1, 2}
================================================================================
