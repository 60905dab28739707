----------------------------- MODULE MCQueries -----------------------------
(***************************************************************************)
(* An instance of Queries for TLC: a float of 8 bits and a scale of one    *)
(* digit, so that 0.1 has no exact float and 150.1 reads back as 150.      *)
(***************************************************************************)
EXTENDS Queries

SmallAndLarge == {1, -94, 1501}
=============================================================================
