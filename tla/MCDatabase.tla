----------------------------- MODULE MCDatabase -----------------------------
(* A small instance of Database.                                           *)
EXTENDS Database

MCSize == [v \in 1 .. Versions |-> v]

MCCash == {-2, 0, 2}
=============================================================================
