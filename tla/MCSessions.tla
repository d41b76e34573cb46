------------------------------ MODULE MCSessions ------------------------------
(***************************************************************************)
(* Instance of Sessions for TLC.  Tasks and sessions are interchangeable;  *)
(* accounts are not, since one of them is the first administrator.         *)
(***************************************************************************)
EXTENDS Sessions, TLC

MCSymmetry == Permutations(Tasks) \cup Permutations(Sids)
=============================================================================
