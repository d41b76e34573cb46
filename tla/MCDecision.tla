------------------------------ MODULE MCDecision ------------------------------
(***************************************************************************)
(* Instance of Decision for TLC.  Trends, momenta and volatilities are     *)
(* chosen so that every quotient of the score is an integer; prices and    *)
(* quantities so that some order fails at the hard cap alone, and some at  *)
(* the risk of a trade alone.                                              *)
(***************************************************************************)
EXTENDS Decision, TLC

MCRsis         == {None, 0, 10, 80}
MCTrends       == {-100, 0, 100}
MCMomenta      == {-500, 0}
MCVolatilities == {100, 2000}
MCQuantities   == {-1, 4}

MCSymmetry == Permutations(Symbols)
=============================================================================
