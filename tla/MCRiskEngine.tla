---------------------------- MODULE MCRiskEngine ----------------------------
(* A small instance of RiskEngine: no equity, and two amounts of which the *)
(* smaller breaches the limit against the larger.                          *)
EXTENDS RiskEngine, TLC

MCEquities == {0, 9, 10}

MCSymmetry == Permutations(Callers)
=============================================================================
