-------------------------- MODULE MCExecutionEngine --------------------------
(* The intents of the runs: one order, and its retry if Ids has a second.   *)
EXTENDS ExecutionEngine

\* k1 is the key of two intents: a retry that got an id of its own.
MCIntent ==
    [o \in Ids |->
        [key |-> "k1", symbol |-> "BTC", side |-> "buy", signal |-> "long",
         quantity |-> 2]]

MCBaseAsset == [s \in Symbols |-> s]
=============================================================================
