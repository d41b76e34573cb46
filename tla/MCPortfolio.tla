---------------------------- MODULE MCPortfolio ----------------------------
(* Two small instances of Portfolio in one, which share only the list: in  *)
(* live trading it changes under one cycle and the market stream, and the  *)
(* account is left alone; in paper trading it stays, the market stream has *)
(* not begun, and two cycles and the snapshot loop share the account and   *)
(* trade two of the symbols, which share their base asset.                 *)
EXTENDS Portfolio

MCInit == Init /\ IF paper THEN subs = <<"BTC/USDT">> ELSE Len(subs) = 3

MCBaseAsset ==
    [s \in Symbols |-> IF s = "SOL/USDT" THEN "SOL" ELSE "BTC"]

OneCycle == CHOOSE k \in Cycles : TRUE

MCNext ==
    /\ Next
    /\ IF paper
       THEN UNCHANGED subs /\ acct'.balances["SOL"] = 0 /\ pc'[Stream] = "idle"
       ELSE \A t \in Observers \ {OneCycle} : pc'[t] = "idle"

MCSpec == MCInit /\ [][MCNext]_vars /\ Fairness
=============================================================================
