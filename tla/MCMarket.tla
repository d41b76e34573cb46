------------------------------ MODULE MCMarket ------------------------------
(* Small instances of MarketCache and of Indicators side by side: candles  *)
(* come in while nothing has been fetched yet, and stay out after that.    *)
EXTENDS MarketCache, Indicators

\* Candles without a wick, and candles that span all prices.
MCCandles ==
    {c \in [high : {0, 1, 3}, low : {0, 1, 3}, close : {0, 1, 3}, volume : {0, 1}] :
        /\ c.low <= c.close /\ c.close <= c.high
        /\ c.high - c.low \in {0, 3}
        /\ c.volume = 0 <=> c.close = 1 /\ c.low = 1}

MCInit == Init /\ SeriesInit

MCNext ==
    \/ candles = <<>> /\ Next /\ UNCHANGED candles
    \/ Init /\ Feed /\ UNCHANGED vars

MCSpec == MCInit /\ [][MCNext]_<<vars, candles>>
=============================================================================
