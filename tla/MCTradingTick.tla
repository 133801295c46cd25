---------------------------- MODULE MCTradingTick ----------------------------
(***************************************************************************)
(* TradingTick for TLC.  The percentages of the Dockerfile where they fit  *)
(* the small amounts; prices move by ten percent so that a bracket, a stop *)
(* or a kill switch is one tick away.                                      *)
(***************************************************************************)
EXTENDS TradingTick

MCLot == [t \in Tickers |-> t]
MCSector == [t \in Tickers |-> "oil"]
AllFlat == [t \in Tickers |-> Flat]
MCStartFlat == {AllFlat}
AllAt(qty) == [t \in Tickers |-> [qty |-> qty, avg |-> 20]]
\* All short, or all long and the last one above its cap.
MCStartHeld == {AllAt(-2), [AllAt(2) EXCEPT ![N].qty = 60]}

\* What the Dockerfile configures: no flip, no trim, the fixed bracket; but
\* kill switches that one step of the price trips.
Production ==
  [ALLOW_FLIP |-> FALSE,
   MAX_INSTRUMENT |-> 15, MAX_SECTOR |-> 25, MAX_VAR |-> 4,
   MAX_DRAWDOWN |-> 1, MAX_DAILY_LOSS |-> 1,
   CASH_BUFFER |-> 2, MAX_TICK_BUY |-> 20,
   TRIM_ENABLED |-> FALSE, TRIM_BAND |-> 10, TRIM_TOLERANCE |-> 0,
   TRIM_STOP |-> 3, TRIM_MAX_PER_TICK |-> 0,
   PROFIT_TAKE_ENABLED |-> FALSE, TAKE_PROFIT |-> 10, STOP_LOSS |-> 10,
   PROFIT_LOCK |-> 5, PROFIT_PARTIAL |-> 10, PROFIT_FULL |-> 20,
   LOCK_FRACTION |-> 50, PARTIAL_FRACTION |-> 50]

\* The other switches of the risk officer: flips, with room for several of them
\* in one tick, trims and the profit ladder.
AllOn == [Production EXCEPT !.ALLOW_FLIP = TRUE, !.MAX_INSTRUMENT = 60, !.MAX_SECTOR = 90,
                            !.MAX_TICK_BUY = 90,
                            !.MAX_DRAWDOWN = 50, !.MAX_DAILY_LOSS = 50,
                            !.TRIM_ENABLED = TRUE,
                            !.PROFIT_TAKE_ENABLED = TRUE, !.PROFIT_FULL = 15]
===============================================================================
