------------------------------ MODULE MCBacktest ------------------------------
(***************************************************************************)
(* Backtest for TLC: two tickers of different lots, bars that lose ten     *)
(* percent or miss a ticker, and every switch of the risk officer on.      *)
(***************************************************************************)
EXTENDS Backtest

MCLot == [t \in Tickers |-> t]
MCSector == [t \in Tickers |-> "oil"]

\* A budget of one instrument and a half, so that two tickers compete for it,
\* and kill switches of two strengths: the daily loss comes before the drawdown.
Live ==
  [ALLOW_FLIP |-> TRUE,
   MAX_INSTRUMENT |-> 15, MAX_SECTOR |-> 25, MAX_VAR |-> 4,
   MAX_DRAWDOWN |-> 18, MAX_DAILY_LOSS |-> 1,
   CASH_BUFFER |-> 2, MAX_TICK_BUY |-> 20,
   TRIM_ENABLED |-> TRUE, TRIM_BAND |-> 10, TRIM_TOLERANCE |-> 0,
   TRIM_STOP |-> 3, TRIM_MAX_PER_TICK |-> 0,
   PROFIT_TAKE_ENABLED |-> TRUE, TAKE_PROFIT |-> 10, STOP_LOSS |-> 10,
   PROFIT_LOCK |-> 5, PROFIT_PARTIAL |-> 10, PROFIT_FULL |-> 15,
   LOCK_FRACTION |-> 50, PARTIAL_FRACTION |-> 50]

Strict == [Live EXCEPT !.MAX_DRAWDOWN = 2]

\* Both at the start price, one of them up, the other down or without a bar.
MCQuotes == {[t \in Tickers |-> 20],
             [t \in Tickers |-> IF t = 1 THEN 22 ELSE 18],
             [t \in Tickers |-> IF t = 1 THEN 18 ELSE 0]}
===============================================================================
