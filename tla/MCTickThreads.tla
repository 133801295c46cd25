----------------------------- MODULE MCTickThreads -----------------------------
(* TickThreads for TLC: three tickers. *)
EXTENDS TickThreads

MCTickers == {"SBER", "LKOH", "GAZP"}
===============================================================================
