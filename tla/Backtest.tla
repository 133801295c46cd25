------------------------------- MODULE Backtest -------------------------------
(***************************************************************************)
(* run_backtest: a strategy on historical bars, with the risk officer of   *)
(* the live scheduler in between or without it.  Bar by bar, what was      *)
(* decided on the bar's close is traded at the open of the next one.  The  *)
(* account is a plain one: a purchase takes its price out of cash, a sale  *)
(* puts it in, a short one too, where the live account blocks the cost.    *)
(***************************************************************************)
EXTENDS RiskOfficer, Sequences

CONSTANTS
  Capital,         \* initial_capital
  SlippagePct,     \* slippage_bps, in percent
  Quotes,          \* what a bar may show: a price per ticker, 0 for none
  Sizes, Sigmas,   \* what the strategy and the market may be
  RiskModes,       \* values of apply_risk
  BarsPerDay,      \* bars of one date
  MaxBars          \* bound: bars that are traded

ASSUME CapitalAssumption == Capital \in Nat /\ SlippagePct \in 0..99
ASSUME QuotesAssumption == Quotes \subseteq [Tickers -> Nat]
ASSUME InputsAssumption ==
  Sizes \subseteq Nat /\ Sigmas \subseteq Nat /\ RiskModes \subseteq BOOLEAN
ASSUME BarsAssumption == BarsPerDay \in Nat \ {0} /\ MaxBars \in Nat

VARIABLES
  applyRisk,
  bar, trading,   \* the bar decided on, and whether its signals are traded
  close, raw,     \* prices: the bar's close, the next bar's open
  todo,           \* tickers whose signal is still to be looked at
  cash, pos,
  nav, spent,     \* nav_now (and tick_open_nav), tick_buy_spent
  eqHistory,      \* eq_history: the equity at the close of every bar so far
  done,           \* profit_steps_done
  pnl,            \* the sum of trade_pnls
  fees,           \* history: commission that no trade_pnl contains
  rounded,        \* history: what integer average prices have dropped
  opened,         \* history: notional opened on this bar
  flatAt          \* history: closes seen when nothing was held for the last time

account == <<cash, pos, pnl, fees, rounded>>
bars == <<applyRisk, bar, trading, close, raw, nav, eqHistory>>
vars == <<bars, todo, account, spent, done, opened, flatAt>>

LadderStep == [t : Tickers, long : BOOLEAN, avg : Nat, step : Steps]

TypeOK ==
  /\ applyRisk \in BOOLEAN
  /\ bar \in 0..MaxBars /\ trading \in BOOLEAN
  /\ close \in [Tickers -> Nat] /\ raw \in [Tickers -> Nat]
  /\ todo \in SUBSET Tickers
  /\ cash \in Int /\ pos \in [Tickers -> Position]
  /\ nav \in Int /\ spent \in Nat
  /\ eqHistory \in Seq(Int)
  /\ done \in SUBSET LadderStep
  /\ pnl \in Int /\ fees \in Nat /\ rounded \in Int /\ opened \in Nat
  /\ flatAt \in Nat

\* _nav: a ticker without a bar counts at its average price.
MarketValue(t, p, price) == p.qty * Lot[t] * (IF price > 0 THEN price ELSE p.avg)
Nav(money, held, prices) ==
  money + Total([t \in Tickers |-> MarketValue(t, held[t], prices[t])])

NoPrice == [t \in Tickers |-> 0]

Init ==
  /\ applyRisk \in RiskModes
  /\ bar = 0 /\ trading = FALSE
  /\ close \in Quotes /\ raw = NoPrice
  /\ todo = {}
  /\ cash = Capital /\ pos = [t \in Tickers |-> Flat]
  /\ nav = 0 /\ spent = 0
  /\ eqHistory = <<>>
  /\ done = {}
  /\ pnl = 0 /\ fees = 0 /\ rounded = 0 /\ opened = 0 /\ flatAt = 0

-------------------------------------------------------------------------------
(* One bar. *)

StartBar ==
  /\ ~trading /\ bar < MaxBars
  /\ trading' = TRUE
  /\ raw' \in Quotes
  /\ todo' = Tickers
  /\ nav' = Nav(cash, pos, close)
  /\ spent' = 0 /\ opened' = 0
  /\ UNCHANGED <<applyRisk, bar, close, eqHistory, account, done, flatAt>>

\* Nothing is held.
FlatBook(held) == \A t \in Tickers : held[t].qty = 0

EndBar ==
  /\ trading /\ todo = {}
  /\ trading' = FALSE /\ bar' = bar + 1
  /\ close' \in Quotes
  /\ eqHistory' = Append(eqHistory, Nav(cash, pos, close'))
  /\ raw' = NoPrice /\ nav' = 0 /\ spent' = 0 /\ opened' = 0
  /\ flatAt' = IF FlatBook(pos) THEN Len(eqHistory') ELSE flatAt
  /\ UNCHANGED <<applyRisk, todo, account, done>>

-------------------------------------------------------------------------------
(* _resolve_qty. *)

\* session_open_nav asks for the first equity of today's date, and today is the
\* date of the wall clock, never that of a historical bar.
Session == 0

Context(t, sigma, sound) ==
  [cash |-> cash, pos |-> pos, nav |-> nav, price |-> raw[t],
   openNav |-> nav, spent |-> spent,
   history |-> {eqHistory[i] : i \in DOMAIN eqHistory}, session |-> Session,
   sigma |-> sigma, sound |-> sound,
   done |-> {s \in Steps : [t |-> t, long |-> pos[t].qty > 0, avg |-> pos[t].avg,
                            step |-> s] \in done}]

\* Variant: the direction is the signal's, whatever the officer makes of it.
DirectionOfSignal(v, signal) == IF signal = "BUY" THEN 1 ELSE -1

\* A reduction the officer forces has the direction its name ends with, the
\* rest that of the signal.
Direction(v, signal) ==
  IF v.op \in Covers THEN 1
  ELSE IF v.op \in Sells THEN -1
  ELSE IF signal = "BUY" THEN 1 ELSE -1

\* Variant: the budget counts what the signal opens on a flat ticker only.
CountsAsOpeningNew(op) == op \in {"open_long", "open_short"}

\* op_kind.
CountsAsOpening(op) == op \notin ReducingOps

\* Without the risk officer a size is a share of NAV.
UncheckedLots(t, size) ==
  QuantityForBuy(IF nav > 0 THEN nav ELSE 0, size, 100, raw[t], Lot[t])

-------------------------------------------------------------------------------
(* _apply_fill. *)

\* Slippage is against the trade.
ExecPrice(t, delta) ==
  (raw[t] * (IF delta > 0 THEN 100 + SlippagePct ELSE 100 - SlippagePct)) \div 100

\* Variant: the whole order is taken for the part that is closed.
RealizedOnAll(t, p, delta, price) ==
  LET lots == IF delta < 0 THEN -delta ELSE delta
  IN  IF Reducing(p, delta) = 0 THEN 0
      ELSE PnL(t, [p EXCEPT !.qty = IF @ < 0 THEN -lots ELSE lots], price)

\* The profit of the part that is closed, at the old average price.
Realized(t, p, delta, price) ==
  LET lots == Reducing(p, delta)
  IN  PnL(t, [p EXCEPT !.qty = IF @ < 0 THEN -lots ELSE lots], price)

\* What the average of a position that grows drops when it is rounded down.
Dropped(t, p, delta, price) ==
  LET q == p.qty + delta
  IN  IF SameSide(p.qty, delta)
      THEN Lot[t] * (p.qty * p.avg + delta * price - q * Moved(p, delta, price).avg)
      ELSE 0

Fill(t, delta) ==
  LET price == ExecPrice(t, delta)
      fee == Commission(Notional(t, IF delta < 0 THEN -delta ELSE delta, price))
      reduces == Reducing(pos[t], delta) > 0
  IN  /\ cash' = cash - delta * Lot[t] * price - fee
      /\ pos' = [pos EXCEPT ![t] = Moved(pos[t], delta, price)]
      /\ pnl' = IF reduces THEN pnl + Realized(t, pos[t], delta, price) - fee ELSE pnl
      /\ fees' = IF reduces THEN fees ELSE fees + fee
      /\ rounded' = rounded + Dropped(t, pos[t], delta, price)
      /\ opened' = opened + Notional(t, Opening(pos[t], delta), raw[t])
      /\ flatAt' = IF FlatBook(pos') THEN Len(eqHistory) ELSE flatAt

-------------------------------------------------------------------------------
(* The signals of a bar. *)

Done(t) == todo' = todo \ {t}

\* No signal, no size, no price on the next bar, or nothing left of it.
PassOver(t) ==
  /\ trading /\ t \in todo
  /\ Done(t)
  /\ UNCHANGED <<bars, account, spent, done, opened, flatAt>>

\* HOLD meets the officer only when the ticker is held.
TradeChecked(t, d, sigma, sound) ==
  LET v == Evaluate(t, d, Context(t, sigma, sound))
      lots == v.close + v.open
      delta == Direction(v, d.signal) * lots
  IN  /\ trading /\ t \in todo /\ applyRisk
      /\ raw[t] > 0
      /\ IF d.signal = "HOLD" THEN pos[t].qty # 0 ELSE d.size > 0
      /\ v.op \in OpeningOps \cup ReducingOps /\ lots > 0
      /\ Fill(t, delta)
      /\ spent' = spent + IF CountsAsOpening(v.op) THEN Notional(t, lots, raw[t])
                                                   ELSE 0
      /\ done' = done \cup
           (IF v.step = "none" THEN {}
            ELSE {[t |-> t, long |-> pos[t].qty > 0, avg |-> pos[t].avg,
                   step |-> v.step]})
      /\ Done(t)
      /\ UNCHANGED bars

TradeUnchecked(t, d) ==
  LET lots == UncheckedLots(t, d.size)
      delta == IF d.signal = "BUY" THEN lots ELSE -lots
      opens == pos[t].qty = 0 \/ SameSide(pos[t].qty, delta)
  IN  /\ trading /\ t \in todo /\ ~applyRisk
      /\ raw[t] > 0 /\ d.signal # "HOLD" /\ lots > 0
      /\ Fill(t, delta)
      /\ spent' = spent + IF opens THEN Notional(t, lots, raw[t]) ELSE 0
      /\ Done(t)
      /\ UNCHANGED <<bars, done>>

Ticker(t) ==
  \/ PassOver(t)
  \/ \E d \in [signal : Signals, size : Sizes] :
       \/ TradeUnchecked(t, d)
       \/ \E sigma \in Sigmas, sound \in BOOLEAN : TradeChecked(t, d, sigma, sound)

Next == StartBar \/ EndBar \/ \E t \in Tickers : Ticker(t)

Spec == Init /\ [][Next]_vars

-------------------------------------------------------------------------------
(* Properties. *)

\* What is held, at its cost.
BookValue(t, p) == p.qty * Lot[t] * p.avg

\* The books balance: what the account holds at cost is the capital, plus the
\* profits reported for its trades, minus the commission on openings, through
\* averaging, partial closes and changes of side.
BooksBalance ==
  cash + Total([t \in Tickers |-> BookValue(t, pos[t])]) + rounded
    = Capital + pnl - fees

\* The openings of one bar stay within MAX_TICK_BUY of its NAV, whatever the
\* order of the tickers and however a flip is counted.
BarBudgetRespected ==
  applyRisk /\ trading /\ Settings.MAX_TICK_BUY > 0 =>
    100 * opened <= Settings.MAX_TICK_BUY * (IF nav > 0 THEN nav ELSE 0)

\* A trade that enlarges a position leaves it and its sector within the caps of
\* the bar's NAV, as long as short sales have not inflated cash above it.
CapsRespected ==
  [][\A t \in Tickers :
       applyRisk /\ Size(pos'[t]) > Size(pos[t]) /\ cash <= nav
       => LET held == Notional(t, Size(pos'[t]), raw[t])
              others == Total([u \in Tickers |->
                          IF u # t /\ Sector[u] = Sector[t]
                          THEN Notional(u, Size(pos[u]), pos[u].avg) ELSE 0])
          IN  /\ 100 * held <= Settings.MAX_INSTRUMENT * nav
              /\ 100 * (held + others) <= Settings.MAX_SECTOR * nav]_vars

\* A book that holds anything opens nothing more once NAV is MAX_DRAWDOWN below a
\* close that it has seen since nothing was held.
DrawdownStopsOpenings ==
  [][applyRisk /\ opened' > opened /\ ~FlatBook(pos) =>
       \A i \in DOMAIN eqHistory :
         i >= flatAt =>
           100 * (eqHistory[i] - nav) < Settings.MAX_DRAWDOWN * eqHistory[i]]_vars

\* What the officer decides on the signals still to come does not depend on the
\* closes before the first of those counted.
IndependentOfThePast(first) ==
  \A t \in todo, d \in [signal : Signals, size : Sizes], sigma \in Sigmas,
     sound \in BOOLEAN :
    applyRisk /\ raw[t] > 0 =>
      LET c == Context(t, sigma, sound)
          counted == {eqHistory[i] : i \in {j \in DOMAIN eqHistory : j >= first}}
      IN  Evaluate(t, d, c) = Evaluate(t, d, [c EXCEPT !.history = counted])

\* A book that holds nothing opens again, whatever was lost before: the officer
\* decides as if there had been no earlier bar.
FlatBookStartsAfresh ==
  FlatBook(pos) => IndependentOfThePast(bar + 1)

\* README.md:282, the peak of NAV is reset when nothing is held, so that one bad
\* trade does not paralyse the drawdown gate for ever: no decision depends on a
\* close before the one that was the current NAV when the book was last flat.
OldPeakForgotten == IndependentOfThePast(flatAt)

\* engine.py:9-10, the engine runs the risk officer of the live bot to validate
\* the risk layer and calibrate its thresholds: nothing is opened on a bar whose
\* NAV has fallen MAX_DAILY_LOSS below the first equity of its date.
LossStopsTheDay ==
  [][applyRisk /\ opened' > opened =>
       \A i \in DOMAIN eqHistory :
         /\ i \div BarsPerDay = bar \div BarsPerDay
         /\ \A j \in 1..(i - 1) : j \div BarsPerDay < i \div BarsPerDay
         => 100 * (eqHistory[i] - nav) < Settings.MAX_DAILY_LOSS * eqHistory[i]]_vars
===============================================================================
