------------------------------ MODULE RiskOfficer ------------------------------
(***************************************************************************)
(* evaluate(decision, ctx): what the risk officer lets the scheduler send  *)
(* for one ticker.  A decision d has a signal and a size (percent of       *)
(* cash); a context c has                                                  *)
(*   cash, pos, nav     the simulated account and its net asset value      *)
(*   price              the ticker's last price, 0 when there is none      *)
(*   openNav, spent     the tick's NAV at its start, and its spend so far  *)
(*   history, session   NAVs of the journal; today's first one (0: none)   *)
(*   sigma              volatility of the ticker, percent                  *)
(*   sound              whether confidence, spread and expected edge pass  *)
(*                      their gates                                        *)
(*   done               steps of the profit ladder the position has taken  *)
(* Settings carries the RISK_ values; RISK_ENABLED is true.                *)
(***************************************************************************)
EXTENDS Ledger, FiniteSetsExt

CONSTANTS Sector,    \* SECTOR_MAP
          Settings

ASSUME SettingsAssumption ==
  Settings \in
    [ALLOW_FLIP : BOOLEAN,
     MAX_INSTRUMENT : Nat, MAX_SECTOR : Nat, MAX_VAR : Nat,
     MAX_DRAWDOWN : Nat, MAX_DAILY_LOSS : Nat,
     CASH_BUFFER : 0..100, MAX_TICK_BUY : Nat,
     TRIM_ENABLED : BOOLEAN, TRIM_BAND : Nat, TRIM_TOLERANCE : Nat,
     TRIM_STOP : Nat, TRIM_MAX_PER_TICK : Nat,
     PROFIT_TAKE_ENABLED : BOOLEAN, TAKE_PROFIT : Nat, STOP_LOSS : Nat,
     PROFIT_LOCK : Nat, PROFIT_PARTIAL : Nat, PROFIT_FULL : Nat,
     LOCK_FRACTION : Nat, PARTIAL_FRACTION : Nat]

Signals == {"BUY", "SELL", "HOLD"}
OpeningOps == {"open_long", "add_long", "open_short", "add_short",
               "flip_long_to_short", "flip_short_to_long"}
Sells == {"close_long", "risk_trim_sell", "take_profit_sell", "stop_loss_sell"}
Covers == {"cover_short", "risk_trim_cover", "take_profit_cover", "stop_loss_cover"}
ReducingOps == Sells \cup Covers
Steps == {"lock", "partial"}

\* A verdict: lots to close, lots to open, and the ladder step being taken.
Verdict(op, close, open, step) ==
  [op |-> op, close |-> close, open |-> open, step |-> step]
None == Verdict("none", 0, 0, "none")
Hold == Verdict("hold", 0, 0, "none")
Block == Verdict("risk_block", 0, 0, "none")
Verdicts == [op : OpeningOps \cup ReducingOps \cup {"hold", "risk_block"},
             close : Nat, open : Nat, step : Steps \cup {"none"}]

\* Reductions are named after the side of the position.
Trim(p, lots) ==
  Verdict(IF p.qty < 0 THEN "risk_trim_cover" ELSE "risk_trim_sell", lots, 0, "none")
TakeProfit(p, lots, step) ==
  Verdict(IF p.qty < 0 THEN "take_profit_cover" ELSE "take_profit_sell", lots, 0, step)
StopLoss(p) ==
  Verdict(IF p.qty < 0 THEN "stop_loss_cover" ELSE "stop_loss_sell", Size(p), 0, "none")

Least(a, b) == IF a < b THEN a ELSE b

\* quantity_for_buy: whole lots worth num/den of cash.
QuantityForBuy(cash, num, den, price, lot) ==
  IF cash > 0 /\ num > 0 /\ price > 0 THEN (cash * num) \div (den * price * lot)
                                      ELSE 0

\* Profit of the position per share; negative when it loses.
Gain(p, price) == IF p.qty < 0 THEN p.avg - price ELSE price - p.avg

-------------------------------------------------------------------------------
(* _risk_trim: a position above the cap goes back to it, whatever the      *)
(* signal, when it is in profit or beyond its stop.                        *)

TrimLots(t, c) ==
  LET value == Lot[t] * c.price
      excess == Size(c.pos[t])
                  - (Settings.MAX_INSTRUMENT * c.nav) \div (100 * value)
      most == (Settings.TRIM_MAX_PER_TICK * c.nav) \div (100 * value)
  IN  IF Settings.TRIM_MAX_PER_TICK > 0 /\ most > 0 THEN Least(excess, most)
                                                    ELSE excess

RiskTrim(t, c) ==
  LET p == c.pos[t]
      overweight == 10000 * Notional(t, Size(p), c.price)
                      > Settings.MAX_INSTRUMENT * (100 + Settings.TRIM_BAND) * c.nav
      inProfit == 100 * Gain(p, c.price) >= -(Settings.TRIM_TOLERANCE * p.avg)
      hitStop == 100 * Gain(p, c.price) <= -(Settings.TRIM_STOP * p.avg)
  IN  IF /\ Settings.TRIM_ENABLED /\ Settings.MAX_INSTRUMENT > 0
         /\ c.price > 0 /\ c.nav > 0 /\ p.qty # 0
         /\ overweight
         /\ inProfit \/ hitStop
         /\ TrimLots(t, c) > 0
      THEN Trim(p, TrimLots(t, c))
      ELSE None

-------------------------------------------------------------------------------
(* _risk_pnl_exit: the bracket, or stop loss and profit ladder, above the  *)
(* signal too.                                                             *)

\* _partial_qty.
PartialQty(size, fraction) ==
  IF fraction = 0 THEN 0
  ELSE IF fraction >= 100 THEN size
  ELSE (size * fraction + 99) \div 100

SignalAllowsLock(signal, p) ==
  signal = "HOLD" \/ (signal = "SELL" /\ p.qty > 0) \/ (signal = "BUY" /\ p.qty < 0)

Reached(p, price, pct) == pct > 0 /\ 100 * Gain(p, price) >= pct * p.avg
Lost(p, price, pct) == pct > 0 /\ 100 * Gain(p, price) <= -(pct * p.avg)

\* Variant: the steps already taken are not looked up.
NextStepForgetful(p, signal, price, done) ==
  IF Reached(p, price, Settings.PROFIT_PARTIAL) THEN "partial"
  ELSE IF Reached(p, price, Settings.PROFIT_LOCK) /\ SignalAllowsLock(signal, p)
       THEN "lock" ELSE "none"

\* The step of the ladder that is due, and the share of the position it sells.
NextStep(p, signal, price, done) ==
  IF Reached(p, price, Settings.PROFIT_PARTIAL) /\ "partial" \notin done
  THEN "partial"
  ELSE IF /\ Reached(p, price, Settings.PROFIT_LOCK) /\ "lock" \notin done
          /\ SignalAllowsLock(signal, p)
       THEN "lock" ELSE "none"
StepFraction(step) == IF step = "partial" THEN Settings.PARTIAL_FRACTION
                                          ELSE Settings.LOCK_FRACTION

ProfitLadder(t, d, c) ==
  LET p == c.pos[t]
      step == NextStep(p, d.signal, c.price, c.done)
      lots == PartialQty(Size(p), StepFraction(step))
  IN  IF Reached(p, c.price, Settings.PROFIT_FULL)
      THEN TakeProfit(p, Size(p), "none")
      ELSE IF step # "none" /\ lots > 0 THEN TakeProfit(p, lots, step)
                                        ELSE None

RiskPnLExit(t, d, c) ==
  LET p == c.pos[t]
  IN  IF c.price <= 0 \/ p.qty = 0 \/ p.avg <= 0 THEN None
      ELSE IF Lost(p, c.price, Settings.STOP_LOSS)
           THEN StopLoss(p)
      ELSE IF Settings.PROFIT_TAKE_ENABLED
           THEN IF Gain(p, c.price) > 0 THEN ProfitLadder(t, d, c) ELSE None
      ELSE IF Reached(p, c.price, Settings.TAKE_PROFIT)
           THEN TakeProfit(p, Size(p), "none")
      ELSE None

-------------------------------------------------------------------------------
(* _evaluate_opening.  Every gate that fails blocks in the same way, so    *)
(* their order does not matter to what is sent.                            *)

\* A net asset value of zero or less makes every weight zero.
NavUnit(c) == IF c.nav > 0 THEN c.nav ELSE 1

\* Variant: the history counts while nothing is open.
PeakWhenFlat(c) == IF \E t \in Tickers : c.pos[t].qty # 0
                   THEN c.nav ELSE Max(c.history \cup {c.nav})

\* Variant: the history always counts.
PeakNeverReset(c) == Max(c.history \cup {c.nav})

\* peak_nav: the history counts while something is open.
Peak(c) == IF \E t \in Tickers : c.pos[t].qty # 0 THEN Max(c.history \cup {c.nav})
                                                  ELSE c.nav
KillSwitchMdd(c) ==
  IF Peak(c) > 0 THEN 100 * (Peak(c) - c.nav) >= Settings.MAX_DRAWDOWN * Peak(c)
                 ELSE Settings.MAX_DRAWDOWN = 0
KillSwitchDailyLoss(c) ==
  /\ c.session > 0
  /\ 100 * (c.nav - c.session) <= -(Settings.MAX_DAILY_LOSS * c.session)

\* What stays of the ticker's own position, and of its sector: the others of
\* the sector count at their average price.
BaseValue(t, c, flip) ==
  IF flip \/ c.nav <= 0 THEN 0 ELSE Notional(t, Size(c.pos[t]), c.price)
SectorValue(t, c, flip) ==
  IF c.nav <= 0 THEN 0
  ELSE BaseValue(t, c, flip)
       + Total([u \in Tickers |->
                  IF u # t /\ Sector[u] = Sector[t]
                  THEN Notional(u, Size(c.pos[u]), c.pos[u].avg) ELSE 0])

\* Variant: the cap is applied to the order, not to the position.
EffectiveSizeOfOrder(t, d, c, flip) ==
  Least(d.size * NavUnit(c),
        Least(Settings.MAX_INSTRUMENT * NavUnit(c),
              Settings.MAX_SECTOR * NavUnit(c) - 100 * SectorValue(t, c, flip)))

\* Variant: the room of the sector is not taken into account.
EffectiveSizeAnySector(t, d, c, flip) ==
  Least(d.size * NavUnit(c),
        Settings.MAX_INSTRUMENT * NavUnit(c) - 100 * BaseValue(t, c, flip))

\* effective_size, out of 100 * NavUnit: the size asked for, clipped by the
\* room left under the two caps.
EffectiveSize(t, d, c, flip) ==
  Least(d.size * NavUnit(c),
        Least(Settings.MAX_INSTRUMENT * NavUnit(c) - 100 * BaseValue(t, c, flip),
              Settings.MAX_SECTOR * NavUnit(c) - 100 * SectorValue(t, c, flip)))

\* var_gate at 1.645 sigma.  sigma_by_symbol is never filled by the scheduler,
\* so only the ticker itself has a volatility.
VarGate(t, d, c, flip) ==
  1645 * c.sigma * (100 * BaseValue(t, c, flip) + EffectiveSize(t, d, c, flip))
    <= Settings.MAX_VAR * 100000 * NavUnit(c)

OpenQty(t, d, c, flip) ==
  LET desired == QuantityForBuy(c.cash, d.size, 100, c.price, Lot[t])
      target == IF flip THEN desired - Size(c.pos[t]) ELSE desired
      bySize == QuantityForBuy(c.cash, EffectiveSize(t, d, c, flip),
                               100 * NavUnit(c), c.price, Lot[t])
  IN  Least(bySize, IF target > 0 THEN target ELSE 0)

TotalCost(t, lots, price) ==
  Notional(t, lots, price) + Commission(Notional(t, lots, price))

\* sanity_qty_cash: only a purchase needs the cash.
CashGate(d, c, cost) ==
  d.signal = "BUY" => 100 * cost <= (100 - Settings.CASH_BUFFER) * c.cash

\* tick_allocation: the tick's gross spend on openings.
BudgetBase(c) == IF c.openNav > 0 THEN c.openNav ELSE c.nav
\* Variant: the spend of the earlier tickers is forgotten.
TickGateNoCarry(c, cost) ==
  Settings.MAX_TICK_BUY > 0 => 100 * cost <= Settings.MAX_TICK_BUY * BudgetBase(c)
TickGate(c, cost) ==
  Settings.MAX_TICK_BUY > 0 =>
    100 * (c.spent + cost) <= Settings.MAX_TICK_BUY * BudgetBase(c)

OpeningPasses(t, d, c, flip) ==
  LET qty == OpenQty(t, d, c, flip)
      cost == TotalCost(t, qty, c.price)
  IN  /\ c.price > 0
      /\ c.sound
      /\ ~KillSwitchMdd(c)
      /\ ~KillSwitchDailyLoss(c)
      /\ 100 * BaseValue(t, c, flip) < Settings.MAX_INSTRUMENT * NavUnit(c)
      /\ 100 * SectorValue(t, c, flip) < Settings.MAX_SECTOR * NavUnit(c)
      /\ VarGate(t, d, c, flip)
      /\ qty > 0
      /\ CashGate(d, c, cost)
      /\ TickGate(c, cost)

OpeningOp(d, p) ==
  IF d.signal = "BUY"
  THEN IF p.qty < 0 THEN "flip_short_to_long"
       ELSE IF p.qty = 0 THEN "open_long" ELSE "add_long"
  ELSE IF p.qty > 0 THEN "flip_long_to_short"
       ELSE IF p.qty = 0 THEN "open_short" ELSE "add_short"

ClosingOp(p) == IF p.qty > 0 THEN "close_long" ELSE "cover_short"

-------------------------------------------------------------------------------
(* evaluate. *)

Against(d, p) ==
  (d.signal = "SELL" /\ p.qty > 0) \/ (d.signal = "BUY" /\ p.qty < 0)

\* The signal agrees with the position, or there is none.
OpenOrAdd(t, d, c) ==
  IF OpeningPasses(t, d, c, FALSE)
  THEN Verdict(OpeningOp(d, c.pos[t]), 0, OpenQty(t, d, c, FALSE), "none")
  ELSE Block

\* Variant: the quantity asked for is sold, whatever is held.
CloseOrFlipUncapped(t, d, c) ==
  LET p == c.pos[t]
      desired == QuantityForBuy(c.cash, d.size, 100, c.price, Lot[t])
  IN  Verdict(ClosingOp(p), IF desired > 0 THEN desired ELSE Size(p), 0, "none")

\* The signal is against the position: close at most what there is, or flip.
CloseOrFlip(t, d, c) ==
  LET p == c.pos[t]
      desired == QuantityForBuy(c.cash, d.size, 100, c.price, Lot[t])
  IN  IF desired <= Size(p) \/ ~Settings.ALLOW_FLIP
      THEN Verdict(ClosingOp(p),
                   IF desired > 0 THEN Least(desired, Size(p)) ELSE Size(p),
                   0, "none")
      ELSE IF OpeningPasses(t, d, c, TRUE)
      THEN Verdict(OpeningOp(d, p), Size(p), OpenQty(t, d, c, TRUE), "none")
      ELSE Verdict(ClosingOp(p), Size(p), 0, "none")

Evaluate(t, d, c) ==
  LET trim == RiskTrim(t, c)
      exit == RiskPnLExit(t, d, c)
  IN  IF trim # None THEN trim
      ELSE IF exit # None THEN exit
      ELSE IF d.signal = "HOLD" THEN Hold
      ELSE IF Against(d, c.pos[t]) THEN CloseOrFlip(t, d, c)
      ELSE OpenOrAdd(t, d, c)
===============================================================================
