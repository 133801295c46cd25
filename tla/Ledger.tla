-------------------------------- MODULE Ledger --------------------------------
(***************************************************************************)
(* Money and positions as the scheduler counts them.  Amounts are integers *)
(* in the smallest unit and percentages are integers out of 100.  Quantity *)
(* is a signed number of lots; ArenaGo keeps one average price per ticker  *)
(* and blocks the cost of a position, long or short, out of cash.          *)
(* The ticker is its index in the universe.                                *)
(***************************************************************************)
EXTENDS Integers, FiniteSets

CONSTANTS N,             \* size of the universe
          Lot,           \* shares per lot of each ticker
          CommissionPct  \* TRADING_COMMISSION_RATE, in percent

Tickers == 1..N

ASSUME NAssumption == N \in Nat
ASSUME LotAssumption == Lot \in [Tickers -> Nat \ {0}]
ASSUME CommissionAssumption == CommissionPct \in Nat

Position == [qty : Int, avg : Nat]
Flat == [qty |-> 0, avg |-> 0]

Size(p) == IF p.qty < 0 THEN -p.qty ELSE p.qty

Notional(t, lots, price) == lots * Lot[t] * price
Commission(amount) == (amount * CommissionPct) \div 100

\* What a position gives back when it is closed at price: the blocked cost and
\* the profit.  A short that more than doubled is worth less than nothing.
PnL(t, p, price) ==
  IF p.qty > 0 THEN Size(p) * Lot[t] * (price - p.avg)
               ELSE Size(p) * Lot[t] * (p.avg - price)
Worth(t, p, price) == Notional(t, Size(p), p.avg) + PnL(t, p, price)

Total(amount) ==
  LET upTo[i \in 0..N] == IF i = 0 THEN 0 ELSE upTo[i - 1] + amount[i]
  IN upTo[N]

\* _portfolio_nav: free cash and the worth of every position.
NAV(cash, pos, price) ==
  cash + Total([t \in Tickers |-> Worth(t, pos[t], price[t])])

-------------------------------------------------------------------------------
(* How a fill of delta lots (negative for a sale) changes a position: the  *)
(* average of the two prices while the position grows, the old average     *)
(* while it shrinks, the price of the fill once it changed sides.          *)

SameSide(a, b) == (a > 0 /\ b > 0) \/ (a < 0 /\ b < 0)

Moved(p, delta, price) ==
  LET q == p.qty + delta
      size == IF q < 0 THEN -q ELSE q
      add == IF delta < 0 THEN -delta ELSE delta
  IN  IF q = 0 THEN Flat
      ELSE [qty |-> q,
            avg |-> IF SameSide(p.qty, delta)
                    THEN (Size(p) * p.avg + add * price) \div size
                    ELSE IF SameSide(p.qty, q) THEN p.avg ELSE price]

\* The part of a fill that reduces the position, and the part that opens.
Reducing(p, delta) ==
  LET add == IF delta < 0 THEN -delta ELSE delta
  IN  IF p.qty = 0 \/ SameSide(p.qty, delta) THEN 0
      ELSE IF add < Size(p) THEN add ELSE Size(p)
Opening(p, delta) ==
  (IF delta < 0 THEN -delta ELSE delta) - Reducing(p, delta)

\* ArenaGo's own account after the fill, external to the repository, under the
\* collateral model the code ascribes to it: cash gets back the worth of what
\* is closed, pays the notional of what is opened, and pays commission.
BrokerCash(t, cash, p, delta, price) ==
  LET closed == [p EXCEPT !.qty = IF @ < 0 THEN -Reducing(p, delta)
                                           ELSE Reducing(p, delta)]
      opened == Notional(t, Opening(p, delta), price)
  IN  cash + Worth(t, closed, price) - opened
           - Commission(Notional(t, Reducing(p, delta), price) + opened)
===============================================================================
