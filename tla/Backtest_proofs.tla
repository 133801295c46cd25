--------------------------- MODULE Backtest_proofs ---------------------------
(***************************************************************************)
(* What a back-test's account keeps, for any bars, strategy, settings,     *)
(* slippage and commission.                                                *)
(***************************************************************************)
EXTENDS Backtest, RiskOfficer_proofs

-------------------------------------------------------------------------------
(* A fill. *)

LEMMA PriceType ==
  ASSUME NEW t \in Tickers, NEW delta \in Int, raw \in [Tickers -> Nat]
  PROVE  ExecPrice(t, delta) \in Nat
<1> DEFINE pct == IF delta > 0 THEN 100 + SlippagePct ELSE 100 - SlippagePct
<1>1. pct \in Nat /\ raw[t] \in Nat
  BY CapitalAssumption
<1> HIDE DEF pct
<1>2. raw[t] * pct \in Nat
  BY <1>1, ProductNat
<1>3. (raw[t] * pct) \div 100 \in Nat
  BY <1>2, DivNat
<1> QED
  BY <1>3 DEF ExecPrice, pct

LEMMA BookType ==
  ASSUME NEW t \in Tickers, NEW p \in Position
  PROVE  BookValue(t, p) \in Int
<1>1. p.qty \in Int /\ p.avg \in Int /\ Lot[t] \in Int
  BY LotType DEF Position
<1>2. p.qty * Lot[t] \in Int
  BY <1>1, ProductInt
<1> QED
  BY <1>1, <1>2, ProductInt DEF BookValue

\* The arithmetic of an average, of a partial close and of a change of side.
LEMMA Averaged ==
  ASSUME NEW q \in Int, NEW d \in Int, NEW l \in Int, NEW a \in Int, NEW x \in Int, NEW n \in Int
  PROVE  (q + d) * l * n + l * (q * a + d * x - (q + d) * n) = q * l * a + d * l * x
  OBVIOUS

LEMMA Shrunk ==
  ASSUME NEW q \in Int, NEW d \in Int, NEW l \in Int, NEW a \in Int, NEW x \in Int
  PROVE  /\ (q + d) * l * a = q * l * a + d * l * x + (-d) * l * (x - a)
         /\ (q + d) * l * a = q * l * a + d * l * x + d * l * (a - x)
  OBVIOUS

LEMMA Turned ==
  ASSUME NEW q \in Int, NEW d \in Int, NEW l \in Int, NEW a \in Int, NEW x \in Int
  PROVE  /\ (q + d) * l * x = q * l * a + d * l * x + q * l * (x - a)
         /\ (q + d) * l * x = q * l * a + d * l * x + (-q) * l * (a - x)
  OBVIOUS

LEMMA FillTypes ==
  ASSUME NEW t \in Tickers, NEW p \in Position, NEW delta \in Int, NEW at \in Nat
  PROVE  /\ Dropped(t, p, delta, at) \in Int /\ Realized(t, p, delta, at) \in Int
         /\ delta * Lot[t] * at \in Int
<1> DEFINE m == Moved(p, delta, at)
           s == Size([p EXCEPT !.qty = IF @ < 0 THEN -Reducing(p, delta) ELSE Reducing(p, delta)])
<1>1. /\ p.qty \in Int /\ p.avg \in Nat /\ Lot[t] \in Nat /\ m.avg \in Nat
      /\ Reducing(p, delta) \in Nat
  BY LotType, MovedType, OpeningType DEF Position
<1>2. s \in Nat
  BY <1>1 DEF Size, Position
<1> HIDE DEF m, s
<1>3. /\ s * Lot[t] * (at - p.avg) \in Int /\ s * Lot[t] * (p.avg - at) \in Int
      /\ delta * Lot[t] * at \in Int
  BY <1>1, <1>2, Products
<1>4. Realized(t, p, delta, at) \in Int
  BY <1>3 DEF Realized, PnL, s
<1>5. p.qty * p.avg + delta * at - (p.qty + delta) * m.avg \in Int
  BY <1>1, ProductInt
<1>6. Lot[t] * (p.qty * p.avg + delta * at - (p.qty + delta) * m.avg) \in Int
  BY <1>1, <1>5, ProductInt
<1> QED
  BY <1>3, <1>4, <1>6 DEF Dropped, m

\* Both sides of the account move by as much: what is held at cost, with what
\* rounding drops, grows by what was paid and by the profit that is realised.
LEMMA FillBalances ==
  ASSUME NEW t \in Tickers, NEW p \in Position, NEW delta \in Int, NEW at \in Nat
  PROVE  BookValue(t, Moved(p, delta, at)) + Dropped(t, p, delta, at)
           = BookValue(t, p) + delta * Lot[t] * at
             + IF Reducing(p, delta) > 0 THEN Realized(t, p, delta, at) ELSE 0
<1> DEFINE q == p.qty
           a == p.avg
           l == Lot[t]
           m == Moved(p, delta, at)
           after == BookValue(t, m)
           before == BookValue(t, p)
           paid == delta * l * at
           dropped == Dropped(t, p, delta, at)
           realized == Realized(t, p, delta, at)
           part == Reducing(p, delta)
<1>1. /\ q \in Int /\ a \in Nat /\ a \in Int /\ l \in Int /\ at \in Int
      /\ m.qty = q + delta /\ m.avg \in Nat /\ m.avg \in Int
  BY LotType, MovedType DEF Position
<1>2. before = q * l * a /\ after = (q + delta) * l * m.avg
  BY <1>1 DEF BookValue
<1>3. before \in Int /\ after \in Int /\ paid \in Int /\ dropped \in Int /\ realized \in Int
  BY BookType, FillTypes, MovedType
<1>4. SUFFICES after + dropped = before + paid + IF part > 0 THEN realized ELSE 0
  OBVIOUS
<1>5. CASE SameSide(q, delta)
  <2>1. dropped = l * (q * a + delta * at - (q + delta) * m.avg)
    BY <1>5 DEF Dropped
  <2>2. part = 0
    BY <1>5 DEF Reducing
  <2>3. after + dropped = before + paid
    <3> HIDE DEF q, a, l, m, after, before, dropped
    <3> QED
      BY <1>1, <1>2, <2>1, Averaged DEF paid
  <2> HIDE DEF after, before, paid, dropped, realized, part
  <2> QED
    BY <1>3, <2>2, <2>3
<1>6. CASE ~SameSide(q, delta)
  <2>1. dropped = 0
    BY <1>6 DEF Dropped
  <2>2. CASE q = 0 \/ delta = 0
    <3>1. part = 0
      BY <1>1, <2>2 DEF Reducing, SameSide, Size
    <3>2. after = before + paid
      <4>1. CASE delta = 0
        <5>1. q = 0 \/ m.avg = a
          BY <1>1, <4>1 DEF Moved, SameSide
        <5>2. q * l * m.avg = q * l * a /\ 0 * l * at = 0
          <6> DEFINE n == m.avg
          <6>1. n \in Int
            BY <1>1
          <6> HIDE DEF q, a, l, n
          <6>2. q = 0 => q * l * n = 0 /\ q * l * a = 0
            BY <1>1, <6>1
          <6>3. 0 * l * at = 0
            BY <1>1
          <6> QED
            BY <5>1, <6>2, <6>3 DEF n
        <5>3. (q + delta) = q
          BY <1>1, <4>1
        <5> HIDE DEF q, a, l, m, after, before, dropped
        <5> QED
          BY <1>1, <1>2, <1>3, <4>1, <5>2, <5>3
      <4>2. CASE q = 0 /\ delta # 0
        <5>1. m.avg = at
          BY <1>1, <4>2 DEF Moved, SameSide
        <5>2. q + delta = delta /\ 0 * l * a = 0
          BY <1>1, <4>2
        <5> HIDE DEF q, a, l, m, after, before, dropped
        <5> QED
          BY <1>1, <1>2, <1>3, <4>2, <5>1, <5>2
      <4> QED
        BY <2>2, <4>1, <4>2
    <3> HIDE DEF after, before, paid, dropped, realized, part
    <3> QED
      BY <1>3, <2>1, <3>1, <3>2
  <2>3. CASE q > 0 /\ delta < 0 /\ -delta < q
    <3>1. part > 0 /\ m.avg = a /\ realized = (-delta) * l * (at - a)
      BY <1>1, <2>3 DEF Reducing, Realized, PnL, Size, SameSide, Moved
    <3>2. after = before + paid + realized
      <4> HIDE DEF q, a, l, m, after, before, realized
      <4> QED
        BY <1>1, <1>2, <3>1, Shrunk DEF paid
    <3> HIDE DEF after, before, paid, dropped, realized, part
    <3> QED
      BY <1>3, <2>1, <3>1, <3>2
  <2>4. CASE q > 0 /\ delta < 0 /\ ~(-delta < q)
    <3>1. part > 0 /\ realized = q * l * (at - a)
      BY <1>1, <2>4 DEF Reducing, Realized, PnL, Size, SameSide
    <3>2. after = (q + delta) * l * at
      <4>1. q + delta = 0 \/ m.avg = at
        BY <1>1, <2>4 DEF SameSide, Moved
      <4>2. q + delta \in Int /\ (q + delta = 0 => (q + delta) * l * m.avg = (q + delta) * l * at)
        BY <1>1
      <4> QED
        BY <1>2, <4>1, <4>2
    <3>3. after = before + paid + realized
      <4> HIDE DEF q, a, l, m, after, before, realized
      <4> QED
        BY <1>1, <1>2, <3>1, <3>2, Turned DEF paid
    <3> HIDE DEF after, before, paid, dropped, realized, part
    <3> QED
      BY <1>3, <2>1, <3>1, <3>3
  <2>5. CASE q < 0 /\ delta > 0 /\ delta < -q
    <3>1. part > 0 /\ m.avg = a /\ realized = delta * l * (a - at)
      BY <1>1, <2>5 DEF Reducing, Realized, PnL, Size, SameSide, Moved
    <3>2. after = before + paid + realized
      <4> HIDE DEF q, a, l, m, after, before, realized
      <4> QED
        BY <1>1, <1>2, <3>1, Shrunk DEF paid
    <3> HIDE DEF after, before, paid, dropped, realized, part
    <3> QED
      BY <1>3, <2>1, <3>1, <3>2
  <2>6. CASE q < 0 /\ delta > 0 /\ ~(delta < -q)
    <3>1. part > 0 /\ realized = (-q) * l * (a - at)
      BY <1>1, <2>6 DEF Reducing, Realized, PnL, Size, SameSide
    <3>2. after = (q + delta) * l * at
      <4>1. q + delta = 0 \/ m.avg = at
        BY <1>1, <2>6 DEF SameSide, Moved
      <4>2. q + delta \in Int /\ (q + delta = 0 => (q + delta) * l * m.avg = (q + delta) * l * at)
        BY <1>1
      <4> QED
        BY <1>2, <4>1, <4>2
    <3>3. after = before + paid + realized
      <4> HIDE DEF q, a, l, m, after, before, realized
      <4> QED
        BY <1>1, <1>2, <3>1, <3>2, Turned DEF paid
    <3> HIDE DEF after, before, paid, dropped, realized, part
    <3> QED
      BY <1>3, <2>1, <3>1, <3>3
  <2> QED
    BY <1>1, <1>6, <2>2, <2>3, <2>4, <2>5, <2>6 DEF SameSide
<1> QED
  BY <1>5, <1>6

-------------------------------------------------------------------------------
(* Types. *)

LEMMA SlippageType == SlippagePct \in 0..99 /\ Capital \in Nat /\ Quotes \subseteq [Tickers -> Nat]
BY CapitalAssumption, QuotesAssumption

LEMMA MarketNavType ==
  ASSUME NEW money \in Int, NEW held \in [Tickers -> Position],
         NEW prices \in [Tickers -> Nat]
  PROVE  Nav(money, held, prices) \in Int
<1> DEFINE value == [t \in Tickers |-> MarketValue(t, held[t], prices[t])]
<1>1. ASSUME NEW t \in Tickers PROVE MarketValue(t, held[t], prices[t]) \in Int
  <2>1. /\ held[t].qty \in Int /\ Lot[t] \in Int
        /\ (IF prices[t] > 0 THEN prices[t] ELSE held[t].avg) \in Int
    BY LotType DEF Position
  <2> QED
    BY <2>1, Products DEF MarketValue
<1>2. value \in [Tickers -> Int]
  BY <1>1
<1>3. Total(value) \in Int
  BY <1>2, TotalType
<1> QED
  BY <1>3 DEF Nav

LEMMA ContextType ==
  ASSUME TypeOK, NEW t \in Tickers, NEW sigma \in Sigmas, NEW sound \in BOOLEAN
  PROVE  Context(t, sigma, sound) \in Contexts
<1>1. {eqHistory[i] : i \in DOMAIN eqHistory} \in SUBSET Int
  <2>1. \A i \in DOMAIN eqHistory : eqHistory[i] \in Int
    BY DEF TypeOK
  <2> QED
    BY <2>1
<1>2. sigma \in Nat
  BY InputsAssumption
<1>3. /\ cash \in Int /\ pos \in [Tickers -> Position] /\ raw[t] \in Nat
      /\ nav \in Int /\ spent \in Nat
  BY DEF TypeOK
<1>4. \A S : {s \in Steps : s \in S} \subseteq Steps
  OBVIOUS
<1> QED
  BY <1>1, <1>2, <1>3 DEF Context, Contexts, Session

\* The account after a fill.
LEMMA FillType ==
  ASSUME TypeOK, NEW t \in Tickers, NEW delta \in Int, Fill(t, delta)
  PROVE  /\ cash' \in Int /\ pos' \in [Tickers -> Position]
         /\ pnl' \in Int /\ fees' \in Nat /\ rounded' \in Int /\ opened' \in Nat
         /\ flatAt' \in Nat
<1> DEFINE at == ExecPrice(t, delta)
           lots == IF delta < 0 THEN -delta ELSE delta
           fee == Commission(Notional(t, lots, at))
<1>1. at \in Nat /\ pos[t] \in Position /\ raw[t] \in Nat /\ lots \in Nat
  BY PriceType DEF TypeOK
<1>2. fee \in Nat
  BY <1>1, NotionalType, CommissionType
<1>3. /\ cash' = cash - delta * Lot[t] * at - fee
      /\ pos' = [pos EXCEPT ![t] = Moved(pos[t], delta, at)]
      /\ pnl' \in {pnl, pnl + Realized(t, pos[t], delta, at) - fee}
      /\ fees' \in {fees, fees + fee}
      /\ rounded' = rounded + Dropped(t, pos[t], delta, at)
      /\ opened' = opened + Notional(t, Opening(pos[t], delta), raw[t])
  BY DEF Fill
<1> HIDE DEF at, lots, fee
<1>4. Moved(pos[t], delta, at) \in Position
  BY <1>1, MovedType
<1>5. /\ delta * Lot[t] * at \in Int /\ Realized(t, pos[t], delta, at) \in Int
      /\ Dropped(t, pos[t], delta, at) \in Int
  BY <1>1, FillTypes
<1>6. Notional(t, Opening(pos[t], delta), raw[t]) \in Nat
  BY <1>1, OpeningType, NotionalType
<1>7. cash \in Int /\ pos \in [Tickers -> Position] /\ pnl \in Int /\ fees \in Nat
      /\ rounded \in Int /\ opened \in Nat
  BY DEF TypeOK
<1> DEFINE paid == delta * Lot[t] * at
<1> HIDE DEF paid
<1>8. cash' \in Int
  BY <1>2, <1>3, <1>5, <1>7 DEF paid
<1>9. pos' \in [Tickers -> Position]
  BY <1>3, <1>4, <1>7
<1>10. flatAt' \in Nat
  <2>1. flatAt' \in {flatAt, Len(eqHistory)}
    BY DEF Fill
  <2>2. flatAt \in Nat /\ Len(eqHistory) \in Nat
    BY DEF TypeOK
  <2> QED
    BY <2>1, <2>2
<1> QED
  BY <1>2, <1>3, <1>5, <1>6, <1>7, <1>8, <1>9, <1>10

\* What the officer lets through, as EvaluateSound has it.
LEMMA OrderSound ==
  ASSUME TypeOK, NEW t \in Tickers, NEW d \in [signal : Signals, size : Sizes],
         NEW sigma \in Sigmas, NEW sound \in BOOLEAN,
         Evaluate(t, d, Context(t, sigma, sound)).op \in OpeningOps \cup ReducingOps
  PROVE  LET v == Evaluate(t, d, Context(t, sigma, sound))
         IN  /\ v \in Verdicts /\ v.close \in Nat /\ v.open \in Nat
             /\ v.step \in Steps \cup {"none"} /\ v.close + v.open \in Nat
             /\ Direction(v, d.signal) * (v.close + v.open) \in Int
             /\ Reduces(v, pos[t]) \/ Enlarges(v, t, Context(t, sigma, sound))
<1> DEFINE c == Context(t, sigma, sound)
           v == Evaluate(t, d, c)
<1>1. c \in Contexts /\ d \in Decisions
  BY ContextType, InputsAssumption DEF Decisions
<1>2. c.pos = pos
  BY DEF Context
<1> HIDE DEF c
<1>3. v \in {Hold, Block} \/ Reduces(v, c.pos[t]) \/ Enlarges(v, t, c)
  BY <1>1, EvaluateSound
<1>4. v.op \in OpeningOps \cup ReducingOps
  BY DEF c
<1> HIDE DEF v
<1>5. v \notin {Hold, Block}
  BY <1>4 DEF Hold, Block, Verdict, OpeningOps, ReducingOps, Sells, Covers
<1>6. v \in Verdicts /\ (Reduces(v, pos[t]) \/ Enlarges(v, t, c))
  BY <1>2, <1>3, <1>5 DEF Reduces, Enlarges
<1>7. v.close \in Nat /\ v.open \in Nat /\ v.step \in Steps \cup {"none"}
  BY <1>6 DEF Verdicts
<1>8. Direction(v, d.signal) \in {1, -1}
  BY DEF Direction
<1>9. Direction(v, d.signal) * (v.close + v.open) \in Int
  BY <1>7, <1>8
<1> QED
  BY <1>6, <1>7, <1>9 DEF v, c

LEMMA InitType == Init => TypeOK
<1> SUFFICES ASSUME Init PROVE TypeOK
  OBVIOUS
<1>1. close \in [Tickers -> Nat] /\ applyRisk \in BOOLEAN
  BY QuotesAssumption, InputsAssumption DEF Init
<1>2. Flat \in Position
  BY DEF Flat, Position
<1>3. bar \in 0..MaxBars /\ cash \in Int
  BY CapitalAssumption, BarsAssumption DEF Init
<1>4. raw \in [Tickers -> Nat] /\ pos \in [Tickers -> Position]
  BY <1>2 DEF Init, NoPrice
<1>5. eqHistory \in Seq(Int) /\ trading \in BOOLEAN
  <2>1. <<>> \in Seq(Int)
    OBVIOUS
  <2> QED
    BY <2>1 DEF Init
<1>6. todo \in SUBSET Tickers /\ done \in SUBSET LadderStep
  BY DEF Init
<1>7. /\ nav \in Int /\ spent \in Nat
      /\ pnl \in Int /\ fees \in Nat /\ rounded \in Int /\ opened \in Nat
      /\ flatAt \in Nat
  BY DEF Init
<1> QED
  BY <1>1, <1>3, <1>4, <1>5, <1>6, <1>7 DEF TypeOK

LEMMA StartBarType == TypeOK /\ StartBar => TypeOK'
<1> SUFFICES ASSUME TypeOK, StartBar PROVE TypeOK'
  OBVIOUS
<1>1. nav' \in Int /\ raw' \in [Tickers -> Nat]
  BY MarketNavType, QuotesAssumption DEF TypeOK, StartBar
<1> QED
  BY <1>1 DEF TypeOK, StartBar, account

LEMMA EndBarType == TypeOK /\ (trading => bar < MaxBars) /\ EndBar => TypeOK'
<1> SUFFICES ASSUME TypeOK, trading => bar < MaxBars, EndBar PROVE TypeOK'
  OBVIOUS
<1>1. close' \in [Tickers -> Nat]
  BY QuotesAssumption DEF EndBar
<1>2. Nav(cash, pos, close') \in Int
  BY <1>1, MarketNavType DEF TypeOK
<1>3. eqHistory' \in Seq(Int)
  BY <1>2 DEF TypeOK, EndBar
<1>4. bar' \in 0..MaxBars
  BY BarsAssumption DEF TypeOK, EndBar
<1>5. raw' \in [Tickers -> Nat] /\ trading' \in BOOLEAN
  BY DEF EndBar, NoPrice
<1>7. nav' \in Int /\ spent' \in Nat /\ opened' \in Nat /\ flatAt' \in Nat
  <2>1. Len(eqHistory') \in Nat
    BY <1>3
  <2> QED
    BY <2>1 DEF EndBar, TypeOK
<1>6. UNCHANGED <<applyRisk, todo, cash, pos, pnl, fees, rounded, done>>
  BY DEF EndBar, account
<1> QED
  BY <1>1, <1>3, <1>4, <1>5, <1>6, <1>7 DEF TypeOK

LEMMA TradeCheckedType ==
  ASSUME TypeOK, NEW t \in Tickers, NEW d \in [signal : Signals, size : Sizes],
         NEW sigma \in Sigmas, NEW sound \in BOOLEAN, TradeChecked(t, d, sigma, sound)
  PROVE  TypeOK'
<1> DEFINE v == Evaluate(t, d, Context(t, sigma, sound))
           lots == v.close + v.open
           delta == Direction(v, d.signal) * lots
<1>1. /\ v.op \in OpeningOps \cup ReducingOps /\ Fill(t, delta)
      /\ spent' = spent + (IF CountsAsOpening(v.op) THEN Notional(t, lots, raw[t]) ELSE 0)
      /\ done' = done \cup (IF v.step = "none" THEN {}
                            ELSE {[t |-> t, long |-> pos[t].qty > 0, avg |-> pos[t].avg,
                                   step |-> v.step]})
      /\ todo' = todo \ {t}
      /\ UNCHANGED <<applyRisk, bar, trading, close, raw, nav, eqHistory>>
  BY DEF TradeChecked, Done, bars
<1>2. lots \in Nat /\ delta \in Int /\ v.step \in Steps \cup {"none"}
  BY <1>1, OrderSound
<1> HIDE DEF delta, lots, v
<1>3. /\ cash' \in Int /\ pos' \in [Tickers -> Position]
      /\ pnl' \in Int /\ fees' \in Nat /\ rounded' \in Int /\ opened' \in Nat
         /\ flatAt' \in Nat
  BY <1>1, <1>2, FillType
<1>4. spent' \in Nat
  <2>1. Notional(t, lots, raw[t]) \in Nat /\ spent \in Nat
    BY <1>2, NotionalType DEF TypeOK
  <2> QED
    BY <1>1, <2>1
<1>5. done' \in SUBSET LadderStep
  <2>1. pos[t].avg \in Nat /\ (pos[t].qty > 0) \in BOOLEAN
    BY DEF TypeOK, Position
  <2>2. v.step # "none" => [t |-> t, long |-> pos[t].qty > 0, avg |-> pos[t].avg,
                            step |-> v.step] \in LadderStep
    BY <1>2, <2>1 DEF LadderStep
  <2> QED
    BY <1>1, <2>2 DEF TypeOK
<1> QED
  BY <1>1, <1>3, <1>4, <1>5 DEF TypeOK

LEMMA UncheckedType ==
  ASSUME TypeOK, NEW t \in Tickers, NEW size \in Nat
  PROVE  UncheckedLots(t, size) \in Nat
<1> DEFINE money == IF nav > 0 THEN nav ELSE 0
<1>1. money \in Int /\ raw[t] \in Nat /\ Lot[t] \in Nat /\ Lot[t] > 0
  BY LotType DEF TypeOK
<1> HIDE DEF money
<1>2. size \in Int /\ 100 \in Nat /\ 100 > 0
  OBVIOUS
<1>3. QuantityForBuy(money, size, 100, raw[t], Lot[t]) \in Nat
  BY <1>1, <1>2, QuantityType
<1> QED
  BY <1>3 DEF UncheckedLots, money

LEMMA TradeUncheckedType ==
  ASSUME TypeOK, NEW t \in Tickers, NEW d \in [signal : Signals, size : Sizes],
         TradeUnchecked(t, d)
  PROVE  TypeOK'
<1> DEFINE lots == UncheckedLots(t, d.size)
           delta == IF d.signal = "BUY" THEN lots ELSE -lots
<1>1. /\ Fill(t, delta)
      /\ spent' \in {spent, spent + Notional(t, lots, raw[t]), spent + 0}
      /\ todo' = todo \ {t}
      /\ UNCHANGED <<applyRisk, bar, trading, close, raw, nav, eqHistory, done>>
  BY DEF TradeUnchecked, Done, bars
<1>2. lots \in Nat /\ delta \in Int
  <2>1. d.size \in Nat
    BY InputsAssumption
  <2>2. lots \in Nat
    BY <2>1, UncheckedType
  <2> HIDE DEF lots
  <2> QED
    BY <2>2
<1> HIDE DEF delta, lots
<1>3. /\ cash' \in Int /\ pos' \in [Tickers -> Position]
      /\ pnl' \in Int /\ fees' \in Nat /\ rounded' \in Int /\ opened' \in Nat
         /\ flatAt' \in Nat
  BY <1>1, <1>2, FillType
<1>4. spent' \in Nat
  <2>1. Notional(t, lots, raw[t]) \in Nat /\ spent \in Nat
    BY <1>2, NotionalType DEF TypeOK
  <2> QED
    BY <1>1, <2>1
<1> QED
  BY <1>1, <1>3, <1>4 DEF TypeOK

-------------------------------------------------------------------------------
(* The books. *)

LEMMA FillKeepsBooks ==
  ASSUME TypeOK, BooksBalance, NEW t \in Tickers, NEW delta \in Int, Fill(t, delta)
  PROVE  BooksBalance'
<1> DEFINE at == ExecPrice(t, delta)
           lots == IF delta < 0 THEN -delta ELSE delta
           fee == Commission(Notional(t, lots, at))
           new == Moved(pos[t], delta, at)
           book == [u \in Tickers |-> BookValue(u, pos[u])]
           paid == delta * Lot[t] * at
           dropped == Dropped(t, pos[t], delta, at)
           realized == Realized(t, pos[t], delta, at)
           part == Reducing(pos[t], delta)
<1>1. at \in Nat /\ pos[t] \in Position /\ lots \in Nat
  BY PriceType DEF TypeOK
<1>2. fee \in Nat
  BY <1>1, NotionalType, CommissionType
<1>3. /\ cash' = cash - paid - fee
      /\ pos' = [pos EXCEPT ![t] = new]
      /\ pnl' = IF part > 0 THEN pnl + realized - fee ELSE pnl
      /\ fees' = IF part > 0 THEN fees ELSE fees + fee
      /\ rounded' = rounded + dropped
  BY DEF Fill
<1>4. new \in Position /\ paid \in Int /\ realized \in Int /\ dropped \in Int
  BY <1>1, MovedType, FillTypes
<1>5. BookValue(t, new) + dropped = BookValue(t, pos[t]) + paid
                                    + IF part > 0 THEN realized ELSE 0
  BY <1>1, FillBalances
<1>6. pos \in [Tickers -> Position] /\ cash \in Int /\ pnl \in Int /\ fees \in Nat
      /\ rounded \in Int /\ Capital \in Int
  BY CapitalAssumption DEF TypeOK
<1> HIDE DEF at, lots, fee, new, paid, dropped, realized, part
<1>7. BookValue(t, new) \in Int /\ BookValue(t, pos[t]) \in Int
      /\ \A u \in Tickers : BookValue(u, pos[u]) \in Int
  BY <1>4, <1>6, BookType
<1>8. book \in [Tickers -> Int] /\ book[t] = BookValue(t, pos[t])
  BY <1>7
<1>9. [u \in Tickers |-> BookValue(u, pos'[u])] = [book EXCEPT ![t] = BookValue(t, new)]
  BY <1>3, <1>6
<1> HIDE DEF book
<1>10. Total([book EXCEPT ![t] = BookValue(t, new)])
         = Total(book) - book[t] + BookValue(t, new)
  BY <1>7, <1>8, TotalChanged
<1>11. Total(book) \in Int
  BY <1>8, TotalType
<1>12. cash + Total(book) + rounded = Capital + pnl - fees
  BY DEF BooksBalance, book
<1>13. cash' + (Total(book) - book[t] + BookValue(t, new)) + rounded' = Capital + pnl' - fees'
  BY <1>2, <1>3, <1>4, <1>5, <1>6, <1>7, <1>8, <1>11, <1>12
<1> QED
  BY <1>9, <1>10, <1>13 DEF BooksBalance

LEMMA BooksKept ==
  ASSUME BooksBalance, UNCHANGED <<cash, pos, pnl, fees, rounded>>
  PROVE  BooksBalance'
BY DEF BooksBalance

LEMMA BooksOpen == Init => BooksBalance
<1> SUFFICES ASSUME Init PROVE BooksBalance
  OBVIOUS
<1>1. pos = [t \in Tickers |-> Flat] /\ cash = Capital /\ pnl = 0 /\ fees = 0 /\ rounded = 0
  BY DEF Init
<1>2. \A t \in Tickers : BookValue(t, pos[t]) = 0
  <2> TAKE t \in Tickers
  <2>1. pos[t].qty = 0 /\ pos[t].avg = 0 /\ Lot[t] \in Int
    BY <1>1, LotType DEF Flat
  <2>2. 0 * Lot[t] = 0 /\ 0 * 0 = 0
    BY <2>1
  <2> QED
    BY <2>1, <2>2 DEF BookValue
<1>3. [t \in Tickers |-> BookValue(t, pos[t])] = [t \in Tickers |-> 0]
  BY <1>2
<1> QED
  BY <1>1, <1>3, TotalOfNothing, CapitalAssumption DEF BooksBalance

-------------------------------------------------------------------------------
(* What is opened. *)

\* A trade that opens more than was open is an opening that passed the gates,
\* and opens what its verdict says at most.
LEMMA TradeOpens ==
  ASSUME TypeOK, NEW t \in Tickers, NEW d \in [signal : Signals, size : Sizes],
         NEW sigma \in Sigmas, NEW sound \in BOOLEAN, TradeChecked(t, d, sigma, sound)
  PROVE  \/ opened' = opened /\ spent' = spent
         \/ LET c == Context(t, sigma, sound)
                v == Evaluate(t, d, c)
            IN  /\ opened' <= opened + Notional(t, v.open, raw[t])
                /\ opened' >= opened
                /\ spent' >= spent + Notional(t, v.open, raw[t])
                /\ v.open \in Nat
                /\ TickGate(c, TotalCost(t, v.open, raw[t]))
                /\ \E flip \in BOOLEAN : OpeningPasses(t, d, c, flip)
<1> DEFINE c == Context(t, sigma, sound)
           v == Evaluate(t, d, c)
           lots == v.close + v.open
           delta == Direction(v, d.signal) * lots
           p == pos[t]
<1>1. /\ v.op \in OpeningOps \cup ReducingOps /\ lots > 0
      /\ opened' = opened + Notional(t, Opening(p, delta), raw[t])
      /\ spent' = spent + (IF CountsAsOpening(v.op) THEN Notional(t, lots, raw[t]) ELSE 0)
  BY DEF TradeChecked, Fill
<1>2. /\ v.close \in Nat /\ v.open \in Nat /\ lots \in Nat /\ delta \in Int
      /\ Reduces(v, p) \/ Enlarges(v, t, c)
  BY <1>1, OrderSound
<1>3. c \in Contexts /\ d \in Decisions /\ c.price = raw[t] /\ c.pos = pos
  <2>1. c.price = raw[t] /\ c.pos = pos
    BY DEF Context
  <2> HIDE DEF c
  <2>2. c \in Contexts /\ d \in Decisions
    BY ContextType, InputsAssumption DEF Decisions, c
  <2> QED
    BY <2>1, <2>2
<1>4. p \in Position /\ raw[t] \in Nat /\ opened \in Nat /\ spent \in Nat
  BY DEF TypeOK
<1>5. v.op \in OpeningOps => /\ \E flip \in BOOLEAN : OpeningPasses(t, d, c, flip)
                             /\ v.op = "flip_short_to_long" => d.signal = "BUY"
                             /\ v.op = "flip_long_to_short" => d.signal # "BUY"
  BY <1>3, OpeningPassed
<1> HIDE DEF c, v, p
<1>6. CASE Reduces(v, p)
  <2>1. /\ v.op \in ReducingOps /\ v.open = 0 /\ v.close <= Size(p) /\ p.qty # 0
        /\ (v.op \in Covers <=> p.qty < 0)
    BY <1>6 DEF Reduces
  <2>2. delta = IF p.qty < 0 THEN v.close ELSE -v.close
    BY <1>2, <2>1 DEF Direction, ReducingOps
  <2>3. v.close > 0 /\ p.qty \in Int
    BY <1>1, <1>2, <1>4, <2>1 DEF Position
  <2>4. SameSide(p.qty, -delta) /\ (IF delta < 0 THEN -delta ELSE delta) <= Size(p)
    BY <1>2, <2>1, <2>2, <2>3 DEF SameSide
  <2> HIDE DEF delta
  <2>5. Opening(p, delta) = 0
    BY <1>2, <1>4, <2>4, ReductionOpensNothing
  <2>6. opened' = opened
    BY <1>1, <1>4, <2>5, NotionalZero
  <2>7. spent' = spent
    BY <1>1, <1>4, <2>1 DEF CountsAsOpening
  <2> QED
    BY <2>6, <2>7
<1>7. CASE Enlarges(v, t, c)
  <2>1. /\ v.op \in OpeningOps /\ TickGate(c, TotalCost(t, v.open, raw[t]))
    BY <1>3, <1>7 DEF Enlarges
  <2>2. \/ v.close = 0
        \/ /\ v.close = Size(p)
           /\ \/ v.op = "flip_short_to_long" /\ p.qty < 0
              \/ v.op = "flip_long_to_short" /\ p.qty > 0
    BY <1>3, <1>7 DEF Enlarges, p
  <2>3. delta = IF d.signal = "BUY" THEN lots ELSE -lots
    BY <1>2, <2>1 DEF Direction, OpeningOps, Sells, Covers
  <2>4. Opening(p, delta) \in Nat /\ Opening(p, delta) <= v.open
    <3>1. CASE v.close = 0
      <4>1. (IF delta < 0 THEN -delta ELSE delta) = v.open
        BY <1>2, <2>3, <3>1
      <4> HIDE DEF delta
      <4> QED
        BY <1>2, <1>4, <4>1, OpeningType
    <3>2. CASE v.close # 0
      <4>1. p.qty \in Int /\ v.close = Size(p) /\ (d.signal = "BUY" <=> p.qty < 0) /\ p.qty # 0
        BY <1>4, <1>5, <2>1, <2>2, <3>2 DEF Position
      <4>2. Reducing(p, delta) = v.close
        <5>1. Size(p) \in Nat /\ lots >= Size(p) /\ Size(p) > 0
          BY <1>2, <1>4, <4>1, SizeType
        <5>2. (IF delta < 0 THEN -delta ELSE delta) = lots /\ ~SameSide(p.qty, delta)
          BY <1>2, <2>3, <4>1, <5>1 DEF SameSide
        <5> HIDE DEF delta, lots
        <5> QED
          BY <1>2, <4>1, <5>1, <5>2 DEF Reducing
      <4>3. (IF delta < 0 THEN -delta ELSE delta) = lots
        BY <1>2, <2>3
      <4> QED
        BY <1>2, <4>2, <4>3 DEF Opening
    <3> QED
      BY <3>1, <3>2
  <2> HIDE DEF delta
  <2>5. /\ Notional(t, Opening(p, delta), raw[t]) <= Notional(t, v.open, raw[t])
        /\ Notional(t, Opening(p, delta), raw[t]) \in Nat
        /\ Notional(t, v.open, raw[t]) <= Notional(t, lots, raw[t])
        /\ Notional(t, v.open, raw[t]) \in Nat /\ Notional(t, lots, raw[t]) \in Nat
    <3>1. v.open <= lots
      BY <1>2
    <3> HIDE DEF lots
    <3> QED
      BY <1>2, <1>4, <2>4, <3>1, NotionalMonotone, NotionalType
  <2>6. CountsAsOpening(v.op)
    BY <2>1 DEF CountsAsOpening, OpeningOps, ReducingOps, Sells, Covers
  <2> HIDE DEF lots
  <2>7. opened' <= opened + Notional(t, v.open, raw[t]) /\ opened' >= opened
        /\ spent' >= spent + Notional(t, v.open, raw[t])
    BY <1>1, <1>4, <2>5, <2>6
  <2> QED
    BY <1>2, <1>5, <2>1, <2>7 DEF v, c
<1> QED
  BY <1>2, <1>6, <1>7

\* What is opened is spent.
OpenedIsSpent == applyRisk /\ trading => opened <= spent

LEMMA BudgetArithmetic ==
  ASSUME NEW before \in Nat, NEW after \in Nat, NEW spending \in Nat, NEW n \in Nat,
         NEW cost \in Nat, NEW budget \in Int, before <= spending, after <= before + n,
         n <= cost, 100 * (spending + cost) <= budget
  PROVE  100 * after <= budget
  OBVIOUS

LEMMA TradeWithinBudget ==
  ASSUME TypeOK, OpenedIsSpent, BarBudgetRespected,
         NEW t \in Tickers, NEW d \in [signal : Signals, size : Sizes],
         NEW sigma \in Sigmas, NEW sound \in BOOLEAN, TradeChecked(t, d, sigma, sound)
  PROVE  /\ OpenedIsSpent' /\ BarBudgetRespected'
         /\ Settings.MAX_TICK_BUY > 0 /\ opened' > opened => nav > 0
<1> DEFINE c == Context(t, sigma, sound)
           v == Evaluate(t, d, c)
           n == Notional(t, v.open, raw[t])
           cost == TotalCost(t, v.open, raw[t])
<1>1. applyRisk /\ trading /\ UNCHANGED <<applyRisk, trading, nav>>
  BY DEF TradeChecked, bars
<1>2. /\ nav \in Int /\ spent \in Nat /\ opened \in Nat /\ raw[t] \in Nat
      /\ Settings.MAX_TICK_BUY \in Nat /\ opened' \in Nat /\ spent' \in Nat
  BY SettingsType, TradeCheckedType DEF TypeOK
<1>3. CASE opened' = opened /\ spent' = spent
  <2>1. OpenedIsSpent' /\ BarBudgetRespected'
    BY <1>1, <1>3 DEF OpenedIsSpent, BarBudgetRespected
  <2> QED
    BY <1>2, <1>3, <2>1
<1>4. CASE ~(opened' = opened /\ spent' = spent)
  <2>1. /\ opened' <= opened + n /\ spent' >= spent + n
        /\ v.open \in Nat /\ TickGate(c, cost)
    BY <1>4, TradeOpens
  <2>2. Settings.MAX_TICK_BUY > 0 => 100 * (spent + cost) <= Settings.MAX_TICK_BUY * nav
    BY <2>1 DEF TickGate, BudgetBase, Context
  <2>3. n \in Nat /\ cost \in Nat /\ n <= cost
    <3> HIDE DEF v
    <3>1. n \in Nat
      BY <1>2, <2>1, NotionalType
    <3>2. Commission(n) \in Nat
      BY <3>1, CommissionType
    <3>3. cost = n + Commission(n)
      BY DEF TotalCost
    <3> HIDE DEF n, cost
    <3> QED
      BY <3>1, <3>2, <3>3
  <2> HIDE DEF n, cost, v, c
  <2>4. opened <= spent
    BY <1>1 DEF OpenedIsSpent
  <2>5. OpenedIsSpent'
    BY <1>2, <2>1, <2>3, <2>4 DEF OpenedIsSpent
  <2>6. ASSUME Settings.MAX_TICK_BUY > 0
        PROVE  100 * opened' <= Settings.MAX_TICK_BUY * nav
    <3>1. Settings.MAX_TICK_BUY * nav \in Int
      BY <1>2, ProductInt
    <3>2. 100 * (spent + cost) <= Settings.MAX_TICK_BUY * nav
      BY <2>2, <2>6
    <3>3. opened' <= opened + n
      BY <2>1
    <3> QED
      BY <1>2, <2>3, <2>4, <3>1, <3>2, <3>3, BudgetArithmetic
  <2>7. ASSUME Settings.MAX_TICK_BUY > 0
        PROVE  /\ 100 * opened' <= Settings.MAX_TICK_BUY * (IF nav > 0 THEN nav ELSE 0)
               /\ opened' > 0 => nav > 0
    BY <1>2, <2>6, <2>7, BudgetSign
  <2>8. BarBudgetRespected'
    BY <1>1, <2>7 DEF BarBudgetRespected
  <2>9. Settings.MAX_TICK_BUY > 0 /\ opened' > opened => nav > 0
    <3>1. opened' > opened => opened' > 0
      BY <1>2
    <3> QED
      BY <2>7, <3>1
  <2> QED
    BY <2>5, <2>8, <2>9
<1> QED
  BY <1>3, <1>4

-------------------------------------------------------------------------------
(* The drawdown. *)

\* Nothing is opened below the drawdown from any earlier close.
LEMMA TradeWithinDrawdown ==
  ASSUME TypeOK, OpenedIsSpent, BarBudgetRespected,
         Settings.MAX_DRAWDOWN <= 100, Settings.MAX_TICK_BUY > 0,
         NEW t \in Tickers, NEW d \in [signal : Signals, size : Sizes],
         NEW sigma \in Sigmas, NEW sound \in BOOLEAN, TradeChecked(t, d, sigma, sound),
         opened' > opened, \E u \in Tickers : pos[u].qty # 0,
         NEW i \in DOMAIN eqHistory
  PROVE  100 * (eqHistory[i] - nav) < Settings.MAX_DRAWDOWN * eqHistory[i]
<1> DEFINE c == Context(t, sigma, sound)
<1>1. eqHistory \in Seq(Int) /\ opened \in Nat
  BY DEF TypeOK
<1>2. nav > 0
  BY TradeWithinBudget
<1>3. ~KillSwitchMdd(c)
  BY <1>1, TradeOpens DEF OpeningPasses
<1>4. c \in Contexts
  BY ContextType
<1>5. /\ c.nav = nav /\ c.pos = pos
      /\ c.history = {eqHistory[j] : j \in DOMAIN eqHistory}
  BY DEF Context
<1> HIDE DEF c
<1> QED
  BY <1>1, <1>2, <1>3, <1>4, <1>5, DrawdownGate

-------------------------------------------------------------------------------
(* The caps. *)

\* A position a trade has enlarged is within both caps.
LEMMA TradeWithinCaps ==
  ASSUME TypeOK, NEW t \in Tickers, NEW d \in [signal : Signals, size : Sizes],
         NEW sigma \in Sigmas, NEW sound \in BOOLEAN, TradeChecked(t, d, sigma, sound),
         Size(pos'[t]) > Size(pos[t]), cash <= nav
  PROVE  LET held == Notional(t, Size(pos'[t]), raw[t])
             others == Total([u \in Tickers |->
                         IF u # t /\ Sector[u] = Sector[t]
                         THEN Notional(u, Size(pos[u]), pos[u].avg) ELSE 0])
         IN  /\ 100 * held <= Settings.MAX_INSTRUMENT * nav
             /\ 100 * (held + others) <= Settings.MAX_SECTOR * nav
<1> DEFINE c == Context(t, sigma, sound)
           v == Evaluate(t, d, c)
           lots == v.close + v.open
           delta == Direction(v, d.signal) * lots
           p == pos[t]
           other == [u \in Tickers |-> IF u # t /\ Sector[u] = Sector[t]
                                       THEN Notional(u, Size(pos[u]), pos[u].avg) ELSE 0]
<1>1. /\ v.op \in OpeningOps \cup ReducingOps /\ lots > 0
      /\ pos' = [pos EXCEPT ![t] = Moved(p, delta, ExecPrice(t, delta))]
  BY DEF TradeChecked, Fill
<1>2. /\ v.close \in Nat /\ v.open \in Nat /\ lots \in Nat /\ delta \in Int
      /\ Reduces(v, p) \/ Enlarges(v, t, c)
  BY <1>1, OrderSound
<1>3. c.price = raw[t] /\ c.pos = pos /\ c.cash = cash /\ c.nav = nav
  BY DEF Context
<1>4. c \in Contexts /\ d \in Decisions
  BY ContextType, InputsAssumption DEF Decisions
<1>5. p \in Position /\ p.qty \in Int /\ raw[t] \in Nat /\ nav \in Int
      /\ pos \in [Tickers -> Position]
  BY DEF TypeOK, Position
<1>6. pos'[t].qty = p.qty + delta
  <2> HIDE DEF delta
  <2>1. ExecPrice(t, delta) \in Nat
    BY <1>2, PriceType DEF TypeOK
  <2>2. Moved(p, delta, ExecPrice(t, delta)).qty = p.qty + delta
    BY <1>2, <1>5, <2>1, MovedType
  <2> QED
    BY <1>1, <1>5, <2>2
<1>7. v.op \in OpeningOps
  <2> SUFFICES ASSUME v.op \notin OpeningOps PROVE FALSE
    OBVIOUS
  <2> HIDE DEF v, c
  <2>1. Reduces(v, p)
    BY <1>2 DEF Enlarges
  <2>2. /\ v.op \in ReducingOps /\ v.open = 0 /\ v.close <= Size(p) /\ p.qty # 0
        /\ (v.op \in Covers <=> p.qty < 0)
    BY <2>1 DEF Reduces
  <2>3. delta = IF p.qty < 0 THEN v.close ELSE -v.close
    BY <1>2, <2>2 DEF Direction, ReducingOps
  <2> QED
    BY <1>2, <1>5, <1>6, <2>2, <2>3 DEF Size
<1>8. PICK flip \in BOOLEAN :
        /\ OpeningPasses(t, d, c, flip)
        /\ v.open = OpenQty(t, d, c, flip)
        /\ v.close = (IF flip THEN Size(p) ELSE 0)
        /\ d.signal # "HOLD" /\ (flip <=> Against(d, p))
  BY <1>3, <1>4, <1>7, OpeningPassed
<1> HIDE DEF c
<1>9. /\ v.open > 0
      /\ LET held == Notional(t, IF flip THEN v.open ELSE Size(p) + v.open, raw[t])
             sum == Total(other)
         IN  /\ 100 * held <= Settings.MAX_INSTRUMENT * nav
             /\ 100 * (held + sum) <= Settings.MAX_SECTOR * nav
  BY <1>3, <1>4, <1>8, CapsGate
<1>10. delta = IF d.signal = "BUY" THEN lots ELSE -lots
  BY <1>2, <1>7 DEF Direction, OpeningOps, Sells, Covers
<1>11. Size(pos'[t]) = IF flip THEN v.open ELSE Size(p) + v.open
  <2> HIDE DEF v
  <2>1. d.signal \in {"BUY", "SELL"}
    BY <1>8 DEF Signals
  <2>2. CASE flip
    <3>1. v.close = Size(p) /\ Against(d, p) /\ v.open > 0
      BY <1>8, <1>9, <2>2
    <3>2. CASE d.signal = "BUY"
      <4>1. p.qty < 0 /\ v.close = -p.qty
        BY <1>5, <3>1, <3>2 DEF Against, Size
      <4>2. pos'[t].qty = v.open
        BY <1>2, <1>5, <1>6, <1>10, <3>2, <4>1
      <4> QED
        BY <1>2, <2>2, <3>1, <4>2 DEF Size
    <3>3. CASE d.signal = "SELL"
      <4>1. p.qty > 0 /\ v.close = p.qty
        BY <1>5, <3>1, <3>3 DEF Against, Size
      <4>2. pos'[t].qty = -v.open
        BY <1>2, <1>5, <1>6, <1>10, <3>3, <4>1
      <4> QED
        BY <1>2, <2>2, <3>1, <4>2 DEF Size
    <3> QED
      BY <2>1, <3>2, <3>3
  <2>3. CASE ~flip
    BY <1>2, <1>5, <1>6, <1>8, <1>9, <1>10, <2>1, <2>3 DEF Against, Size
  <2> QED
    BY <2>2, <2>3
<1> HIDE DEF v, delta, lots
<1> QED
  BY <1>9, <1>11

-------------------------------------------------------------------------------
(* The inductive invariant and the theorems. *)

AccountInv ==
  /\ TypeOK /\ (trading => bar < MaxBars)
  /\ BooksBalance /\ OpenedIsSpent /\ BarBudgetRespected

LEMMA InitInv == Init => AccountInv
<1> SUFFICES ASSUME Init PROVE AccountInv
  OBVIOUS
<1>1. ~trading
  BY DEF Init
<1> QED
  BY <1>1, InitType, BooksOpen DEF AccountInv, OpenedIsSpent, BarBudgetRespected

LEMMA StartBarKeeps == AccountInv /\ StartBar => AccountInv'
<1> SUFFICES ASSUME AccountInv, StartBar PROVE AccountInv'
  OBVIOUS
<1>1. TypeOK /\ BooksBalance /\ TypeOK'
  BY StartBarType DEF AccountInv
<1>2. BooksBalance'
  BY <1>1, BooksKept DEF StartBar, account
<1>3. opened' = 0 /\ spent' = 0 /\ bar' < MaxBars
  BY DEF StartBar
<1>4. ASSUME Settings.MAX_TICK_BUY > 0
      PROVE  100 * 0 <= Settings.MAX_TICK_BUY * (IF nav' > 0 THEN nav' ELSE 0)
  <2> DEFINE worth == IF nav' > 0 THEN nav' ELSE 0
  <2>1. worth \in Nat
    BY <1>1 DEF TypeOK
  <2> HIDE DEF worth
  <2>2. Settings.MAX_TICK_BUY * worth \in Nat
    BY <2>1, SettingsType, ProductNat
  <2> DEFINE most == Settings.MAX_TICK_BUY * worth
  <2>3. most \in Nat
    BY <2>2
  <2> HIDE DEF most
  <2>4. 100 * 0 <= most
    BY <2>3
  <2> QED
    BY <2>4 DEF most, worth
<1>5. OpenedIsSpent' /\ BarBudgetRespected'
  BY <1>3, <1>4 DEF OpenedIsSpent, BarBudgetRespected
<1> QED
  BY <1>1, <1>2, <1>3, <1>5 DEF AccountInv

LEMMA EndBarKeeps == AccountInv /\ EndBar => AccountInv'
<1> SUFFICES ASSUME AccountInv, EndBar PROVE AccountInv'
  OBVIOUS
<1>1. TypeOK' /\ BooksBalance
  BY EndBarType DEF AccountInv
<1>2. BooksBalance'
  BY <1>1, BooksKept DEF EndBar, account
<1>3. ~trading'
  BY DEF EndBar
<1> QED
  BY <1>1, <1>2, <1>3 DEF AccountInv, OpenedIsSpent, BarBudgetRespected

LEMMA IdleKeeps ==
  ASSUME AccountInv, todo' \in SUBSET todo, UNCHANGED <<bars, account, spent, done, opened, flatAt>>
  PROVE  AccountInv'
<1>1. TypeOK'
  BY DEF AccountInv, TypeOK, bars, account
<1>2. BooksBalance'
  BY BooksKept DEF AccountInv, account
<1> QED
  BY <1>1, <1>2 DEF AccountInv, OpenedIsSpent, BarBudgetRespected, bars

LEMMA TradeCheckedKeeps ==
  ASSUME AccountInv, NEW t \in Tickers, NEW d \in [signal : Signals, size : Sizes],
         NEW sigma \in Sigmas, NEW sound \in BOOLEAN, TradeChecked(t, d, sigma, sound)
  PROVE  AccountInv'
<1> DEFINE v == Evaluate(t, d, Context(t, sigma, sound))
           delta == Direction(v, d.signal) * (v.close + v.open)
<1>1. TypeOK /\ BooksBalance /\ OpenedIsSpent /\ BarBudgetRespected
  BY DEF AccountInv
<1>2. TypeOK' /\ OpenedIsSpent' /\ BarBudgetRespected'
  BY <1>1, TradeCheckedType, TradeWithinBudget
<1>3. Fill(t, delta) /\ v.op \in OpeningOps \cup ReducingOps
  BY DEF TradeChecked
<1>4. delta \in Int
  BY <1>1, <1>3, OrderSound
<1> HIDE DEF delta
<1>5. BooksBalance'
  BY <1>1, <1>3, <1>4, FillKeepsBooks
<1>6. UNCHANGED <<trading, bar>>
  BY DEF TradeChecked, bars
<1> QED
  BY <1>2, <1>5, <1>6 DEF AccountInv

LEMMA TradeUncheckedKeeps ==
  ASSUME AccountInv, NEW t \in Tickers, NEW d \in [signal : Signals, size : Sizes],
         TradeUnchecked(t, d)
  PROVE  AccountInv'
<1> DEFINE lots == UncheckedLots(t, d.size)
           delta == IF d.signal = "BUY" THEN lots ELSE -lots
<1>1. TypeOK /\ BooksBalance /\ TypeOK'
  BY TradeUncheckedType DEF AccountInv
<1>2. Fill(t, delta)
  BY DEF TradeUnchecked
<1>3. delta \in Int
  <2>1. d.size \in Nat
    BY InputsAssumption
  <2>2. lots \in Nat
    BY <1>1, <2>1, UncheckedType
  <2> HIDE DEF lots
  <2> QED
    BY <2>2
<1> HIDE DEF delta
<1>4. BooksBalance'
  BY <1>1, <1>2, <1>3, FillKeepsBooks
<1>5. ~applyRisk' /\ UNCHANGED <<trading, bar>>
  BY DEF TradeUnchecked, bars
<1> QED
  BY <1>1, <1>4, <1>5 DEF AccountInv, OpenedIsSpent, BarBudgetRespected

LEMMA StepKeeps == AccountInv /\ [Next]_vars => AccountInv'
<1> SUFFICES ASSUME AccountInv, [Next]_vars PROVE AccountInv'
  OBVIOUS
<1>1. CASE StartBar
  BY <1>1, StartBarKeeps
<1>2. CASE EndBar
  BY <1>2, EndBarKeeps
<1>3. ASSUME NEW t \in Tickers, Ticker(t) PROVE AccountInv'
  <2>1. CASE PassOver(t)
    BY <2>1, IdleKeeps DEF PassOver, Done
  <2>2. ASSUME NEW d \in [signal : Signals, size : Sizes], TradeUnchecked(t, d)
        PROVE  AccountInv'
    BY <2>2, TradeUncheckedKeeps
  <2>3. ASSUME NEW d \in [signal : Signals, size : Sizes], NEW sigma \in Sigmas,
               NEW sound \in BOOLEAN, TradeChecked(t, d, sigma, sound)
        PROVE  AccountInv'
    BY <2>3, TradeCheckedKeeps
  <2> QED
    BY <1>3, <2>1, <2>2, <2>3 DEF Ticker
<1>4. CASE UNCHANGED vars
  BY <1>4, IdleKeeps DEF vars
<1> QED
  BY <1>1, <1>2, <1>3, <1>4 DEF Next

\* The account stays typed and balanced, and within the budget of the bar.
THEOREM InvCorrect == Spec => []AccountInv
<1>1. Init => AccountInv
  BY InitInv
<1>2. AccountInv /\ [Next]_vars => AccountInv'
  BY StepKeeps
<1> QED
  BY <1>1, <1>2, PTL DEF Spec

\* Every variable keeps its type.
THEOREM TypeCorrect == Spec => []TypeOK
<1>1. AccountInv => TypeOK
  BY DEF AccountInv
<1> QED
  BY <1>1, InvCorrect, PTL

\* Capital, profits and commission account for every unit, whatever the fills.
THEOREM BooksCorrect == Spec => []BooksBalance
<1>1. AccountInv => BooksBalance
  BY DEF AccountInv
<1> QED
  BY <1>1, InvCorrect, PTL

\* A bar never opens more than MAX_TICK_BUY of its NAV.
THEOREM BarBudgetCorrect == Spec => []BarBudgetRespected
<1>1. AccountInv => BarBudgetRespected
  BY DEF AccountInv
<1> QED
  BY <1>1, InvCorrect, PTL

\* With a drawdown in percent and a budget switched on, nothing is added to a
\* book that is MAX_DRAWDOWN below a close it has seen since it was last empty.
THEOREM DrawdownCorrect ==
  ASSUME Settings.MAX_DRAWDOWN <= 100, Settings.MAX_TICK_BUY > 0
  PROVE  Spec => DrawdownStopsOpenings
<1> DEFINE Held == \E u \in Tickers : pos[u].qty # 0
           Within == \A i \in DOMAIN eqHistory :
                       i >= flatAt =>
                         100 * (eqHistory[i] - nav) < Settings.MAX_DRAWDOWN * eqHistory[i]
<1>1. ASSUME AccountInv, [Next]_vars, applyRisk, opened' > opened, Held PROVE Within
  <2>1. opened \in Nat /\ TypeOK /\ OpenedIsSpent /\ BarBudgetRespected
    BY <1>1 DEF AccountInv, TypeOK
  <2>2. ~StartBar /\ ~EndBar
    <3>1. StartBar \/ EndBar => opened' = 0
      BY DEF StartBar, EndBar
    <3>2. ~(0 > opened)
      BY <2>1
    <3> QED
      BY <1>1, <3>1, <3>2
  <2>3. ~UNCHANGED vars
    BY <1>1, <2>1 DEF vars
  <2>4. PICK t \in Tickers : Ticker(t)
    BY <1>1, <2>2, <2>3 DEF Next
  <2>5. ~PassOver(t) /\ \A d \in [signal : Signals, size : Sizes] : ~TradeUnchecked(t, d)
    BY <1>1, <2>1 DEF PassOver, TradeUnchecked
  <2>6. PICK d \in [signal : Signals, size : Sizes], sigma \in Sigmas, sound \in BOOLEAN :
          TradeChecked(t, d, sigma, sound)
    BY <2>4, <2>5 DEF Ticker
  <2> QED
    BY <1>1, <2>1, <2>6, TradeWithinDrawdown
<1>2. AccountInv /\ [Next]_vars =>
        [applyRisk /\ opened' > opened /\ ~FlatBook(pos) =>
           \A i \in DOMAIN eqHistory :
             i >= flatAt =>
               100 * (eqHistory[i] - nav) < Settings.MAX_DRAWDOWN * eqHistory[i]]_vars
  BY <1>1 DEF FlatBook
<1> QED
  BY <1>2, InvCorrect, PTL DEF Spec, DrawdownStopsOpenings

\* Whatever is added, its ticker and its sector stay within their caps as long
\* as short sales have not raised cash above NAV.
THEOREM CapsCorrect == Spec => CapsRespected
<1>1. ASSUME AccountInv, [Next]_vars, applyRisk, NEW t \in Tickers,
             Size(pos'[t]) > Size(pos[t]), cash <= nav
      PROVE  LET held == Notional(t, Size(pos'[t]), raw[t])
                 others == Total([u \in Tickers |->
                             IF u # t /\ Sector[u] = Sector[t]
                             THEN Notional(u, Size(pos[u]), pos[u].avg) ELSE 0])
             IN  /\ 100 * held <= Settings.MAX_INSTRUMENT * nav
                 /\ 100 * (held + others) <= Settings.MAX_SECTOR * nav
  <2>1. TypeOK /\ Size(pos[t]) \in Nat
    BY <1>1, SizeType DEF AccountInv, TypeOK
  <2>2. pos'[t] # pos[t]
    BY <1>1, <2>1
  <2>3. ~StartBar /\ ~EndBar /\ ~UNCHANGED vars /\ \A u \in Tickers : ~PassOver(u)
    BY <2>2 DEF StartBar, EndBar, PassOver, vars, account
  <2>4. PICK u \in Tickers : Ticker(u)
    BY <1>1, <2>3 DEF Next
  <2>5. \A d \in [signal : Signals, size : Sizes] : ~TradeUnchecked(u, d)
    BY <1>1 DEF TradeUnchecked
  <2>6. PICK d \in [signal : Signals, size : Sizes], sigma \in Sigmas, sound \in BOOLEAN :
          TradeChecked(u, d, sigma, sound)
    BY <2>3, <2>4, <2>5 DEF Ticker
  <2>7. u = t
    <3>1. \E new : pos' = [pos EXCEPT ![u] = new]
      BY <2>6 DEF TradeChecked, Fill
    <3> QED
      BY <2>1, <2>2, <3>1 DEF TypeOK
  <2> QED
    BY <1>1, <2>1, <2>6, <2>7, TradeWithinCaps
<1>2. AccountInv /\ [Next]_vars =>
        [\A t \in Tickers :
           applyRisk /\ Size(pos'[t]) > Size(pos[t]) /\ cash <= nav
           => LET held == Notional(t, Size(pos'[t]), raw[t])
                  others == Total([u \in Tickers |->
                              IF u # t /\ Sector[u] = Sector[t]
                              THEN Notional(u, Size(pos[u]), pos[u].avg) ELSE 0])
              IN  /\ 100 * held <= Settings.MAX_INSTRUMENT * nav
                  /\ 100 * (held + others) <= Settings.MAX_SECTOR * nav]_vars
  BY <1>1
<1> QED
  BY <1>2, InvCorrect, PTL DEF Spec, CapsRespected

\* Only the drawdown gate looks at the history, and not for an empty book.
LEMMA PastIsNothing ==
  ASSUME NEW t \in Tickers, NEW d \in Decisions, NEW c \in Contexts, NEW S \in SUBSET Int,
         FlatBook(c.pos)
  PROVE  Evaluate(t, d, [c EXCEPT !.history = S]) = Evaluate(t, d, c)
<1> DEFINE e == [c EXCEPT !.history = S]
<1>1. /\ e.cash = c.cash /\ e.pos = c.pos /\ e.nav = c.nav /\ e.price = c.price
      /\ e.openNav = c.openNav /\ e.spent = c.spent /\ e.session = c.session
      /\ e.sigma = c.sigma /\ e.sound = c.sound /\ e.done = c.done
  BY DEF Contexts
<1>2. FlatBook(c.pos) /\ FlatBook(e.pos)
  BY <1>1
<1> HIDE DEF e
<1>3. RiskTrim(t, e) = RiskTrim(t, c)
  BY <1>1 DEF RiskTrim, TrimLots
<1>4. RiskPnLExit(t, d, e) = RiskPnLExit(t, d, c)
  BY <1>1 DEF RiskPnLExit, ProfitLadder
<1>5. KillSwitchMdd(e) <=> KillSwitchMdd(c)
  BY <1>1, <1>2 DEF KillSwitchMdd, Peak, FlatBook
<1>6. KillSwitchDailyLoss(e) <=> KillSwitchDailyLoss(c)
  BY <1>1 DEF KillSwitchDailyLoss
<1>7. ASSUME NEW flip \in BOOLEAN
      PROVE  /\ OpenQty(t, d, e, flip) = OpenQty(t, d, c, flip)
             /\ OpeningPasses(t, d, e, flip) <=> OpeningPasses(t, d, c, flip)
  <2>1. NavUnit(e) = NavUnit(c) /\ BaseValue(t, e, flip) = BaseValue(t, c, flip)
    BY <1>1 DEF NavUnit, BaseValue
  <2>2. SectorValue(t, e, flip) = SectorValue(t, c, flip)
    BY <1>1, <2>1 DEF SectorValue
  <2>3. EffectiveSize(t, d, e, flip) = EffectiveSize(t, d, c, flip)
    BY <1>1, <2>1, <2>2 DEF EffectiveSize
  <2>4. OpenQty(t, d, e, flip) = OpenQty(t, d, c, flip)
    BY <1>1, <2>1, <2>3 DEF OpenQty
  <2>5. VarGate(t, d, e, flip) <=> VarGate(t, d, c, flip)
    BY <1>1, <2>1, <2>3 DEF VarGate
  <2>6. \A cost : /\ CashGate(d, e, cost) <=> CashGate(d, c, cost)
                  /\ TickGate(e, cost) <=> TickGate(c, cost)
    BY <1>1 DEF CashGate, TickGate, BudgetBase
  <2> QED
    BY <1>1, <1>5, <1>6, <2>1, <2>2, <2>4, <2>5, <2>6 DEF OpeningPasses
<1>8. /\ OpenOrAdd(t, d, e) = OpenOrAdd(t, d, c)
      /\ CloseOrFlip(t, d, e) = CloseOrFlip(t, d, c)
  BY <1>1, <1>7 DEF OpenOrAdd, CloseOrFlip
<1>9. Evaluate(t, d, e) = Evaluate(t, d, c)
  BY <1>1, <1>3, <1>4, <1>8 DEF Evaluate
<1> QED
  BY <1>9 DEF e

\* An empty book is decided upon as if nothing had been traded before, whatever
\* was lost.
THEOREM FreshStartCorrect == Spec => []FlatBookStartsAfresh
<1>1. AccountInv => FlatBookStartsAfresh
  <2>1. ASSUME AccountInv, FlatBook(pos),
               NEW t \in todo, NEW d \in [signal : Signals, size : Sizes],
               NEW sigma \in Sigmas, NEW sound \in BOOLEAN,
               NEW S \in SUBSET {eqHistory[i] : i \in DOMAIN eqHistory}
        PROVE  Evaluate(t, d, Context(t, sigma, sound))
                 = Evaluate(t, d, [Context(t, sigma, sound) EXCEPT !.history = S])
    <3>1. TypeOK /\ t \in Tickers /\ d \in Decisions
      BY <2>1, InputsAssumption DEF AccountInv, TypeOK, Decisions
    <3>2. Context(t, sigma, sound) \in Contexts
      BY <3>1, ContextType
    <3>3. S \in SUBSET Int /\ FlatBook(Context(t, sigma, sound).pos)
      BY <2>1, <3>1 DEF TypeOK, Context
    <3> QED
      BY <3>1, <3>2, <3>3, PastIsNothing
  <2>2. {eqHistory[i] : i \in {j \in DOMAIN eqHistory : j >= bar + 1}}
          \in SUBSET {eqHistory[i] : i \in DOMAIN eqHistory}
    OBVIOUS
  <2> DEFINE counted == {eqHistory[i] : i \in {j \in DOMAIN eqHistory : j >= bar + 1}}
             same(t, d, sigma, sound) ==
               Evaluate(t, d, Context(t, sigma, sound))
                 = Evaluate(t, d, [Context(t, sigma, sound) EXCEPT !.history = counted])
  <2>3. ASSUME AccountInv, FlatBook(pos)
        PROVE  \A t \in todo, d \in [signal : Signals, size : Sizes], sigma \in Sigmas,
                  sound \in BOOLEAN : same(t, d, sigma, sound)
    <3> HIDE DEF counted
    <3>1. counted \in SUBSET {eqHistory[i] : i \in DOMAIN eqHistory}
      BY <2>2 DEF counted
    <3> QED
      BY <2>1, <2>3, <3>1
  <2>4. ASSUME AccountInv, FlatBook(pos) PROVE IndependentOfThePast(bar + 1)
    BY <2>3, <2>4, Zenon DEF IndependentOfThePast
  <2> QED
    BY <2>4 DEF FlatBookStartsAfresh
<1> QED
  BY <1>1, InvCorrect, PTL
===============================================================================
