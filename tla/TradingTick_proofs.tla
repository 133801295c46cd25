-------------------------- MODULE TradingTick_proofs --------------------------
(***************************************************************************)
(* What phase 2 keeps, whatever the universe, the prices, the decisions,   *)
(* the settings, and however often the broker executes an order.           *)
(***************************************************************************)
EXTENDS TradingTick, RiskOfficer_proofs, SequenceTheorems, FiniteSetTheorems

-------------------------------------------------------------------------------
(* The inductive invariant. *)

\* Between ticks no order is under way.
IdleQuiet == phase = "idle" => call = NoCall /\ openNav = 0

\* A verdict that enlarges p: sent at once, or as the two halves of a flip.
Opens(v, p, stage) ==
  /\ v.op \in OpeningOps /\ v.open > 0
  /\ \/ /\ stage = "single" /\ v.close = 0
        /\ \/ v.op \in {"open_long", "add_long"} /\ p.qty >= 0
           \/ v.op \in {"open_short", "add_short"} /\ p.qty <= 0
     \/ /\ stage \in {"close", "open"} /\ Settings.ALLOW_FLIP
        /\ v.close = Size(p)
        /\ \/ v.op = "flip_short_to_long" /\ p.qty < 0
           \/ v.op = "flip_long_to_short" /\ p.qty > 0

\* The tick's budget has room for the opening that is under way.
RoomFor(v) ==
  openNav > 0 /\ Settings.MAX_TICK_BUY > 0 =>
    100 * (spent + TotalCost(call.t, v.open, price[call.t])) <= Settings.MAX_TICK_BUY * openNav

\* The order under way is what the officer allowed for the account the ticker
\* was shown, which has not changed since.
CallSound ==
  call # NoCall =>
    /\ call.t \in todo
    /\ DailyLimit > 0 => count < DailyLimit
    /\ \/ call.stage = "single" /\ Reduces(call.verdict, livePos[call.t])
       \/ Opens(call.verdict, livePos[call.t], call.stage) /\ RoomFor(call.verdict)

\* What the loop has counted as spent is within the budget.
SpentWithinBudget ==
  openNav > 0 /\ Settings.MAX_TICK_BUY > 0 =>
    100 * spent <= Settings.MAX_TICK_BUY * openNav

\* What the order under way has opened at the broker, not counted yet.
InFlight ==
  IF call # NoCall /\ call.fills > 0 /\ call.stage # "close" /\ call.verdict.op \in OpeningOps
  THEN Notional(call.t, call.verdict.open, price[call.t]) ELSE 0

OpenedIsSpent == exact /\ phase = "trading" => opened <= spent + InFlight

FilledOnce == exact => call.fills <= 1

\* The tickers still to come are held as simulated, even after a half flip.
TodoSynced ==
  exact /\ phase = "trading" =>
    \A u \in todo :
      u # call.t \/ (call.fills = 0 /\ call.stage # "open") => pos[u] = livePos[u]

\* Without flips the simulation lags the broker by the order under way only.
Lags ==
  exact /\ phase = "trading" /\ ~Settings.ALLOW_FLIP =>
    IF call.fills = 0
    THEN livePos = pos /\ count = trades /\ (RemainingCash => liveCash = cash)
    ELSE /\ pos = [livePos EXCEPT ![call.t] = Moved(@, CallDelta, price[call.t])]
         /\ trades = count + 1

Inv ==
  /\ TypeOK /\ IdleQuiet /\ CallSound /\ SpentWithinBudget /\ OpenedIsSpent
  /\ FilledOnce /\ TodoSynced /\ Lags /\ DailyLimitRespected

-------------------------------------------------------------------------------
(* Types. *)

Records == [day : Nat, hour : Nat, nav : Int, taken : SUBSET LadderStep]

\* The journal's records are read at numbers, and hold numbers.
LEMMA JournalType ==
  ASSUME TypeOK
  PROVE  /\ DOMAIN journal \in SUBSET Nat
         /\ \A i \in DOMAIN journal : journal[i] \in Records
<1>1. journal \in Seq(Records)
  BY DEF TypeOK, Records
<1>2. Len(journal) \in Nat /\ DOMAIN journal = 1..Len(journal)
      /\ journal \in [1..Len(journal) -> Records]
  BY <1>1
<1>3. QED
  BY <1>2

\* session_open_nav answers a number.
LEMMA SessionType ==
  ASSUME TypeOK
  PROVE  Session \in Int
<1> DEFINE today == {i \in Recent : journal[i].day = day}
<1>1. CASE today = {}
  BY <1>1 DEF Session
<1>2. CASE today # {}
  <2>1. today \in SUBSET Nat /\ today \subseteq DOMAIN journal
    BY JournalType DEF Recent
  <2>2. PICK m \in today : \A k \in today : m <= k
    <3> HIDE DEF today
    <3>1. QED
      BY <1>2, <2>1, LeastElement
  <2>3. Min(today) \in today
    BY <2>2 DEF Min
  <2>4. journal[Min(today)].nav \in Int
    BY <2>1, <2>3, JournalType DEF Records
  <2>5. QED
    BY <1>2, <2>4 DEF Session
<1>3. QED
  BY <1>1, <1>2

\* The live NAV is a number.
LEMMA LiveNavType ==
  ASSUME TypeOK
  PROVE  LiveNav \in Int
  BY NavType DEF TypeOK, LiveNav

\* What the officer is shown.
LEMMA ContextType ==
  ASSUME TypeOK, NEW t \in Tickers, NEW sigma \in Sigmas, NEW sound \in BOOLEAN
  PROVE  Context(t, sigma, sound) \in Contexts
<1>1. LiveNav \in Int /\ Session \in Int
  BY LiveNavType, SessionType
<1>2. {journal[i].nav : i \in Recent} \in SUBSET Int
  BY JournalType DEF Recent, Records
<1>3. StepsDone(t) \in SUBSET Steps
  BY DEF StepsDone
<1>4. sigma \in Nat
  BY DecisionsAssumption
<1>5. liveCash \in Int /\ livePos \in [Tickers -> Position] /\ price[t] \in Nat
      /\ openNav \in Int /\ spent \in Nat
  BY DEF TypeOK
<1>6. QED
  BY <1>1, <1>2, <1>3, <1>4, <1>5 DEF Context, Contexts

\* What evaluate says of the ticker, as EvaluateSound has it.
LEMMA VerdictSound ==
  ASSUME TypeOK, NEW t \in Tickers, NEW v \in PossibleVerdicts(t),
         v.op \in OpeningOps \cup ReducingOps
  PROVE  \/ Reduces(v, livePos[t])
         \/ \E c \in Contexts :
              /\ c.pos = livePos /\ c.price = price[t]
              /\ c.openNav = openNav /\ c.spent = spent
              /\ Enlarges(v, t, c)
<1>1. PICK d \in [signal : Signals, size : Sizes], sigma \in Sigmas, sound \in BOOLEAN :
        v = Evaluate(t, d, Context(t, sigma, sound))
  BY DEF PossibleVerdicts
<1> DEFINE c == Context(t, sigma, sound)
<1>2. c \in Contexts /\ d \in Decisions
  BY ContextType, DecisionsAssumption DEF Decisions
<1>3. c.pos = livePos /\ c.price = price[t] /\ c.openNav = openNav /\ c.spent = spent
  BY DEF Context
<1> HIDE DEF c
<1>4. v \in {Hold, Block} \/ Reduces(v, c.pos[t]) \/ Enlarges(v, t, c)
  BY <1>1, <1>2, EvaluateSound DEF c
<1>5. v \notin {Hold, Block}
  BY DEF Hold, Block, Verdict, OpeningOps, ReducingOps, Sells, Covers
<1>6. QED
  BY <1>2, <1>3, <1>4, <1>5

\* The order under way.
LEMMA CallType ==
  ASSUME TypeOK, call # NoCall
  PROVE  /\ call = [t |-> call.t, verdict |-> call.verdict, stage |-> call.stage,
                    fills |-> call.fills, reported |-> call.reported]
         /\ call.t \in Tickers /\ call.verdict \in Verdicts
         /\ call.verdict.close \in Nat /\ call.verdict.open \in Nat
         /\ call.verdict.step \in Steps \cup {"none"}
         /\ call.stage \in {"single", "close", "open"}
         /\ call.fills \in 0..MaxFills /\ call.fills \in Nat /\ call.reported \in Int
         /\ CallDelta \in Int
         /\ price[call.t] \in Nat
         /\ pos[call.t] \in Position /\ livePos[call.t] \in Position
<1>1. call \in [t : Tickers, verdict : Verdicts, stage : {"single", "close", "open"},
                fills : 0..MaxFills, reported : Int]
  BY DEF TypeOK
<1>2. call.verdict \in Verdicts /\ call.verdict.close \in Nat /\ call.verdict.open \in Nat
  BY <1>1 DEF Verdicts
<1>3. CallDelta \in Int
  BY <1>2 DEF CallDelta, Signed
<1>4. QED
  BY <1>1, <1>2, <1>3, BoundsAssumption DEF TypeOK, Verdicts

\* A stage other than "none" is that of an order under way.
LEMMA StageOfCall ==
  ASSUME call.stage \in {"single", "close", "open"}
  PROVE  call # NoCall
  BY DEF NoCall

\* An execution changes the account within its type.
LEMMA ExecuteType ==
  ASSUME TypeOK, NEW t \in Tickers, NEW delta \in Int, NEW at \in Nat,
         Execute(t, delta, at)
  PROVE  /\ cash' \in Int /\ pos' \in [Tickers -> Position] /\ trades' \in Nat
         /\ opened' \in Nat
<1>1. pos[t] \in Position /\ cash \in Int /\ trades \in Nat /\ opened \in Nat
      /\ pos \in [Tickers -> Position]
  BY DEF TypeOK
<1>2. cash' \in Int
  BY <1>1, BrokerCashType DEF Execute
<1>3. pos' \in [Tickers -> Position]
  <2>1. Moved(pos[t], delta, at) \in Position
    BY <1>1, MovedType
  <2>2. QED
    BY <1>1, <2>1 DEF Execute
<1>4. opened' \in Nat
  <2>1. Opening(pos[t], delta) \in Nat
    BY <1>1, OpeningType
  <2>2. Notional(t, Opening(pos[t], delta), at) \in Nat
    BY <2>1, NotionalType
  <2>3. QED
    BY <1>1, <2>2 DEF Execute
<1>5. QED
  BY <1>1, <1>2, <1>3, <1>4 DEF Execute

\* What an order costs.
LEMMA CostType ==
  ASSUME NEW t \in Tickers, NEW lots \in Nat, NEW at \in Nat
  PROVE  /\ Notional(t, lots, at) \in Nat
         /\ Commission(Notional(t, lots, at)) \in Nat
         /\ TotalCost(t, lots, at) \in Nat
         /\ TotalCost(t, lots, at) >= Notional(t, lots, at)
<1>1. Notional(t, lots, at) \in Nat
  BY NotionalType
<1>2. Commission(Notional(t, lots, at)) \in Nat
  BY <1>1, CommissionType
<1>3. QED
  BY <1>1, <1>2 DEF TotalCost

\* What the loop counts as spent: at least the notional, at most the cost.
LEMMA SpendType ==
  ASSUME TypeOK, call # NoCall, NEW op, NEW open \in Nat
  PROVE  /\ SpendOf(op, open) \in Nat
         /\ Notional(call.t, open, price[call.t]) <= SpendOf(op, open)
         /\ SpendOf(op, open) <= TotalCost(call.t, open, price[call.t])
<1>1. call.t \in Tickers /\ price[call.t] \in Nat
  BY CallType
<1>2. /\ Notional(call.t, open, price[call.t]) \in Nat
      /\ TotalCost(call.t, open, price[call.t]) \in Nat
      /\ TotalCost(call.t, open, price[call.t]) >= Notional(call.t, open, price[call.t])
  BY <1>1, CostType
<1>3. QED
  BY <1>2 DEF SpendOf

\* A ladder step taken by the order under way.
LEMMA EntryType ==
  ASSUME TypeOK, call # NoCall, call.verdict.step # "none", NEW p \in Position
  PROVE  Entry(call.t, p, call.verdict.step) \in LadderStep
  BY CallType DEF Entry, LadderStep, Position

\* Booking an answer changes the simulation within its type.
LEMMA BookType ==
  ASSUME TypeOK, call # NoCall, NEW op, NEW close \in Nat, NEW open \in Nat,
         NEW orders \in Nat, NEW reported \in Int,
         Book(op, close, open, orders, reported)
  PROVE  /\ liveCash' \in Int /\ livePos' \in [Tickers -> Position]
         /\ count' \in Nat /\ spent' \in Nat /\ taken' \in SUBSET LadderStep
<1> DEFINE n == Notional(call.t, close, price[call.t])
           m == Notional(call.t, open, price[call.t])
<1>1. /\ call.t \in Tickers /\ price[call.t] \in Nat /\ livePos[call.t] \in Position
      /\ livePos \in [Tickers -> Position] /\ liveCash \in Int
      /\ count \in Nat /\ spent \in Nat /\ taken \in SUBSET LadderStep
  BY CallType DEF TypeOK
<1>2. n \in Nat /\ m \in Nat
  BY <1>1, NotionalType
<1>3. liveCash' \in Int
  <2> HIDE DEF n, m
  <2>1. n + m \in Nat
    BY <1>2
  <2>2. Commission(n + m) \in Nat
    BY <2>1, CommissionType
  <2>3. PICK fee \in Nat :
          liveCash' = IF RemainingCash THEN reported
                      ELSE liveCash + n - m - (IF fee > 0 THEN fee ELSE Commission(n + m))
    BY OptionsAssumption DEF Book, SimulatedCash, n, m
  <2>4. QED
    BY <1>1, <1>2, <2>2, <2>3
<1>4. livePos' \in [Tickers -> Position]
  <2> DEFINE reduced == Moved(livePos[call.t], Signed(op, close), price[call.t])
  <2>1. Signed(op, close) \in Int /\ Signed(op, open) \in Int
    BY DEF Signed
  <2>2. reduced \in Position
    BY <1>1, <2>1, MovedType
  <2>3. Moved(reduced, Signed(op, open), price[call.t]) \in Position
    <3> HIDE DEF reduced
    <3>1. QED
      BY <1>1, <2>1, <2>2, MovedType
  <2>4. SimulatedPosition(op, close, open) \in Position
    BY <2>3 DEF SimulatedPosition
  <2>5. QED
    BY <1>1, <2>4 DEF Book
<1>5. count' \in Nat
  BY <1>1 DEF Book
<1>6. spent' \in Nat
  <2>1. SpendOf(op, open) \in Nat
    BY SpendType
  <2>2. QED
    BY <1>1, <2>1 DEF Book
<1>7. taken' \in SUBSET LadderStep
  BY <1>1, EntryType DEF Book
<1>8. QED
  BY <1>3, <1>4, <1>5, <1>6, <1>7

\* The history of an answer keeps its type, and what it does not touch.
LEMMA AnsweredType ==
  ASSUME TypeOK, call # NoCall, NEW fills \in Nat, Answered(fills)
  PROVE  /\ exact' \in BOOLEAN
         /\ stray' \in [t : Tickers, delta : Int] \cup {NoOrder}
         /\ UNCHANGED <<cash, pos, trades, day, hour, ticks, crashes, journal, phase, price,
                        openNav, opened, fired>>
<1>1. [t |-> call.t, delta |-> CallDelta] \in [t : Tickers, delta : Int]
  BY CallType
<1>2. QED
  BY <1>1 DEF Answered, TypeOK, broker, clock, tick, history

\* What Forget resets.
LEMMA ForgetType ==
  ASSUME Forget
  PROVE  /\ phase' \in {"idle", "trading"} /\ price' \in [Tickers -> Nat]
         /\ todo' \in SUBSET Tickers
         /\ liveCash' \in Int /\ livePos' \in [Tickers -> Position]
         /\ count' \in Nat /\ spent' \in Nat /\ openNav' \in Int
         /\ taken' \in SUBSET LadderStep /\ opened' \in Nat /\ call' = NoCall
  BY DEF Forget, NoPrice, Flat, Position

LEMMA InitType == ASSUME Init PROVE TypeOK
  BY StartAssumption, BoundsAssumption
     DEF Init, TypeOK, NoPrice, Flat, Position, NoOrder, NoCall

\* Every step keeps the variables within their types.
LEMMA NextType ==
  ASSUME TypeOK, [Next]_vars
  PROVE  TypeOK'
<1> USE BoundsAssumption
<1>1. CASE SkipTick
  BY <1>1 DEF SkipTick, TypeOK, broker, tick, live, history
<1>2. CASE OpenTick
  <2>1. price' \in [Tickers -> Nat]
    BY <1>2, PricesAssumption DEF OpenTick
  <2>2. cash \in Int /\ pos \in [Tickers -> Position]
    BY DEF TypeOK
  <2>3. openNav' \in Int
    <3>1. \A f \in [Tickers -> Nat] : NAV(cash, pos, f) \in Int
      BY <2>2, NavType
    <3>2. openNav' = NAV(cash, pos, price')
      BY <1>2 DEF OpenTick
    <3>3. QED
      BY <2>1, <3>1, <3>2
  <2>4. QED
    BY <1>2, <2>1, <2>3 DEF OpenTick, TypeOK, broker
<1>3. CASE HourPasses \/ NewDay
  <2>1. hour' \in 0..(DayLength - 1)
    BY <1>3, BoundsAssumption DEF HourPasses, NewDay, TypeOK
  <2>2. CASE HourPasses
    BY <2>1, <2>2 DEF HourPasses, TypeOK, broker, tick, live, history
  <2>3. CASE NewDay
    BY <2>1, <2>3 DEF NewDay, TypeOK, tick, live, history
  <2>4. QED
    BY <1>3, <2>2, <2>3
<1>4. ASSUME NEW t \in Tickers, NotEvaluated(t)
      PROVE  TypeOK'
  BY <1>4 DEF NotEvaluated, Done, TypeOK, broker, clock, tick, live, history
<1>5. ASSUME NEW t \in Tickers, SendNothing(t)
      PROVE  TypeOK'
  BY <1>5 DEF SendNothing, Done, TypeOK, broker, clock, tick, live, history
<1>6. ASSUME NEW t \in Tickers, Send(t)
      PROVE  TypeOK'
  <2>1. PICK v \in PossibleVerdicts(t) :
          /\ v.op \in OpeningOps \cup ReducingOps
          /\ call' = [NoCall EXCEPT !.t = t, !.verdict = v,
                        !.stage = IF v.close > 0 /\ v.open > 0 THEN "close" ELSE "single"]
    BY <1>6 DEF Send
  <2>2. v \in Verdicts
    BY <2>1, VerdictSound DEF Reduces, Enlarges
  <2>3. call' \in [t : Tickers, verdict : Verdicts, stage : {"single", "close", "open"},
                   fills : 0..MaxFills, reported : Int]
    <3> DEFINE stage == IF v.close > 0 /\ v.open > 0 THEN "close" ELSE "single"
    <3>1. call' = [t |-> t, verdict |-> v, stage |-> stage, fills |-> 0, reported |-> 0]
      BY <2>1 DEF NoCall
    <3>2. stage \in {"single", "close", "open"} /\ 0 \in 0..MaxFills
      OBVIOUS
    <3> HIDE DEF stage
    <3>3. QED
      BY <2>2, <3>1, <3>2
  <2>4. QED
    BY <1>6, <2>3 DEF Send, TypeOK, broker, clock, tick, live, history
<1>7. CASE Fill
  <2>1. call # NoCall /\ call.fills < MaxFills
    BY <1>7 DEF Fill
  <2>2. Execute(call.t, CallDelta, price[call.t])
    BY <1>7 DEF Fill
  <2>3. /\ cash' \in Int /\ pos' \in [Tickers -> Position] /\ trades' \in Nat
        /\ opened' \in Nat
    BY <2>1, <2>2, CallType, ExecuteType
  <2>4. call' \in [t : Tickers, verdict : Verdicts, stage : {"single", "close", "open"},
                   fills : 0..MaxFills, reported : Int]
    <3>1. call \in [t : Tickers, verdict : Verdicts, stage : {"single", "close", "open"},
                    fills : 0..MaxFills, reported : Int]
      BY <2>1 DEF TypeOK
    <3>2. call.fills + 1 \in 0..MaxFills
      BY <2>1, CallType
    <3>3. call' = [call EXCEPT !.fills = call.fills + 1]
      BY <1>7 DEF Fill
    <3>4. QED
      BY <3>1, <3>2, <3>3
  <2>5. fired' \in SUBSET LadderStep
    <3>1. fired \in SUBSET LadderStep /\ pos[call.t] \in Position
      BY <2>1, CallType DEF TypeOK
    <3>2. fired' \subseteq fired \cup (IF call.verdict.step = "none" THEN {}
                                       ELSE {Entry(call.t, pos[call.t], call.verdict.step)})
      BY <1>7 DEF Fill
    <3>3. QED
      BY <2>1, <3>1, <3>2, EntryType
  <2>6. exact' \in BOOLEAN
    BY <1>7 DEF Fill
  <2>7. QED
    BY <1>7, <2>3, <2>4, <2>5, <2>6 DEF Fill, TypeOK, clock, tick, live
<1>8. CASE FillStray
  <2>1. PICK at \in Prices : Execute(stray.t, stray.delta, at)
    BY <1>8 DEF FillStray
  <2>2. stray.t \in Tickers /\ stray.delta \in Int /\ at \in Nat
    BY <1>8, PricesAssumption DEF FillStray, TypeOK
  <2>3. /\ cash' \in Int /\ pos' \in [Tickers -> Position] /\ trades' \in Nat
        /\ opened' \in Nat
    BY <2>1, <2>2, ExecuteType
  <2>4. QED
    BY <1>8, <2>3 DEF FillStray, TypeOK, clock, tick, live, NoOrder
<1>9. CASE Answer
  <2>1. call # NoCall
    BY <1>9, StageOfCall DEF Answer, Accept, AcceptClose, AcceptOpen, Reject, RejectOpen, Raise
  <2>2. PICK fills \in {0, 1} : Answered(fills)
    BY <1>9 DEF Answer, Accept, AcceptClose, AcceptOpen, Reject, RejectOpen, Raise
  <2>3. /\ exact' \in BOOLEAN
        /\ stray' \in [t : Tickers, delta : Int] \cup {NoOrder}
        /\ UNCHANGED <<cash, pos, trades, day, hour, ticks, crashes, journal, phase, price,
                       openNav, opened, fired>>
    BY <2>1, <2>2, AnsweredType
  <2>4. todo' \in SUBSET Tickers
    BY <1>9 DEF Answer, Accept, AcceptClose, AcceptOpen, Reject, RejectOpen, Raise, Done, TypeOK
  <2>5. call' \in [t : Tickers, verdict : Verdicts, stage : {"single", "close", "open"},
                   fills : 0..MaxFills, reported : Int] \cup {NoCall}
    <3>1. CASE AcceptClose
      <4>1. call' = [call EXCEPT !.stage = "open", !.fills = 0, !.reported = cash]
        BY <3>1 DEF AcceptClose
      <4>2. cash \in Int /\ 0 \in 0..MaxFills
        BY DEF TypeOK
      <4>3. call \in [t : Tickers, verdict : Verdicts, stage : {"single", "close", "open"},
                      fills : 0..MaxFills, reported : Int]
        BY <2>1 DEF TypeOK
      <4>4. QED
        BY <4>1, <4>2, <4>3
    <3>2. QED
      BY <1>9, <3>1 DEF Answer, Accept, AcceptOpen, Reject, RejectOpen, Raise
  <2>6. /\ liveCash' \in Int /\ livePos' \in [Tickers -> Position]
        /\ count' \in Nat /\ spent' \in Nat /\ taken' \in SUBSET LadderStep
    <3>1. CASE UNCHANGED live
      BY <3>1 DEF live, TypeOK
    <3>2. call.verdict.close \in Nat /\ call.verdict.open \in Nat /\ call.reported \in Int
          /\ cash \in Int
      BY <2>1, CallType DEF TypeOK
    <3>3. CASE Accept
      BY <2>1, <3>2, <3>3, BookType DEF Accept
    <3>4. CASE AcceptOpen
      BY <2>1, <3>2, <3>4, BookType DEF AcceptOpen
    <3>5. CASE RejectOpen
      BY <2>1, <3>2, <3>5, BookType DEF RejectOpen
    <3>6. QED
      BY <1>9, <3>1, <3>3, <3>4, <3>5 DEF Answer, AcceptClose, Reject, Raise
  <2>7. QED
    BY <2>3, <2>4, <2>5, <2>6 DEF TypeOK
<1>10. CASE EndTick
  <2>1. [day |-> day, hour |-> hour, nav |-> openNav, taken |-> taken] \in Records
    BY DEF TypeOK, Records
  <2>2. journal' \in Seq(Records)
    <3>1. journal \in Seq(Records)
      BY DEF TypeOK, Records
    <3>2. QED
      BY <1>10, <2>1, <3>1 DEF EndTick
  <2>3. QED
    BY <1>10, <2>2, ForgetType DEF EndTick, TypeOK, Records, broker, clock
<1>11. CASE Crash
  <2>1. stray' \in [t : Tickers, delta : Int] \cup {NoOrder}
    <3>1. call # NoCall => [t |-> call.t, delta |-> CallDelta] \in [t : Tickers, delta : Int]
      BY CallType
    <3>2. QED
      BY <1>11, <3>1 DEF Crash, TypeOK
  <2>2. crashes' \in 0..MaxCrashes
    BY <1>11 DEF Crash, TypeOK
  <2>3. QED
    BY <1>11, <2>1, <2>2, ForgetType DEF Crash, TypeOK, broker
<1>12. CASE UNCHANGED vars
  BY <1>12 DEF vars, TypeOK, broker, clock, tick, live, history
<1>13. QED
  BY <1>1, <1>2, <1>3, <1>4, <1>5, <1>6, <1>7, <1>8, <1>9, <1>10, <1>11, <1>12
     DEF Next, Ticker

\* Type correctness: every amount is a number and every ticker one of the
\* universe, through fills, strays, answers and crashes.
THEOREM TypeCorrect == Spec => []TypeOK
<1>1. Init => TypeOK
  BY InitType
<1>2. TypeOK /\ [Next]_vars => TypeOK'
  BY NextType
<1>3. QED
  BY <1>1, <1>2, PTL DEF Spec

-------------------------------------------------------------------------------
(* What an order does to a position. *)

\* An order towards zero opens nothing and does not pass zero.
LEMMA TowardsZero ==
  ASSUME NEW p \in Position, NEW delta \in Int,
         \/ p.qty > 0 /\ delta <= 0 /\ -delta <= Size(p)
         \/ p.qty < 0 /\ delta >= 0 /\ delta <= Size(p)
  PROVE  Opening(p, delta) = 0 /\ ~SameSide(p.qty, -(p.qty + delta))
  BY DEF Opening, Reducing, Size, SameSide, Position

\* An order away from zero does not pass it either.
LEMMA AwayFromZero ==
  ASSUME NEW p \in Position, NEW delta \in Int,
         \/ p.qty >= 0 /\ delta >= 0
         \/ p.qty <= 0 /\ delta <= 0
  PROVE  ~SameSide(p.qty, -(p.qty + delta))
  BY DEF SameSide, Position

\* The order of a reduction, and the first half of a flip.
LEMMA CallReduces ==
  ASSUME TypeOK, call # NoCall, NEW p \in Position,
         \/ call.stage = "single" /\ Reduces(call.verdict, p)
         \/ call.stage = "close" /\ Opens(call.verdict, p, call.stage)
  PROVE  Opening(p, CallDelta) = 0 /\ ~SameSide(p.qty, -(p.qty + CallDelta))
<1> DEFINE v == call.verdict
<1>1. v.close \in Nat /\ v.open \in Nat /\ Size(p) \in Nat /\ p.qty \in Int
  BY CallType, SizeType DEF Position
<1>2. CASE call.stage = "single" /\ Reduces(v, p)
  <2>1. /\ v.op \in Sells \cup Covers /\ v.open = 0 /\ v.close <= Size(p)
        /\ p.qty # 0 /\ (v.op \in Covers <=> p.qty < 0)
    BY <1>2 DEF Reduces, ReducingOps
  <2>2. v.op \in Buys <=> v.op \in Covers
    BY <2>1 DEF Buys, Sells, Covers
  <2>3. CallDelta = IF v.op \in Buys THEN v.close ELSE -v.close
    BY <1>1, <1>2, <2>1 DEF CallDelta, Signed
  <2>4. \/ p.qty > 0 /\ CallDelta = -v.close
        \/ p.qty < 0 /\ CallDelta = v.close
    BY <1>1, <2>1, <2>2, <2>3
  <2> HIDE DEF v
  <2>5. /\ CallDelta \in Int
        /\ \/ p.qty > 0 /\ CallDelta <= 0 /\ -CallDelta <= Size(p)
           \/ p.qty < 0 /\ CallDelta >= 0 /\ CallDelta <= Size(p)
    BY <1>1, <2>1, <2>4
  <2>6. QED
    BY <2>5, TowardsZero
<1>3. CASE call.stage = "close" /\ Opens(v, p, call.stage)
  <2>1. /\ v.close = Size(p)
        /\ \/ v.op = "flip_short_to_long" /\ p.qty < 0
           \/ v.op = "flip_long_to_short" /\ p.qty > 0
    BY <1>3 DEF Opens
  <2>2. CallDelta = IF v.op \in Buys THEN v.close ELSE -v.close
    BY <1>1, <1>3 DEF CallDelta, Signed
  <2>3. \/ p.qty > 0 /\ CallDelta = -v.close
        \/ p.qty < 0 /\ CallDelta = v.close
    BY <1>1, <2>1, <2>2 DEF Buys, Covers
  <2> HIDE DEF v
  <2>4. /\ CallDelta \in Int
        /\ \/ p.qty > 0 /\ CallDelta <= 0 /\ -CallDelta <= Size(p)
           \/ p.qty < 0 /\ CallDelta >= 0 /\ CallDelta <= Size(p)
    BY <1>1, <2>1, <2>3
  <2>5. QED
    BY <2>4, TowardsZero
<1>4. QED
  BY <1>2, <1>3

\* The order of an opening, and the second half of a flip.
LEMMA CallOpens ==
  ASSUME TypeOK, call # NoCall, NEW p \in Position, call.stage # "close",
         Opens(call.verdict, p, call.stage)
  PROVE  /\ \A q \in Position : Opening(q, CallDelta) <= call.verdict.open
         /\ call.stage = "single" => ~SameSide(p.qty, -(p.qty + CallDelta))
<1> DEFINE v == call.verdict
<1>1. v.close \in Nat /\ v.open \in Nat /\ p.qty \in Int
  BY CallType DEF Position
<1>2. CallDelta = v.open \/ CallDelta = -v.open
  <2>1. CASE call.stage = "open"
    BY <2>1 DEF CallDelta, Signed
  <2>2. CASE call.stage = "single"
    <3>1. v.close + v.open = v.open
      BY <1>1, <2>2 DEF Opens
    <3>2. CallDelta = Signed(v.op, v.close + v.open)
      BY <2>2 DEF CallDelta
    <3>3. QED
      BY <3>1, <3>2 DEF Signed
  <2>3. QED
    BY <2>1, <2>2 DEF Opens
<1>3. \A q \in Position : Opening(q, CallDelta) <= v.open
  <2> HIDE DEF v
  <2> TAKE q \in Position
  <2>1. CallDelta \in Int
    BY <1>1, <1>2
  <2>2. Opening(q, CallDelta) <= IF CallDelta < 0 THEN -CallDelta ELSE CallDelta
    BY <2>1, OpeningType
  <2>3. Opening(q, CallDelta) \in Nat
    BY <2>1, OpeningType
  <2>4. QED
    BY <1>1, <1>2, <2>2, <2>3
<1>4. ASSUME call.stage = "single" PROVE ~SameSide(p.qty, -(p.qty + CallDelta))
  <2>1. \/ v.op \in {"open_long", "add_long"} /\ p.qty >= 0
        \/ v.op \in {"open_short", "add_short"} /\ p.qty <= 0
    BY <1>4 DEF Opens
  <2>2. v.close + v.open = v.open
    BY <1>1, <1>4 DEF Opens
  <2>3. CallDelta = Signed(v.op, v.close + v.open)
    BY <1>4 DEF CallDelta
  <2>4. \/ p.qty >= 0 /\ CallDelta = v.open
        \/ p.qty <= 0 /\ CallDelta = -v.open
    BY <2>1, <2>2, <2>3 DEF Signed, Buys, Covers
  <2> HIDE DEF v
  <2>5. /\ CallDelta \in Int
        /\ \/ p.qty >= 0 /\ CallDelta >= 0
           \/ p.qty <= 0 /\ CallDelta <= 0
    BY <1>1, <2>4
  <2>6. QED
    BY <2>5, AwayFromZero
<1>5. QED
  BY <1>3, <1>4

\* A single order moves the position as _apply_summary_delta does, which books
\* what is closed and what is opened one after the other.
LEMMA MovedInTwo ==
  ASSUME NEW p \in Position, NEW a \in Int, NEW b \in Int, a = 0 \/ b = 0, NEW at \in Nat
  PROVE  Moved(Moved(p, a, at), b, at) = Moved(p, a + b, at)
<1> DEFINE m == Moved(p, a, at)
<1>1. m \in Position /\ m.qty = p.qty + a
  BY MovedType
<1>2. CASE b = 0
  <2>1. m.qty = 0 => m = Flat
    BY <1>1 DEF Moved, Position
  <2>2. m.qty # 0 => Moved(m, 0, at) = m
    <3> HIDE DEF m
    <3>1. m = [qty |-> m.qty, avg |-> m.avg] /\ m.qty \in Int
      BY <1>1 DEF Position
    <3>2. m.qty + 0 = m.qty
      BY <3>1
    <3>3. ~SameSide(m.qty, 0)
      BY <3>1 DEF SameSide
    <3>4. m.qty # 0 => SameSide(m.qty, m.qty)
      BY <3>1 DEF SameSide
    <3>5. QED
      BY <3>1, <3>2, <3>3, <3>4 DEF Moved
  <2>3. m.qty = 0 => Moved(m, 0, at) = Flat
    <3> HIDE DEF m
    <3>1. QED
      BY <1>1 DEF Moved
  <2>4. a + b = a
    BY <1>2
  <2>5. QED
    BY <1>2, <2>1, <2>2, <2>3, <2>4
<1>3. CASE a = 0 /\ p.qty = 0
  <2>1. m = Flat
    BY <1>3 DEF Moved
  <2>2. Moved(Flat, b, at) = IF b = 0 THEN Flat ELSE [qty |-> b, avg |-> at]
    BY DEF Moved, Flat, SameSide
  <2>3. Moved(p, b, at) = IF b = 0 THEN Flat ELSE [qty |-> b, avg |-> at]
    BY <1>3 DEF Moved, SameSide
  <2>4. QED
    BY <1>3, <2>1, <2>2, <2>3
<1>4. CASE a = 0 /\ p.qty # 0
  <2>1. p = [qty |-> p.qty, avg |-> p.avg] /\ p.qty \in Int
    BY DEF Position
  <2>2. ~SameSide(p.qty, 0) /\ SameSide(p.qty, p.qty) /\ p.qty + 0 = p.qty
    BY <1>4, <2>1 DEF SameSide
  <2>3. m = p
    BY <1>4, <2>1, <2>2 DEF Moved
  <2>4. QED
    BY <1>4, <2>3
<1>5. QED
  BY <1>2, <1>3, <1>4

-------------------------------------------------------------------------------
(* Every step keeps the invariant: one lemma per conjunct, one step per    *)
(* action that could disturb it.                                           *)

\* The actions between ticks, and those that only take a ticker off the list.
Quiet ==
  \/ SkipTick \/ HourPasses \/ NewDay \/ UNCHANGED vars
  \/ \E t \in Tickers : NotEvaluated(t) \/ SendNothing(t)

\* No order is under way and the tick's amounts stay.
LEMMA QuietKeeps ==
  ASSUME Quiet, IdleQuiet
  PROVE  /\ UNCHANGED <<cash, pos, phase, price, openNav, liveCash, livePos, count,
                        spent, taken, call, exact, opened>>
         /\ todo' \subseteq todo
         /\ UNCHANGED vars \/ call = NoCall
         /\ trades' = trades \/ (trades' = 0 /\ phase = "idle")
  BY DEF Quiet, IdleQuiet, SkipTick, HourPasses, NewDay, NotEvaluated, SendNothing, Done, vars, broker,
         clock, tick, live, history

\* A step is one of these.
LEMMA StepCases ==
  ASSUME [Next]_vars
  PROVE  \/ Quiet \/ OpenTick \/ (\E t \in Tickers : Send(t)) \/ Fill \/ FillStray
         \/ Accept \/ AcceptClose \/ AcceptOpen \/ Reject \/ RejectOpen \/ Raise
         \/ EndTick \/ Crash
  BY DEF Next, Ticker, Answer, Quiet

LEMMA IdleQuietKept ==
  ASSUME Inv, [Next]_vars
  PROVE  IdleQuiet'
<1> USE DEF Inv, IdleQuiet
<1>1. CASE Quiet
  BY <1>1, QuietKeeps
<1>2. CASE OpenTick
  BY <1>2 DEF OpenTick
<1>3. CASE \E t \in Tickers : Send(t)
  BY <1>3 DEF Send, tick
<1>4. CASE Fill \/ FillStray
  BY <1>4 DEF Fill, FillStray, tick
<1>5. CASE Accept \/ AcceptClose \/ AcceptOpen \/ Reject \/ RejectOpen \/ Raise
  <2>1. call # NoCall
    BY <1>5, StageOfCall DEF Accept, AcceptClose, AcceptOpen, Reject, RejectOpen, Raise
  <2>2. phase' = phase
    BY <1>5 DEF Accept, AcceptClose, AcceptOpen, Reject, RejectOpen, Raise, Answered, tick
  <2>3. phase = "trading"
    BY <2>1 DEF TypeOK
  <2>4. QED
    BY <2>2, <2>3
<1>6. CASE EndTick \/ Crash
  BY <1>6 DEF EndTick, Crash, Forget
<1>7. QED
  BY <1>1, <1>2, <1>3, <1>4, <1>5, <1>6, StepCases

\* The officer's answer is what the broker is sent.
LEMMA SendSound ==
  ASSUME Inv, NEW t \in Tickers, Send(t)
  PROVE  CallSound'
<1>1. PICK v \in PossibleVerdicts(t) :
        /\ v.op \in OpeningOps \cup ReducingOps
        /\ call' = [NoCall EXCEPT !.t = t, !.verdict = v,
                      !.stage = IF v.close > 0 /\ v.open > 0 THEN "close" ELSE "single"]
  BY DEF Send
<1>2. /\ t \in todo /\ UNCHANGED <<price, openNav, todo, livePos, count, spent>>
      /\ ~LimitReached /\ TypeOK
  BY DEF Send, tick, live, Inv
<1>3. /\ call'.t = t /\ call'.verdict = v
      /\ call'.stage = IF v.close > 0 /\ v.open > 0 THEN "close" ELSE "single"
  BY <1>1 DEF NoCall
<1>4. DailyLimit > 0 => count < DailyLimit
  BY <1>2, BoundsAssumption DEF LimitReached, TypeOK
<1>5. CASE Reduces(v, livePos[t])
  <2>1. call'.stage = "single"
    BY <1>3, <1>5 DEF Reduces
  <2>2. Reduces(call'.verdict, livePos'[call'.t])
    BY <1>2, <1>3, <1>5
  <2>3. QED
    BY <1>2, <1>3, <1>4, <2>1, <2>2 DEF CallSound
<1>6. CASE \E c \in Contexts :
             /\ c.pos = livePos /\ c.price = price[t]
             /\ c.openNav = openNav /\ c.spent = spent
             /\ Enlarges(v, t, c)
  <2>1. PICK c \in Contexts :
          /\ c.pos = livePos /\ c.price = price[t]
          /\ c.openNav = openNav /\ c.spent = spent
          /\ Enlarges(v, t, c)
    BY <1>6
  <2>2. v \in Verdicts /\ v.close \in Nat /\ v.open \in Nat
    BY <2>1 DEF Enlarges, Verdicts
  <2>3. Opens(v, livePos[t], call'.stage)
    <3>1. livePos[t] \in Position
      BY <1>2 DEF TypeOK
    <3>2. Size(livePos[t]) > 0 <=> livePos[t].qty # 0
      BY <3>1, SizeType
    <3>3. QED
      BY <1>3, <2>1, <2>2, <3>1, <3>2 DEF Enlarges, Opens, Position
  <2>4. openNav > 0 /\ Settings.MAX_TICK_BUY > 0 =>
          100 * (spent + TotalCost(t, v.open, price[t])) <= Settings.MAX_TICK_BUY * openNav
    BY <2>1 DEF Enlarges, TickGate, BudgetBase
  <2>5. Opens(call'.verdict, livePos'[call'.t], call'.stage) /\ RoomFor(call.verdict)'
    BY <1>2, <1>3, <2>3, <2>4 DEF RoomFor
  <2>6. QED
    BY <1>2, <1>3, <1>4, <2>5 DEF CallSound
<1>7. QED
  BY <1>1, <1>2, <1>5, <1>6, VerdictSound

LEMMA CallSoundKept ==
  ASSUME Inv, [Next]_vars
  PROVE  CallSound'
<1> USE DEF Inv
<1>1. ASSUME call' = NoCall
      PROVE  CallSound'
  BY <1>1 DEF CallSound
<1>2. ASSUME call # NoCall,
             UNCHANGED <<todo, livePos, count, spent, price, openNav>>,
             call'.t = call.t, call'.verdict = call.verdict,
             \/ call'.stage = call.stage
             \/ call.stage = "close" /\ call'.stage = "open"
      PROVE  CallSound'
  <2>1. call.stage = "close" => ~(call.stage = "single")
    OBVIOUS
  <2>2. Reduces(call.verdict, livePos[call.t]) =>
          Reduces(call'.verdict, livePos'[call'.t])
    BY <1>2
  <2>3. Opens(call.verdict, livePos[call.t], call.stage) =>
          Opens(call'.verdict, livePos'[call'.t], call'.stage)
    BY <1>2 DEF Opens
  <2>4. RoomFor(call.verdict) => RoomFor(call.verdict)'
    BY <1>2 DEF RoomFor
  <2>5. QED
    BY <1>2, <2>1, <2>2, <2>3, <2>4 DEF CallSound
<1>3. CASE Quiet
  <2>1. CASE UNCHANGED vars
    BY <2>1 DEF vars, tick, live, CallSound, RoomFor
  <2>2. CASE call = NoCall
    BY <1>1, <1>3, <2>2, QuietKeeps
  <2>3. QED
    BY <1>3, <2>1, <2>2, QuietKeeps
<1>4. CASE OpenTick
  BY <1>1, <1>4 DEF OpenTick, IdleQuiet
<1>5. CASE \E t \in Tickers : Send(t)
  BY <1>5, SendSound
<1>6. CASE Fill
  <2>1. call # NoCall /\ UNCHANGED <<todo, livePos, count, spent, price, openNav>>
    BY <1>6 DEF Fill, tick, live
  <2>2. call'.t = call.t /\ call'.verdict = call.verdict /\ call'.stage = call.stage
    <3>1. call' = [call EXCEPT !.fills = call.fills + 1]
      BY <1>6 DEF Fill
    <3>2. QED
      BY <2>1, <3>1, CallType
  <2>3. QED
    BY <1>2, <2>1, <2>2
<1>7. CASE FillStray
  BY <1>7 DEF FillStray, tick, live, CallSound, RoomFor
<1>8. CASE AcceptClose
  <2>1. call # NoCall /\ UNCHANGED <<todo, livePos, count, spent, price, openNav>>
    BY <1>8, StageOfCall DEF AcceptClose, Answered, tick, live
  <2>2. call'.t = call.t /\ call'.verdict = call.verdict /\ call'.stage = "open"
    <3>1. call' = [call EXCEPT !.stage = "open", !.fills = 0, !.reported = cash]
      BY <1>8 DEF AcceptClose
    <3>2. QED
      BY <2>1, <3>1, CallType
  <2>3. call.stage = "close"
    BY <1>8 DEF AcceptClose
  <2>4. QED
    BY <1>2, <2>1, <2>2, <2>3
<1>9. CASE Accept \/ AcceptOpen \/ Reject \/ RejectOpen \/ Raise \/ EndTick \/ Crash
  BY <1>1, <1>9 DEF Accept, AcceptOpen, Reject, RejectOpen, Raise, EndTick, Crash, Forget
<1>10. QED
  BY <1>3, <1>4, <1>5, <1>6, <1>7, <1>8, <1>9, StepCases

LEMMA SpentKept ==
  ASSUME Inv, [Next]_vars
  PROVE  SpentWithinBudget'
<1> USE DEF Inv
<1> DEFINE budget == Settings.MAX_TICK_BUY * openNav
<1>1. spent \in Nat /\ openNav \in Int
  BY DEF TypeOK
<1>2. budget \in Int
  BY <1>1, SettingsType, ProductInt
<1>3. ASSUME spent' = spent, openNav' = openNav
      PROVE  SpentWithinBudget'
  BY <1>3 DEF SpentWithinBudget
<1>4. CASE Quiet
  BY <1>3, <1>4, QuietKeeps
<1>5. CASE OpenTick
  <2>1. spent' = 0
    BY <1>5 DEF OpenTick
  <2>2. ASSUME NEW n \in Int, n > 0
        PROVE  100 * 0 <= Settings.MAX_TICK_BUY * n
    BY <2>2, SettingsType, ProductNat
  <2>3. openNav' \in Int
    <3>1. TypeOK'
      BY NextType
    <3>2. QED
      BY <3>1 DEF TypeOK
  <2>4. QED
    BY <2>1, <2>2, <2>3 DEF SpentWithinBudget
<1>6. CASE (\E t \in Tickers : Send(t)) \/ Fill \/ FillStray \/ AcceptClose \/ Reject \/ Raise
  BY <1>3, <1>6 DEF Send, Fill, FillStray, AcceptClose, Reject, Raise, Answered, tick, live
<1>7. CASE Accept \/ AcceptOpen
  <2> DEFINE v == call.verdict
             cost == TotalCost(call.t, v.open, price[call.t])
             spend == SpendOf(v.op, v.open)
  <2>1. call # NoCall /\ openNav' = openNav
    BY <1>7, StageOfCall DEF Accept, AcceptOpen, Answered, tick
  <2>2. spent' = spent + (IF v.op \in OpeningOps THEN spend ELSE 0)
    BY <1>7 DEF Accept, AcceptOpen, Book
  <2>3. v.op \in OpeningOps => RoomFor(v)
    BY <2>1 DEF CallSound, Reduces, ReducingOps, Sells, Covers, OpeningOps
  <2>4. spend \in Nat /\ cost \in Nat /\ spend <= cost
    <3>1. v.open \in Nat /\ call.t \in Tickers /\ price[call.t] \in Nat
      BY <2>1, CallType
    <3>2. QED
      BY <2>1, <3>1, SpendType, CostType
  <2>5. v.op \in OpeningOps => (openNav > 0 /\ Settings.MAX_TICK_BUY > 0 =>
                                  100 * (spent + cost) <= budget)
    BY <2>3 DEF RoomFor
  <2>6. openNav > 0 /\ Settings.MAX_TICK_BUY > 0 => 100 * spent <= budget
    BY DEF SpentWithinBudget
  <2> HIDE DEF cost, spend, budget, v
  <2>7. openNav > 0 /\ Settings.MAX_TICK_BUY > 0 => 100 * spent' <= budget
    BY <1>1, <1>2, <2>2, <2>4, <2>5, <2>6
  <2>8. QED
    BY <2>1, <2>7 DEF SpentWithinBudget, budget
<1>8. CASE RejectOpen
  <2>1. spent' = spent
    BY <1>1, <1>8 DEF RejectOpen, Book, ClosingOp, OpeningOps
  <2>2. QED
    BY <1>3, <1>8, <2>1 DEF RejectOpen, Answered, tick
<1>9. CASE EndTick \/ Crash
  BY <1>9 DEF EndTick, Crash, Forget, SpentWithinBudget
<1>10. QED
  BY <1>4, <1>5, <1>6, <1>7, <1>8, <1>9, StepCases

\* What one execution of the order under way opens at most.
LEMMA FillOpens ==
  ASSUME Inv, Fill, call.fills = 0, exact, phase = "trading"
  PROVE  opened' <= opened + InFlight'
<1> USE DEF Inv
<1> DEFINE v == call.verdict
           at == price[call.t]
           lots == Opening(pos[call.t], CallDelta)
<1>1. /\ call # NoCall /\ call.t \in Tickers /\ at \in Nat /\ v.open \in Nat
      /\ pos[call.t] \in Position /\ livePos[call.t] \in Position /\ CallDelta \in Int
      /\ opened \in Nat
  BY CallType DEF Fill, TypeOK
<1>2. lots \in Nat
  BY <1>1, OpeningType
<1>3. opened' = opened + Notional(call.t, lots, at)
  BY DEF Fill, Execute
<1>4. /\ call' # NoCall /\ call'.fills > 0 /\ call'.t = call.t /\ call'.stage = call.stage
      /\ call'.verdict = v /\ price' = price
  <2>1. call' = [call EXCEPT !.fills = call.fills + 1]
    BY DEF Fill
  <2>2. call'.fills = 1 /\ call'.t = call.t /\ call'.stage = call.stage /\ call'.verdict = v
    BY <1>1, <2>1, CallType
  <2>3. call' # NoCall
    BY <2>2 DEF NoCall
  <2>4. QED
    BY <2>2, <2>3 DEF Fill, tick
<1>5. InFlight' \in Nat
  <2>1. Notional(call.t, v.open, at) \in Nat
    BY <1>1, NotionalType
  <2>2. QED
    BY <1>4, <2>1 DEF InFlight
<1>6. CASE \/ call.stage = "single" /\ Reduces(v, livePos[call.t])
           \/ call.stage = "close" /\ Opens(v, livePos[call.t], call.stage)
  <2>1. call.stage # "open" /\ call.t \in todo
    BY <1>1, <1>6 DEF CallSound
  <2>2. pos[call.t] = livePos[call.t]
    BY <2>1 DEF TodoSynced
  <2>3. lots = 0
    BY <1>1, <1>6, <2>2, CallReduces
  <2>4. Notional(call.t, lots, at) = 0
    BY <1>1, <2>3, NotionalZero
  <2>5. opened' = opened /\ opened \in Nat
    <3> HIDE DEF lots, at
    <3>1. QED
      BY <1>1, <1>3, <2>4
  <2>6. ASSUME NEW f \in Nat
        PROVE  opened' <= opened + f
    BY <2>5
  <2>7. QED
    BY <1>5, <2>6
<1>7. CASE call.stage # "close" /\ Opens(v, livePos[call.t], call.stage)
  <2>1. lots <= v.open
    BY <1>1, <1>7, CallOpens
  <2>2. Notional(call.t, lots, at) <= Notional(call.t, v.open, at)
    BY <1>1, <1>2, <2>1, NotionalMonotone
  <2>3. InFlight' = Notional(call.t, v.open, at)
    BY <1>4, <1>7 DEF InFlight, Opens
  <2>4. Notional(call.t, lots, at) \in Nat /\ Notional(call.t, v.open, at) \in Nat
    BY <1>1, <1>2, NotionalType
  <2>5. QED
    BY <1>1, <1>3, <2>2, <2>3, <2>4
<1>8. QED
  BY <1>1, <1>6, <1>7 DEF CallSound

LEMMA OpenedKept ==
  ASSUME Inv, [Next]_vars
  PROVE  OpenedIsSpent'
<1> USE DEF Inv
<1>1. spent \in Nat /\ opened \in Nat
  BY DEF TypeOK
<1>2. InFlight \in Nat
  <2>1. ASSUME call # NoCall
        PROVE  Notional(call.t, call.verdict.open, price[call.t]) \in Nat
    BY <2>1, CallType, NotionalType
  <2>2. QED
    BY <2>1 DEF InFlight
<1>3. ASSUME exact' => exact, phase' = phase, opened' = opened, spent' = spent,
             exact' => InFlight' = InFlight
      PROVE  OpenedIsSpent'
  BY <1>3 DEF OpenedIsSpent
<1>4. CASE Quiet
  BY <1>3, <1>4, QuietKeeps DEF InFlight
<1>5. CASE OpenTick
  <2>1. call' = NoCall
    BY <1>5 DEF OpenTick, IdleQuiet
  <2>2. InFlight' = 0 /\ opened' = 0 /\ spent' = 0
    BY <1>5, <2>1 DEF OpenTick, InFlight
  <2>3. QED
    BY <2>2 DEF OpenedIsSpent
<1>6. CASE \E t \in Tickers : Send(t)
  <2>1. call = NoCall /\ call'.fills = 0
    BY <1>6 DEF Send, NoCall
  <2>2. InFlight = 0 /\ InFlight' = 0
    BY <2>1 DEF InFlight
  <2>3. QED
    BY <1>3, <1>6, <2>2 DEF Send, tick, live, history
<1>7. CASE Fill
  <2>1. ASSUME exact', phase' = "trading" PROVE opened' <= spent' + InFlight'
    <3>1. exact /\ call.fills = 0 /\ phase = "trading" /\ spent' = spent
      BY <1>7, <2>1 DEF Fill, tick, live
    <3>2. opened' <= opened + InFlight'
      BY <1>7, <3>1, FillOpens
    <3>3. InFlight = 0
      BY <3>1 DEF InFlight
    <3>4. opened <= spent
      BY <1>1, <3>1, <3>3 DEF OpenedIsSpent
    <3>5. opened' \in Nat /\ InFlight' \in Nat
      <4>1. TypeOK'
        BY NextType
      <4>2. call'.t \in Tickers /\ call'.verdict.open \in Nat /\ price'[call'.t] \in Nat
        <5>1. call' = [call EXCEPT !.fills = call.fills + 1] /\ price' = price
              /\ call # NoCall
          BY <1>7 DEF Fill, tick
        <5>2. QED
          BY <5>1, CallType
      <4>3. Notional(call'.t, call'.verdict.open, price'[call'.t]) \in Nat
        BY <4>2, NotionalType
      <4>4. QED
        BY <4>1, <4>3 DEF TypeOK, InFlight
    <3>6. ASSUME NEW f \in Nat, opened' <= opened + f
          PROVE  opened' <= spent' + f
      BY <1>1, <3>1, <3>4, <3>5, <3>6
    <3>7. QED
      BY <3>2, <3>5, <3>6
  <2>2. QED
    BY <2>1 DEF OpenedIsSpent
<1>8. CASE FillStray
  BY <1>8 DEF FillStray, OpenedIsSpent
<1>9. CASE Accept \/ AcceptOpen
  <2> DEFINE v == call.verdict
             spend == SpendOf(v.op, v.open)
             flying == Notional(call.t, v.open, price[call.t])
  <2>1. /\ call # NoCall /\ call' = NoCall /\ opened' = opened /\ phase' = phase
        /\ exact' => exact
    BY <1>9, StageOfCall DEF Accept, AcceptOpen, Answered, tick, history
  <2>2. spent' = spent + (IF v.op \in OpeningOps THEN spend ELSE 0)
    BY <1>9 DEF Accept, AcceptOpen, Book
  <2>3. spend \in Nat /\ flying \in Nat /\ flying <= spend
    <3>1. v.open \in Nat /\ call.t \in Tickers /\ price[call.t] \in Nat
      BY <2>1, CallType
    <3>2. QED
      BY <2>1, <3>1, SpendType, NotionalType
  <2>4. InFlight <= IF v.op \in OpeningOps THEN flying ELSE 0
    BY <2>3 DEF InFlight
  <2>5. InFlight' = 0
    BY <2>1 DEF InFlight
  <2> HIDE DEF v, spend, flying
  <2>6. QED
    BY <1>1, <1>2, <2>1, <2>2, <2>3, <2>4, <2>5 DEF OpenedIsSpent
<1>10. CASE AcceptClose
  <2>1. call.stage = "close" /\ call'.fills = 0
    <3>1. call' = [call EXCEPT !.stage = "open", !.fills = 0, !.reported = cash]
          /\ call.stage = "close"
      BY <1>10 DEF AcceptClose
    <3>2. call # NoCall
      BY <3>1, StageOfCall
    <3>3. QED
      BY <3>1, <3>2, CallType
  <2>2. InFlight = 0 /\ InFlight' = 0
    BY <2>1 DEF InFlight
  <2>3. QED
    BY <1>3, <1>10, <2>2 DEF AcceptClose, Answered, tick, live, history
<1>11. CASE Reject \/ RejectOpen \/ Raise
  <2>1. /\ call' = NoCall /\ opened' = opened /\ phase' = phase
        /\ exact' => exact /\ call.fills = 0
    BY <1>11 DEF Reject, RejectOpen, Raise, Answered, tick, history
  <2>2. exact' => InFlight = 0 /\ InFlight' = 0
    BY <2>1 DEF InFlight
  <2>3. spent' = spent
    <3>1. CASE RejectOpen
      BY <1>1, <3>1 DEF RejectOpen, Book, ClosingOp, OpeningOps
    <3>2. QED
      BY <1>11, <3>1 DEF Reject, Raise, live
  <2>4. QED
    BY <1>3, <2>1, <2>2, <2>3
<1>12. CASE EndTick \/ Crash
  BY <1>12 DEF EndTick, Crash, Forget, OpenedIsSpent
<1>13. QED
  BY <1>4, <1>5, <1>6, <1>7, <1>8, <1>9, <1>10, <1>11, <1>12, StepCases

LEMMA FilledOnceKept ==
  ASSUME Inv, [Next]_vars
  PROVE  FilledOnce'
<1> USE DEF Inv, FilledOnce
<1>1. CASE Quiet
  BY <1>1, QuietKeeps
<1>2. CASE OpenTick \/ FillStray
  BY <1>2 DEF OpenTick, FillStray
<1>3. CASE \E t \in Tickers : Send(t)
  BY <1>3 DEF Send, NoCall
<1>4. CASE Fill
  <2>1. call' = [call EXCEPT !.fills = call.fills + 1] /\ call # NoCall
    BY <1>4 DEF Fill
  <2>2. call'.fills = call.fills + 1
    BY <2>1, CallType
  <2>3. ASSUME exact' PROVE call.fills = 0
    BY <1>4, <2>3 DEF Fill
  <2>4. QED
    BY <2>2, <2>3
<1>5. CASE AcceptClose
  <2>1. call' = [call EXCEPT !.stage = "open", !.fills = 0, !.reported = cash]
        /\ call # NoCall
    BY <1>5, StageOfCall DEF AcceptClose
  <2>2. call'.fills = 0
    BY <2>1, CallType
  <2>3. QED
    BY <2>2
<1>6. CASE Accept \/ AcceptOpen \/ Reject \/ RejectOpen \/ Raise \/ EndTick \/ Crash
  <2>1. call' = NoCall
    BY <1>6 DEF Accept, AcceptOpen, Reject, RejectOpen, Raise, EndTick, Crash, Forget
  <2>2. call'.fills = 0
    BY <2>1 DEF NoCall
  <2>3. QED
    BY <2>2
<1>7. QED
  BY <1>1, <1>2, <1>3, <1>4, <1>5, <1>6, StepCases

LEMMA TodoSyncedKept ==
  ASSUME Inv, [Next]_vars
  PROVE  TodoSynced'
<1> USE DEF Inv
<1>1. ASSUME exact' => exact, phase' = phase, pos' = pos, livePos' = livePos,
             todo' \subseteq todo, call = NoCall
      PROVE  TodoSynced'
  <2>1. call.fills = 0 /\ call.stage # "open"
    BY <1>1 DEF NoCall
  <2>2. QED
    BY <1>1, <2>1 DEF TodoSynced
<1>2. CASE Quiet
  <2>1. CASE UNCHANGED vars
    BY <2>1 DEF vars, broker, tick, live, TodoSynced
  <2>2. CASE call = NoCall
    BY <1>1, <1>2, <2>2, QuietKeeps
  <2>3. QED
    BY <1>2, <2>1, <2>2, QuietKeeps
<1>3. CASE OpenTick
  BY <1>3 DEF OpenTick, broker, TodoSynced
<1>4. CASE \E t \in Tickers : Send(t)
  BY <1>1, <1>4 DEF Send, broker, tick, live
<1>5. CASE Fill
  <2>1. SUFFICES ASSUME exact', phase' = "trading", NEW u \in todo',
                        u # call'.t \/ (call'.fills = 0 /\ call'.stage # "open")
                 PROVE  pos'[u] = livePos'[u]
    BY DEF TodoSynced
  <2>2. call' = [call EXCEPT !.fills = call.fills + 1] /\ call # NoCall
        /\ UNCHANGED <<phase, todo, livePos>>
    BY <1>5 DEF Fill, tick, live
  <2>3. exact /\ call.fills = 0
    BY <1>5, <2>1 DEF Fill
  <2>4. call'.t = call.t /\ call'.fills = 1
    BY <2>2, <2>3, CallType
  <2>5. u # call.t
    BY <2>1, <2>4
  <2>6. pos[u] = livePos[u]
    BY <2>1, <2>2, <2>3, <2>5 DEF TodoSynced
  <2>7. pos' = [pos EXCEPT ![call.t] = Moved(pos[call.t], CallDelta, price[call.t])]
    BY <1>5 DEF Fill, Execute
  <2>8. u \in Tickers /\ pos \in [Tickers -> Position]
    BY <2>1, <2>2 DEF TypeOK
  <2>9. QED
    BY <2>2, <2>5, <2>6, <2>7, <2>8
<1>6. CASE FillStray
  BY <1>6 DEF FillStray, TodoSynced
<1>7. CASE AcceptClose
  <2>1. call' = [call EXCEPT !.stage = "open", !.fills = 0, !.reported = cash] /\ call # NoCall
        /\ UNCHANGED <<phase, todo, livePos, pos>>
    BY <1>7, StageOfCall DEF AcceptClose, Answered, broker, tick, live
  <2>2. call'.t = call.t /\ call'.stage = "open"
    BY <2>1, CallType
  <2>3. ASSUME exact' PROVE exact
    BY <1>7, <2>3 DEF AcceptClose, Answered
  <2>4. QED
    BY <2>1, <2>2, <2>3 DEF TodoSynced
<1>8. CASE Accept \/ AcceptOpen \/ Reject \/ RejectOpen \/ Raise
  <2>1. SUFFICES ASSUME exact', phase' = "trading", NEW u \in todo'
                 PROVE  pos'[u] = livePos'[u]
    BY DEF TodoSynced
  <2>2. call # NoCall
    BY <1>8, StageOfCall DEF Accept, AcceptOpen, Reject, RejectOpen, Raise
  <2>3. todo' = todo \ {call.t} /\ UNCHANGED <<phase, pos>>
    BY <1>8 DEF Accept, AcceptOpen, Reject, RejectOpen, Raise, Done, Answered, broker, tick
  <2>4. exact
    BY <1>8, <2>1 DEF Accept, AcceptOpen, Reject, RejectOpen, Raise, Answered
  <2>5. u # call.t /\ pos[u] = livePos[u]
    BY <2>1, <2>3, <2>4 DEF TodoSynced
  <2>6. livePos'[u] = livePos[u]
    <3>1. CASE livePos' = livePos
      BY <3>1
    <3>2. CASE \E p \in {livePos'[call.t]} : livePos' = [livePos EXCEPT ![call.t] = p]
      BY <2>1, <2>3, <2>5, <3>2 DEF TypeOK
    <3>3. QED
      <4>1. ASSUME NEW p, livePos' = [livePos EXCEPT ![call.t] = p]
            PROVE  livePos'[u] = livePos[u]
        BY <2>1, <2>3, <2>5, <4>1 DEF TypeOK
      <4>2. QED
        BY <1>8, <3>1, <4>1 DEF Accept, AcceptOpen, Reject, RejectOpen, Raise, Book, live
  <2>7. QED
    BY <2>3, <2>5, <2>6
<1>9. CASE EndTick \/ Crash
  BY <1>9 DEF EndTick, Crash, Forget, TodoSynced
<1>10. QED
  BY <1>2, <1>3, <1>4, <1>5, <1>6, <1>7, <1>8, <1>9, StepCases

\* A flip under way: its orders are sent only when flips are allowed.
LEMMA FlipAllowed ==
  ASSUME Inv, call.stage \in {"close", "open"}
  PROVE  Settings.ALLOW_FLIP
  BY StageOfCall DEF Inv, CallSound, Opens

\* A single order is booked as the broker executes it.
LEMMA BookedAsOne ==
  ASSUME Inv, call.stage = "single"
  PROVE  LET v == call.verdict
         IN  SimulatedPosition(v.op, v.close, v.open)
               = Moved(livePos[call.t], CallDelta, price[call.t])
<1> DEFINE v == call.verdict
           p == livePos[call.t]
           at == price[call.t]
           a == Signed(v.op, v.close)
           b == Signed(v.op, v.open)
<1>1. /\ v.close \in Nat /\ v.open \in Nat /\ p \in Position /\ at \in Nat
      /\ v.close = 0 \/ v.open = 0
  BY StageOfCall, CallType DEF Inv, CallSound, Reduces, Opens
<1>2. a \in Int /\ b \in Int /\ (a = 0 \/ b = 0)
  BY <1>1 DEF Signed
<1>3. CallDelta = a + b
  <2>1. CallDelta = Signed(v.op, v.close + v.open)
    BY DEF CallDelta
  <2> QED
    BY <1>1, <2>1 DEF Signed
<1>4. Moved(Moved(p, a, at), b, at) = Moved(p, CallDelta, at)
  <2> HIDE DEF a, b, p, at
  <2> QED
    BY <1>1, <1>2, <1>3, MovedInTwo
<1> QED
  BY <1>4 DEF SimulatedPosition

LEMMA LagsKept ==
  ASSUME Inv, [Next]_vars
  PROVE  Lags'
<1> USE DEF Inv
<1>1. ASSUME exact' => exact, phase' = phase, pos' = pos, trades' = trades, cash' = cash,
             livePos' = livePos, count' = count, liveCash' = liveCash,
             call.fills = 0, call'.fills = 0
      PROVE  Lags'
  BY <1>1 DEF Lags
<1>2. CASE Quiet
  <2>1. CASE UNCHANGED vars
    BY <2>1 DEF vars, broker, tick, live, Lags, CallDelta
  <2>2. CASE call = NoCall
    <3>1. CASE trades' = trades
      BY <1>1, <1>2, <2>2, <3>1, QuietKeeps DEF NoCall
    <3>2. CASE phase = "idle"
      BY <1>2, <3>2, QuietKeeps DEF Lags
    <3>3. QED
      BY <1>2, <3>1, <3>2, QuietKeeps
  <2>3. QED
    BY <1>2, <2>1, <2>2, QuietKeeps
<1>3. CASE OpenTick
  <2>1. call' = NoCall
    BY <1>3 DEF OpenTick, IdleQuiet
  <2>2. call'.fills = 0
    BY <2>1 DEF NoCall
  <2>3. QED
    BY <1>3, <2>2 DEF OpenTick, broker, Lags
<1>4. CASE \E t \in Tickers : Send(t)
  <2>1. call = NoCall /\ call'.fills = 0
    BY <1>4 DEF Send, NoCall
  <2>2. call.fills = 0
    BY <2>1 DEF NoCall
  <2>3. QED
    BY <1>1, <1>4, <2>1, <2>2 DEF Send, broker, tick, live
<1>5. CASE Fill
  <2>1. SUFFICES ASSUME exact', phase' = "trading", ~Settings.ALLOW_FLIP
                 PROVE  /\ call'.fills # 0
                        /\ pos' = [livePos' EXCEPT ![call'.t] =
                              Moved(livePos'[call'.t], CallDelta', price'[call'.t])]
                        /\ trades' = count' + 1
    BY DEF Lags
  <2>2. call' = [call EXCEPT !.fills = call.fills + 1] /\ call # NoCall
        /\ UNCHANGED <<phase, livePos, count, price>>
    BY <1>5 DEF Fill, tick, live
  <2>3. exact /\ call.fills = 0
    BY <1>5, <2>1 DEF Fill
  <2>4. call'.t = call.t /\ call'.fills = 1 /\ call'.verdict = call.verdict
        /\ call'.stage = call.stage
    BY <2>2, <2>3, CallType
  <2>5. CallDelta' = CallDelta
    BY <2>4 DEF CallDelta
  <2>6. livePos = pos /\ count = trades
    BY <2>1, <2>2, <2>3 DEF Lags
  <2>7. pos' = [pos EXCEPT ![call.t] = Moved(pos[call.t], CallDelta, price[call.t])]
        /\ trades' = trades + 1
    BY <1>5 DEF Fill, Execute
  <2>8. QED
    BY <2>2, <2>4, <2>5, <2>6, <2>7
<1>6. CASE FillStray
  BY <1>6 DEF FillStray, Lags
<1>7. CASE Accept
  <2> DEFINE v == call.verdict
             p == livePos[call.t]
             at == price[call.t]
  <2>1. SUFFICES ASSUME exact', phase' = "trading", ~Settings.ALLOW_FLIP
                 PROVE  /\ call'.fills = 0
                        /\ livePos' = pos' /\ count' = trades'
                        /\ RemainingCash => liveCash' = cash'
    BY DEF Lags
  <2>2. /\ call # NoCall /\ call.stage = "single" /\ call' = NoCall
        /\ UNCHANGED <<phase, pos, trades, cash>>
    BY <1>7, StageOfCall DEF Accept, Answered, broker, tick
  <2>3. exact /\ call.fills = 1
    BY <1>7, <2>1 DEF Accept, Answered
  <2>4. /\ pos = [livePos EXCEPT ![call.t] = Moved(p, CallDelta, at)]
        /\ trades = count + 1
    BY <2>1, <2>2, <2>3 DEF Lags
  <2>6. SimulatedPosition(v.op, v.close, v.open) = Moved(p, CallDelta, at)
    BY <2>2, BookedAsOne
  <2>7. /\ livePos' = [livePos EXCEPT ![call.t] = SimulatedPosition(v.op, v.close, v.open)]
        /\ count' = count + 1
        /\ RemainingCash => liveCash' = cash
    BY <1>7 DEF Accept, Book, SimulatedCash
  <2>8. call'.fills = 0
    BY <2>2 DEF NoCall
  <2>9. QED
    BY <2>2, <2>4, <2>6, <2>7, <2>8
<1>8. CASE AcceptClose \/ AcceptOpen \/ RejectOpen
  BY <1>8, FlipAllowed DEF AcceptClose, AcceptOpen, RejectOpen, Lags
<1>9. CASE Reject \/ Raise
  <2>1. /\ call' = NoCall
        /\ exact' => exact /\ call.fills = 0
        /\ UNCHANGED <<phase, pos, trades, cash, livePos, count, liveCash>>
    BY <1>9 DEF Reject, Raise, Answered, broker, tick, live
  <2>2. call'.fills = 0
    BY <2>1 DEF NoCall
  <2>3. QED
    BY <2>1, <2>2 DEF Lags
<1>10. CASE EndTick \/ Crash
  BY <1>10 DEF EndTick, Crash, Forget, Lags
<1>11. QED
  BY <1>2, <1>3, <1>4, <1>5, <1>6, <1>7, <1>8, <1>9, <1>10, StepCases

LEMMA DailyLimitKept ==
  ASSUME Inv, [Next]_vars
  PROVE  DailyLimitRespected'
<1> USE DEF Inv
<1>1. trades \in Nat /\ count \in Nat /\ DailyLimit \in Nat
  BY BoundsAssumption DEF TypeOK
<1>2. ASSUME exact' => exact, trades' = trades
      PROVE  DailyLimitRespected'
  BY <1>2 DEF DailyLimitRespected
<1>3. CASE Quiet
  <2>1. CASE trades' = trades
    BY <1>2, <1>3, <2>1, QuietKeeps
  <2>2. CASE trades' = 0
    BY <1>1, <2>2 DEF DailyLimitRespected
  <2>3. QED
    BY <1>3, <2>1, <2>2, QuietKeeps
<1>4. CASE OpenTick \/ (\E t \in Tickers : Send(t)) \/ EndTick \/ Crash
  BY <1>2, <1>4 DEF OpenTick, Send, EndTick, Crash, broker
<1>5. CASE Fill
  <2>1. SUFFICES ASSUME exact', ~Settings.ALLOW_FLIP, DailyLimit > 0
                 PROVE  trades' <= DailyLimit
    BY DEF DailyLimitRespected
  <2>2. call # NoCall /\ trades' = trades + 1
    BY <1>5 DEF Fill, Execute
  <2>3. exact /\ call.fills = 0
    BY <1>5, <2>1 DEF Fill
  <2>4. phase = "trading"
    BY <2>2 DEF IdleQuiet, TypeOK
  <2>5. trades = count
    BY <2>1, <2>3, <2>4 DEF Lags
  <2>6. count < DailyLimit
    BY <2>1, <2>2 DEF CallSound
  <2>7. QED
    BY <1>1, <2>2, <2>5, <2>6
<1>6. CASE FillStray
  BY <1>6 DEF FillStray, DailyLimitRespected
<1>7. CASE Accept \/ AcceptClose \/ AcceptOpen \/ Reject \/ RejectOpen \/ Raise
  <2>1. trades' = trades
    BY <1>7 DEF Accept, AcceptClose, AcceptOpen, Reject, RejectOpen, Raise, Answered, broker
  <2>2. ASSUME exact' PROVE exact
    BY <1>7, <2>2
       DEF Accept, AcceptClose, AcceptOpen, Reject, RejectOpen, Raise, Answered
  <2>3. QED
    BY <1>2, <2>1, <2>2
<1>8. QED
  BY <1>3, <1>4, <1>5, <1>6, <1>7, StepCases

-------------------------------------------------------------------------------
(* A second invariant: the verdict behind the order under way, the trades  *)
(* that flips leave uncounted, and the ladder steps that were executed.    *)

\* The order under way is what evaluate would still answer: nothing it was
\* judged by has changed since.
Judged == call # NoCall => call.verdict \in PossibleVerdicts(call.t)

\* After the first half of a flip the position is closed.
HalfFlip ==
  exact /\ \/ call.stage = "close" /\ call.fills > 0
           \/ call.stage = "open" /\ call.fills = 0
  => pos[call.t].qty = 0

\* The trades of the order under way, and the tickers that have had their turn.
CallTrades == call.fills + (IF call.stage = "open" THEN 1 ELSE 0)
Visited == Tickers \ todo
Turns == Cardinality(Visited)

\* Each ticker leaves at most one trade uncounted.
Uncounted ==
  exact /\ phase = "trading" => trades <= count + Turns + CallTrades

\* Only a single order carries a step of the ladder.
StepIsSingle == call.verdict.step # "none" => call.stage = "single"

\* The steps taken in this tick are those of tickers that have had their turn.
TakenVisited ==
  /\ phase = "idle" => taken = {}
  /\ \A e \in taken : e.t \notin todo

\* A step that was executed is in the journal, in this tick's record, or is the
\* one under way.
StepRecorded ==
  exact /\ crashes = 0 =>
    \A e \in fired :
      \/ \E i \in DOMAIN journal : e \in journal[i].taken
      \/ e \in taken
      \/ /\ call # NoCall /\ call.fills > 0
         /\ e = Entry(call.t, livePos[call.t], call.verdict.step)

\* Without flips the cash the answer will carry is what the order under way has
\* made of the cash the ticker was shown.
CashLags ==
  exact /\ phase = "trading" /\ ~Settings.ALLOW_FLIP /\ RemainingCash /\ call.fills # 0 =>
    cash = BrokerCash(call.t, liveCash, livePos[call.t], CallDelta, price[call.t])

Outlook ==
  /\ Judged /\ HalfFlip /\ Uncounted /\ StepIsSingle /\ TakenVisited /\ StepRecorded
  /\ CashLags
  /\ FlipPassesLimitOncePerTicker

\* The journal and the executed steps stay as they are between two orders.
LEMMA QuietRemembers ==
  ASSUME Quiet
  PROVE  UNCHANGED <<journal, crashes, fired>>
  BY DEF Quiet, SkipTick, HourPasses, NewDay, NotEvaluated, SendNothing, Done, vars, broker, clock, tick,
         live, history

\* What evaluate may answer depends on these variables alone.
LEMMA SameVerdicts ==
  ASSUME UNCHANGED <<liveCash, livePos, price, openNav, spent, journal, day, hour>>, NEW t
  PROVE  PossibleVerdicts(t)' = PossibleVerdicts(t)
<1>1. Session' = Session /\ Recent' = Recent
  BY DEF Session, Recent
<1>2. LiveNav' = LiveNav /\ StepsDone(t)' = StepsDone(t)
  BY DEF LiveNav, StepsDone
<1>3. \A sigma, sound : Context(t, sigma, sound)' = Context(t, sigma, sound)
  BY <1>1, <1>2 DEF Context
<1> QED
  BY <1>3 DEF PossibleVerdicts

LEMMA JudgedKept ==
  ASSUME Inv, Judged, [Next]_vars
  PROVE  Judged'
<1> USE DEF Inv
<1>1. ASSUME call' = NoCall PROVE Judged'
  BY <1>1 DEF Judged
<1>2. ASSUME call # NoCall, call'.t = call.t, call'.verdict = call.verdict,
             UNCHANGED <<liveCash, livePos, price, openNav, spent, journal, day, hour>>
      PROVE  Judged'
  <2>1. call.verdict \in PossibleVerdicts(call.t)
    BY <1>2 DEF Judged
  <2>2. \A t : PossibleVerdicts(t)' = PossibleVerdicts(t)
    BY <1>2, SameVerdicts
  <2> QED
    BY <1>2, <2>1, <2>2 DEF Judged
<1>3. CASE Quiet
  <2>1. CASE UNCHANGED vars
    <3>1. CASE call = NoCall
      BY <1>1, <2>1, <3>1 DEF vars
    <3>2. CASE call # NoCall
      BY <1>2, <2>1, <3>2 DEF vars, live, tick, clock
    <3> QED
      BY <3>1, <3>2
  <2>2. CASE call = NoCall
    BY <1>1, <1>3, <2>2, QuietKeeps
  <2> QED
    BY <1>3, <2>1, <2>2, QuietKeeps
<1>4. CASE OpenTick
  BY <1>1, <1>4 DEF OpenTick, IdleQuiet
<1>5. CASE \E t \in Tickers : Send(t)
  <2>1. PICK t \in Tickers : Send(t)
    BY <1>5
  <2>2. PICK v \in PossibleVerdicts(t) : call'.t = t /\ call'.verdict = v
    BY <2>1 DEF Send, NoCall
  <2>3. UNCHANGED <<liveCash, livePos, price, openNav, spent, journal, day, hour>>
    BY <2>1 DEF Send, live, tick, clock
  <2>4. \A u : PossibleVerdicts(u)' = PossibleVerdicts(u)
    BY <2>3, SameVerdicts
  <2> QED
    BY <2>2, <2>4 DEF Judged
<1>6. CASE Fill
  <2>1. call # NoCall /\ call' = [call EXCEPT !.fills = call.fills + 1]
    BY <1>6 DEF Fill
  <2>2. call'.t = call.t /\ call'.verdict = call.verdict
    BY <2>1, CallType
  <2>3. UNCHANGED <<liveCash, livePos, price, openNav, spent, journal, day, hour>>
    BY <1>6 DEF Fill, live, tick, clock
  <2> QED
    BY <1>2, <2>1, <2>2, <2>3
<1>7. CASE FillStray
  <2>1. call' = call /\ UNCHANGED <<liveCash, livePos, price, openNav, spent, journal, day, hour>>
    BY <1>7 DEF FillStray, live, tick, clock
  <2> QED
    BY <1>1, <1>2, <2>1
<1>8. CASE AcceptClose
  <2>1. call # NoCall /\ call' = [call EXCEPT !.stage = "open", !.fills = 0, !.reported = cash]
    BY <1>8, StageOfCall DEF AcceptClose
  <2>2. call'.t = call.t /\ call'.verdict = call.verdict
    BY <2>1, CallType
  <2>3. UNCHANGED <<liveCash, livePos, price, openNav, spent, journal, day, hour>>
    BY <1>8 DEF AcceptClose, Answered, live, tick, clock
  <2> QED
    BY <1>2, <2>1, <2>2, <2>3
<1>9. CASE Accept \/ AcceptOpen \/ Reject \/ RejectOpen \/ Raise \/ EndTick \/ Crash
  BY <1>1, <1>9 DEF Accept, AcceptOpen, Reject, RejectOpen, Raise, EndTick, Crash, Forget
<1> QED
  BY <1>3, <1>4, <1>5, <1>6, <1>7, <1>8, <1>9, StepCases

LEMMA HalfFlipKept ==
  ASSUME Inv, HalfFlip, [Next]_vars
  PROVE  HalfFlip'
<1> USE DEF Inv
<1>1. ASSUME call' = NoCall PROVE HalfFlip'
  BY <1>1 DEF HalfFlip, NoCall
<1>2. CASE Quiet
  <2>1. CASE UNCHANGED vars
    BY <2>1 DEF vars, broker, HalfFlip
  <2>2. CASE call = NoCall
    BY <1>1, <1>2, <2>2, QuietKeeps
  <2> QED
    BY <1>2, <2>1, <2>2, QuietKeeps
<1>3. CASE OpenTick
  BY <1>1, <1>3 DEF OpenTick, IdleQuiet
<1>4. CASE \E t \in Tickers : Send(t)
  BY <1>4 DEF Send, NoCall, HalfFlip
<1>5. CASE Fill
  <2>1. SUFFICES ASSUME exact',
                        \/ call'.stage = "close"
                        \/ call'.stage = "open" /\ call'.fills = 0
                 PROVE  pos'[call'.t].qty = 0
    BY DEF HalfFlip
  <2>2. /\ call # NoCall /\ call' = [call EXCEPT !.fills = call.fills + 1]
        /\ exact /\ call.fills = 0
        /\ pos' = [pos EXCEPT ![call.t] = Moved(pos[call.t], CallDelta, price[call.t])]
    BY <1>5, <2>1 DEF Fill, Execute
  <2>3. call'.t = call.t /\ call'.fills = 1 /\ call'.stage = call.stage /\ call.t \in Tickers
    BY <2>2, CallType
  <2>4. call.stage = "close"
    BY <2>1, <2>3
  <2>5. phase = "trading"
    BY <2>2 DEF IdleQuiet, TypeOK
  <2>6. Opens(call.verdict, livePos[call.t], "close") /\ call.t \in todo
    BY <2>2, <2>4 DEF CallSound
  <2>7. pos[call.t] = livePos[call.t]
    BY <2>2, <2>4, <2>5, <2>6 DEF TodoSynced
  <2> DEFINE p == pos[call.t]
  <2>8. /\ p \in Position /\ pos \in [Tickers -> Position] /\ price[call.t] \in Nat
        /\ CallDelta \in Int
    BY <2>2, CallType DEF TypeOK
  <2>9. CallDelta = -p.qty
    <3>1. /\ call.verdict.close = Size(p)
          /\ \/ call.verdict.op = "flip_short_to_long" /\ p.qty < 0
             \/ call.verdict.op = "flip_long_to_short" /\ p.qty > 0
      BY <2>6, <2>7 DEF Opens
    <3>2. CallDelta = Signed(call.verdict.op, call.verdict.close)
      BY <2>4 DEF CallDelta
    <3> QED
      BY <2>8, <3>1, <3>2 DEF Signed, Buys, Covers, Size, Position
  <2>10. pos'[call.t].qty = p.qty + CallDelta
    BY <2>2, <2>3, <2>8, MovedType
  <2> QED
    BY <2>3, <2>8, <2>9, <2>10 DEF Position
<1>6. CASE FillStray
  BY <1>6 DEF FillStray, HalfFlip
<1>7. CASE AcceptClose
  <2>1. /\ call # NoCall /\ call.stage = "close" /\ call.fills > 0
        /\ call' = [call EXCEPT !.stage = "open", !.fills = 0, !.reported = cash]
        /\ exact' => exact
        /\ UNCHANGED pos
    BY <1>7, StageOfCall DEF AcceptClose, Answered, broker
  <2>2. call'.t = call.t
    BY <2>1, CallType
  <2> QED
    BY <2>1, <2>2 DEF HalfFlip
<1>8. CASE Accept \/ AcceptOpen \/ Reject \/ RejectOpen \/ Raise \/ EndTick \/ Crash
  BY <1>1, <1>8 DEF Accept, AcceptOpen, Reject, RejectOpen, Raise, EndTick, Crash, Forget
<1> QED
  BY <1>2, <1>3, <1>4, <1>5, <1>6, <1>7, <1>8, StepCases

\* The tickers that have had their turn are counted, and a turn adds one.
LEMMA VisitedType ==
  ASSUME NEW T \in SUBSET Tickers
  PROVE  /\ Cardinality(T) \in Nat /\ Cardinality(T) <= N
         /\ \A t \in Tickers \ T :
              /\ Cardinality(T \cup {t}) = Cardinality(T) + 1
              /\ Cardinality(T) + 1 <= N
<1>1. IsFiniteSet(Tickers) /\ Cardinality(Tickers) = N
  BY NAssumption, FS_Interval DEF Tickers
<1>2. ASSUME NEW U \in SUBSET Tickers
      PROVE  IsFiniteSet(U) /\ Cardinality(U) \in Nat /\ Cardinality(U) <= N
  BY <1>1, FS_Subset, FS_CardinalityType
<1>3. ASSUME NEW t \in Tickers \ T
      PROVE  /\ Cardinality(T \cup {t}) = Cardinality(T) + 1
             /\ Cardinality(T) + 1 <= N
  <2>1. Cardinality(T \cup {t}) = Cardinality(T) + 1
    BY <1>2, <1>3, FS_AddElement
  <2>2. Cardinality(T \cup {t}) <= N
    BY <1>2
  <2> QED
    BY <2>1, <2>2
<1> QED
  BY <1>2, <1>3

\* A ticker's turn ends.
LEMMA TurnEnds ==
  ASSUME TypeOK, NEW t \in todo, todo' = todo \ {t}
  PROVE  Turns \in Nat /\ Turns' = Turns + 1 /\ Turns' <= N
<1>1. Visited \in SUBSET Tickers /\ t \in Tickers \ Visited /\ Visited' = Visited \cup {t}
  BY DEF Visited, TypeOK
<1> QED
  BY <1>1, VisitedType DEF Turns

LEMMA TurnsType ==
  /\ Turns \in Nat /\ Turns' \in Nat
  /\ TypeOK => \A t \in todo : Turns + 1 <= N
<1>1. Visited \in SUBSET Tickers /\ Visited' \in SUBSET Tickers
  BY DEF Visited
<1>2. ASSUME TypeOK, NEW t \in todo PROVE t \in Tickers \ Visited
  BY <1>2 DEF Visited, TypeOK
<1> QED
  BY <1>1, <1>2, VisitedType DEF Turns

LEMMA CallTradesType ==
  ASSUME TypeOK, TypeOK'
  PROVE  call.fills \in Nat /\ call'.fills \in Nat /\ CallTrades \in Nat /\ CallTrades' \in Nat
<1> DEFINE Calls == [t : Tickers, verdict : Verdicts, stage : {"single", "close", "open"},
                     fills : 0..MaxFills, reported : Int]
<1>1. call \in Calls \cup {NoCall} /\ call' \in Calls \cup {NoCall}
  BY DEF TypeOK
<1>2. \A k \in 0..MaxFills : k \in Nat
  BY BoundsAssumption
<1>3. \A c \in Calls : c.fills \in 0..MaxFills
  OBVIOUS
<1>4. NoCall.fills \in Nat
  BY DEF NoCall
<1> HIDE DEF Calls
<1>5. call.fills \in Nat /\ call'.fills \in Nat
  BY <1>1, <1>2, <1>3, <1>4
<1> QED
  BY <1>5 DEF CallTrades

LEMMA UncountedKept ==
  ASSUME Inv, TypeOK', Uncounted, [Next]_vars
  PROVE  Uncounted'
<1> USE DEF Inv
<1>1. /\ trades \in Nat /\ count \in Nat
      /\ call.fills \in Nat
  BY CallTradesType DEF TypeOK
<1>2. NoCall.fills = 0 /\ NoCall.stage # "open"
  BY DEF NoCall
<1>a. PICK turns \in Nat, turns1 \in Nat :
        turns = Turns /\ turns1 = Turns'
  BY TurnsType
<1>b. PICK under \in Nat, under1 \in Nat :
        under = CallTrades /\ under1 = CallTrades'
  BY CallTradesType
<1>c. PICK trades1 \in Nat, count1 \in Nat :
        trades1 = trades' /\ count1 = count'
  BY DEF TypeOK
<1>0. /\ Uncounted <=> (exact /\ phase = "trading" => trades <= count + turns + under)
      /\ Uncounted' <=> (exact' /\ phase' = "trading" => trades1 <= count1 + turns1 + under1)
  BY <1>a, <1>b, <1>c DEF Uncounted
<1>3. CASE Quiet
  <2>1. CASE UNCHANGED vars
    BY <2>1 DEF vars, broker, tick, live, Uncounted, CallTrades, Visited, Turns
  <2>2. CASE call = NoCall /\ phase = "trading"
    <3>1. UNCHANGED <<trades, count, call, exact, phase>>
      BY <1>3, <2>2, <2>1
         DEF Quiet, SkipTick, HourPasses, NewDay, NotEvaluated, SendNothing, vars, broker, live, tick
    <3>2. todo' = todo \/ \E t \in todo : todo' = todo \ {t}
      BY <1>3, <2>2, <2>1 DEF Quiet, SkipTick, HourPasses, NewDay, NotEvaluated, SendNothing, Done, vars
    <3>3. turns1 >= turns
      <4>1. CASE todo' = todo
        BY <1>a, <4>1 DEF Visited, Turns
      <4>2. CASE \E t \in todo : todo' = todo \ {t}
        <5>1. turns1 = turns + 1
          BY <1>a, <4>2, TurnEnds
        <5> QED
          BY <5>1
      <4> QED
        BY <3>2, <4>1, <4>2
    <3>4. under1 = under
      BY <1>b, <3>1 DEF CallTrades
    <3>5. SUFFICES ASSUME exact PROVE trades1 <= count1 + turns1 + under1
      BY <1>0, <3>1 DEF Uncounted
    <3>6. trades <= count + turns + under
      BY <1>0, <2>2, <3>5 DEF Uncounted
    <3>7. trades1 = trades /\ count1 = count
      BY <1>c, <3>1
    <3> QED
      BY <1>1, <3>3, <3>4, <3>6, <3>7
  <2>3. CASE call = NoCall /\ phase # "trading"
    BY <1>0, <1>3, <2>3, QuietKeeps DEF Uncounted
  <2> QED
    BY <1>3, <2>1, <2>2, <2>3, QuietKeeps
<1>4. CASE OpenTick
  <2>1. count1 = trades1
    BY <1>4, <1>c DEF OpenTick, broker
  <2>2. trades1 <= count1 + turns1 + under1
    BY <1>1, <2>1
  <2> QED
    BY <1>0, <2>2 DEF Uncounted
<1>5. CASE \E t \in Tickers : Send(t)
  <2>1. call = NoCall /\ UNCHANGED <<trades, count, exact, phase, todo>>
    BY <1>5 DEF Send, broker, tick, live
  <2>2. call'.fills = 0 /\ call'.stage # "open"
    BY <1>5 DEF Send, NoCall
  <2>3. under1 = under
    BY <1>b, <1>2, <2>1, <2>2 DEF CallTrades
  <2>4. turns1 = turns
    BY <1>a, <2>1 DEF Turns, Visited
  <2>5. trades1 = trades /\ count1 = count
    BY <1>c, <2>1
  <2> QED
    BY <1>0, <2>1, <2>3, <2>4, <2>5 DEF Uncounted
<1>6. CASE Fill
  <2>1. /\ call # NoCall /\ call' = [call EXCEPT !.fills = call.fills + 1]
        /\ trades' = trades + 1 /\ UNCHANGED <<count, phase, todo>> /\ (exact' => exact)
    BY <1>6 DEF Fill, Execute, tick, live
  <2>2. call'.fills = call.fills + 1 /\ call'.stage = call.stage
    BY <2>1, CallType
  <2>3. under1 = under + 1
    BY <1>b, <1>1, <2>2 DEF CallTrades
  <2>4. turns1 = turns
    BY <1>a, <2>1 DEF Turns, Visited
  <2>5. SUFFICES ASSUME exact, phase = "trading"
                 PROVE  trades1 <= count1 + turns1 + under1
    BY <1>0, <2>1 DEF Uncounted
  <2>6. trades <= count + turns + under
    BY <1>0, <2>5 DEF Uncounted
  <2>7. trades1 = trades + 1 /\ count1 = count
    BY <1>c, <2>1
  <2> QED
    BY <1>1, <2>3, <2>4, <2>6, <2>7
<1>7. CASE FillStray
  BY <1>7 DEF FillStray, Uncounted
<1>8. CASE AcceptClose
  <2>1. /\ call # NoCall /\ call' = [call EXCEPT !.stage = "open", !.fills = 0, !.reported = cash]
        /\ call.stage = "close" /\ exact' = (exact /\ call.fills = 1)
        /\ UNCHANGED <<trades, count, phase, todo>>
    BY <1>8, StageOfCall DEF AcceptClose, Answered, broker, tick, live
  <2>2. call'.fills = 0 /\ call'.stage = "open"
    BY <2>1, CallType
  <2>3. call.fills = 1 => under1 = under
    BY <1>b, <2>1, <2>2 DEF CallTrades
  <2>4. turns1 = turns
    BY <1>a, <2>1 DEF Turns, Visited
  <2>5. trades1 = trades /\ count1 = count
    BY <1>c, <2>1
  <2> QED
    BY <1>0, <2>1, <2>3, <2>4, <2>5 DEF Uncounted
<1>9. CASE Accept \/ AcceptOpen \/ Reject \/ RejectOpen \/ Raise
  <2>1. SUFFICES ASSUME exact', phase' = "trading"
                 PROVE  trades1 <= count1 + turns1 + under1
    BY <1>0 DEF Uncounted
  <2>2. /\ call # NoCall /\ call' = NoCall /\ todo' = todo \ {call.t}
        /\ UNCHANGED <<trades, phase>> /\ exact
    BY <1>9, <2>1, StageOfCall
       DEF Accept, AcceptOpen, Reject, RejectOpen, Raise, Done, Answered, broker, tick
  <2>3. under1 = 0
    BY <1>b, <1>2, <2>2 DEF CallTrades
  <2>4. turns1 = turns + 1
    BY <1>a, <2>2, TurnEnds DEF CallSound
  <2>5. trades <= count + turns + under
    BY <1>0, <2>1, <2>2 DEF Uncounted
  <2>6. under <= (count1 - count) + 1
    <3>1. CASE Accept
      <4>1. call.fills = 1 /\ call.stage = "single"
        BY <2>1, <3>1 DEF Accept, Answered
      <4>2. under = 1 /\ count1 = count + 1
        BY <1>b, <1>c, <3>1, <4>1 DEF Accept, Book, CallTrades
      <4> QED
        BY <1>1, <4>2
    <3>2. CASE AcceptOpen
      <4>1. call.fills = 1 /\ call.stage = "open"
        BY <2>1, <3>2 DEF AcceptOpen, Answered
      <4>2. under = 2 /\ count1 = count + 2
        BY <1>b, <1>c, <3>2, <4>1 DEF AcceptOpen, Book, CallTrades
      <4> QED
        BY <1>1, <4>2
    <3>3. CASE RejectOpen
      <4>1. call.fills = 0 /\ call.stage = "open"
        BY <2>1, <3>3 DEF RejectOpen, Answered
      <4>2. under = 1 /\ count1 = count + 1
        BY <1>b, <1>c, <3>3, <4>1 DEF RejectOpen, Book, CallTrades
      <4> QED
        BY <1>1, <4>2
    <3>4. CASE Reject \/ Raise
      <4>1. call.fills = 0
        BY <2>1, <3>4 DEF Reject, Raise, Answered
      <4>2. under <= 1 /\ count1 = count
        BY <1>b, <1>c, <3>4, <4>1 DEF Reject, Raise, live, CallTrades
      <4> QED
        BY <1>1, <4>2
    <3> QED
      BY <1>9, <3>1, <3>2, <3>3, <3>4
  <2>7. trades1 = trades
    BY <1>c, <2>2
  <2> QED
    BY <1>1, <2>3, <2>4, <2>5, <2>6, <2>7
<1>10. CASE EndTick \/ Crash
  BY <1>10 DEF EndTick, Crash, Forget, Uncounted
<1> QED
  BY <1>3, <1>4, <1>5, <1>6, <1>7, <1>8, <1>9, <1>10, StepCases

LEMMA FlipLimitKept ==
  ASSUME Inv, Uncounted, FlipPassesLimitOncePerTicker, [Next]_vars
  PROVE  FlipPassesLimitOncePerTicker'
<1> USE DEF Inv
<1>1. trades \in Nat /\ count \in Nat /\ DailyLimit \in Nat /\ N \in Nat
  BY BoundsAssumption, NAssumption DEF TypeOK
<1>2. ASSUME exact' => exact, trades' = trades
      PROVE  FlipPassesLimitOncePerTicker'
  BY <1>2 DEF FlipPassesLimitOncePerTicker
<1>3. CASE Quiet
  <2>1. CASE trades' = 0
    BY <1>1, <2>1 DEF FlipPassesLimitOncePerTicker
  <2> QED
    BY <1>2, <1>3, <2>1, QuietKeeps
<1>4. CASE OpenTick \/ (\E t \in Tickers : Send(t)) \/ EndTick \/ Crash
  BY <1>2, <1>4 DEF OpenTick, Send, EndTick, Crash, broker
<1>5. CASE Fill
  <2>1. SUFFICES ASSUME exact', DailyLimit > 0 PROVE trades' <= DailyLimit + N
    BY DEF FlipPassesLimitOncePerTicker
  <2>2. call # NoCall /\ trades' = trades + 1 /\ exact /\ call.fills = 0
    BY <1>5, <2>1 DEF Fill, Execute
  <2>3. phase = "trading" /\ call.t \in todo /\ count < DailyLimit
    BY <2>1, <2>2 DEF IdleQuiet, TypeOK, CallSound
  <2>4. trades <= count + Turns + CallTrades /\ Turns \in Nat /\ Turns + 1 <= N
    BY <2>2, <2>3, TurnsType DEF Uncounted
  <2>5. CallTrades \in {0, 1}
    BY <2>2 DEF CallTrades
  <2> QED
    BY <1>1, <2>2, <2>3, <2>4, <2>5
<1>6. CASE FillStray
  BY <1>6 DEF FillStray, FlipPassesLimitOncePerTicker
<1>7. CASE Accept \/ AcceptClose \/ AcceptOpen \/ Reject \/ RejectOpen \/ Raise
  <2>1. trades' = trades /\ (exact' => exact)
    BY <1>7
       DEF Accept, AcceptClose, AcceptOpen, Reject, RejectOpen, Raise, Answered, broker
  <2> QED
    BY <1>2, <2>1
<1> QED
  BY <1>3, <1>4, <1>5, <1>6, <1>7, StepCases

LEMMA StepIsSingleKept ==
  ASSUME Inv, StepIsSingle, [Next]_vars
  PROVE  StepIsSingle'
<1> USE DEF Inv
<1>1. ASSUME call' = NoCall PROVE StepIsSingle'
  BY <1>1 DEF StepIsSingle, NoCall, None, Verdict
<1>2. ASSUME call' = call PROVE StepIsSingle'
  BY <1>2 DEF StepIsSingle
<1>3. CASE Quiet
  BY <1>2, <1>3, QuietKeeps
<1>4. CASE OpenTick \/ FillStray
  BY <1>2, <1>4 DEF OpenTick, FillStray
<1>5. CASE \E t \in Tickers : Send(t)
  <2>1. PICK t \in Tickers : Send(t)
    BY <1>5
  <2>2. PICK v \in PossibleVerdicts(t) :
          /\ v.op \in OpeningOps \cup ReducingOps
          /\ call' = [NoCall EXCEPT !.t = t, !.verdict = v,
                        !.stage = IF v.close > 0 /\ v.open > 0 THEN "close" ELSE "single"]
    BY <2>1 DEF Send
  <2>3. /\ call'.verdict = v
        /\ call'.stage = IF v.close > 0 /\ v.open > 0 THEN "close" ELSE "single"
    BY <2>2 DEF NoCall
  <2>4. v.open = 0 \/ v.step = "none"
    BY <2>2, VerdictSound DEF Reduces, Enlarges
  <2> QED
    BY <2>3, <2>4 DEF StepIsSingle
<1>6. CASE Fill
  <2>1. call # NoCall /\ call' = [call EXCEPT !.fills = call.fills + 1]
    BY <1>6 DEF Fill
  <2>2. call'.verdict = call.verdict /\ call'.stage = call.stage
    BY <2>1, CallType
  <2> QED
    BY <2>2 DEF StepIsSingle
<1>7. CASE AcceptClose
  <2>1. /\ call # NoCall /\ call.stage = "close"
        /\ call' = [call EXCEPT !.stage = "open", !.fills = 0, !.reported = cash]
    BY <1>7, StageOfCall DEF AcceptClose
  <2>2. call'.verdict = call.verdict
    BY <2>1, CallType
  <2> QED
    BY <2>1, <2>2 DEF StepIsSingle
<1>8. CASE Accept \/ AcceptOpen \/ Reject \/ RejectOpen \/ Raise \/ EndTick \/ Crash
  BY <1>1, <1>8 DEF Accept, AcceptOpen, Reject, RejectOpen, Raise, EndTick, Crash, Forget
<1> QED
  BY <1>3, <1>4, <1>5, <1>6, <1>7, <1>8, StepCases

LEMMA TakenVisitedKept ==
  ASSUME Inv, TakenVisited, [Next]_vars
  PROVE  TakenVisited'
<1> USE DEF Inv
<1>1. ASSUME taken' = taken, phase' = phase, todo' \subseteq todo
      PROVE  TakenVisited'
  BY <1>1 DEF TakenVisited
<1>2. CASE Quiet
  BY <1>1, <1>2, QuietKeeps
<1>3. CASE OpenTick \/ EndTick \/ Crash
  BY <1>3 DEF OpenTick, EndTick, Crash, Forget, TakenVisited
<1>4. CASE (\E t \in Tickers : Send(t)) \/ Fill \/ FillStray \/ AcceptClose
  BY <1>1, <1>4 DEF Send, Fill, FillStray, AcceptClose, Answered, tick, live
<1>5. CASE Reject \/ Raise
  BY <1>1, <1>5 DEF Reject, Raise, Answered, Done, tick, live
<1>6. CASE Accept \/ AcceptOpen \/ RejectOpen
  <2>1. /\ call # NoCall /\ UNCHANGED phase /\ todo' = todo \ {call.t}
        /\ taken' = taken \cup (IF call.verdict.step = "none" THEN {}
                                ELSE {Entry(call.t, livePos[call.t], call.verdict.step)})
    BY <1>6, StageOfCall
       DEF Accept, AcceptOpen, RejectOpen, Book, Done, Answered, tick
  <2>2. phase # "idle"
    BY <2>1 DEF IdleQuiet
  <2>3. Entry(call.t, livePos[call.t], call.verdict.step).t = call.t
    BY DEF Entry
  <2> QED
    BY <2>1, <2>2, <2>3 DEF TakenVisited
<1> QED
  BY <1>2, <1>3, <1>4, <1>5, <1>6, StepCases

\* What was executed on the ladder is a step of it.
LEMMA FiredIsStep ==
  ASSUME TypeOK, NEW t, NEW p, NEW step, Entry(t, p, step) \in fired
  PROVE  step # "none"
<1>1. Entry(t, p, step).step \in Steps
  BY DEF TypeOK, LadderStep
<1> QED
  BY <1>1 DEF Entry, Steps

LEMMA StepRecordedKept ==
  ASSUME Inv, StepIsSingle, TakenVisited, StepRecorded, [Next]_vars
  PROVE  StepRecorded'
<1> USE DEF Inv
<1>1. ASSUME exact', crashes' = 0, exact /\ crashes = 0, journal' = journal,
             taken \subseteq taken',
             NEW e \in fired, call.fills > 0 => e \in taken'
      PROVE  \/ \E i \in DOMAIN journal' : e \in journal'[i].taken
             \/ e \in taken'
  BY <1>1 DEF StepRecorded, NoCall
<1>2. CASE Quiet
  <2>1. UNCHANGED <<exact, crashes, fired, journal, taken, call, livePos>>
    BY <1>2, QuietKeeps, QuietRemembers
  <2>2. Entry(call.t, livePos[call.t], call.verdict.step)' =
          Entry(call.t, livePos[call.t], call.verdict.step)
    BY <2>1 DEF Entry
  <2> QED
    BY <2>1, <2>2 DEF StepRecorded
<1>3. CASE OpenTick
  <2>1. call = NoCall /\ taken = {} /\ UNCHANGED <<exact, crashes, fired, journal>>
    BY <1>3 DEF OpenTick, IdleQuiet, TakenVisited
  <2> QED
    BY <2>1 DEF StepRecorded
<1>4. CASE \E t \in Tickers : Send(t)
  <2>1. call = NoCall /\ UNCHANGED <<exact, crashes, fired, journal, taken>>
    BY <1>4 DEF Send, clock, live, history
  <2> QED
    BY <2>1 DEF StepRecorded
<1>5. CASE Fill
  <2>1. SUFFICES ASSUME exact', crashes' = 0, NEW e \in fired'
                 PROVE  \/ \E i \in DOMAIN journal' : e \in journal'[i].taken
                        \/ e \in taken'
                        \/ /\ call' # NoCall /\ call'.fills > 0
                           /\ e = Entry(call.t, livePos[call.t], call.verdict.step)'
    BY DEF StepRecorded
  <2>2. /\ call # NoCall /\ call' = [call EXCEPT !.fills = call.fills + 1]
        /\ UNCHANGED <<crashes, journal, taken, livePos>>
    BY <1>5 DEF Fill, clock, live
  <2>3. exact /\ call.fills = 0
    BY <1>5, <2>1 DEF Fill
  <2>4. /\ call'.t = call.t /\ call'.verdict = call.verdict /\ call'.fills = 1
        /\ call'.stage = call.stage
    BY <2>2, <2>3, CallType
  <2>5. CASE e \in fired
    BY <1>1, <2>1, <2>2, <2>3, <2>5
  <2>6. CASE e \notin fired
    <3>1. /\ e = Entry(call.t, pos[call.t], call.verdict.step)
          /\ call.verdict.step # "none"
      BY <1>5, <2>1, <2>6 DEF Fill
    <3>2. phase = "trading" /\ call.t \in todo /\ call.stage # "open"
      BY <2>2, <3>1 DEF IdleQuiet, TypeOK, CallSound, StepIsSingle
    <3>3. pos[call.t] = livePos[call.t]
      BY <2>3, <3>2 DEF TodoSynced
    <3>4. e = Entry(call.t, livePos[call.t], call.verdict.step)'
      BY <2>2, <2>4, <3>1, <3>3 DEF Entry
    <3>5. call' # NoCall /\ call'.fills > 0
      BY <2>4 DEF NoCall
    <3> QED
      BY <3>4, <3>5
  <2> QED
    BY <2>5, <2>6
<1>6. CASE FillStray
  BY <1>6 DEF FillStray, StepRecorded
<1>7. CASE Accept \/ AcceptClose \/ AcceptOpen \/ Reject \/ RejectOpen \/ Raise
  <2>1. SUFFICES ASSUME exact', crashes' = 0, NEW e \in fired
                 PROVE  \/ \E i \in DOMAIN journal' : e \in journal'[i].taken
                        \/ e \in taken'
    <3>1. fired' = fired
      BY <1>7 DEF Accept, AcceptClose, AcceptOpen, Reject, RejectOpen, Raise, Answered, history
    <3> QED
      BY <2>1, <3>1 DEF StepRecorded
  <2>2. UNCHANGED <<crashes, journal>>
    BY <1>7 DEF Accept, AcceptClose, AcceptOpen, Reject, RejectOpen, Raise, Answered, clock
  <2>3. exact
    BY <1>7, <2>1 DEF Accept, AcceptClose, AcceptOpen, Reject, RejectOpen, Raise, Answered
  <2>4. taken \subseteq taken'
    BY <1>7 DEF Accept, AcceptClose, AcceptOpen, Reject, RejectOpen, Raise, Book, live
  <2>5. ASSUME call.fills > 0, e = Entry(call.t, livePos[call.t], call.verdict.step)
        PROVE  e \in taken'
    <3>1. call.verdict.step # "none"
      BY <2>5, FiredIsStep
    <3>2. call.stage = "single"
      BY <3>1 DEF StepIsSingle
    <3>3. call.fills # 0
      BY <2>5
    <3>4. ~AcceptClose /\ ~AcceptOpen /\ ~RejectOpen
      BY <3>2 DEF AcceptClose, AcceptOpen, RejectOpen
    <3>5. ~Reject /\ ~Raise
      BY <2>1, <3>3 DEF Reject, Raise, Answered
    <3> QED
      BY <1>7, <2>5, <3>1, <3>4, <3>5 DEF Accept, Book
  <2> QED
    BY <2>1, <2>2, <2>3, <2>4, <2>5 DEF StepRecorded
<1>8. CASE EndTick
  <2>1. /\ call = NoCall /\ UNCHANGED <<exact, crashes, fired>>
        /\ journal' = Append(journal, [day |-> day, hour |-> hour, nav |-> openNav,
                                       taken |-> taken])
    BY <1>8 DEF EndTick, clock
  <2>2. journal \in Seq(Records)
    BY DEF TypeOK, Records
  <2>3. /\ \A i \in DOMAIN journal : i \in DOMAIN journal' /\ journal'[i] = journal[i]
        /\ Len(journal) + 1 \in DOMAIN journal' /\ journal'[Len(journal) + 1].taken = taken
    BY <2>1, <2>2
  <2> QED
    BY <2>1, <2>3 DEF StepRecorded
<1>9. CASE Crash
  <2>1. crashes' = crashes + 1 /\ crashes \in Nat
    BY <1>9, BoundsAssumption DEF Crash, TypeOK
  <2>2. crashes' # 0
    BY <2>1
  <2> QED
    BY <2>2 DEF StepRecorded
<1> QED
  BY <1>2, <1>3, <1>4, <1>5, <1>6, <1>7, <1>8, <1>9, StepCases

LEMMA CashLagsKept ==
  ASSUME Inv, CashLags, [Next]_vars
  PROVE  CashLags'
<1> USE DEF CashLags
<1>1. CASE Quiet
  <2>1. CASE UNCHANGED vars
    BY <2>1 DEF vars, broker, tick, live, CallDelta
  <2>2. CASE call = NoCall
    <3>1. call'.fills = 0
      BY <1>1, <2>2, QuietKeeps DEF Inv, NoCall
    <3> QED
      BY <3>1
  <2> QED
    BY <1>1, <2>1, <2>2, QuietKeeps DEF Inv
<1>2. CASE OpenTick
  <2>1. call'.fills = 0
    BY <1>2 DEF OpenTick, Inv, IdleQuiet, NoCall
  <2> QED
    BY <2>1
<1>3. CASE \E t \in Tickers : Send(t)
  <2>1. call'.fills = 0
    BY <1>3 DEF Send, NoCall
  <2> QED
    BY <2>1
<1>4. CASE Fill
  <2>1. SUFFICES ASSUME exact', phase' = "trading", ~Settings.ALLOW_FLIP, RemainingCash
                 PROVE  cash' = BrokerCash(call'.t, liveCash', livePos'[call'.t], CallDelta',
                                           price'[call'.t])
    OBVIOUS
  <2>2. call' = [call EXCEPT !.fills = call.fills + 1] /\ call # NoCall
        /\ UNCHANGED <<phase, livePos, liveCash, price>>
    BY <1>4 DEF Fill, tick, live
  <2>3. exact /\ call.fills = 0
    BY <1>4, <2>1 DEF Fill
  <2>4. call'.t = call.t /\ call'.verdict = call.verdict /\ call'.stage = call.stage
    BY <2>2, CallType DEF Inv
  <2>5. CallDelta' = CallDelta
    BY <2>4 DEF CallDelta
  <2>6. livePos = pos /\ liveCash = cash
    BY <2>1, <2>2, <2>3 DEF Inv, Lags
  <2>7. cash' = BrokerCash(call.t, cash, pos[call.t], CallDelta, price[call.t])
    BY <1>4 DEF Fill, Execute
  <2> QED
    BY <2>2, <2>4, <2>5, <2>6, <2>7
<1>5. CASE FillStray
  BY <1>5 DEF FillStray
<1>6. CASE AcceptClose
  BY <1>6, FlipAllowed DEF AcceptClose
<1>7. CASE Accept \/ AcceptOpen \/ Reject \/ RejectOpen \/ Raise
  <2>1. call'.fills = 0
    BY <1>7 DEF Accept, AcceptOpen, Reject, RejectOpen, Raise, NoCall
  <2> QED
    BY <2>1
<1>8. CASE EndTick \/ Crash
  BY <1>8 DEF EndTick, Crash, Forget
<1> QED
  BY <1>1, <1>2, <1>3, <1>4, <1>5, <1>6, <1>7, <1>8, StepCases

LEMMA OutlookInit == ASSUME Init PROVE Outlook
<1>1. call = NoCall /\ fired = {} /\ taken = {} /\ trades = 0
  BY DEF Init
<1>2. phase = "idle" /\ NoCall.verdict.step = "none" /\ NoCall.fills = 0
      /\ NoCall.stage \notin {"close", "open"}
  BY DEF Init, NoCall, None, Verdict
<1> QED
  BY <1>1, <1>2, BoundsAssumption, NAssumption
     DEF Outlook, Judged, HalfFlip, Uncounted, StepIsSingle, TakenVisited, StepRecorded,
         CashLags, FlipPassesLimitOncePerTicker

LEMMA OutlookNext ==
  ASSUME Inv, Outlook, [Next]_vars
  PROVE  Outlook'
<1> USE DEF Outlook
<1>1. TypeOK'
  BY NextType DEF Inv
<1>2. Judged' /\ HalfFlip'
  BY JudgedKept, HalfFlipKept
<1>3. Uncounted' /\ FlipPassesLimitOncePerTicker'
  BY <1>1, UncountedKept, FlipLimitKept
<1>4. StepIsSingle' /\ TakenVisited' /\ StepRecorded' /\ CashLags'
  BY StepIsSingleKept, TakenVisitedKept, StepRecordedKept, CashLagsKept
<1> QED
  BY <1>2, <1>3, <1>4

-------------------------------------------------------------------------------
(* What an execution can be, when every order was executed as answered.    *)

\* Only the order under way changes the broker's positions, adds to the trades
\* of the day or to what the tick has opened.
LEMMA OnlyFillExecutes ==
  ASSUME TypeOK, IdleQuiet, [Next]_vars, exact', ~Fill
  PROVE  pos' = pos /\ trades' <= trades /\ opened' <= opened
<1>1. trades \in Nat /\ opened \in Nat
  BY DEF TypeOK
<1>2. pos' = pos /\ trades' \in {0, trades} /\ opened' \in {0, opened}
  <2>1. CASE Quiet
    BY <2>1, QuietKeeps
  <2>2. CASE OpenTick
    BY <2>2 DEF OpenTick, broker
  <2>3. CASE EndTick \/ Crash
    BY <2>3 DEF EndTick, Crash, Forget, broker
  <2>4. CASE \E t \in Tickers : Send(t)
    BY <2>4 DEF Send, broker, history
  <2>5. CASE FillStray
    BY <2>5 DEF FillStray
  <2>6. CASE Accept \/ AcceptClose \/ AcceptOpen \/ Reject \/ RejectOpen \/ Raise
    BY <2>6
       DEF Accept, AcceptClose, AcceptOpen, Reject, RejectOpen, Raise, Answered, broker, history
  <2> QED
    BY <2>1, <2>2, <2>3, <2>4, <2>5, <2>6, StepCases
<1> QED
  BY <1>1, <1>2

\* The order about to be executed, as its ticker was judged.
LEMMA FillJudged ==
  ASSUME Inv, Judged, Fill, exact'
  PROVE  /\ call # NoCall /\ phase = "trading" /\ exact /\ call.fills = 0
         /\ call.t \in todo /\ call.t \in Tickers
         /\ call.stage # "open" => pos[call.t] = livePos[call.t]
         /\ \E d \in Decisions, sigma \in Sigmas, sound \in BOOLEAN :
              /\ call.verdict = Evaluate(call.t, d, Context(call.t, sigma, sound))
              /\ Context(call.t, sigma, sound) \in Contexts
<1>1. call # NoCall /\ exact /\ call.fills = 0
  BY DEF Fill
<1>2. phase = "trading" /\ call.t \in todo /\ call.t \in Tickers
  BY <1>1, CallType DEF Inv, IdleQuiet, TypeOK, CallSound
<1>3. call.stage # "open" => pos[call.t] = livePos[call.t]
  BY <1>1, <1>2 DEF Inv, TodoSynced
<1>4. \E d \in Decisions, sigma \in Sigmas, sound \in BOOLEAN :
        /\ call.verdict = Evaluate(call.t, d, Context(call.t, sigma, sound))
        /\ Context(call.t, sigma, sound) \in Contexts
  <2>1. PICK d \in [signal : Signals, size : Sizes], sigma \in Sigmas, sound \in BOOLEAN :
          call.verdict = Evaluate(call.t, d, Context(call.t, sigma, sound))
    BY <1>1 DEF Judged, PossibleVerdicts
  <2>2. d \in Decisions
    BY DecisionsAssumption DEF Decisions
  <2>3. Context(call.t, sigma, sound) \in Contexts
    BY <1>2, ContextType DEF Inv
  <2> QED
    BY <2>1, <2>2, <2>3
<1> QED
  BY <1>1, <1>2, <1>3, <1>4

-------------------------------------------------------------------------------
(* The theorems. *)

LEMMA InvInit == ASSUME Init PROVE Inv
<1>1. TypeOK
  BY InitType
<1>2. QED
  BY <1>1, BoundsAssumption
     DEF Init, Inv, IdleQuiet, CallSound, SpentWithinBudget, OpenedIsSpent, InFlight,
         FilledOnce, TodoSynced, Lags, DailyLimitRespected, NoCall

LEMMA InvNext ==
  ASSUME Inv, [Next]_vars
  PROVE  Inv'
<1>1. TypeOK'
  BY NextType DEF Inv
<1>2. IdleQuiet' /\ CallSound' /\ SpentWithinBudget'
  BY IdleQuietKept, CallSoundKept, SpentKept
<1>3. OpenedIsSpent' /\ FilledOnce' /\ TodoSynced'
  BY OpenedKept, FilledOnceKept, TodoSyncedKept
<1>4. Lags' /\ DailyLimitRespected'
  BY LagsKept, DailyLimitKept
<1>5. QED
  BY <1>1, <1>2, <1>3, <1>4 DEF Inv

LEMMA InvCorrect == Spec => []Inv
<1>1. Init => Inv
  BY InvInit
<1>2. Inv /\ [Next]_vars => Inv'
  BY InvNext
<1>3. QED
  BY <1>1, <1>2, PTL DEF Spec

\* Between two tickers the simulation agrees with the broker's account.
THEOREM SimulationCorrect == Spec => []SimTracksBroker
<1>1. Inv => SimTracksBroker
  <2>1. call = NoCall => call.fills = 0
    BY DEF NoCall
  <2>2. QED
    BY <2>1 DEF Inv, SimTracksBroker, Balanced, Lags
<1>2. QED
  BY <1>1, InvCorrect, PTL

\* What is opened is what is counted, or the order under way that had room.
LEMMA BudgetFollows ==
  ASSUME Inv
  PROVE  TickBudgetRespected
<1> USE DEF Inv
<1> DEFINE budget == Settings.MAX_TICK_BUY * openNav
<1>1. SUFFICES ASSUME exact, openNav > 0, Settings.MAX_TICK_BUY > 0
               PROVE  100 * opened <= budget
  BY DEF TickBudgetRespected
<1>2. spent \in Nat /\ opened \in Nat /\ openNav \in Int
  BY DEF TypeOK
<1>3. budget \in Int
  BY <1>2, SettingsType, ProductInt
<1>4. phase = "trading"
  BY <1>1 DEF IdleQuiet, TypeOK
<1>5. opened <= spent + InFlight
  BY <1>1, <1>4 DEF OpenedIsSpent
<1>6. 100 * spent <= budget
  BY <1>1 DEF SpentWithinBudget
<1>7. CASE InFlight = 0
  <2> HIDE DEF budget
  <2>1. QED
    BY <1>2, <1>3, <1>5, <1>6, <1>7
<1>8. CASE InFlight # 0
  <2> DEFINE flying == Notional(call.t, call.verdict.open, price[call.t])
             cost == TotalCost(call.t, call.verdict.open, price[call.t])
  <2>1. call # NoCall /\ call.verdict.op \in OpeningOps /\ InFlight = flying
    BY <1>8 DEF InFlight
  <2>2. RoomFor(call.verdict)
    BY <2>1 DEF CallSound, Reduces, ReducingOps, Sells, Covers, OpeningOps
  <2>3. 100 * (spent + cost) <= budget
    BY <1>1, <2>2 DEF RoomFor
  <2>4. flying \in Nat /\ cost \in Nat /\ flying <= cost
    BY <2>1, CallType, CostType
  <2> HIDE DEF budget, flying, cost
  <2>5. opened <= spent + flying
    BY <1>5, <2>1
  <2>6. QED
    BY <1>2, <1>3, <2>3, <2>4, <2>5
<1>9. QED
  BY <1>7, <1>8

\* What the broker opens during a tick stays within MAX_TICK_BUY of the NAV the
\* tick started from, with flips that fail halfway included.
THEOREM BudgetCorrect == Spec => []TickBudgetRespected
<1>1. Inv => TickBudgetRespected
  BY BudgetFollows
<1>2. QED
  BY <1>1, InvCorrect, PTL

\* The broker executes no more trades a day than the limit.
THEOREM DailyLimitCorrect == Spec => []DailyLimitRespected
<1>1. Inv => DailyLimitRespected
  BY DEF Inv
<1>2. QED
  BY <1>1, InvCorrect, PTL

\* A step without a stray takes no position through zero.
LEMMA NoFlipStep ==
  ASSUME Inv, [Next]_vars, exact', ~Settings.ALLOW_FLIP, NEW t \in Tickers
  PROVE  ~SameSide(pos[t].qty, -pos'[t].qty)
<1> USE DEF Inv
<1>1. exact' /\ ~Settings.ALLOW_FLIP
  OBVIOUS
<1>2. pos[t] \in Position /\ pos \in [Tickers -> Position]
  BY DEF TypeOK
<1>3. CASE pos' = pos
  BY <1>2, <1>3 DEF SameSide, Position
<1>4. CASE Fill
  <2>1. /\ call # NoCall /\ exact /\ call.fills = 0
        /\ pos' = [pos EXCEPT ![call.t] = Moved(pos[call.t], CallDelta, price[call.t])]
    BY <1>1, <1>4 DEF Fill, Execute
  <2>2. CASE t # call.t
    <3>1. pos'[t] = pos[t]
      BY <1>2, <2>1, <2>2
    <3>2. QED
      BY <1>2, <3>1 DEF SameSide, Position
  <2>3. CASE t = call.t
    <3> DEFINE p == pos[t]
    <3>1. phase = "trading"
      BY <2>1 DEF IdleQuiet, TypeOK
    <3>2. p = livePos[t]
      BY <1>1, <2>1, <3>1 DEF Lags
    <3>3. /\ CallDelta \in Int /\ price[t] \in Nat
          /\ call.stage = "single"
          /\ Reduces(call.verdict, p) \/ Opens(call.verdict, p, call.stage)
      BY <1>1, <2>1, <2>3, <3>2, CallType DEF CallSound, Opens
    <3>4. pos'[t].qty = p.qty + CallDelta
      BY <1>2, <2>1, <2>3, <3>3, MovedType
    <3>5. ~SameSide(p.qty, -(p.qty + CallDelta))
      <4> HIDE DEF p
      <4>1. p \in Position
        BY <1>2 DEF p
      <4>2. call.stage # "close"
        BY <3>3
      <4>3. QED
        BY <2>1, <3>3, <4>1, <4>2, CallReduces, CallOpens
    <3>6. QED
      BY <3>4, <3>5
  <2>4. QED
    BY <2>2, <2>3
<1>5. CASE FillStray
  BY <1>1, <1>5 DEF FillStray
<1>6. QED
  <2>1. CASE Quiet
    BY <1>3, <2>1, QuietKeeps
  <2>2. CASE OpenTick \/ (\E u \in Tickers : Send(u)) \/ EndTick \/ Crash
    BY <1>3, <2>2 DEF OpenTick, Send, EndTick, Crash, broker
  <2>3. CASE Accept \/ AcceptClose \/ AcceptOpen \/ Reject \/ RejectOpen \/ Raise
    BY <1>3, <2>3
       DEF Accept, AcceptClose, AcceptOpen, Reject, RejectOpen, Raise, Answered, broker
  <2>4. QED
    BY <1>4, <1>5, <2>1, <2>2, <2>3, StepCases

\* Without flips no execution takes a position through zero.
THEOREM NoFlipCorrect == Spec => NoFlip
<1> DEFINE Kept == exact' /\ ~Settings.ALLOW_FLIP =>
                     \A t \in Tickers : ~SameSide(pos[t].qty, -pos'[t].qty)
<1>1. Inv /\ [Next]_vars => [Kept]_vars
  BY NoFlipStep
<1>2. QED
  BY <1>1, InvCorrect, PTL DEF Spec, NoFlip

\* A second invariant of the tick, which the first one carries.
LEMMA OutlookCorrect == Spec => [](Inv /\ Outlook)
<1>1. Init => Inv /\ Outlook
  BY InvInit, OutlookInit
<1>2. Inv /\ Outlook /\ [Next]_vars => Inv' /\ Outlook'
  BY InvNext, OutlookNext
<1>3. QED
  BY <1>1, <1>2, PTL DEF Spec

\* With flips the trades of a day pass the limit by one for each ticker at most.
THEOREM FlipLimitCorrect == Spec => []FlipPassesLimitOncePerTicker
<1>1. Outlook => FlipPassesLimitOncePerTicker
  BY DEF Outlook
<1>2. QED
  BY <1>1, OutlookCorrect, PTL

\* What the ladder orders was never executed on this entry.
LEMMA LadderStepOnce ==
  ASSUME Inv, Outlook, [Next]_vars, exact', crashes = 0, call # NoCall, trades' > trades,
         NEW e \in fired
  PROVE  e # Entry(call.t, pos[call.t], call.verdict.step)
<1> DEFINE t == call.t
           step == call.verdict.step
<1>1. Fill
  <2>1. ~(trades' <= trades)
    <3>1. trades \in Nat /\ trades' \in Nat
      BY NextType DEF Inv, TypeOK
    <3> PICK k \in Nat : k = trades'
      BY <3>1
    <3>2. ~(k <= trades)
      BY <3>1
    <3> QED
      BY <3>2
  <2> QED
    BY <2>1, OnlyFillExecutes DEF Inv
<1>2. SUFFICES ASSUME e = Entry(t, pos[t], step) PROVE FALSE
  OBVIOUS
<1>3. step # "none"
  BY <1>2, FiredIsStep DEF Inv
<1>4. call.stage = "single"
  BY <1>3 DEF Outlook, StepIsSingle
<1>5. /\ exact /\ call.fills = 0 /\ t \in todo /\ pos[t] = livePos[t]
      /\ \E d \in Decisions, sigma \in Sigmas, sound \in BOOLEAN :
           /\ call.verdict = Evaluate(t, d, Context(t, sigma, sound))
           /\ Context(t, sigma, sound) \in Contexts
  BY <1>1, <1>4, FillJudged DEF Outlook
<1>6. step \notin StepsDone(t)
  <2>1. PICK d \in Decisions, sigma \in Sigmas, sound \in BOOLEAN :
          /\ call.verdict = Evaluate(t, d, Context(t, sigma, sound))
          /\ Context(t, sigma, sound) \in Contexts
    BY <1>5
  <2>2. t \in Tickers
    BY <1>5 DEF Inv, TypeOK
  <2>3. Context(t, sigma, sound).done = StepsDone(t)
    BY DEF Context
  <2> QED
    BY <1>3, <2>1, <2>2, <2>3, StepNotTaken
<1>7. CASE \E i \in DOMAIN journal : e \in journal[i].taken
  <2>1. step \in Steps
    BY <1>2 DEF Inv, TypeOK, LadderStep, Entry
  <2>2. e = [t |-> t, long |-> livePos[t].qty > 0, avg |-> livePos[t].avg, step |-> step]
    BY <1>2, <1>5 DEF Entry
  <2> QED
    BY <1>6, <1>7, <2>1, <2>2 DEF StepsDone
<1>8. CASE e \in taken
  <2>1. e.t = t
    BY <1>2 DEF Entry
  <2> QED
    BY <1>5, <1>8, <2>1 DEF Outlook, TakenVisited
<1>9. QED
  BY <1>5, <1>7, <1>8 DEF Outlook, StepRecorded

\* While nothing crashed, a step of the ladder is executed once on one entry.
THEOREM LadderCorrect == Spec => LadderOnce
<1> DEFINE Once == \A e \in fired :
                     exact' /\ crashes = 0 /\ call # NoCall /\ trades' > trades
                     => e # Entry(call.t, pos[call.t], call.verdict.step)
<1>1. Inv /\ Outlook /\ [Next]_vars => [Once]_vars
  BY LadderStepOnce
<1>2. QED
  BY <1>1, OutlookCorrect, PTL DEF Spec, LadderOnce
\* What an execution that opens was allowed to open: all of it at once, or the
\* second half of a flip, on a position that is flat by then.
LEMMA OpeningJudged ==
  ASSUME Inv, Outlook, Fill, exact', Opening(pos[call.t], CallDelta) # 0
  PROVE  \E d \in Decisions, sigma \in Sigmas, sound, flip \in BOOLEAN :
           LET c == Context(call.t, sigma, sound)
           IN  /\ c \in Contexts
               /\ OpeningPasses(call.t, d, c, flip)
               /\ call.verdict.open = OpenQty(call.t, d, c, flip)
               /\ IF flip THEN pos[call.t].qty = 0 /\ CallDelta \in {call.verdict.open, -call.verdict.open}
                  ELSE /\ pos[call.t] = livePos[call.t]
                       /\ \/ pos[call.t].qty >= 0 /\ CallDelta = call.verdict.open
                          \/ pos[call.t].qty <= 0 /\ CallDelta = -call.verdict.open
<1> DEFINE t == call.t
           v == call.verdict
           p == livePos[t]
<1>1. /\ call # NoCall /\ exact /\ call.fills = 0 /\ t \in todo /\ t \in Tickers
      /\ call.stage # "open" => pos[t] = p
  BY FillJudged DEF Outlook
<1>2. /\ v.close \in Nat /\ v.open \in Nat /\ p \in Position /\ p.qty \in Int
      /\ call.stage \in {"single", "close", "open"}
      /\ Size(p) \in Nat /\ (Size(p) = 0 <=> p.qty = 0)
  <2>1. v.close \in Nat /\ v.open \in Nat /\ call.stage \in {"single", "close", "open"}
    BY <1>1, CallType DEF Inv
  <2>2. p \in Position
    BY <1>1 DEF Inv, TypeOK
  <2> HIDE DEF p, v
  <2>3. Size(p) \in Nat /\ (Size(p) = 0 <=> p.qty = 0) /\ p.qty \in Int
    BY <2>2 DEF Size, Position
  <2> QED
    BY <2>1, <2>2, <2>3
<1>3. Opens(v, p, call.stage) /\ call.stage # "close"
  <2>1. \/ call.stage = "single" /\ Reduces(v, p)
        \/ Opens(v, p, call.stage)
    BY <1>1 DEF Inv, CallSound
  <2> HIDE DEF p, v
  <2>2. ~(call.stage = "single" /\ Reduces(v, p))
    BY <1>1, <1>2, CallReduces DEF Inv, p, v
  <2>3. ~(call.stage = "close" /\ Opens(v, p, call.stage))
    BY <1>1, <1>2, CallReduces DEF Inv, p, v
  <2> QED
    BY <2>1, <2>2, <2>3
<1>4. PICK d \in Decisions, sigma \in Sigmas, sound \in BOOLEAN :
        /\ v = Evaluate(t, d, Context(t, sigma, sound))
        /\ Context(t, sigma, sound) \in Contexts
  BY FillJudged DEF Outlook
<1> DEFINE c == Context(t, sigma, sound)
<1>5. c \in Contexts /\ c.pos[t] = p
  BY <1>4 DEF Context
<1>6. PICK flip \in BOOLEAN :
        /\ OpeningPasses(t, d, c, flip)
        /\ v.open = OpenQty(t, d, c, flip)
        /\ v.close = (IF flip THEN Size(p) ELSE 0)
        /\ flip <=> Against(d, p)
  <2>1. Evaluate(t, d, c).op \in OpeningOps
    BY <1>3, <1>4 DEF Opens
  <2> HIDE DEF c
  <2>2. \E f \in BOOLEAN :
          /\ OpeningPasses(t, d, c, f)
          /\ Evaluate(t, d, c).open = OpenQty(t, d, c, f)
          /\ Evaluate(t, d, c).close = (IF f THEN Size(c.pos[t]) ELSE 0)
          /\ f <=> Against(d, c.pos[t])
    BY <1>1, <1>5, <2>1, OpeningPassed
  <2>3. v = Evaluate(t, d, c)
    BY <1>4 DEF c
  <2> QED
    BY <1>5, <2>2, <2>3
<1>7. CASE call.stage = "open"
  <2>1. pos[t].qty = 0
    BY <1>1, <1>7 DEF Outlook, HalfFlip
  <2>2. CallDelta \in {v.open, -v.open}
    BY <1>7 DEF CallDelta, Signed
  <2>3. flip
    <3>1. p.qty # 0 /\ v.close = Size(p)
      BY <1>3, <1>7 DEF Opens
    <3> HIDE DEF p, v, c
    <3> QED
      BY <1>2, <1>6, <3>1
  <2> HIDE DEF c
  <2> QED
    BY <1>4, <1>5, <1>6, <2>1, <2>2, <2>3 DEF c
<1>8. CASE call.stage = "single"
  <2>1. /\ v.close = 0
        /\ \/ v.op \in {"open_long", "add_long"} /\ p.qty >= 0
           \/ v.op \in {"open_short", "add_short"} /\ p.qty <= 0
    BY <1>3, <1>8 DEF Opens
  <2>2. CallDelta = Signed(v.op, v.open)
    <3>1. v.close + v.open = v.open
      BY <1>2, <2>1
    <3>2. CallDelta = Signed(v.op, v.close + v.open)
      BY <1>8 DEF CallDelta
    <3> QED
      BY <3>1, <3>2
  <2>3. pos[t] = p /\ (\/ p.qty >= 0 /\ CallDelta = v.open
                       \/ p.qty <= 0 /\ CallDelta = -v.open)
    BY <1>1, <1>8, <2>1, <2>2 DEF Signed, Buys, Covers
  <2>4. ~flip
    <3> HIDE DEF p, v, c
    <3>1. flip => p.qty # 0
      BY <1>6 DEF Against
    <3> QED
      BY <1>2, <1>6, <2>1, <3>1
  <2> HIDE DEF c
  <2> QED
    BY <1>4, <1>5, <1>6, <2>3, <2>4 DEF c
<1> QED
  BY <1>2, <1>3, <1>7, <1>8

\* NAVs of the journal as a sequence of numbers.
Navs == [i \in DOMAIN journal |-> journal[i].nav]

LEMMA NavsType ==
  ASSUME TypeOK
  PROVE  /\ Navs \in Seq(Int) /\ DOMAIN Navs = DOMAIN journal /\ Recent \in SUBSET DOMAIN Navs
         /\ DOMAIN journal = 1..Len(journal) /\ Len(journal) \in Nat
         /\ \A i \in DOMAIN journal : journal[i] \in Records /\ journal[i].day \in Nat /\ journal[i].hour \in Nat
         /\ day \in Nat /\ hour \in Nat /\ LiveNav \in Int
<1>1. journal \in Seq(Records)
  BY DEF TypeOK, Records
<1>2. /\ DOMAIN journal = 1..Len(journal) /\ Len(journal) \in Nat
      /\ \A i \in DOMAIN journal : journal[i] \in Records
  BY <1>1
<1>3. \A i \in DOMAIN journal :
        journal[i].day \in Nat /\ journal[i].hour \in Nat /\ journal[i].nav \in Int
  BY <1>2 DEF Records
<1>4. Navs \in Seq(Int) /\ DOMAIN Navs = DOMAIN journal
  BY <1>2, <1>3 DEF Navs
<1>5. day \in Nat /\ hour \in Nat /\ LiveNav \in Int
  BY LiveNavType, BoundsAssumption DEF TypeOK
<1> QED
  BY <1>2, <1>3, <1>4, <1>5 DEF Recent

\* A record of the tail that is not older than the window is read.
LEMMA RecentByAge ==
  ASSUME TypeOK, NEW i \in DOMAIN journal,
         Age(i) <= NavHistoryDays * DayLength, Len(journal) - i < NavTail
  PROVE  i \in Recent
<1> DEFINE d == journal[i].day
           h == journal[i].hour
<1>1. /\ d \in Nat /\ h \in Nat /\ day \in Nat /\ hour \in Nat
      /\ i \in Nat /\ Len(journal) \in Nat
      /\ NavHistoryDays \in Nat /\ DayLength \in Nat /\ NavTail \in Nat
  BY NavsType, BoundsAssumption
<1>2. (day - d) * DayLength + hour - h <= NavHistoryDays * DayLength
  BY DEF Age
<1> HIDE DEF d, h
<1>3. /\ (day - d) * DayLength = day * DayLength - d * DayLength
      /\ (day - NavHistoryDays) * DayLength
           = day * DayLength - NavHistoryDays * DayLength
  BY <1>1
<1>4. /\ day * DayLength \in Int /\ d * DayLength \in Int
      /\ NavHistoryDays * DayLength \in Int
  BY <1>1, ProductInt
<1>5. d * DayLength + h >= (day - NavHistoryDays) * DayLength + hour
  BY <1>1, <1>2, <1>3, <1>4
<1>6. i > Len(journal) - NavTail
  BY <1>1
<1> QED
  BY <1>5, <1>6 DEF Recent, Stamp, d, h

\* The first NAV recorded today, if it is read, is the one the daily loss is
\* measured by.
LEMMA SessionIsFirst ==
  ASSUME TypeOK, NEW i \in Recent, journal[i].day = day,
         \A j \in 1..(i - 1) : journal[j].day < day
  PROVE  Session = journal[i].nav
<1> DEFINE today == {j \in Recent : journal[j].day = day}
<1>1. /\ i \in today /\ today \in SUBSET Nat /\ \A j \in today : i <= j
  <2>1. i \in DOMAIN journal
    BY DEF Recent
  <2>2. \A j \in DOMAIN journal : journal[j].day = day => i <= j
    BY <2>1, NavsType
  <2>3. Recent \subseteq DOMAIN journal /\ DOMAIN journal \subseteq Nat /\ i \in Nat
    BY NavsType DEF Recent
  <2> QED
    BY <2>1, <2>2, <2>3
<1> HIDE DEF today
<1>2. Min(today) = i
  <2>1. \A x \in today : (\A y \in today : x <= y) => x = i
    BY <1>1
  <2>2. Min(today) \in today /\ \A y \in today : Min(today) <= y
    BY <1>1 DEF Min
  <2> QED
    BY <2>1, <2>2
<1> QED
  BY <1>1, <1>2 DEF Session, today

\* What is opened was opened below both loss limits.
LEMMA OpeningBelowLoss ==
  ASSUME Inv, Outlook, [Next]_vars, exact', opened' > opened, Settings.MAX_DRAWDOWN <= 100,
         NEW i \in DOMAIN journal, journal[i].nav > 0,
         Age(i) <= NavHistoryDays * DayLength, Len(journal) - i < NavTail
  PROVE  LET before == journal[i].nav
             loss == 100 * (before - LiveNav)
         IN  /\ (\E t \in Tickers : livePos[t].qty # 0)
                => loss < Settings.MAX_DRAWDOWN * before
             /\ /\ journal[i].day = day
                /\ \A j \in 1..(i - 1) : journal[j].day < day
                => loss < Settings.MAX_DAILY_LOSS * before
<1> DEFINE before == journal[i].nav
<1>1. Fill
  <2>1. ~(opened' <= opened)
    <3>1. opened \in Nat /\ opened' \in Nat
      BY NextType DEF Inv, TypeOK
    <3> PICK k \in Nat : k = opened'
      BY <3>1
    <3>2. ~(k <= opened)
      BY <3>1
    <3> QED
      BY <3>2
  <2> QED
    BY <2>1, OnlyFillExecutes DEF Inv
<1>2. Opening(pos[call.t], CallDelta) # 0
  <2>1. /\ opened' = opened + Notional(call.t, Opening(pos[call.t], CallDelta), price[call.t])
        /\ call # NoCall
    BY <1>1 DEF Fill, Execute
  <2>2. opened \in Nat /\ price[call.t] \in Nat /\ call.t \in Tickers
    BY <2>1, CallType DEF Inv, TypeOK
  <2>3. Notional(call.t, 0, price[call.t]) = 0
    BY <2>2, NotionalZero
  <2>4. SUFFICES ASSUME Opening(pos[call.t], CallDelta) = 0 PROVE FALSE
    OBVIOUS
  <2>5. opened' = opened
    BY <2>1, <2>2, <2>3, <2>4
  <2> QED
    BY <2>2, <2>5
<1>3. PICK c \in Contexts :
        /\ c.pos = livePos /\ c.nav = LiveNav /\ c.session = Session
        /\ c.history = {journal[j].nav : j \in Recent}
        /\ ~KillSwitchMdd(c) /\ ~KillSwitchDailyLoss(c)
  <2>1. PICK d \in Decisions, sigma \in Sigmas, sound, flip \in BOOLEAN :
          /\ Context(call.t, sigma, sound) \in Contexts
          /\ OpeningPasses(call.t, d, Context(call.t, sigma, sound), flip)
    BY <1>1, <1>2, OpeningJudged
  <2> DEFINE c == Context(call.t, sigma, sound)
  <2>2. /\ c.pos = livePos /\ c.nav = LiveNav /\ c.session = Session
        /\ c.history = {journal[j].nav : j \in Recent}
    BY DEF Context
  <2> HIDE DEF c
  <2>3. c \in Contexts /\ ~KillSwitchMdd(c) /\ ~KillSwitchDailyLoss(c)
    BY <2>1 DEF c, OpeningPasses
  <2> QED
    BY <2>2, <2>3
<1>4. /\ before \in Int /\ LiveNav \in Int /\ before > 0
      /\ Settings.MAX_DAILY_LOSS \in Nat
  BY NavsType, SettingsAssumption DEF Inv, Records
<1>5. ASSUME \E t \in Tickers : livePos[t].qty # 0
      PROVE  100 * (before - LiveNav) < Settings.MAX_DRAWDOWN * before
  <2>1. i \in Recent
    BY RecentByAge DEF Inv
  <2>2. /\ Navs \in Seq(Int) /\ Recent \in SUBSET DOMAIN Navs /\ Navs[i] = before
        /\ c.history = {Navs[j] : j \in Recent}
    BY <1>3, NavsType DEF Inv, Navs, Recent
  <2>3. 100 * (Navs[i] - c.nav) < Settings.MAX_DRAWDOWN * Navs[i]
    BY <1>3, <1>4, <1>5, <2>1, <2>2, DrawdownGate
  <2> QED
    BY <1>3, <2>2, <2>3
<1>6. ASSUME journal[i].day = day, \A j \in 1..(i - 1) : journal[j].day < day
      PROVE  100 * (before - LiveNav) < Settings.MAX_DAILY_LOSS * before
  <2>1. c.session = before
    BY <1>3, <1>6, RecentByAge, SessionIsFirst DEF Inv
  <2> DEFINE x == Settings.MAX_DAILY_LOSS * before
  <2>2. ~(100 * (LiveNav - before) <= -x)
    BY <1>3, <1>4, <2>1 DEF KillSwitchDailyLoss
  <2>3. x \in Int
    BY <1>4, ProductInt
  <2> HIDE DEF x, before
  <2>4. 100 * (before - LiveNav) < x
    BY <1>4, <2>2, <2>3
  <2> QED
    BY <2>4 DEF x
<1> QED
  BY <1>5, <1>6

\* Nothing is opened beyond the drawdown and the daily loss.  With a
\* limit above 100 percent a NAV below zero may keep it when measured from the
\* peak, as the officer does, and break it when measured from a lower NAV.
THEOREM LossCorrect == Settings.MAX_DRAWDOWN <= 100 => (Spec => OpeningsStopAfterLoss)
<1> SUFFICES ASSUME Settings.MAX_DRAWDOWN <= 100 PROVE Spec => OpeningsStopAfterLoss
  OBVIOUS
<1> DEFINE Stop ==
      opened' > opened /\ exact' =>
       \A i \in DOMAIN journal :
         LET before == journal[i].nav
             loss == 100 * (before - LiveNav)
         IN  before > 0 /\ Age(i) <= NavHistoryDays * DayLength
             /\ Len(journal) - i < NavTail =>
             /\ (\E t \in Tickers : livePos[t].qty # 0)
                => loss < Settings.MAX_DRAWDOWN * before
             /\ /\ journal[i].day = day
                /\ \A j \in 1..(i - 1) : journal[j].day < day
                => loss < Settings.MAX_DAILY_LOSS * before
<1>1. Inv /\ Outlook /\ [Next]_vars => [Stop]_vars
  BY OpeningBelowLoss
<1>2. QED
  BY <1>1, OutlookCorrect, PTL DEF Spec, OpeningsStopAfterLoss

\* An execution that opens nothing leaves at most as many lots.
LEMMA OpensToEnlarge ==
  ASSUME NEW p \in Position, NEW q \in Position, NEW delta \in Int,
         q.qty = p.qty + delta, Size(q) > Size(p)
  PROVE  Opening(p, delta) # 0
  BY DEF Opening, Reducing, Size, SameSide, Position

\* Lots that are held after an opening.
LEMMA LotsAfterOpening ==
  ASSUME NEW p \in Position, NEW q \in Position, NEW open \in Nat, NEW delta \in {open, -open},
         q.qty = p.qty + delta
  PROVE  /\ p.qty = 0 => Size(q) = open
         /\ (p.qty >= 0 /\ delta = open) \/ (p.qty <= 0 /\ delta = -open)
            => Size(q) = Size(p) + open
  BY DEF Size, Position

\* What enlarges a position was sized to the caps.
LEMMA EnlargedWithinCaps ==
  ASSUME Inv, Outlook, [Next]_vars, exact', NEW t \in Tickers,
         Size(pos'[t]) > Size(pos[t]), liveCash <= LiveNav,
         \A u \in Tickers \ {t} : livePos[u] = pos[u]
  PROVE  LET held == Notional(t, Size(pos'[t]), price[t])
             others == Total([u \in Tickers |->
                         IF u # t /\ Sector[u] = Sector[t]
                         THEN Notional(u, Size(pos[u]), pos[u].avg) ELSE 0])
         IN  /\ 100 * held <= Settings.MAX_INSTRUMENT * LiveNav
             /\ 100 * (held + others) <= Settings.MAX_SECTOR * LiveNav
<1>1. pos[t] \in Position /\ Size(pos[t]) \in Nat
  BY SizeType DEF Inv, TypeOK
<1>2. Fill
  <2>1. pos' # pos
    <3> SUFFICES ASSUME pos' = pos PROVE FALSE
      OBVIOUS
    <3>1. Size(pos[t]) > Size(pos[t])
      OBVIOUS
    <3> QED
      BY <1>1, <3>1
  <2> QED
    BY <2>1, OnlyFillExecutes DEF Inv
<1>3. /\ call # NoCall /\ call.t \in Tickers /\ CallDelta \in Int /\ price[call.t] \in Nat
      /\ call.verdict.open \in Nat
      /\ pos[call.t] \in Position /\ pos \in [Tickers -> Position]
      /\ pos' = [pos EXCEPT ![call.t] = Moved(pos[call.t], CallDelta, price[call.t])]
  <2>1. call # NoCall /\ pos' = [pos EXCEPT ![call.t] =
                                   Moved(pos[call.t], CallDelta, price[call.t])]
    BY <1>2 DEF Fill, Execute
  <2> QED
    BY <2>1, CallType DEF Inv, TypeOK
<1>4. t = call.t
  <2> SUFFICES ASSUME t # call.t PROVE FALSE
    OBVIOUS
  <2>1. pos'[t] = pos[t]
    BY <1>3
  <2>2. Size(pos[t]) > Size(pos[t])
    BY <2>1
  <2> QED
    BY <1>1, <2>2
<1> PICK q : q = pos'[t]
  OBVIOUS
<1>5. q \in Position /\ q.qty = pos[t].qty + CallDelta /\ Size(q) > Size(pos[t])
  BY <1>3, <1>4, MovedType
<1>6. Opening(pos[call.t], CallDelta) # 0
  BY <1>1, <1>3, <1>4, <1>5, OpensToEnlarge
<1>7. PICK d \in Decisions, sigma \in Sigmas, sound, flip \in BOOLEAN :
        LET c == Context(call.t, sigma, sound)
        IN  /\ c \in Contexts
            /\ OpeningPasses(call.t, d, c, flip)
            /\ call.verdict.open = OpenQty(call.t, d, c, flip)
            /\ IF flip THEN pos[call.t].qty = 0 /\ CallDelta \in {call.verdict.open, -call.verdict.open}
               ELSE /\ pos[call.t] = livePos[call.t]
                    /\ \/ pos[call.t].qty >= 0 /\ CallDelta = call.verdict.open
                       \/ pos[call.t].qty <= 0 /\ CallDelta = -call.verdict.open
  BY <1>2, <1>6, OpeningJudged
<1> DEFINE c == Context(t, sigma, sound)
           open == OpenQty(t, d, c, flip)
           rest == [u \in Tickers |-> IF u # t /\ Sector[u] = Sector[t]
                                      THEN Notional(u, Size(pos[u]), pos[u].avg) ELSE 0]
<1>8. /\ c \in Contexts /\ c.cash = liveCash /\ c.nav = LiveNav /\ c.pos = livePos
      /\ c.price = price[t] /\ OpeningPasses(t, d, c, flip)
  BY <1>4, <1>7 DEF Context
<1>9. open = call.verdict.open
  BY <1>4, <1>7
<1> HIDE DEF c, open
<1>10. Size(q) = IF flip THEN open ELSE Size(c.pos[t]) + open
  <2>1. CASE flip
    <3>1. pos[t].qty = 0 /\ CallDelta \in {open, -open}
      BY <1>4, <1>7, <1>9, <2>1
    <3> QED
      BY <1>1, <1>3, <1>5, <1>9, <2>1, <3>1, LotsAfterOpening
  <2>2. CASE ~flip
    <3>1. /\ pos[t] = livePos[t]
          /\ \/ pos[t].qty >= 0 /\ CallDelta = open
             \/ pos[t].qty <= 0 /\ CallDelta = -open
      BY <1>4, <1>7, <1>9, <2>2
    <3>2. Size(q) = Size(pos[t]) + open
      BY <1>1, <1>3, <1>5, <1>9, <3>1, LotsAfterOpening
    <3> QED
      BY <1>8, <2>2, <3>1, <3>2
  <2> QED
    BY <2>1, <2>2
<1>11. rest = [u \in Tickers |-> IF u # t /\ Sector[u] = Sector[t]
                                 THEN Notional(u, Size(c.pos[u]), c.pos[u].avg) ELSE 0]
  BY <1>8
<1> HIDE DEF rest
<1>12. LET held == Notional(t, Size(q), c.price)
       IN  /\ 100 * held <= Settings.MAX_INSTRUMENT * c.nav
           /\ 100 * (held + Total(rest)) <= Settings.MAX_SECTOR * c.nav
  <2>1. c.cash <= c.nav
    BY <1>8
  <2> QED
    BY <1>8, <1>10, <1>11, <2>1, CapsGate DEF open
<1> QED
  BY <1>8, <1>12 DEF rest

\* An execution that enlarges a position leaves it and its sector within the
\* caps, while free cash does not exceed the NAV.
THEOREM ConcentrationCorrect == Spec => ConcentrationRespected
<1> DEFINE Within ==
      \A t \in Tickers :
       /\ exact' /\ phase = "trading"
       /\ Size(pos'[t]) > Size(pos[t])
       /\ liveCash <= LiveNav
       /\ \A u \in Tickers \ {t} : livePos[u] = pos[u]
       => LET held == Notional(t, Size(pos'[t]), price[t])
              others == Total([u \in Tickers |->
                          IF u # t /\ Sector[u] = Sector[t]
                          THEN Notional(u, Size(pos[u]), pos[u].avg) ELSE 0])
          IN  /\ 100 * held <= Settings.MAX_INSTRUMENT * LiveNav
              /\ 100 * (held + others) <= Settings.MAX_SECTOR * LiveNav
<1>1. Inv /\ Outlook /\ [Next]_vars => [Within]_vars
  BY EnlargedWithinCaps
<1>2. QED
  BY <1>1, OutlookCorrect, PTL DEF Spec, ConcentrationRespected

\* An execution that opens lots on the side that is held reduces nothing.
LEMMA OpeningReducesNothing ==
  ASSUME NEW p \in Position, NEW open \in Nat, NEW delta \in Int,
         (p.qty >= 0 /\ delta = open) \/ (p.qty <= 0 /\ delta = -open)
  PROVE  Reducing(p, delta) = 0
  BY DEF Reducing, SameSide, Size, Position

\* Without flips only the answer to a single order changes what is held.
LEMMA OnlyAcceptBooks ==
  ASSUME Inv, [Next]_vars, ~Settings.ALLOW_FLIP, phase = "trading", phase' = "trading",
         livePos' # livePos
  PROVE  Accept
<1>1. CASE Quiet
  BY <1>1, QuietKeeps DEF Inv
<1>2. CASE OpenTick
  BY <1>2 DEF OpenTick
<1>3. CASE (\E t \in Tickers : Send(t)) \/ Fill \/ FillStray
  BY <1>3 DEF Send, Fill, FillStray, live
<1>4. CASE AcceptClose \/ Reject \/ Raise
  BY <1>4 DEF AcceptClose, Reject, Raise, live
<1>5. CASE AcceptOpen \/ RejectOpen
  BY <1>5, FlipAllowed DEF AcceptOpen, RejectOpen
<1>6. CASE EndTick \/ Crash
  BY <1>6 DEF EndTick, Crash, Forget
<1> QED
  BY <1>1, <1>2, <1>3, <1>4, <1>5, <1>6, StepCases

\* A single order either opens nothing or reduces nothing.
LEMMA SingleOneWay ==
  ASSUME Inv, call.stage = "single"
  PROVE  LET v == call.verdict
             p == livePos[call.t]
         IN  /\ (IF CallDelta < 0 THEN -CallDelta ELSE CallDelta) = v.close + v.open
             /\ \/ Opening(p, CallDelta) = 0
                \/ CallDelta # 0 /\ Reducing(p, CallDelta) = 0
<1> DEFINE v == call.verdict
           p == livePos[call.t]
<1>1. /\ call # NoCall /\ v.close \in Nat /\ v.open \in Nat /\ p \in Position
      /\ CallDelta \in Int
  BY StageOfCall, CallType DEF Inv
<1>2. CallDelta = Signed(v.op, v.close + v.open)
  BY DEF CallDelta
<1>3. (IF CallDelta < 0 THEN -CallDelta ELSE CallDelta) = v.close + v.open
  BY <1>1, <1>2 DEF Signed
<1>4. CASE Reduces(v, p)
  BY <1>1, <1>3, <1>4, CallReduces DEF Inv
<1>5. CASE Opens(v, p, call.stage)
  <2>1. /\ v.close = 0 /\ v.open > 0
        /\ \/ v.op \in {"open_long", "add_long"} /\ p.qty >= 0
           \/ v.op \in {"open_short", "add_short"} /\ p.qty <= 0
    BY <1>5 DEF Opens
  <2>2. v.close + v.open = v.open
    BY <1>1, <2>1
  <2>3. \/ p.qty >= 0 /\ CallDelta = v.open
        \/ p.qty <= 0 /\ CallDelta = -v.open
    BY <1>2, <2>1, <2>2 DEF Signed, Buys, Covers
  <2> HIDE DEF v, p
  <2>4. CallDelta # 0
    BY <1>1, <2>1, <2>3
  <2>5. Reducing(p, CallDelta) = 0
    BY <1>1, <2>3, OpeningReducesNothing
  <2> QED
    BY <1>3, <2>4, <2>5 DEF v, p
<1> QED
  BY <1>1, <1>4, <1>5 DEF Inv, CallSound

\* Booking the answer to a single order takes from the NAV what the execution
\* took from the account.
LEMMA BookingStep ==
  ASSUME Inv, CashLags, Accept, exact', RemainingCash, ~Settings.ALLOW_FLIP,
         phase = "trading"
  PROVE  NavKept
<1> DEFINE t == call.t
           v == call.verdict
           p == livePos[t]
           at == price[t]
           m == Moved(p, CallDelta, at)
           fee == Commission(Notional(t, v.close + v.open, at))
           most == 2 * Lot[t] * Size(m)
           wp == Worth(t, p, at)
           wm == Worth(t, m, at)
           worth == [u \in Tickers |-> Worth(u, livePos[u], price[u])]
<1>1. /\ call # NoCall /\ call.stage = "single" /\ call.fills > 0 /\ exact
      /\ UNCHANGED <<phase, price, cash>>
  BY StageOfCall DEF Accept, Answered, broker, tick
<1>2. /\ t \in Tickers /\ p \in Position /\ at \in Nat /\ CallDelta \in Int /\ m \in Position
      /\ v.close \in Nat /\ v.open \in Nat /\ v.close + v.open \in Nat
      /\ liveCash \in Int /\ cash \in Int /\ livePos \in [Tickers -> Position]
      /\ price \in [Tickers -> Nat]
  <2>1. /\ t \in Tickers /\ p \in Position /\ at \in Nat /\ CallDelta \in Int
        /\ v.close \in Nat /\ v.open \in Nat
    BY <1>1, CallType DEF Inv
  <2>2. m \in Position
    BY <2>1, MovedType
  <2>3. /\ liveCash \in Int /\ cash \in Int /\ livePos \in [Tickers -> Position]
        /\ price \in [Tickers -> Nat]
    BY DEF Inv, TypeOK
  <2>4. v.close + v.open \in Nat
    BY <2>1
  <2> QED
    BY <2>1, <2>2, <2>3, <2>4
<1>3. cash = BrokerCash(t, liveCash, p, CallDelta, at)
  <2>1. call.fills # 0
    BY <1>1, CallType DEF Inv
  <2> QED
    BY <1>1, <2>1 DEF CashLags
<1>4. liveCash' = cash /\ livePos' = [livePos EXCEPT ![t] = m]
  BY <1>1, BookedAsOne DEF Accept, Book, SimulatedCash
<1>5. /\ cash + wm <= (liveCash + wp) - fee
      /\ cash + wm >= ((liveCash + wp) - fee) - most
  <2>1. /\ (IF CallDelta < 0 THEN -CallDelta ELSE CallDelta) = v.close + v.open
        /\ \/ Opening(p, CallDelta) = 0
           \/ CallDelta # 0 /\ Reducing(p, CallDelta) = 0
    BY <1>1, SingleOneWay
  <2> HIDE DEF p, at, m, t, v
  <2>2. wp \in Int /\ wm \in Int /\ fee \in Nat /\ most \in Nat
    <3>1. Notional(t, v.close + v.open, at) \in Nat
      BY <1>2, NotionalType
    <3>2. 2 * Lot[t] \in Nat /\ Size(m) \in Nat
      BY <1>2, LotType, SizeType
    <3>3. fee \in Nat /\ most \in Nat
      BY <3>1, <3>2, CommissionType, ProductNat
    <3> QED
      BY <1>2, <3>3, WorthType
  <2>3. CASE Opening(p, CallDelta) = 0
    <3>1. cash + wm = liveCash + wp - fee
      BY <1>2, <1>3, <2>1, <2>3, ReductionKeepsWorth DEF m
    <3> HIDE DEF wp, wm, fee, most
    <3> QED
      BY <1>2, <2>2, <3>1
  <2>4. CASE CallDelta # 0 /\ Reducing(p, CallDelta) = 0
    <3>1. /\ cash + wm <= (liveCash + wp - fee)
          /\ cash + wm >= (liveCash + wp - fee) - most
      BY <1>2, <1>3, <2>1, <2>4, OpeningKeepsWorth DEF m
    <3> HIDE DEF wp, wm, fee, most
    <3> QED
      BY <1>2, <2>2, <3>1
  <2> QED
    BY <2>1, <2>3, <2>4
<1>6. worth \in [Tickers -> Int] /\ wm \in Int /\ wp \in Int /\ worth[t] = wp
  <2>1. \A u \in Tickers : Worth(u, livePos[u], price[u]) \in Int
    BY <1>2, WorthType
  <2> HIDE DEF m
  <2> QED
    BY <1>2, <2>1, WorthType
<1>7. LiveNav = liveCash + Total(worth)
  BY DEF LiveNav, NAV
<1>8. LiveNav' = cash + (Total(worth) - wp + wm)
  <2>1. LiveNav' = liveCash' + Total([u \in Tickers |-> Worth(u, livePos'[u], price'[u])])
    BY DEF LiveNav, NAV
  <2>2. [u \in Tickers |-> Worth(u, livePos'[u], price'[u])] = [worth EXCEPT ![t] = wm]
    <3> HIDE DEF m
    <3>1. \A u \in Tickers :
            Worth(u, livePos'[u], price'[u])
              = IF u = t THEN wm ELSE Worth(u, livePos[u], price[u])
      BY <1>1, <1>2, <1>4
    <3> HIDE DEF wm
    <3> QED
      BY <1>2, <3>1
  <2> HIDE DEF worth, wm, wp, m
  <2>3. Total([worth EXCEPT ![t] = wm]) = Total(worth) - worth[t] + wm
    BY <1>2, <1>6, TotalChanged
  <2> QED
    BY <1>4, <1>6, <2>1, <2>2, <2>3
<1>9. Total(worth) \in Int
  BY <1>6, TotalType
<1>10. livePos'[t] = m
  BY <1>2, <1>4
<1>11. fee \in Nat /\ most \in Nat
  <2> HIDE DEF m, t, v, at
  <2>1. Notional(t, v.close + v.open, at) \in Nat
    BY <1>2, NotionalType
  <2>2. 2 * Lot[t] \in Nat /\ Size(m) \in Nat
    BY <1>2, LotType, SizeType
  <2> QED
    BY <2>1, <2>2, CommissionType, ProductNat
<1> DEFINE total == Total(worth)
           nav == LiveNav
<1>12. PICK after : after = LiveNav'
  OBVIOUS
<1>13. nav - after >= -most /\ nav - after <= fee + most
  <2>1. nav = liveCash + total /\ after = cash + (total - wp + wm) /\ total \in Int
    BY <1>7, <1>8, <1>9, <1>12
  <2> HIDE DEF nav, total, wp, wm, fee, most
  <2> QED
    BY <1>2, <1>5, <1>6, <1>11, <2>1
<1>14. most = 2 * Lot[t] * Size(livePos'[t])
  BY <1>10
<1> QED
  BY <1>12, <1>13, <1>14 DEF NavKept

\* Without flips, booking an answer that carries remaining_cash takes from the
\* NAV the officer sees the commission, and the rounding of an average price.
THEOREM BookingCorrect == Spec => BookingKeepsNav
<1> DEFINE Keeps == RemainingCash /\ ~Settings.ALLOW_FLIP /\ exact'
                    /\ phase = "trading" /\ phase' = "trading" /\ livePos' # livePos
                    => NavKept
<1>1. Inv /\ Outlook /\ [Next]_vars => [Keeps]_vars
  BY OnlyAcceptBooks, BookingStep DEF Outlook
<1>2. QED
  BY <1>1, OutlookCorrect, PTL DEF Spec, BookingKeepsNav

-------------------------------------------------------------------------------
(* How long a tick can last. *)

\* How far the order under way is.
CallSteps ==
  IF call = NoCall THEN 0 ELSE IF call.stage = "open" THEN 2 ELSE 1

\* Three steps for a ticker (sent, the second half, booked), and the tick's end.
StepsLeft ==
  IF phase = "trading" THEN 3 * (N - Turns) + 1 - CallSteps ELSE 0

LEMMA StepsLeftType ==
  ASSUME Inv
  PROVE  /\ StepsLeft \in 0..(3 * N + 1)
         /\ phase = "trading" => StepsLeft > 0
<1>1. Turns \in Nat /\ N \in Nat /\ Turns <= N
  <2>1. Visited \in SUBSET Tickers
    BY DEF Visited
  <2> QED
    BY <2>1, VisitedType, NAssumption DEF Turns
<1>2. call # NoCall => Turns + 1 <= N
  BY TurnsType DEF Inv, CallSound
<1> QED
  BY <1>1, <1>2 DEF StepsLeft, CallSteps

\* A ticker's turn is over, from wherever its order was.
LEMMA TurnShortens ==
  ASSUME Inv, NEW t \in todo, phase = "trading", phase' = "trading", todo' = todo \ {t},
         call' = NoCall
  PROVE  StepsLeft' < StepsLeft
<1>1. Turns \in Nat /\ Turns' = Turns + 1 /\ Turns' <= N /\ N \in Nat
  BY TurnEnds, NAssumption DEF Inv
<1> QED
  BY <1>1 DEF StepsLeft, CallSteps

LEMMA TickStepShortens ==
  ASSUME Inv, Next, phase = "trading"
  PROVE  IF trades' = trades /\ hour' = hour THEN StepsLeft' < StepsLeft
                                             ELSE StepsLeft' = StepsLeft
<1>1. /\ trades \in Nat /\ Turns \in Nat /\ N \in Nat
      /\ StepsLeft \in Nat /\ StepsLeft > 0
  <2>1. trades \in Nat /\ Turns \in Nat /\ N \in Nat
    BY TurnsType, NAssumption DEF Inv, TypeOK
  <2>2. StepsLeft \in 0..(3 * N + 1) /\ StepsLeft > 0
    BY StepsLeftType
  <2>3. StepsLeft \in Nat
    BY <2>1, <2>2
  <2> QED
    BY <2>1, <2>2, <2>3
<1>2. call # NoCall => call.t \in todo
  BY DEF Inv, CallSound
<1>3. CASE \E t \in Tickers : NotEvaluated(t) \/ SendNothing(t)
  <2>1. PICK t \in Tickers : NotEvaluated(t) \/ SendNothing(t)
    BY <1>3
  <2>2. /\ t \in todo /\ todo' = todo \ {t} /\ call' = NoCall
        /\ UNCHANGED <<phase, trades, hour>>
    BY <2>1 DEF NotEvaluated, SendNothing, Done, broker, tick, clock
  <2> QED
    BY <2>2, TurnShortens
<1>4. CASE \E t \in Tickers : Send(t)
  <2>1. /\ call = NoCall /\ call'.stage \in {"single", "close"}
        /\ UNCHANGED <<phase, trades, todo, hour>>
    BY <1>4 DEF Send, broker, tick, clock, NoCall
  <2>2. call' # NoCall /\ call'.stage # "open"
    BY <2>1 DEF NoCall
  <2>3. Turns' = Turns
    BY <2>1 DEF Turns, Visited
  <2> QED
    BY <1>1, <2>1, <2>2, <2>3 DEF StepsLeft, CallSteps
<1>5. CASE Fill \/ FillStray
  <2>1. trades' = trades + 1 /\ UNCHANGED <<phase, todo>>
    BY <1>5 DEF Fill, FillStray, Execute, tick
  <2>2. CallSteps' = CallSteps
    <3>1. CASE Fill
      <4>1. call # NoCall /\ call' = [call EXCEPT !.fills = @ + 1]
        BY <3>1 DEF Fill
      <4>2. call.stage \in {"single", "close", "open"} /\ call'.stage = call.stage
        BY <4>1, CallType DEF Inv
      <4>3. call' # NoCall
        BY <4>2 DEF NoCall
      <4> QED
        BY <4>1, <4>2, <4>3 DEF CallSteps
    <3>2. CASE FillStray
      BY <3>2 DEF FillStray, CallSteps
    <3> QED
      BY <1>5, <3>1, <3>2
  <2>3. Turns' = Turns
    BY <2>1 DEF Turns, Visited
  <2> QED
    BY <1>1, <2>1, <2>2, <2>3 DEF StepsLeft
<1>6. CASE AcceptClose
  <2>1. /\ call.stage = "close" /\ call # NoCall /\ UNCHANGED <<phase, trades, todo, hour>>
        /\ call' = [call EXCEPT !.stage = "open", !.fills = 0, !.reported = cash]
    BY <1>6, StageOfCall DEF AcceptClose, Answered, broker, tick, clock
  <2>2. call'.stage = "open"
    BY <2>1, CallType DEF Inv
  <2>3. call' # NoCall /\ Turns' = Turns
    BY <2>1, <2>2 DEF NoCall, Turns, Visited
  <2> QED
    BY <1>1, <2>1, <2>2, <2>3 DEF StepsLeft, CallSteps
<1>7. CASE Accept \/ AcceptOpen \/ Reject \/ RejectOpen \/ Raise
  <2>1. /\ call # NoCall /\ call' = NoCall /\ todo' = todo \ {call.t}
        /\ UNCHANGED <<phase, trades, hour>>
    BY <1>7, StageOfCall
       DEF Accept, AcceptOpen, Reject, RejectOpen, Raise, Done, Answered, broker, tick, clock
  <2> QED
    BY <1>2, <2>1, TurnShortens
<1>8. CASE EndTick \/ Crash
  <2>1. phase' = "idle" /\ trades' = trades /\ hour' = hour
    BY <1>8 DEF EndTick, Crash, Forget, broker, clock
  <2> QED
    BY <1>1, <2>1 DEF StepsLeft
<1>9. CASE HourPasses
  <2>1. /\ call' = call /\ UNCHANGED <<phase, trades, todo>>
        /\ hour' = hour + 1 /\ hour \in Nat
    BY <1>9 DEF HourPasses, broker, tick, Inv, TypeOK
  <2>2. StepsLeft' = StepsLeft /\ hour' # hour
    BY <2>1 DEF StepsLeft, CallSteps, Turns, Visited
  <2> QED
    BY <2>2
<1>10. ~(SkipTick \/ OpenTick \/ NewDay)
  BY DEF SkipTick, OpenTick, NewDay
<1> QED
  BY <1>3, <1>4, <1>5, <1>6, <1>7, <1>8, <1>9, <1>10 DEF Next, Ticker, Answer

\* Every step of a tick brings its end nearer, an execution at the broker and a
\* turn of the clock excepted: a tick over N tickers takes at most 3 * N + 1 steps and sends at most two
\* orders for each of them, whatever is answered.
THEOREM TickShortens ==
  Spec => /\ [](StepsLeft \in 0..(3 * N + 1))
          /\ [][phase = "trading" =>
                  IF trades' = trades /\ hour' = hour
                  THEN StepsLeft' < StepsLeft
                  ELSE StepsLeft' = StepsLeft]_vars
<1>1. Inv => StepsLeft \in 0..(3 * N + 1)
  BY StepsLeftType
<1>2. ASSUME Inv, [Next]_vars
      PROVE  [phase = "trading" =>
                IF trades' = trades /\ hour' = hour
                THEN StepsLeft' < StepsLeft
                ELSE StepsLeft' = StepsLeft]_vars
  BY <1>2, TickStepShortens
<1> QED
  BY <1>1, <1>2, InvCorrect, PTL DEF Spec
===============================================================================
