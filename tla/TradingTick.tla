------------------------------ MODULE TradingTick ------------------------------
(***************************************************************************)
(* _run_once_inner, phase 2: the tickers of a tick pass the risk officer   *)
(* one by one, in a random order, and their orders go to ArenaGo; cash,    *)
(* positions and trade count are simulated between two tickers and read    *)
(* from the broker again only by the next tick.  An order is executed by   *)
(* the broker in steps of its own: never, once, or more often than it is   *)
(* reported (OrderPromise says what submit_order answers for).             *)
(***************************************************************************)
EXTENDS RiskOfficer, Sequences

CONSTANTS
  Prices, Sizes, Sigmas,  \* what the market and the decisions may be
  StartCash, StartPos,    \* the account when the bot is first started
  RemainingCash,          \* whether the broker's answers carry remaining_cash
  ReportedFees,           \* what response.commission may be when they carry one
  DailyLimit,             \* ARENAGO_DAILY_TRADE_LIMIT, 0 for none
  NavHistoryDays,         \* RISK_NAV_HISTORY_DAYS
  NavTail,                \* the records load_nav_history looks at, tail(2000)
  DayLength,              \* hours of a day, as finely as the clock is read
  MaxFills,               \* bound: executions of one order before its answer
  Strays,                 \* bound: whether an order may execute after its answer
  MaxTicks, MaxDays, MaxCrashes   \* bounds

ASSUME PricesAssumption == Prices \subseteq Nat \ {0}
ASSUME DecisionsAssumption == Sizes \subseteq Nat /\ Sigmas \subseteq Nat
ASSUME StartAssumption ==
  StartCash \in Nat /\ StartPos \subseteq [Tickers -> Position]
ASSUME OptionsAssumption ==
  RemainingCash \in BOOLEAN /\ ReportedFees \subseteq Nat /\ Strays \in BOOLEAN
ASSUME BoundsAssumption ==
  /\ DailyLimit \in Nat /\ MaxFills \in Nat
  /\ NavHistoryDays \in Nat /\ NavTail \in Nat /\ DayLength \in Nat \ {0}
  /\ MaxTicks \in Nat /\ MaxDays \in Nat /\ MaxCrashes \in Nat

VARIABLES
  cash, pos, trades,       \* the broker: account, and today's trades
  stray,                   \* an order answered that may still be executed
  day, hour, ticks, crashes,
  journal,                 \* the "tick" records of the journal, on disk
  phase, price, todo,      \* this tick: idle or trading, quotes, tickers left
  liveCash, livePos,       \* live_cash, live_positions
  count, spent, openNav,   \* live_trade_count, tick_buy_spent, tick_open_nav
  taken,                   \* rec.decisions: ladder steps taken this tick
  call,                    \* the submit_order under way
  exact,                   \* history: every order so far executed as answered
  opened,                  \* history: notional the broker opened this tick
  fired                    \* history: ladder steps executed on what is held

broker == <<cash, pos, trades>>
live == <<liveCash, livePos, count, spent, taken>>
tick == <<phase, price, openNav>>
clock == <<day, hour, ticks, crashes>>
history == <<opened, fired>>
vars == <<broker, stray, clock, journal, tick, todo, live, call, exact, history>>

NoCall == [t |-> 0, verdict |-> None, stage |-> "none", fills |-> 0, reported |-> 0]
NoOrder == [t |-> 0, delta |-> 0]

LadderStep == [t : Tickers, long : BOOLEAN, avg : Nat, step : Steps]

TypeOK ==
  /\ cash \in Int /\ pos \in [Tickers -> Position] /\ trades \in Nat
  /\ stray \in [t : Tickers, delta : Int] \cup {NoOrder}
  /\ day \in 0..MaxDays /\ hour \in 0..(DayLength - 1)
  /\ ticks \in 0..MaxTicks /\ crashes \in 0..MaxCrashes
  /\ journal \in Seq([day : Nat, hour : Nat, nav : Int, taken : SUBSET LadderStep])
  /\ phase \in {"idle", "trading"} /\ price \in [Tickers -> Nat]
  /\ todo \in SUBSET Tickers
  /\ liveCash \in Int /\ livePos \in [Tickers -> Position]
  /\ count \in Nat /\ spent \in Nat /\ openNav \in Int
  /\ taken \in SUBSET LadderStep
  /\ call \in [t : Tickers, verdict : Verdicts, stage : {"single", "close", "open"},
               fills : 0..MaxFills, reported : Int] \cup {NoCall}
  /\ exact \in BOOLEAN /\ opened \in Nat /\ fired \in SUBSET LadderStep

NoPrice == [t \in Tickers |-> 0]

Init ==
  /\ cash = StartCash /\ pos \in StartPos /\ trades = 0
  /\ stray = NoOrder
  /\ day = 0 /\ hour = 0 /\ ticks = 0 /\ crashes = 0
  /\ journal = <<>>
  /\ phase = "idle" /\ price = NoPrice /\ todo = {}
  /\ liveCash = 0 /\ livePos = [t \in Tickers |-> Flat]
  /\ count = 0 /\ spent = 0 /\ openNav = 0 /\ taken = {}
  /\ call = NoCall
  /\ exact = TRUE /\ opened = 0 /\ fired = {}

-------------------------------------------------------------------------------
(* Between ticks. *)

\* Outside the trading window, get_portfolio or get_trades failing, the trade
\* limit reached: the tick ends before it has read anything it acts on.
SkipTick ==
  /\ phase = "idle" /\ ticks < MaxTicks
  /\ ticks' = ticks + 1
  /\ UNCHANGED <<broker, stray, day, hour, crashes, journal, tick, todo, live, call,
                 exact, history>>

\* Variant: the trade counter starts from zero with every tick.
OpenTickCountingFromZero ==
  /\ phase = "idle" /\ ticks < MaxTicks
  /\ ticks' = ticks + 1
  /\ phase' = "trading"
  /\ price' \in [Tickers -> Prices]
  /\ todo' = Tickers
  /\ liveCash' = cash /\ livePos' = pos /\ count' = 0
  /\ openNav' = NAV(cash, pos, price')
  /\ spent' = 0 /\ taken' = {} /\ opened' = 0
  /\ UNCHANGED <<broker, stray, day, hour, crashes, journal, call, exact, fired>>

\* get_portfolio, get_trades, phase 1, and the NAV the tick starts from.
OpenTick ==
  /\ phase = "idle" /\ ticks < MaxTicks
  /\ DailyLimit > 0 => trades < DailyLimit
  /\ ticks' = ticks + 1
  /\ phase' = "trading"
  /\ price' \in [Tickers -> Prices]
  /\ todo' = Tickers
  /\ liveCash' = cash /\ livePos' = pos /\ count' = trades
  /\ openNav' = NAV(cash, pos, price')
  /\ spent' = 0 /\ taken' = {} /\ opened' = 0
  /\ UNCHANGED <<broker, stray, day, hour, crashes, journal, call, exact, fired>>

\* The clock turns between two ticks or between two tickers of one; the seconds
\* of an order are beneath its resolution.
HourPasses ==
  /\ call = NoCall /\ hour + 1 < DayLength
  /\ hour' = hour + 1
  /\ UNCHANGED <<broker, stray, day, ticks, crashes, journal, tick, todo, live, call,
                 exact, history>>

\* Midnight, outside every tick: ArenaGo is closed from 23:50 on.  get_trades
\* returns the trades of the day.
NewDay ==
  /\ phase = "idle" /\ day < MaxDays /\ hour + 1 = DayLength
  /\ day' = day + 1 /\ hour' = 0
  /\ trades' = 0
  /\ UNCHANGED <<cash, pos, stray, ticks, crashes, journal, tick, todo, live, call,
                 exact, history>>

-------------------------------------------------------------------------------
(* A ticker meets the risk officer. *)

LiveNav == NAV(liveCash, livePos, price)

\* Variant: only today's records count.
RecentToday == {i \in DOMAIN journal : journal[i].day = day}

\* load_nav_history: the records at the end of the file whose time stamp is not
\* more than NavHistoryDays times 24 hours before now, whatever their date; and
\* session_open_nav, the first of them that bears today's date.
Stamp(d, h) == d * DayLength + h
Recent ==
  {i \in DOMAIN journal :
     /\ i > Len(journal) - NavTail
     /\ Stamp(journal[i].day, journal[i].hour) >= Stamp(day - NavHistoryDays, hour)}
Session ==
  LET today == {i \in Recent : journal[i].day = day}
  IN  IF today = {} THEN 0 ELSE journal[Min(today)].nav

\* _profit_steps_done: the steps recorded for this side and average price.
StepsDone(t) ==
  {s \in Steps : \E i \in DOMAIN journal :
     [t |-> t, long |-> livePos[t].qty > 0, avg |-> livePos[t].avg, step |-> s]
       \in journal[i].taken}

Context(t, sigma, sound) ==
  [cash |-> liveCash, pos |-> livePos, nav |-> LiveNav, price |-> price[t],
   openNav |-> openNav, spent |-> spent,
   history |-> {journal[i].nav : i \in Recent}, session |-> Session,
   sigma |-> sigma, sound |-> sound, done |-> StepsDone(t)]

PossibleVerdicts(t) ==
  {Evaluate(t, d, Context(t, sigma, sound)) :
     d \in [signal : Signals, size : Sizes], sigma \in Sigmas, sound \in BOOLEAN}

LimitReached == DailyLimit > 0 /\ count >= DailyLimit

Done(t) == todo' = todo \ {t}

\* The graph raised or timed out on the ticker, or the ticker was left out of
\* this tick's batch and holds without a price: nothing is evaluated.
NotEvaluated(t) ==
  /\ phase = "trading" /\ call = NoCall /\ t \in todo
  /\ Done(t)
  /\ UNCHANGED <<broker, stray, clock, journal, tick, live, call, exact, history>>

\* hold, risk_block, daily_trade_limit.
SendNothing(t) ==
  /\ phase = "trading" /\ call = NoCall /\ t \in todo
  /\ \E v \in PossibleVerdicts(t) : v.op \in {"hold", "risk_block"} \/ LimitReached
  /\ Done(t)
  /\ UNCHANGED <<broker, stray, clock, journal, tick, live, call, exact, history>>

Send(t) ==
  /\ phase = "trading" /\ call = NoCall /\ t \in todo
  /\ ~LimitReached
  /\ \E v \in PossibleVerdicts(t) :
       /\ v.op \in OpeningOps \cup ReducingOps
       /\ call' = [NoCall EXCEPT !.t = t, !.verdict = v,
                     !.stage = IF v.close > 0 /\ v.open > 0 THEN "close"
                                                           ELSE "single"]
  /\ UNCHANGED <<broker, stray, clock, journal, tick, todo, live, exact, history>>

-------------------------------------------------------------------------------
(* The broker, external to the repository. *)

Buys == {"open_long", "add_long", "flip_short_to_long"} \cup Covers
Signed(op, lots) == IF op \in Buys THEN lots ELSE -lots

\* The signed lots of the order under way.
CallDelta ==
  Signed(call.verdict.op,
         CASE call.stage = "close" -> call.verdict.close
           [] call.stage = "open" -> call.verdict.open
           [] OTHER -> call.verdict.close + call.verdict.open)

Execute(t, delta, at) ==
  /\ cash' = BrokerCash(t, cash, pos[t], delta, at)
  /\ pos' = [pos EXCEPT ![t] = Moved(pos[t], delta, at)]
  /\ trades' = trades + 1
  /\ opened' = opened + Notional(t, Opening(pos[t], delta), at)

Entry(t, p, step) == [t |-> t, long |-> p.qty > 0, avg |-> p.avg, step |-> step]

Fill ==
  /\ call # NoCall /\ call.fills < MaxFills
  /\ Execute(call.t, CallDelta, price[call.t])
  /\ call' = [call EXCEPT !.fills = @ + 1]
  /\ exact' = (exact /\ call.fills = 0)
  /\ fired' = {e \in fired : e.t # call.t \/ Size(pos'[call.t]) > 0}
                \cup (IF call.verdict.step = "none" \/ pos'[call.t].qty = 0 THEN {}
                      ELSE {Entry(call.t, pos[call.t], call.verdict.step)})
  /\ UNCHANGED <<stray, clock, journal, tick, todo, live>>

\* An attempt the client gave up on arrives after all.
FillStray ==
  /\ stray # NoOrder
  /\ \E at \in Prices : Execute(stray.t, stray.delta, at)
  /\ stray' = NoOrder
  /\ exact' = FALSE
  /\ UNCHANGED <<clock, journal, tick, todo, live, call, fired>>

-------------------------------------------------------------------------------
(* submit_order answers. *)

\* The history variables that follow an answer.
Answered(fills) ==
  /\ exact' = (exact /\ call.fills = fills)
  /\ stray' \in {stray} \cup (IF Strays THEN {[t |-> call.t, delta |-> CallDelta]}
                                        ELSE {})
  /\ UNCHANGED <<broker, clock, journal, tick, history>>

\* Variant: remaining_cash of the answer is ignored.
SimulatedCashAlone(close, open, reported, fee) ==
  LET n == Notional(call.t, close, price[call.t])
      m == Notional(call.t, open, price[call.t])
  IN  liveCash + n - m - Commission(n + m)

\* remaining_cash where the answer carries one; else the trade at the quoted
\* price, with response.commission or, without one, the estimate.
SimulatedCash(close, open, reported, fee) ==
  LET n == Notional(call.t, close, price[call.t])
      m == Notional(call.t, open, price[call.t])
      charged == IF fee > 0 THEN fee ELSE Commission(n + m)
  IN  IF RemainingCash THEN reported ELSE liveCash + n - m - charged

\* Variant: an order that reduces is booked by the side of the position only.
SimulatedPositionAsSale(op, close, open) ==
  LET at == price[call.t]
  IN  Moved(Moved(livePos[call.t], -close, at), Signed(op, open), at)

SimulatedPosition(op, close, open) ==
  LET at == price[call.t]
      reduced == Moved(livePos[call.t], Signed(op, close), at)
  IN  Moved(reduced, Signed(op, open), at)

\* tick_buy_spent: only the answer to a purchase, and a flip, carry the commission.
SpendOf(op, open) ==
  IF op \in {"open_short", "add_short"}
  THEN Notional(call.t, open, price[call.t])
  ELSE TotalCost(call.t, open, price[call.t])

\* _apply_summary_delta and the counters of the loop.
Book(op, close, open, orders, reported) ==
  /\ \E fee \in {0} \cup ReportedFees :
       liveCash' = SimulatedCash(close, open, reported, fee)
  /\ livePos' = [livePos EXCEPT ![call.t] = SimulatedPosition(op, close, open)]
  /\ count' = count + orders
  /\ spent' = spent + (IF op \in OpeningOps THEN SpendOf(op, open) ELSE 0)
  /\ taken' = taken \cup
       (IF call.verdict.step = "none" THEN {}
        ELSE {Entry(call.t, livePos[call.t], call.verdict.step)})

Accept ==
  /\ call.stage = "single" /\ call.fills > 0
  /\ Book(call.verdict.op, call.verdict.close, call.verdict.open, 1, cash)
  /\ Done(call.t) /\ call' = NoCall
  /\ Answered(1)

\* The first half of a flip: its second order goes out at once.
AcceptClose ==
  /\ call.stage = "close" /\ call.fills > 0
  /\ call' = [call EXCEPT !.stage = "open", !.fills = 0, !.reported = cash]
  /\ Answered(1)
  /\ UNCHANGED <<todo, live>>

AcceptOpen ==
  /\ call.stage = "open" /\ call.fills > 0
  /\ Book(call.verdict.op, call.verdict.close, call.verdict.open, 2, cash)
  /\ Done(call.t) /\ call' = NoCall
  /\ Answered(1)

\* order_rejected.
Reject ==
  /\ call.stage \in {"single", "close"}
  /\ Done(call.t) /\ call' = NoCall
  /\ Answered(0)
  /\ UNCHANGED live

\* open_rejected: the flip is booked as the close it has become.
RejectOpen ==
  /\ call.stage = "open"
  /\ Book(ClosingOp(livePos[call.t]), call.verdict.close, 0, 1, call.reported)
  /\ Done(call.t) /\ call' = NoCall
  /\ Answered(0)

\* submit_order raises: the ticker lands in rec.errors and nothing is booked,
\* the executed half of a flip included.
Raise ==
  /\ call # NoCall
  /\ Done(call.t) /\ call' = NoCall
  /\ Answered(0)
  /\ UNCHANGED live

-------------------------------------------------------------------------------
(* The end of a tick. *)

\* What a tick keeps in local variables ends with it.
Forget ==
  /\ phase' = "idle" /\ price' = NoPrice /\ todo' = {}
  /\ liveCash' = 0 /\ livePos' = [t \in Tickers |-> Flat]
  /\ count' = 0 /\ spent' = 0 /\ openNav' = 0 /\ taken' = {} /\ opened' = 0
  /\ call' = NoCall

EndTick ==
  /\ phase = "trading" /\ todo = {} /\ call = NoCall
  /\ journal' = Append(journal, [day |-> day, hour |-> hour, nav |-> openNav,
                                  taken |-> taken])
  /\ Forget
  /\ UNCHANGED <<broker, stray, clock, exact, fired>>

\* The process stops inside a tick: what it had not written is gone, its last
\* request may still arrive.
Crash ==
  /\ phase = "trading" /\ crashes < MaxCrashes
  /\ crashes' = crashes + 1
  /\ Forget
  /\ stray' \in {stray} \cup (IF Strays /\ call # NoCall
                               THEN {[t |-> call.t, delta |-> CallDelta]} ELSE {})
  /\ UNCHANGED <<broker, day, hour, ticks, journal, exact, fired>>

Ticker(t) == NotEvaluated(t) \/ SendNothing(t) \/ Send(t)
Answer == Accept \/ AcceptClose \/ AcceptOpen \/ Reject \/ RejectOpen \/ Raise

Next ==
  \/ SkipTick \/ OpenTick \/ HourPasses \/ NewDay
  \/ \E t \in Tickers : Ticker(t)
  \/ Fill \/ FillStray \/ Answer
  \/ EndTick \/ Crash

Spec == Init /\ [][Next]_vars

-------------------------------------------------------------------------------
(* Properties.  They speak of the broker's account, which the code cannot  *)
(* see between two ticks, and of runs in which every order was executed    *)
(* exactly as it was answered.                                             *)

Balanced == phase = "trading" /\ call = NoCall /\ exact

\* Between two tickers the simulation is the broker's account: what the next
\* ticker is judged by is what is really held.  Without flips, because a flip
\* that raises halfway is booked nowhere.
SimTracksBroker ==
  Balanced /\ ~Settings.ALLOW_FLIP =>
    livePos = pos /\ count = trades /\ (RemainingCash => liveCash = cash)

\* README.md:286: all the openings of one tick, executed at the broker, stay
\* within MAX_TICK_BUY of the NAV the tick started from.
TickBudgetRespected ==
  exact /\ openNav > 0 /\ Settings.MAX_TICK_BUY > 0 =>
    100 * opened <= Settings.MAX_TICK_BUY * openNav

\* The broker never executes more trades a day than the limit.
DailyLimitRespected ==
  exact /\ ~Settings.ALLOW_FLIP /\ DailyLimit > 0 => trades <= DailyLimit

\* A flip is two orders behind one look at the count, and when the second one
\* raises the first is never counted: the limit may be passed, but by no more
\* than one trade for each ticker.
FlipPassesLimitOncePerTicker ==
  exact /\ DailyLimit > 0 => trades <= DailyLimit + N

\* AGENT_ALLOW_FLIP=false, "no-flip через ноль": no execution takes a position
\* through zero.
NoFlip ==
  [][exact' /\ ~Settings.ALLOW_FLIP =>
       \A t \in Tickers : ~SameSide(pos[t].qty, -pos'[t].qty)]_vars

\* An execution that enlarges a position leaves it, and its sector, within the
\* caps at the prices the officer saw.  Size is a share of cash and the caps
\* are shares of NAV, so free cash must not exceed NAV.
ConcentrationRespected ==
  [][\A t \in Tickers :
       /\ exact' /\ phase = "trading"
       /\ Size(pos'[t]) > Size(pos[t])
       /\ liveCash <= LiveNav
       /\ \A u \in Tickers \ {t} : livePos[u] = pos[u]
       => LET held == Notional(t, Size(pos'[t]), price[t])
              others == Total([u \in Tickers |->
                          IF u # t /\ Sector[u] = Sector[t]
                          THEN Notional(u, Size(pos[u]), pos[u].avg) ELSE 0])
          IN  /\ 100 * held <= Settings.MAX_INSTRUMENT * LiveNav
              /\ 100 * (held + others) <= Settings.MAX_SECTOR * LiveNav]_vars

\* How long ago the tick of record i ended.
Age(i) == (day - journal[i].day) * DayLength + hour - journal[i].hour

\* While a position is held, nothing is opened at a NAV that has fallen
\* MAX_DRAWDOWN below that of any tick of the last NavHistoryDays times 24 hours;
\* and nothing at all once it has fallen MAX_DAILY_LOSS below that of the first
\* tick of the date.  Ticks further back than the tail the code reads, and a
\* recorded NAV of zero or less, are nothing to compare with.
OpeningsStopAfterLoss ==
  [][opened' > opened /\ exact' =>
       \A i \in DOMAIN journal :
         LET before == journal[i].nav
             loss == 100 * (before - LiveNav)
         IN  before > 0 /\ Age(i) <= NavHistoryDays * DayLength
             /\ Len(journal) - i < NavTail =>
             /\ (\E t \in Tickers : livePos[t].qty # 0)
                => loss < Settings.MAX_DRAWDOWN * before
             /\ /\ journal[i].day = day
                /\ \A j \in 1..(i - 1) : journal[j].day < day
                => loss < Settings.MAX_DAILY_LOSS * before]_vars

\* A step of the profit ladder is executed once on one entry, across ticks.
LadderOnce ==
  [][\A e \in fired :
       exact' /\ crashes = 0 /\ call # NoCall /\ trades' > trades
       => e # Entry(call.t, pos[call.t], call.verdict.step)]_vars

\* What a booking takes from the NAV the risk officer sees: at most the
\* commission, and the rounding of an average price.
NavKept ==
  LET lost == LiveNav - LiveNav'
      n == Notional(call.t, call.verdict.close + call.verdict.open, price[call.t])
      slack == 2 * Lot[call.t] * Size(livePos'[call.t])
  IN  lost >= -slack /\ lost <= Commission(n) + slack

\* Booking an answer that carries remaining_cash keeps the NAV.  Without flips,
\* because the cash of one that raised halfway comes in with the next booking.
BookingKeepsNav ==
  [][RemainingCash /\ ~Settings.ALLOW_FLIP /\ exact'
     /\ phase = "trading" /\ phase' = "trading" /\ livePos' # livePos
     => NavKept]_vars

-------------------------------------------------------------------------------
(* What the documentation says and the code does not do. *)

\* README.md:223, "stop_loss | PnL <= -2.0% | FORCE CLOSE": a ticker whose
\* position is beyond its stop at the tick's prices does not leave the tick
\* without an order, unless the trade limit is reached.
StopLossFires ==
  [][phase' = "trading" /\ call = NoCall /\ ~LimitReached =>
       \A t \in todo \ todo' : ~Lost(livePos[t], price[t], Settings.STOP_LOSS)]_vars

\* README.md:330: the profit ladder is restored from the journal after a
\* restart, so a step is executed once whatever was interrupted.
LadderSurvivesRestart ==
  [][\A e \in fired :
       exact' /\ call # NoCall /\ trades' > trades
       => e # Entry(call.t, pos[call.t], call.verdict.step)]_vars
===============================================================================
