# MOEX trading agent: specification

TLA+ modules, TLC configurations and TLAPS proofs for the trading agent in
`src/src/agent` (paths below are relative to that directory, `README.md` and
`Dockerfile` to `src/`). The agent wakes up every tick, asks a graph of LLM
calls for a BUY / SELL / HOLD decision per ticker, passes every decision through
a deterministic risk officer and sends what is left to the broker ArenaGo. This
directory says what that loop guarantees about money, positions and orders, what
those guarantees rest on, and where the documentation promises more than the
code does.

Contents: 1 the system; 2 the modules; 3 the runs; 4 fairness; 5 the proofs;
6 modelling assumptions; 7 what the code does otherwise than it says; 8 what is
not modelled; 9 plan.

## 1. The system

| Component | Source | State it keeps | Operations | Module |
|---|---|---|---|---|
| Order delivery | `data/arenago.py` | none of its own: up to three attempts of one POST | `submit_order`; the reads only succeed or raise | `OrderDelivery`, `OrderPromise` |
| Risk officer | `runtime/risk.py`, `runtime/sizing.py` | none: a function of decision, account, history and settings | `evaluate` and its gates | `RiskOfficer`, `Ledger` |
| Scheduler, phase 2 | `runtime/scheduler.py` | per tick `live_cash`, `live_positions`, `live_trade_count`, `tick_buy_spent`, `tick_open_nav`, `rec.decisions` | `_run_once_inner`, `_apply_decision_with_risk`, `_apply_gate`, `_apply_summary_delta` | `TradingTick` |
| Scheduler, phase 1, life cycle | `runtime/scheduler.py`, `runtime/universe_select.py`, `api/main.py` | a semaphore, one coroutine per ticker, the executor's queue and threads; `_task`, `_stop` | `_evaluate`, `select_llm_tickers`, `start`, `_loop`, `stop`, the life span of the application | `TickThreads` |
| Balance fail-safe | `runtime/scheduler.py`, `llm/billing.py` | `_polza_balance_depleted_at`, restored from the journal | `_handle_polza_balance_failsafe`, `_close_positions_for_polza_failsafe` | `PolzaFailsafe` |
| Journal | `runtime/journal.py` | JSONL files on a persistent volume | `write`, `tail` | `JournalFile`, `Journal` |
| Short check | `runtime/short_check.py`, `runtime/short_check_main.py` | a JSON state file | `run` and what it calls | `ShortCheck` |
| Decision graph, LLM client | `graph/*`, `llm/client.py` | the state of one graph run | the nodes and their routing, `complete_json` | `DecisionGraph` |
| Reflection and memory | `runtime/reflection.py`, `memory/*` | the reflections journal, the marker of the day's review | `reflect_on_trade`, `run_meta_reflection`, the hypothesis of a graph | `Reflection` |
| Market data and caches | `data/*`, `features/*` | `_ALERTS_CACHE` of the day, a news cache by TTL | `fetch_mega_alerts_today`; fetches | the alerts in `Reflection`, section 8 |
| Back-test | `backtest/*` | a simulated account, the equity of every bar, the steps of the ladder | `run_backtest` | `Backtest` |
| Logging | `logging.py`, `webhook.py` | a bounded queue and its worker | `emit`, `send` | not modelled, section 8 |

How they interact. One asyncio task runs `_loop`; a tick (`_run_once_inner`)
reads the portfolio, asks the fail-safe, reads the day's trade count and the
market context, selects a batch of tickers, and starts phase 1: every ticker of
the batch runs its decision graph in a thread of the default executor, behind a
semaphore and with a time-out. Phase 2 then takes the tickers one by one in a
random order: each decision goes with a context built from the *simulated*
account to `risk.evaluate`; the verdict becomes one or two calls of
`submit_order`; the answer is booked into the simulated cash, positions, trade
count and budget; the next ticker sees the result. After the last ticker one
"tick" record goes to the journal, which is where the next tick (and the next
process) finds the NAV history, the steps of the profit ladder and the turnover.
The real account lives at ArenaGo; the program reads it once per tick.

What is hard about it, and which property says so:

- *Orders are sent over HTTP and retried.* A request whose answer is lost may
  have been executed, or may still be, and so may one that was refused:
  `RepeatOnlyWhenUnknown`, `ImplementsPromise`, and (not kept) `ExecutedAtMostOnce`.
- *A tick trades on a simulation.* One wrong booking makes every later ticker of
  the tick decide about positions that do not exist: `SimTracksBroker`,
  `BookingKeepsNav`.
- *Limits are enforced on counts.* The daily limit of trades, the budget of a
  tick, the caps on an instrument and on a sector are all checked against
  simulated numbers, and must hold at the broker: `DailyLimitRespected`,
  `TickBudgetRespected`, `ConcentrationRespected`, `NoFlip`; a flip is two orders
  behind one look at the count: `FlipPassesLimitOncePerTicker`.
- *Memory between ticks is the journal's.* Kill switches compare with NAVs of
  earlier ticks and days, the ladder with earlier sales: `OpeningsStopAfterLoss`,
  `LadderOnce`. A record may be cut off anywhere by a restart of the pod or a full disk,
  a write that fails is a warning only, and several threads append to one of the
  files: `IntactIsReturned`.
- *Some memory is the process's, some the disk's, and midnight comes at any time*:
  the review of the day (`ReviewedOnce`), the alerts of the day, one cache for callers
  that want all rows and one that wants few (`AlertsAreWhole`).
- *A time-out does not end a thread.* A graph run nobody waits for goes on, holds
  a thread and may deliver its result in a later tick: `ResultsAreFresh`,
  `KeptWaitingByOrphansOnly`, `TickEnds`. A stop leaves threads behind, and orders are
  sent from threads: `NothingBegunAfterStop`, `OrdersOneAtATime`.
- *A grace period outlives the process*, and its records may be lost. It must not end
  early, start anew, or leave positions open: `CloseNotEarly`, `GraceSurvivesRestart`,
  `ClosingReduces`, `EventuallyFlat`.
- *A one-shot experiment with real orders is restarted at any point*, in the middle of
  writing its state too: `OneSellForEachCut`, `BuyCoversTheSell`, `DoneMeansFlat`,
  `CoverIsBegun`.
- *Every LLM request may fail, and seven switches change the graph*: a held
  ticker must still reach the trader, and no order may come from anywhere else:
  `HeldSkippedByAlertOnly`, `OrdersComeFromTrader`, `DebateIsWhole`,
  `HypothesisMatchesOrder`, `GraphEnds`.
- *The back-test has books and a loop of its own around the live risk officer*: each
  fill is a close, an opening or both, and what the officer allowed must be what is
  traded: `BooksBalance`, `BarBudgetRespected`, `CapsRespected`,
  `DrawdownStopsOpenings`, `FlatBookStartsAfresh`, (not kept) `LossStopsTheDay`.
- *Tickers may be left out*: of the batch (`PositionsAreEvaluated`), or of phase 2
  because phase 1 failed, and with it of the stop loss (not kept: `StopLossFires`).

## 2. The modules

    OrderPromise <|-- OrderDelivery          abstract / detailed: one submit_order
    Ledger  <-- RiskOfficer <-- TradingTick  EXTENDS: account, verdicts, the tick
                            <-- Backtest     EXTENDS: the same verdicts on bars
    JournalFile <-- PolzaFailsafe            EXTENDS: the file under a cut-off
                <-- Journal <-- Reflection   EXTENDS: its history, its writers
    ShortCheck, TickThreads, DecisionGraph   components of their own

`OrderPromise` is what a caller of `submit_order` may rely on: an order is
executed at most MaxFills times, before or after the answer; a success means at
least one execution. `OrderDelivery` is the code: client, network and broker as
separate actors. A request is on its way, executed or lost, and its answer is
whatever comes back: a 4xx, a 5xx or "declined" may be the answer to an order that
was executed; `ImplementsPromise` is the refinement, checked by TLC and proved. The three
components that send orders (`TradingTick`, `PolzaFailsafe`, `ShortCheck`) have an
environment that keeps the promise and no more: `Fill` executes the order under
way, up to `MaxFills` times, `FillStray` executes one after it was answered.

`Ledger` holds the arithmetic of the account: notional, commission, NAV under the
broker's collateral model (`_portfolio_nav`), the change of a position
(`_apply_summary_delta`) and, external, the broker's own change of cash.

`RiskOfficer` is `risk.evaluate`, gate after gate in the order of the code: trim,
bracket and profit ladder above the signal; peak and daily loss; close or flip;
then for an opening the sizing, the caps on instrument and sector, VaR, the cash
buffer and the tick budget. It is a function from a decision and a context to a
verdict: lots to close, lots to open, the ladder step.

`TradingTick` is phase 2. `OpenTick` is the reads of a tick; `Send` and
`SendNothing` are `_apply_decision_with_risk` up to `submit_order`, `NotEvaluated` the
tickers phase 2 passes over; `Accept`, `AcceptClose`, `AcceptOpen`, `Reject`,
`RejectOpen` and `Raise` are what follows each answer (a flip is two orders), each
with its booking; `EndTick` writes the journal record; `Crash` stops the process
anywhere; `SkipTick` is a tick that ends before trading; `HourPasses` and `NewDay` are
the clock between orders. `Recent` is `load_nav_history`: of the last `NavTail` records
those not older than `NavHistoryDays` times 24 hours at this moment. Variables `cash`, `pos`,
`trades` are the broker's; `liveCash`, `livePos`, `count`, `spent`, `openNav` the
tick's. `exact`, `opened` and `fired` are history: whether every order so far was
executed exactly as it was answered, what the broker opened this tick, and which
ladder steps it has executed.

`TickThreads` is the whole tick seen from the executor: `queue`, `running` and
`over` are calls handed to threads, `coro` is where each ticker's coroutine is.
`TimeOut` gives a coroutine's slot back while its call stays in `running` or leaves
the queue. `life` is the process: `Start` begins the loop, `Stop` is the cancellation
at an await, `CloseClient` the end of the life span, `Exit` the end of a process
that has waited for its threads, `Kill` the end of one that has not.

`PolzaFailsafe` is the fail-safe with the journal it restores itself from
(`JournalFile`, at most `TailLines` lines looked at), the polza.ai balance as
environment, restarts, refusals, double and late executions. Each of its writes may
fail without a word and leave nothing or a part of its line (`Wrote`). `lowFor`, `since`
and `stale` are history: how long the checks have seen the account empty, how many
lines ago that was recorded, and whether the last recovery is missing from the file.

`Journal` is `write` and `tail`. A write succeeds, fails and leaves nothing, or is cut
off after any prefix, by a stop or by a disk that is full; the next one is glued to
what is left. A text that contains U+0085 or U+2028 shows `tail` a first and a last
piece that are no JSON and any pieces between them, some of which may be JSON
(`Pieces`, `Scrap`). `offered`, `fate` and `ends` are history.

`Reflection` (`MemorySpec`) composes it with those who append to the reflections journal: the
graph threads (`Hypothesis`, maybe of a run that outlives its tick), phase 2
(`Lesson`) and the event loop's evening review (`WriteReview`, then `MarkReview` on
disk, with a date taken before both). The list of alerts is one variable of the
process that tick, graphs and review fetch through (`LoopFetches`, `ThreadFetches`): the
first caller of a date decides how many rows it keeps. `SessionEnds`, `Midnight` and
`Crash` come at any moment.

`Backtest` is `run_backtest`: `StartBar` and `EndBar` are the loop over the bars,
`PassOver`, `TradeUnchecked` and `TradeChecked` the treatment of one signal, without
and with the risk officer of `RiskOfficer`. `pnl` is the sum of the trade results,
`fees` the commission no trade result contains, `rounded` what an integer average
price drops; `opened` and `flatAt` (the close that was the current NAV when the book
was last empty) are history. Signals, sizes, quotes and volatilities are any.

`ShortCheck` is the one-shot experiment with its state file, restarts between any
two steps and inside a write of the file (`CutOff`: emptied, or no JSON; `cuts` counts
them), and the choice of ticker, configured or `AUTO`.

`DecisionGraph` is one ticker's run: seven switches, every node, every request of
`complete_json` with its fallback format and its attempts.

Definitions whose comment starts with "Variant:" are mutated forms of the
definition that follows; no action uses them. `PROJECT.json` pairs each of them
with the property that it breaks.

## 3. The runs

Nine runs pass and three find a violation. "States" are distinct states.

| Run | Module, configuration | States | What it asks |
|---|---|---|---|
| `delivery` | MCOrderDelivery, OrderDelivery.cfg | 14 642 | Three attempts of a live order beside a dry run, against a network that loses, delays and reorders: is what `submit_order` tells its callers true, and does it return? |
| `tick` | MCTradingTick, TradingTick.cfg | 518 074 | Two tickers of one sector, two ticks, two days of two hours, the Dockerfile's switches: does the simulation follow the broker, do limits and caps hold there, does nothing open after a loss? |
| `faults` | MCTradingTick, TradingTick_faults.cfg | 3.08 M | Two tickers, short or long, over two ticks with room for two trades a day, all switches (flips, trims, ladder), late executions, halves of a flip that raise and a crash: by how much may flips pass the trade limit, and does the ladder remember its steps? |
| `failsafe` | MCPolzaFailsafe, PolzaFailsafe.cfg | 1.32 M | A long and a short position, a journal tail of four lines, two faults of any kind, among them writes that fail or are cut off: when may the grace period end early or start anew, and does an empty account end flat? |
| `short_check` | MCShortCheck, ShortCheck.cfg | 112 362 | Four faults (stops, also inside a write of the state file, refusals, double or late executions): how often is an order sent, is the BUY the right one, is a recorded SELL taken up again? |
| `threads` | MCTickThreads, TickThreads.cfg | 119 953 | Three tickers, cap, slots and threads two each, two ticks, a stop and the end of the process at any point: what survives time-outs, and what may still run? |
| `graph` | MCDecisionGraph, DecisionGraph.cfg | 821 504 | Every combination of seven switches and 0 or 2 rounds of debate, every request failing or not: where do decisions come from? |
| `memory` | MCReflection, Reflection.cfg | 5.50 M | The event loop and a graph thread that may outlive its tick, three writes that may fail or leave a part, a restart, two days: which records does `tail` return, how often is a day reviewed, which list of alerts does a decision see? |
| `backtest` | MCBacktest, Backtest.cfg | 413 009 | Two tickers of one sector, three bars that move by ten percent or miss a ticker, with and without the risk officer: do the books balance, do budget, caps and drawdown switch hold for what is traded, and does an empty book start afresh? |
| `delivery_once` | OrderDelivery_once.cfg | violation | An order submitted once is executed at most once. |
| `stop_skipped` | TradingTick_stop.cfg | violation | A position beyond its stop loss gets an order. |
| `backtest_loss` | Backtest_loss.cfg | violation | Nothing is opened on a bar below the day's first equity by the daily loss. |

What the passing properties mean beyond their comments:

- **SimTracksBroker** is about `_apply_gate` and `_apply_summary_delta` against the
  broker: after every answer (accepted, rejected, raised, or a verdict with no
  order) simulated positions, trade count and, when answers carry
  `remaining_cash`, cash are the broker's. It is stated for orders executed as
  answered (`exact`), since nothing in the code could know of others, and without
  flips, since a flip that raises halfway is booked nowhere (section 7).
- **TickBudgetRespected**, **DailyLimitRespected**, **ConcentrationRespected** speak
  of executions at the broker, not of the counters the code compares. The caps
  are stated for free cash not above NAV: `size_pct` is a share of cash and the
  caps are shares of NAV, so with shorts held the code's own base differs; and for
  a simulation that agrees with the broker on the other tickers, which only a flip
  that raised halfway can prevent.
- **OpeningsStopAfterLoss** reads the *journal* and the NAV at the moment of the
  execution: midnight, the rolling window of the history and its tail, the reset of the
  peak while flat and the in-tick change of NAV are all in between.
- **LadderOnce** says a step is not executed twice on one entry (side and average
  price) as long as no process stopped; `fired` follows the broker, `taken` and
  the journal are what the code remembers.
- **BookingKeepsNav** compares the NAV the risk officer sees before and after a
  booking: only the commission may leave it, and the rounding of an average
  price to the model's unit may move it. It is stated for answers that carry
  `remaining_cash` and without flips; section 7 says what happens otherwise.
- **GraceSurvivesRestart** and **CloseNotEarly** bound the fail-safe from both sides:
  not later than the grace period while its record is within the tail, not
  earlier than a whole period in which every answered check saw the account
  empty. **EventuallyFlat** needs no assumption about which orders were
  executed: whatever went wrong, the next tick closes what is there.
- **ResultsAreFresh** is what `asyncio.wait_for` gives: a late result has no future
  to go to, so phase 2 never applies a decision computed from an older portfolio.
- **KeptWaitingByOrphansOnly** says when a tick's own calls can starve: only behind
  graph runs nobody waits for, given at least as many threads as slots.
- **FlipPassesLimitOncePerTicker**: the trade count is looked at once per verdict, and
  a flip sends two orders. If the second one raises, the first is not counted for the
  rest of the tick (section 7), so several tickers of one tick may each pass the limit
  by one; the excess never adds up beyond that, over all ticks of a day.
- **OrdersOneAtATime** counts calls of `_apply_decision_with_risk` queued, running and
  finished but not yet taken up, so it says what a stop leaves unrecorded: the
  orders of one ticker at most.
- **RepeatOnlyWhenUnknown**: a refusal does not show that nothing was executed (the
  broker may have accepted the order before it answered 4xx), and the client cannot
  find out. What it can do is never to post again an order that was answered with
  success, declined or 4xx; a repetition follows a time-out, a broken connection or a
  5xx only, which is why `OrderPromise` allows for several executions.
- **OneSellForEachCut** and **DoneMeansFlat**: a stop inside `write_text` leaves the state
  file empty or unreadable, which the next process takes for a first start. Each such
  stop may cost one more SELL that nothing covers, and nothing else may.
- **CloseNotEarly** has one exception, and TLC finds it when it is left out
  (`ClosesAfterGrace`): the record of the last recovery is not in the journal.
- **IntactIsReturned**: damage stays local. A finished record of plain text is found
  again unless it was the first to follow one that was cut off; how many lines the
  tail still has room for depends on the pieces other records fall into (`Recent`).
- **HypothesisMatchesOrder**: an order is reflected on when it has been decided and
  nothing else is; the record may fail to reach the file, but one that does is that of
  an order.
- **DrawdownStopsOpenings** and **FlatBookStartsAfresh** are the two sides of the reset
  of the peak in `peak_nav`: while anything is held, every close since the book was
  last empty counts; while nothing is held, no earlier close does. The history is only
  set aside, so closes from before the book was last empty count again as soon as
  something is held (section 7): the properties do not ask that they should not.
- **ReviewedOnce** allows one more review per marker that could not be written or that
  a stop prevented (`slips`), and none for restarts or midnight alone.
- **AlertsAreWhole**: the review's short list is stored in the evening, when a tick has
  stored the whole one; only a request or a review that runs over midnight can
  fill the new date's cache with it, which `overran` records. A list fetched once
  stays for the day, so alerts raised later are not seen; that is no property.
- **BooksBalance** is the identity of the account, over flips (a close and an opening
  with one commission each), partial closes and averaging. **CapsRespected** and
  **DrawdownStopsOpenings** are stated on the account's change, not on the verdict:
  they also depend on the direction and the quantity the engine makes of it.

Why the bounds are enough. Two tickers are the least at which one ticker's booking can
mislead another and a sector can fill up from two sides; with lots of 1 and 2 their
rounding differs. Prices move one step of ten percent, so that a bracket, a stop or a
kill switch is one tick away; sizes 8 and 15 of 100 lie below and at the cap of 15, so
that two additions pass it, and 15 twice passes the sector's 25. A trade limit of 3 is
reached within two ticks of two tickers. Two ticks and one change of day are the
shortest history in which a journalled NAV of yesterday and one of today differ;
`NavHistoryDays = 1` and days of two hours let yesterday's record drop out of the window
during today, by the hour at which it was written. `NavTail = 2` cuts nothing off in two
ticks; that the tail is read correctly is in the proof, which leaves it open. In
`faults` the positions are there at the start, so the first tick can take a step of the
ladder and the second would take it again; the long position of 60 lots is above its
cap, so it is trimmed; a limit of two leaves room for one counted trade and for a flip
that passes it. A tail of four lines is shorter than the records of two depletions with
the recovery between them, so the record of a depletion leaves the window; one ticker is
long and one short, since what the fail-safe does depends on the sign and not on the
size. Two faults are a recovery that is not recorded and the stop after it. Four faults
let the short check stop inside a write, at each of its two orders and once more. Two
attempts of `complete_json` are the first and a repeated one; in `OrderDelivery` the
three attempts are the code's. Cap, slots and threads of two among three tickers leave
one out of the batch, or waiting at each queue. An order under way in `faults` is
executed once and may be executed again after its answer (`Strays`), which covers the
second execution of a retry that comes late; one before the answer (`MaxFills = 2`) is
in the proofs, which leave `MaxFills` open. In `memory`, three writes are a cut-off one,
the one glued to it and one that must be found again; hypotheses have a separator and
lessons none, so that both kinds of records meet in one file, two lines to a hypothesis
(more of them are in the proof, which leaves `MaxPieces` open); a tail of three lines is
shorter than the file. Two days hold one midnight, and one thread is enough to be older
than its tick. In `backtest`, three bars are an opening, a loss and what follows it; an
opening of 30 percent meets the cap of 15, two of 15 the sector's 25 and the budget of
20, and the lots differ. The kill switch on drawdown is set to two percent, one move of
a price.

## 4. Fairness

`TradingTick`, `Reflection` and `Backtest` have no fairness and only safety properties.

- `OrderDelivery`: WF on the client's steps of each order. The client is a loop
  whose every blocking step has an httpx time-out (`arenago.py:48`, `:56`), so it is
  never disabled for good; nothing is assumed of the network or the broker.
- `PolzaFailsafe`: WF on the steps of a tick, `Step` (`_loop` runs them one after another),
  on `Restart` (the pod is restarted by its platform), on `Pass` (time passes) and
  on `Fill` (a broker executes an order it has not refused). None on checks that
  fail, refusals or crashes, which `MaxFaults` bounds.
- `ShortCheck`: WF on the runner's steps, `Restart`, `Pass` and `Fill`, for the same
  reasons.
- `TickThreads`: WF on the event loop (`Step`), on the executor taking a queued call
  (`StartCall`) and on calls ending (`End`): every blocking call has time-outs and
  bounded retries of its own. None on `TimeOut`: no time-out has to fire.
- `DecisionGraph`: WF on `Next`; LangGraph runs node after node in one thread.

## 5. The proofs

TLAPS proves the following for every value of the constants that satisfies the
named assumptions (any number of tickers, any lots, prices, settings, number of
executions per order, and bounds).

| Theorem | States |
|---|---|
| `OrderDelivery_proofs!TypeCorrect`, `SuccessCorrect`, `RepeatCorrect` | type correctness, a success was executed, `RepeatOnlyWhenUnknown`, for any set of orders and number of attempts |
| `OrderDelivery_proofs!PromiseKept` | OrderDelivery implements OrderPromise |
| `OrderDelivery_proofs!CallShortens` | a call returns within 2 * MaxAttempts + 1 steps of its client, whatever network and broker do |
| `RiskOfficer_proofs!EvaluateSound` | every verdict is a reduction of one lot up to the whole position, an opening that fits the tick budget, or a flip if flips are allowed |
| `TradingTick_proofs!TypeCorrect` | type correctness of a tick |
| `TradingTick_proofs!SimulationCorrect` | `SimTracksBroker` |
| `TradingTick_proofs!BudgetCorrect` | `TickBudgetRespected`, with flips too |
| `TradingTick_proofs!DailyLimitCorrect` | `DailyLimitRespected` |
| `TradingTick_proofs!NoFlipCorrect` | `NoFlip` |
| `TradingTick_proofs!FlipLimitCorrect` | `FlipPassesLimitOncePerTicker`, for any number of tickers, ticks, executions, exceptions and crashes |
| `TradingTick_proofs!LadderCorrect` | `LadderOnce` |
| `TradingTick_proofs!LossCorrect` | `OpeningsStopAfterLoss`, for any length of the day, of the window and of the tail, if MAX_DRAWDOWN is at most 100 |
| `TradingTick_proofs!ConcentrationCorrect` | `ConcentrationRespected` |
| `TradingTick_proofs!BookingCorrect` | `BookingKeepsNav` |
| `TradingTick_proofs!TickShortens` | a tick is over after at most 3 * N + 1 steps of the scheduler, two orders a ticker included |
| `PolzaFailsafe_proofs!TypeCorrect`, `ReducesCorrect` | type correctness and `ClosingReduces`, for any grace period, tail and universe |
| `PolzaFailsafe_proofs!NotEarlyCorrect`, `GraceCorrect` | `CloseNotEarly` and `GraceSurvivesRestart`, for any grace period and tail, with writes that fail or are cut off |
| `ShortCheck_proofs!TypeCorrect`, `SentAtMostOnce`, `CoversTheSell` | the short check's types, `OneSellForEachCut` and `BuyCoversTheSell`, for any number of stops |
| `ShortCheck_proofs!DoneLeavesNothing` | `DoneMeansFlat`, with cut-off writes |
| `DecisionGraph_proofs!TypeCorrect`, `PositionsReachTrader`, `OrdersCorrect`, `DebateCorrect`, `HypothesisCorrect` | type correctness, `HeldSkippedByAlertOnly`, `OrdersComeFromTrader`, `DebateIsWhole`, `HypothesisMatchesOrder`, for any number of attempts and rounds and any caps |
| `DecisionGraph_proofs!IntactCorrect` | `IntactIsReturned`, for any records, writers, tail, number of pieces, failures and cut-offs |
| `DecisionGraph_proofs!ReviewCorrect`, `AlertsCorrect` | `ReviewedOnce` and `AlertsAreWhole`, for any number of days and of threads that outlive their tick |
| `DecisionGraph_proofs!RunShortens` | every step of a graph run lowers a bound of its remaining steps |
| `TickThreads_proofs!TypeCorrect`, `PositionsCorrect`, `ResultsCorrect`, `OneOrderCorrect`, `NothingBegunCorrect`, `OrphansCorrect` | type correctness, `PositionsAreEvaluated`, `ResultsAreFresh`, `OrdersOneAtATime`, `NothingBegunAfterStop`, `KeptWaitingByOrphansOnly`, for any universe, cap, number of slots, of threads and of ticks |
| `Backtest_proofs!TypeCorrect`, `BooksCorrect`, `BarBudgetCorrect`, `CapsCorrect` | type correctness, `BooksBalance`, `BarBudgetRespected`, `CapsRespected`, for any quotes, strategy, settings, slippage and commission |
| `Backtest_proofs!DrawdownCorrect` | `DrawdownStopsOpenings`, if MAX_DRAWDOWN is at most 100 and MAX_TICK_BUY positive |
| `Backtest_proofs!FreshStartCorrect` | `FlatBookStartsAfresh`, for any history, settings and signals |

The type invariants of the modules with proofs are proved; only the fail-safe's is
run as well. Every invariant and every action property that a passing run checks is
stated by one of these theorems. The graph and the memory that its runs share have
one module of proofs, `DecisionGraph_proofs`; the facts about `Ledger` are at the
head of `RiskOfficer_proofs`, which the proofs of tick and back-test extend.

The argument for a tick. None of the properties is inductive: which order may
be under way, and how far simulation and broker are apart while it is, has to be
part of the invariant. `Inv` of `TradingTick_proofs` is

    TypeOK /\ IdleQuiet /\ CallSound /\ SpentWithinBudget /\ OpenedIsSpent
    /\ FilledOnce /\ TodoSynced /\ Lags /\ DailyLimitRespected

`CallSound` carries `EvaluateSound` through the time between `Send` and the last
answer: the order under way is still what the officer allowed, since a tick sends
one at a time. `SpentWithinBudget` is about the code's counter, `OpenedIsSpent`
ties what the broker opened to that counter plus the order in flight; together
they give the budget. `FilledOnce` says what `exact` means while an order is under
way, `Lags` that without flips the broker is ahead of the simulation by exactly
that order, `TodoSynced` that tickers still to come are held as simulated, half a
flip included. There is one lemma per conjunct (`...Kept`), each with one step per
action. The facts about arithmetic (NAV and sums over tickers are integers,
notional grows with lots) are in `RiskOfficer_proofs`; existence and uniqueness of the
recursive function behind `Total` is proved there by a least counterexample, since
the induction theorems of the library cannot be instantiated.

With flips the simulation lags behind the broker in ways `Lags` does not bound, and
a second invariant, `Outlook`, follows what is left of it. `Uncounted`: while orders
are executed as answered, the broker's trades are the counted ones, plus those of
the order under way, plus at most one for each ticker that has had its turn.
`HalfFlip`: between its two orders a flip's position is zero, so the second one is an
opening from nothing. `StepRecorded`: a step of the ladder that was executed is in the
journal, in this tick's record (`TakenVisited`: of a ticker that has had its turn), or
is the one under way, and a step is always a single order (`StepIsSingle`).
`Judged` says that what the officer was shown has not changed since the verdict, so
it can be asked again at the execution: `LossCorrect` and
`ConcentrationCorrect` read off what each gate of `Evaluate` leaves of an opening.
For the caps the position at the broker is the simulated one, by `TodoSynced`; for the
loss it is only needed that the gate on drawdown or daily loss leaves no opening, and
the hypothesis on `MAX_DRAWDOWN` is the back-test's (below). `BookingCorrect` takes
`CashLags`, that the broker's cash is the simulated one moved by the order under way,
and a lemma on the worth of a position: a fill takes from cash and position together
the commission, and the rounding of a short's average moves its worth by less than two
units a share.

The argument for the fail-safe. `ReducesCorrect` needs `ClosingInv`: what the tick has
read is what the broker holds for every ticker still to be closed (`ReadInv`), and the
order under way is for one of them (`CallInv`). The two properties on the grace period
need `DateInv`, in which the lines of the journal are counted from the end, since
a restart looks at the last line about the balance among those it reads.
`Candidate` lines are those a restart may go by, now or once an unended last line has
been spoilt by the next one. `NotEarlyInv`: unless the last recovery is missing
(`stale`), no such line and no memory of the process dates the depletion back before
the checks saw it, and of two such lines the earlier says nothing else than the later.
`GraceInv`: as long as the record is written and within the tail, it is the last one
about the balance and has the age of the depletion. A write that leaves nothing or a
part of its line takes candidates away and adds none but its own, which is why both
parts survive it (`AddedInherits`, `KeptInherits`).

The argument for the memory. `MemoryInv` has a part for each property. `PlaceKnown`
gives each intact record the line it made: the `ends[i]`-th of the file, whole,
readable and never touched again, since a write changes a line that has no newline
only. `EndKnown` keeps the last line without its newline exactly after a cut-off,
so a record whose predecessor is whole is never glued to anything. Files only grow
(`Extends`), whatever a write leaves (`LeavesLines`), so that a record `Recent` counts in
is within the tail at a fixed distance from its end. `AlertsKnown` follows the
list of alerts: only the review asks for a few rows (`OnlyReviewCuts`), nobody asks for
a date to come (`AskedDates`), a date that began while somebody waited has been overrun
(`WaitedOver`), so that a short list can only be there for such a date (`ListIsToday`,
`CutKnown`) and only its callers can be given it (`GivenKnown`). `ReviewsCounted` is the
property with one review less for a day that still needs one (`Settled`).

The argument for the short check. `TypeInv` adds to the types that a state which
needs a ticker names one; `FileIsAhead` says that the file on disk is at or ahead
of every order sent, but for one SELL for each write that was cut off, `InStep`
relates the program counter to file and counters; `OneSellForEachCut` follows. `SaleInv` keeps the ticker and the age of the answered SELL
equal to those the state file records, for `BuyCoversTheSell`. `HeldInv` says what
the broker holds of the check, for each state of the file and each point of the
program, while every order is executed as answered: what `NetIs` says, with `cuts` lots
sold at most that no state on disk knows of; `DoneMeansFlat` is its last line.

The argument for a graph. `GraphInv` adds to the four properties what a node means
for what has happened before it: `CallFits` (the model asked is the node's, and its
requests are within two per attempt), `DecidedAtEnd`, `Routed` (who can be where),
`Debated` (how many arguments there are, node by node) and `Failures` (a failed
argument ends the graph, a failed trader holds). There is one step per action; a
node's answer is split by node.

The argument for the threads. None of the properties is inductive, because each
speaks of one queue or one ticker and is kept by the pairing of calls with those
who wait for them. `ThreadsInv` states that pairing: a call is in one place and
once in the queue (`CallsOnce`); a graph run that is queued or finished has its
coroutine inside (`GraphsAwaited`), one that runs belongs to a ticker of the batch
(`GraphsBegun`); any other call is the read the loop waits for or the only order
under way (`OthersAwaited`, `OneApply`); slots taken and free add up (`SlotsTaken`);
and after a stop nothing is queued (`StoppedQuiet`). `OrphansCorrect` is a pigeonhole:
if every busy thread were in a graph run somebody waits for, these and the queued
call would be more coroutines inside than slots.

The argument for the back-test. A fill is one of four (averaging, partial close,
full close, change of side); for each of them a lemma moves the account's identity
across it, as an equation between products with the rounding of the average
carried along, and `Total` changes at one ticker only. `AccountInv` adds
`OpenedIsSpent`: what the bar opened is at most what the engine counted. For the caps
the step splits by the officer's verdict, and `RiskOfficer_proofs` says what each
gate leaves of an opening. A positive `MAX_TICK_BUY` is needed because zero
switches off the budget, the gate that opens nothing on a NAV of zero or less;
`MAX_DRAWDOWN <= 100` because above that the comparison with the highest close says
nothing about a close below zero.

How long things last. `CallShortens`, `RunShortens` and `TickShortens` are the safe
half of termination: a number (`StepsLeft`) that every step of the program lowers and
no step of its environment raises. It is counted from the attempts left, from the
nodes, rounds and requests left, from the tickers left and the halves of an order.
Invariants make it positive while the program is not done. The other half, that the
program goes on, is fairness.

Only model-checked: the liveness properties `EveryCallReturns`, `EventuallyFlat`,
`CoverIsBegun`, `TickEnds` and `GraphEnds` (TLAPS does neither fairness nor ENABLED).
Out of the prover's reach for good: liveness, and what a recursive definition
computes for every input (induction over data). No module here declares a
RECURSIVE operator; `Total` is a recursive function.

## 6. Modelling assumptions

- *Prices and amounts* are small integers; percentages are integers out of 100.
  An order is executed at the price the tick saw. The average price of a position
  is rounded down to the unit (the code keeps floats); `BookingKeepsNav` allows for it.
- *RISK_ENABLED* is true, as in every configuration of the repository.
- *One Boolean `sound`* stands for the gates on confidence, spread and expected edge:
  they look at the decision and the market only, and block the opening.
- VaR takes each ticker's volatility from a small set; that of the other
  positions counts as nothing. Time in `TradingTick` is a date and an hour; it does
  not pass while an order is under way, and midnight comes between ticks (ArenaGo is
  closed from 23:50 on). A NAV of zero or
  less together with a flip is not modelled.
- A quote of zero occurs only with HOLD, where the ticker is not evaluated.
- In `TradingTick` at most one order at a time may still be executed after its
  answer; the NAV history is read from the last `NavTail` records, the ladder from the
  whole journal, and its writes do not fail (they may in `Journal` and `PolzaFailsafe`).
- `Journal`: an append is one short write to a file opened in append mode, so the
  lines of two threads do not mix. Whether a text with separators contains a piece that
  is JSON is up to the text; a first and a last piece never are, since they begin or
  end inside a string. Two records glued together are no JSON either.
- `PolzaFailsafe`: the grace period is positive. The setting is `max(int(x or 30),
  0)`, so a negative one gives zero, that is no grace period at all. Its own records
  have no separator in a text; those of ticks may have one and then take several of
  the lines a restart reads, which `Other` counts as one.
- `Reflection`: which hypotheses and lessons have a line separator in their text is a
  constant; a review has none.
  META_REFLECTION_ENABLED and REFLECTION_IN_GRAPH are on (config.py and the Dockerfile
  have both off: the module is about a deployment that uses them); dates are the
  host's local ones for review and alerts alike.
- `Backtest`: prices, averages and commission are integers, and what an integer
  average drops is added up in `rounded`; bars of all tickers share their time
  stamps, a missing one has the price 0.
- `RemainingCash` says whether the broker's answers carry `remaining_cash`. Its
  value then is the broker's cash. Without it the code takes `commission` from the
  answer or computes it: `ReportedFees` are the amounts the answer may carry.
- Broker, network, the executor of asyncio, the models' answers and time are
  external: modelled from what `src/agent` sends, expects and handles.
- Instants are ages up to the grace period or the pause, because only
  "elapsed < limit" is ever asked.
- `ShortCheck`: reading the state file does not raise OSError, and the configured
  ticker is one of the candidates. A deployment may change the setting between
  two processes.
- `TickThreads`: liquidity, alerts, positions and the order of phase 2 are any;
  billing is configured, so the balance is always read; the process that ends is not
  followed by another, whose threads would be new ones. With fewer threads than slots
  (`min(32, cpu + 4)` on a small pod) `KeptWaitingByOrphansOnly` says nothing.
- `DecisionGraph`: an answer is "dull" or "lively" for the analyst and a signal with
  a size for the trader; fetching memory and news does not raise.
- The kill switches of the `tick` run are set to one percent, those of `backtest` to two
  (drawdown) and one (daily loss), so that one step of a price trips them; all other
  percentages are the Dockerfile's.

## 7. What the code does otherwise than it says

Three disagreements have a run of their own:

- **An order may be executed twice** (`delivery_once`). `submit_order` repeats the POST
  after a time-out or a 5xx, without an idempotency key; README.md:29 promises
  idempotency and `arenago.py:20` names the very risk for 4xx.
- **A stop loss may not fire** (`stop_skipped`). A ticker whose graph run failed or
  timed out, or that is not in the batch, never reaches `risk.evaluate`
  (`scheduler.py:631`); README.md:223 says FORCE CLOSE.
- **A back-test trades on through a daily loss** (`backtest_loss`). The officer looks
  for the first NAV of *today's* date (`runtime/risk.py:486`) in a history dated by
  the bars; engine.py:9-10 says the engine validates the risk layer and calibrates
  its thresholds.

Others were met while modelling. Some have a property of their own, which TLC refutes
when it takes the place of those in the configuration named:

- **The old peak comes back** (`Backtest.cfg` with `OldPeakForgotten`, N = 1 and
  MaxBars = 5). README.md:269 and :282 and the docstring of `peak_nav` (`risk.py:101-106`)
  say that the peak of NAV is reset when the book is flat, so that one bad trade does
  not paralyse the drawdown gate for ever. `peak_nav` sets the history aside while the
  book is flat and forgets nothing: an empty book opens (`FlatBookStartsAfresh`), and
  with the first lot held the NAV is compared with the old peak again (`risk.py:112-114`),
  so that a book that lost MAX_DRAWDOWN since, by trades long closed, cannot add to
  what it holds for as long as the record is in the window, or in the back-test for good.
- **A lost recovery closes early** (`PolzaFailsafe.cfg` with `ClosesAfterGrace`). The
  start of a depletion is cleared in memory whatever becomes of the record of the
  recovery (`scheduler.py:198-209`); if its write failed or was cut off (`journal.py:27`),
  the next process takes up the old depletion and closes every position at the first
  check that finds the account empty again, giving as the reason "closing all positions
  after grace period" (`scheduler.py:326`).
- **A second SELL** (`ShortCheck.cfg` with `OneShot`). `write_text` empties the state file
  before it fills it (`short_check.py:232`), and an empty or cut-off file reads as a first
  start (`:226-228`); the class is a "One-shot ArenaGo short capability check" whose
  "state on disk survives pod restarts" (`:18-20`).
- **A record that is none** (`Reflection.cfg` with `OnlyRecords`). `tail` cuts the file at
  U+0085, U+2028 and U+2029, which `write` leaves unescaped (`journal.py:23`, `:44`): what
  a text has between two of them is a line of its own, and where it is a number or
  null `tail` returns it to callers that ask it for `rec.get` (`scheduler.py:169`, at
  start-up). `journal.py:31` says that unreadable records are skipped. A record with one
  such character is lost as a whole, and so is the one after a cut-off line.
- `TradingTick_faults.cfg` with `LadderSurvivesRestart`: steps reach the journal with
  the record written after the last ticker (`scheduler.py:769`); README.md:330 says
  the ladder is restored from the journal.
- Without `remaining_cash` in the answer `BookingKeepsNav` would fail, which is why it
  is stated for answers that have it: a cover gives back the notional
  at the current price instead of cost plus profit (`scheduler.py:1317`, against the
  comment at `:829`).
- Half a flip that raises loses the executed close for the rest of the tick
  (`scheduler.py:694`); README.md:399 says every next ticker sees a fresh snapshot.
- A close executed twice by the retry goes through zero with flips off
  (README.md:419).
- A stop of the short check between the record `buy_started` and the BUY leaves the
  short open; `CoverIsBegun` is all that holds.
- A Mega Alert holds a ticker *with* a position before any model sees it
  (`graph/prefilter.py:106`; the docstrings at `:34` and `:93` say without);
  hence the exception in `HeldSkippedByAlertOnly`.
- Analyst, news and trader catch an answer that stays invalid and go on
  (`graph/nodes.py:134`, `graph/news.py:114`); README.md:134 says the ticker is an error.
- Order-flow imbalance sends a ticker to the LLM instead of blocking it
  (`graph/prefilter.py:57`, README.md:305).
- With REFLECTION_IN_GRAPH phase 1 writes a journal (`graph/reflection_node.py:80`);
  `scheduler.py:1149-1151` says it has no side effects.
- A time-out frees a slot of the semaphore while the old graph run goes on, so
  more runs than slots may ask the LLM (`scheduler.py:533`, `:564`).
- Reflection does not count `take_profit_*` and `stop_loss_*` as closing
  (`runtime/reflection.py:89`, README.md:335), and with the Dockerfile's bracket
  nearly every position is closed by one of them.
- A step of the ladder is remembered by ticker, side and average price
  (`scheduler.py:1132`, `backtest/engine.py:367`): a position closed and opened again
  at the same average starts with its steps taken.
- The alerts are kept for the day (`data/microstructure.py:176`), where the docstring
  speaks of one request per tick; a failed request is kept as an empty day.
- The worker of the log webhook catches OSError and ValueError only (`logging.py:74`):
  an answer that is not HTTP ends its thread, and later events fill the queue.

## 8. What is not modelled, and why

- *Fetching market data, indicators, prompts*: arithmetic and text; their results are
  inputs here. The news cache holds one entry per ticker that is replaced as a whole
  when it is too old; nothing but the prompt depends on it.
- *Hours, sleep, routes*: the pause between ticks is `TickThreads`' stage "sleep",
  the trading hours a predicate of the clock and one of the reasons of `SkipTick`;
  the health and status routes read.
- *Memory's retrieval and vector store*: a score over texts, and a mirror of the file
  that is only written after it and read when switched on.
- *Metrics, data loading and the profit-lock study of the back-test*: computations over
  the finished lists.
- *Webhooks*: off in production (README.md:538); nothing reads what they send.
- *Configuration and schemas*: constants of the modules; validation is pydantic's.
- *Scripts, research, the article*: not part of the running program.

## 9. Plan

Order of work: what moves money first, then what protects it, then what decides.

1. Done: `OrderPromise`, `OrderDelivery`; `Ledger`, `RiskOfficer`, `TradingTick`,
   `Backtest`; `JournalFile`, `Journal`, `Reflection`; `PolzaFailsafe`; `ShortCheck`;
   `TickThreads` with the life of the process; `DecisionGraph`; proofs of the
   invariants and action properties of all of them.
2. Refinement: `TradingTick`'s account as an implementation of an abstract account
   whose every step is a reduction or an opening within the limits, and the order
   under way of `TradingTick`, `PolzaFailsafe` and `ShortCheck` as an instance of
   `OrderPromise`.
3. The safe half of termination for the rest: the threads' tick, the closing of
   positions by the fail-safe, the short check between two restarts.
4. Crossing modules: that the tickers phase 2 of `TradingTick` passes over are those
   `TickThreads` leaves without a result.
