---------------------------- MODULE DecisionGraph ----------------------------
(***************************************************************************)
(* The LangGraph of one ticker, as build_graph wires it: prefilter, market *)
(* analyst, news, bull and bear, trader, hypothesis.  Each node asks the   *)
(* LLM through complete_json, with its fallback and its retries.  What an  *)
(* answer says is reduced to what routing and the trader's clipping look   *)
(* at.  TradingTick takes the outcome, a decision or an exception.         *)
(***************************************************************************)
EXTENDS Integers, FiniteSets

CONSTANTS
  MaxAttempts,    \* stop_after_attempt(3)
  Rounds,         \* values of AGENT_DEBATE_ROUNDS
  AlertSkips,     \* values of ALGOPACK_MEGA_ALERT_SKIP
  InGraph         \* values of REFLECTION_ENABLED and REFLECTION_IN_GRAPH

ASSUME MaxAttemptsAssumption == MaxAttempts \in Nat \ {0}
ASSUME RoundsAssumption == Rounds \subseteq Nat
ASSUME FlagsAssumption == AlertSkips \subseteq BOOLEAN /\ InGraph \subseteq BOOLEAN

VARIABLES
  settings,   \* the flags the graph is built and routed with
  held,       \* whether current_position is not zero
  market,     \* what prefilter looks at; "none" before it is loaded
  node,       \* the node that runs
  call,       \* the complete_json under way
  analyst,    \* the analyst's output, as early exit sees it
  arguments,  \* the arguments of the debate so far
  decision,
  outcome,    \* running, decided, or raised: invoke raises
  path,       \* graph_path
  hypothesis, \* whether a hypothesis is in the journal
  asked,      \* history: the roles whose model has been asked
  unanswered  \* history: the roles whose call failed

vars == <<settings, held, market, node, call, analyst, arguments, decision, outcome,
          path, hypothesis, asked, unanswered>>

Settings == [prefilter : BOOLEAN, flow : BOOLEAN, alertSkip : AlertSkips,
             earlyExit : BOOLEAN, news : BOOLEAN, debate : BOOLEAN,
             rounds : Rounds, reflection : InGraph]

\* active: RSI, MACD or EMA out of their quiet bands; disb: strong order flow;
\* wide: the spread above its limit; alert: a Mega Alert today.
Markets == [active : BOOLEAN, disb : BOOLEAN, wide : BOOLEAN, alert : BOOLEAN]
NoMarket == [active |-> FALSE, disb |-> FALSE, wide |-> FALSE, alert |-> FALSE]

Roles == {"analyst", "news", "bull", "bear", "trader", "reflection"}
Nodes == {"prefilter", "market_analyst", "hold_finalize", "news_analyst",
          "bull_bear_debate", "trader", "reflection_post_decision", "END"}
NoCall == [role |-> "none", requests |-> 0, answer |-> "none"]

MaxSize == 1   \* MAX_SIZE_PCT; a model may ask for twice as much
Hold == [signal |-> "HOLD", size |-> 0]
Undecided == [signal |-> "none", size |-> 0]

TypeOK ==
  /\ settings \in Settings /\ held \in BOOLEAN
  /\ market \in Markets
  /\ node \in Nodes
  /\ call \in [role : Roles \cup {"none"}, requests : 0..(2 * MaxAttempts),
               answer : {"none", "ok", "failed"}]
  /\ call = NoCall \/ call.role # "none"
  /\ analyst \in {"none", "dull", "lively"}
  /\ arguments \in 0..(2 * settings.rounds)
  /\ decision \in [signal : {"BUY", "SELL", "HOLD"}, size : 0..MaxSize] \cup {Undecided}
  /\ outcome \in {"running", "decided", "raised"}
  /\ outcome = "decided" => decision # Undecided
  /\ path \in {"none", "prefilter_hold", "early_exit_hold"}
  /\ hypothesis \in BOOLEAN
  /\ asked \subseteq Roles /\ unanswered \subseteq asked

Init ==
  /\ settings \in Settings /\ held \in BOOLEAN
  /\ market = NoMarket
  /\ node = "prefilter" /\ call = NoCall
  /\ analyst = "none" /\ arguments = 0
  /\ decision = Undecided /\ outcome = "running" /\ path = "none"
  /\ hypothesis = FALSE /\ asked = {} /\ unanswered = {}

input == <<settings, held>>
history == <<asked, unanswered>>

-------------------------------------------------------------------------------
(* LLMClient.complete_json *)

AskInside(n, role) ==
  /\ outcome = "running" /\ node = n /\ call = NoCall
  /\ call' = [role |-> role, requests |-> 0, answer |-> "none"]
  /\ asked' = asked \cup {role}
  /\ UNCHANGED <<input, market, node, analyst, arguments, decision, outcome, path,
                 hypothesis, unanswered>>

Asking == outcome = "running" /\ call.role # "none" /\ call.answer = "none"

RequestOk ==
  /\ Asking
  /\ call' = [call EXCEPT !.requests = @ + 1, !.answer = "ok"]
  /\ UNCHANGED <<input, market, node, analyst, arguments, decision, outcome, path,
                 hypothesis, history>>

\* Odd requests are beta.parse, whatever fails there is asked again with
\* json_object; when that fails too the attempt has failed.
RequestFails(retryable) ==
  LET requests == call.requests + 1
      over == requests % 2 = 0 /\ (~retryable \/ requests = 2 * MaxAttempts)
  IN  /\ Asking
      /\ call' = [call EXCEPT !.requests = requests,
                              !.answer = IF over THEN "failed" ELSE "none"]
      /\ unanswered' = IF over THEN unanswered \cup {call.role} ELSE unanswered
      /\ UNCHANGED <<input, market, node, analyst, arguments, decision, outcome,
                     path, hypothesis, asked>>

Answered(n) == outcome = "running" /\ node = n /\ call.answer # "none"

-------------------------------------------------------------------------------
(* Prefilter and its routing. *)

\* Variant: a position does not keep the ticker from being filtered.
QuietWhenever(m) == ~m.active /\ ~(settings.flow /\ m.disb)

\* should_skip_prefilter.  A wide spread gives another reason, never another
\* verdict.
Quiet(m) == ~held /\ ~m.active /\ ~(settings.flow /\ m.disb)

AlertHold(m) == settings.flow /\ settings.alertSkip /\ m.alert

PrefilterDisabled ==
  /\ outcome = "running" /\ node = "prefilter" /\ ~settings.prefilter
  /\ node' = "market_analyst"
  /\ UNCHANGED <<input, market, call, analyst, arguments, decision, outcome, path,
                 hypothesis, history>>

Prefilter(m) ==
  /\ outcome = "running" /\ node = "prefilter" /\ settings.prefilter
  /\ market' = m
  /\ IF AlertHold(m) \/ Quiet(m)
     THEN /\ analyst' = "dull" /\ decision' = Hold
          /\ path' = "prefilter_hold"
          /\ node' = "END" /\ outcome' = "decided"
     ELSE /\ node' = "market_analyst"
          /\ UNCHANGED <<analyst, decision, path, outcome>>
  /\ UNCHANGED <<input, call, arguments, hypothesis, history>>

\* load_market_snapshot raises, in prefilter or in the analyst's node.
SnapshotFails ==
  /\ outcome = "running" /\ call = NoCall
  /\ \/ node = "prefilter" /\ settings.prefilter
     \/ node = "market_analyst" /\ ~settings.prefilter
  /\ outcome' = "raised"
  /\ UNCHANGED <<input, market, node, call, analyst, arguments, decision, path,
                 hypothesis, history>>

-------------------------------------------------------------------------------
(* The analyst and the routes after it. *)

\* _early_exit_eligible: flat, low confidence, weak momentum, no position.
EarlyExit(view) == settings.earlyExit /\ ~held /\ view = "dull"

AfterNews ==
  IF settings.debate /\ settings.rounds > 0 THEN "bull_bear_debate" ELSE "trader"

\* The fallback of a failed call is a dull view.
AnalystDone(view) ==
  /\ Answered("market_analyst")
  /\ call.answer = "failed" => view = "dull"
  /\ analyst' = view
  /\ node' = IF EarlyExit(view) THEN "hold_finalize"
             ELSE IF settings.news THEN "news_analyst" ELSE AfterNews
  /\ call' = NoCall
  /\ UNCHANGED <<input, market, arguments, decision, outcome, path, hypothesis, history>>

HoldFinalize ==
  /\ outcome = "running" /\ node = "hold_finalize"
  /\ decision' = Hold /\ path' = "early_exit_hold"
  /\ node' = "END" /\ outcome' = "decided"
  /\ UNCHANGED <<input, market, call, analyst, arguments, hypothesis, history>>

\* Without news items the model is not asked.
NoNews ==
  /\ outcome = "running" /\ node = "news_analyst" /\ call = NoCall
  /\ node' = AfterNews
  /\ UNCHANGED <<input, market, call, analyst, arguments, decision, outcome, path,
                 hypothesis, history>>

\* An answer, or the neutral fallback.
NewsDone ==
  /\ Answered("news_analyst")
  /\ node' = AfterNews /\ call' = NoCall
  /\ UNCHANGED <<input, market, analyst, arguments, decision, outcome, path,
                 hypothesis, history>>

Speaker == IF arguments % 2 = 0 THEN "bull" ELSE "bear"

\* Variant: a failed argument ends the debate instead of the graph.
ArgueOrStop ==
  /\ Answered("bull_bear_debate")
  /\ call' = NoCall
  /\ IF call.answer = "failed"
     THEN node' = "trader" /\ UNCHANGED arguments
     ELSE /\ arguments' = arguments + 1
          /\ node' = IF arguments + 1 = 2 * settings.rounds THEN "trader" ELSE node
  /\ UNCHANGED <<input, market, analyst, decision, outcome, path, hypothesis, history>>

\* Variant: a failed argument is asked for again.
ArgueAgain ==
  /\ Answered("bull_bear_debate")
  /\ call' = NoCall
  /\ IF call.answer = "failed"
     THEN UNCHANGED <<arguments, node>>
     ELSE /\ arguments' = arguments + 1
          /\ node' = IF arguments + 1 = 2 * settings.rounds THEN "trader" ELSE node
  /\ UNCHANGED <<input, market, analyst, decision, outcome, path, hypothesis, history>>

\* A failed argument is not caught.
Argue ==
  /\ Answered("bull_bear_debate")
  /\ call' = NoCall
  /\ IF call.answer = "failed"
     THEN outcome' = "raised" /\ UNCHANGED <<arguments, node>>
     ELSE /\ arguments' = arguments + 1
          /\ node' = IF arguments + 1 = 2 * settings.rounds THEN "trader" ELSE node
          /\ UNCHANGED outcome
  /\ UNCHANGED <<input, market, analyst, decision, path, hypothesis, history>>

-------------------------------------------------------------------------------
(* The trader and the hypothesis. *)

\* Variant: the size is not reset for HOLD.
ClippedAlways(raw) ==
  [raw EXCEPT !.size = IF @ > MaxSize THEN MaxSize ELSE @]

Clipped(raw) ==
  [raw EXCEPT !.size = IF raw.signal = "HOLD" THEN 0
                       ELSE IF @ > MaxSize THEN MaxSize ELSE @]

\* The fallback of a failed call is HOLD.
TraderDone(raw) ==
  /\ Answered("trader")
  /\ call.answer = "failed" => raw = Hold
  /\ decision' = Clipped(raw)
  /\ call' = NoCall
  /\ IF settings.reflection
     THEN node' = "reflection_post_decision" /\ UNCHANGED outcome
     ELSE node' = "END" /\ outcome' = "decided"
  /\ UNCHANGED <<input, market, analyst, arguments, path, hypothesis, history>>

\* Variant: the hypothesis is written for every decision.
ReflectAlways == FALSE

\* HOLD, or nothing to buy: no hypothesis.
NothingToReflect == decision.signal = "HOLD" \/ decision.size = 0

ReflectSkip ==
  /\ outcome = "running" /\ node = "reflection_post_decision"
  /\ NothingToReflect
  /\ node' = "END" /\ outcome' = "decided"
  /\ UNCHANGED <<input, market, call, analyst, arguments, decision, path, hypothesis,
                 history>>

\* A failed call leaves the default sentence; either is given to the journal,
\* which is silent about a write that fails.
Reflected ==
  /\ Answered("reflection_post_decision")
  /\ hypothesis' \in BOOLEAN
  /\ call' = NoCall
  /\ node' = "END" /\ outcome' = "decided"
  /\ UNCHANGED <<input, market, analyst, arguments, decision, path, history>>

Ask ==
  \/ AskInside("market_analyst", "analyst")
  \/ AskInside("news_analyst", "news")
  \/ AskInside("bull_bear_debate", Speaker)
  \/ AskInside("trader", "trader")
  \/ ~NothingToReflect /\ AskInside("reflection_post_decision", "reflection")

Request == RequestOk \/ \E retryable \in BOOLEAN : RequestFails(retryable)

\* What a trader's answer may say; the schema allows a size above the cap.
Raw == [signal : {"BUY", "SELL", "HOLD"}, size : 0..(2 * MaxSize)]

Run ==
  \/ PrefilterDisabled \/ (\E m \in Markets : Prefilter(m)) \/ SnapshotFails
  \/ (\E view \in {"dull", "lively"} : AnalystDone(view)) \/ HoldFinalize
  \/ NoNews \/ NewsDone \/ Argue
  \/ (\E raw \in Raw : TraderDone(raw)) \/ ReflectSkip \/ Reflected

Next == Ask \/ Request \/ Run

\* invoke runs node after node, and every request of the client has a
\* time-out: it is answered or it fails.
Spec == Init /\ [][Next]_vars /\ WF_vars(Next)

-------------------------------------------------------------------------------
(* Properties. *)

\* A position is left without the trader's view for one reason only: a Mega
\* Alert.  Neither quiet indicators nor a dull analyst end its graph early.
HeldSkippedByAlertOnly ==
  outcome = "decided" /\ held /\ "trader" \notin asked => AlertHold(market)

\* Only the trader's answer makes an order, within the cap.
OrdersComeFromTrader ==
  outcome = "decided" /\ decision # Hold =>
    /\ decision.signal # "HOLD" /\ decision.size <= MaxSize
    /\ "trader" \in asked \ unanswered

\* The trader sees a debate in full, or none.
DebateIsWhole ==
  "trader" \in asked =>
    /\ arguments = IF settings.debate THEN 2 * settings.rounds ELSE 0
    /\ {"bull", "bear"} \cap unanswered = {}

\* The model is asked for a hypothesis about every decided order and about
\* nothing else, whether it answers or not; what is journalled is about an order
\* that has been decided, never about a run that raised.
HypothesisMatchesOrder ==
  LET order == settings.reflection /\ decision.signal # "HOLD" /\ decision.size > 0
  IN  /\ outcome = "decided" => ("reflection" \in asked <=> order)
      /\ hypothesis => outcome = "decided" /\ order

\* Whatever fails, the ticker ends with a decision or an exception.
GraphEnds == <>(outcome # "running")

===============================================================================
