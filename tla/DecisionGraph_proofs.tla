------------------------- MODULE DecisionGraph_proofs -------------------------
(***************************************************************************)
(* What the graph of a ticker keeps, for any number of attempts and debate *)
(* rounds, whatever is answered and whatever fails; and what the memory    *)
(* its runs share keeps, for any number of threads, records and days,      *)
(* wherever a process stops.                                               *)
(***************************************************************************)
EXTENDS DecisionGraph, Reflection, FiniteSetTheorems, SequenceTheorems, TLAPS

-------------------------------------------------------------------------------
(* The inductive invariant. *)

\* The model that is asked is the one of the node that runs.
CallFits ==
  call # NoCall =>
    /\ call.role \in asked
    /\ \/ node = "market_analyst" /\ call.role = "analyst"
       \/ node = "news_analyst" /\ call.role = "news"
       \/ node = "bull_bear_debate" /\ call.role \in {"bull", "bear"}
       \/ node = "trader" /\ call.role = "trader"
       \/ /\ node = "reflection_post_decision" /\ call.role = "reflection"
          /\ ~NothingToReflect
    /\ call.answer = "none" => call.requests < 2 * MaxAttempts

\* A decision is there once the trader's node has been left, or a way out taken.
DecidedAtEnd ==
  /\ outcome = "decided" <=> node = "END"
  /\ decision # Undecided <=> node \in {"reflection_post_decision", "END"}
  /\ hypothesis => node = "END"

Routed ==
  /\ node = "hold_finalize" => ~held
  /\ node = "reflection_post_decision" => settings.reflection /\ "trader" \in asked
  /\ "trader" \in asked => node \in {"trader", "reflection_post_decision", "END"}

FullDebate == IF settings.debate THEN 2 * settings.rounds ELSE 0

Debated ==
  /\ node \in {"prefilter", "market_analyst", "news_analyst", "hold_finalize"}
       => arguments = 0
  /\ node = "bull_bear_debate" => settings.debate /\ arguments < FullDebate
  /\ node \in {"trader", "reflection_post_decision"} \/ "trader" \in asked
       => arguments = FullDebate

\* A failed argument ends the graph, a failed trader holds.
Failures ==
  /\ {"bull", "bear"} \cap unanswered # {} =>
       node = "bull_bear_debate" /\ (call.answer = "failed" \/ outcome = "raised")
  /\ "trader" \in unanswered =>
       (node = "trader" /\ call.answer = "failed") \/ decision = Hold

\* What is decided, when it is not to hold, is the trader's.
Orders ==
  decision \notin {Undecided, Hold} =>
    decision.signal # "HOLD" /\ decision.size <= MaxSize /\ "trader" \in asked

\* The model is asked for a hypothesis where the order is about to be decided.
ReflectsOrders ==
  "reflection" \in asked =>
    node \in {"reflection_post_decision", "END"} /\ settings.reflection
      /\ ~NothingToReflect

GraphInv ==
  /\ TypeOK /\ CallFits /\ DecidedAtEnd /\ Routed /\ Debated /\ Failures /\ Orders
  /\ ReflectsOrders
  /\ HeldSkippedByAlertOnly /\ HypothesisMatchesOrder

-------------------------------------------------------------------------------

LEMMA SettingsType ==
  ASSUME settings \in Settings
  PROVE  /\ settings.rounds \in Nat
         /\ settings.debate \in BOOLEAN
         /\ settings.reflection \in BOOLEAN
<1>1. settings.rounds \in Rounds /\ settings.reflection \in InGraph
      /\ settings.debate \in BOOLEAN
  BY DEF Settings
<1> QED
  BY <1>1, RoundsAssumption, FlagsAssumption

LEMMA CallType ==
  ASSUME call \in [role : Roles \cup {"none"}, requests : 0..(2 * MaxAttempts),
                   answer : {"none", "ok", "failed"}]
  PROVE  call.requests \in Nat /\ call.role \in Roles \cup {"none"}
         /\ call.answer \in {"none", "ok", "failed"}
BY MaxAttemptsAssumption

LEMMA InitInv == Init => GraphInv
<1> SUFFICES ASSUME Init PROVE GraphInv
  OBVIOUS
<1> USE MaxAttemptsAssumption DEF Init
<1>1. TypeOK
  <2>1. settings.rounds \in Nat
    BY SettingsType
  <2>2. arguments \in 0..(2 * settings.rounds)
    BY <2>1
  <2>3. market \in Markets
    BY DEF Markets, NoMarket
  <2>4. call \in [role : Roles \cup {"none"}, requests : 0..(2 * MaxAttempts),
                  answer : {"none", "ok", "failed"}]
    BY DEF NoCall
  <2> QED
    BY <2>2, <2>3, <2>4 DEF TypeOK, Nodes
<1>2. CallFits /\ DecidedAtEnd /\ Routed /\ Debated /\ Failures /\ Orders
  BY DEF CallFits, DecidedAtEnd, Routed, Debated, Failures, Orders, NoCall, Undecided, Hold
<1>3. HeldSkippedByAlertOnly /\ HypothesisMatchesOrder /\ ReflectsOrders
  BY DEF HeldSkippedByAlertOnly, HypothesisMatchesOrder, ReflectsOrders
<1> QED
  BY <1>1, <1>2, <1>3 DEF GraphInv

LEMMA AskKeeps ==
  ASSUME GraphInv, Ask PROVE GraphInv'
<1> USE MaxAttemptsAssumption
<1>1. PICK n \in Nodes, role \in Roles :
        /\ AskInside(n, role)
        /\ \/ n = "market_analyst" /\ role = "analyst"
           \/ n = "news_analyst" /\ role = "news"
           \/ n = "bull_bear_debate" /\ role \in {"bull", "bear"}
           \/ n = "trader" /\ role = "trader"
           \/ n = "reflection_post_decision" /\ role = "reflection" /\ ~NothingToReflect
  BY DEF Ask, Nodes, Roles, Speaker
<1>2. TypeOK'
  <2>1. /\ call' \in [role : Roles \cup {"none"}, requests : 0..(2 * MaxAttempts),
                      answer : {"none", "ok", "failed"}]
        /\ call'.role # "none"
    BY <1>1 DEF AskInside, Roles
  <2>2. asked' \subseteq Roles /\ unanswered' \subseteq asked'
    BY <1>1 DEF GraphInv, TypeOK, AskInside
  <2> QED
    BY <1>1, <2>1, <2>2 DEF GraphInv, TypeOK, AskInside, input
<1>3. CallFits' /\ DecidedAtEnd'
  BY <1>1 DEF GraphInv, CallFits, DecidedAtEnd, AskInside, NothingToReflect, NoCall
<1>4. Routed' /\ Orders'
  BY <1>1 DEF GraphInv, Routed, Orders, AskInside, input
<1>5. Debated'
  BY <1>1 DEF GraphInv, Debated, FullDebate, AskInside, input
<1>6. Failures'
  BY <1>1 DEF GraphInv, Failures, AskInside, NoCall
<1>7. HeldSkippedByAlertOnly'
  BY <1>1 DEF GraphInv, HeldSkippedByAlertOnly, AlertHold, AskInside
<1>8. ReflectsOrders' /\ HypothesisMatchesOrder'
  BY <1>1 DEF GraphInv, ReflectsOrders, HypothesisMatchesOrder, NothingToReflect, Routed,
     AskInside, input
<1> QED
  BY <1>2, <1>3, <1>4, <1>5, <1>6, <1>7, <1>8 DEF GraphInv

\* A request: only the call, and who has failed, change.
LEMMA RequestKeeps ==
  ASSUME GraphInv, Request PROVE GraphInv'
<1> USE MaxAttemptsAssumption
<1>0. call.requests \in Nat /\ call.role \in Roles \cup {"none"}
  BY CallType DEF GraphInv, TypeOK
<1>1. Asking /\ UNCHANGED <<input, market, node, analyst, arguments, decision, outcome,
                            path, hypothesis, asked>>
  BY DEF Request, RequestOk, RequestFails, history
<1>2. call.requests < 2 * MaxAttempts /\ call # NoCall
  BY <1>1 DEF GraphInv, Asking, CallFits, NoCall
<1>3. PICK answer \in {"none", "ok", "failed"} :
        /\ call' = [call EXCEPT !.requests = @ + 1, !.answer = answer]
        /\ unanswered' = IF answer = "failed" THEN unanswered \cup {call.role}
                                              ELSE unanswered
        /\ answer = "none" => call.requests + 1 # 2 * MaxAttempts
  <2>1. CASE RequestOk
    BY <2>1 DEF RequestOk, history
  <2>2. CASE \E retryable \in BOOLEAN : RequestFails(retryable)
    <3>1. PICK retryable \in BOOLEAN : RequestFails(retryable)
      BY <2>2
    <3>2. (2 * MaxAttempts) % 2 = 0
      OBVIOUS
    <3> QED
      BY <3>1, <3>2, <1>0, <1>2 DEF RequestFails
  <2> QED
    BY <2>1, <2>2 DEF Request
<1>4. /\ call'.role = call.role /\ call'.answer = answer
      /\ call'.requests = call.requests + 1 /\ call' # NoCall
  BY <1>1, <1>2, <1>3 DEF GraphInv, TypeOK, NoCall, Asking
<1>5. call' \in [role : Roles \cup {"none"}, requests : 0..(2 * MaxAttempts),
                 answer : {"none", "ok", "failed"}]
  <2>1. call.requests + 1 \in 0..(2 * MaxAttempts)
    BY <1>0, <1>2
  <2> QED
    BY <1>3, <2>1 DEF GraphInv, TypeOK
<1>6. TypeOK'
  <2>1. unanswered' \subseteq asked
    BY <1>2, <1>3 DEF GraphInv, TypeOK, CallFits
  <2> QED
    BY <1>1, <1>4, <1>5, <2>1 DEF GraphInv, TypeOK, input, Asking
<1>7. CallFits' /\ DecidedAtEnd' /\ Routed' /\ Orders'
  BY <1>0, <1>1, <1>2, <1>3, <1>4
     DEF GraphInv, CallFits, DecidedAtEnd, Routed, Orders, NothingToReflect, input
<1>8. Debated'
  BY <1>1 DEF GraphInv, Debated, FullDebate, input
<1>9. Failures'
  BY <1>1, <1>2, <1>3, <1>4 DEF GraphInv, CallFits, Failures, Asking
<1>10. HeldSkippedByAlertOnly' /\ HypothesisMatchesOrder' /\ ReflectsOrders'
  BY <1>1 DEF GraphInv, HeldSkippedByAlertOnly, HypothesisMatchesOrder, ReflectsOrders,
     NothingToReflect, AlertHold, input
<1> QED
  BY <1>6, <1>7, <1>8, <1>9, <1>10 DEF GraphInv

\* The two cheap ways out, and what leads past them.
LEMMA WayOutKeeps ==
  ASSUME GraphInv,
         PrefilterDisabled \/ (\E m \in Markets : Prefilter(m)) \/ SnapshotFails
         \/ HoldFinalize
  PROVE  GraphInv'
<1>1. CASE PrefilterDisabled
  BY <1>1 DEF PrefilterDisabled, GraphInv, TypeOK, CallFits, DecidedAtEnd, Routed, Debated,
     FullDebate, Failures, Orders, HeldSkippedByAlertOnly, HypothesisMatchesOrder,
     ReflectsOrders, NothingToReflect, input, history, Nodes
<1>2. CASE \E m \in Markets : Prefilter(m)
  <2>1. PICK m \in Markets : Prefilter(m)
    BY <1>2
  <2>2. TypeOK' /\ CallFits'
    BY <2>1 DEF Prefilter, GraphInv, TypeOK, CallFits, input, history,
                Nodes, Hold, Undecided, MaxSize
  <2>3. DecidedAtEnd' /\ Routed' /\ Failures' /\ Orders'
    BY <2>1 DEF Prefilter, GraphInv, DecidedAtEnd, Routed, Failures, Orders, input, history,
                Hold, Undecided
  <2>4. Debated'
    BY <2>1 DEF Prefilter, GraphInv, Debated, Routed, FullDebate, input, history
  <2>5. HeldSkippedByAlertOnly' /\ HypothesisMatchesOrder' /\ ReflectsOrders'
    BY <2>1 DEF Prefilter, GraphInv, DecidedAtEnd, HeldSkippedByAlertOnly, Quiet, AlertHold,
                HypothesisMatchesOrder, ReflectsOrders, NothingToReflect, input, history,
                Hold
  <2> QED
    BY <2>2, <2>3, <2>4, <2>5 DEF GraphInv
<1>3. CASE SnapshotFails
  BY <1>3 DEF SnapshotFails, GraphInv, TypeOK, CallFits, DecidedAtEnd, Routed, Debated,
     FullDebate, Failures, Orders, HeldSkippedByAlertOnly, HypothesisMatchesOrder,
     ReflectsOrders, NothingToReflect, input, history
<1>4. CASE HoldFinalize
  <2>1. TypeOK' /\ CallFits' /\ DecidedAtEnd'
    BY <1>4 DEF HoldFinalize, GraphInv, TypeOK, CallFits, DecidedAtEnd, input, history,
                Nodes, Hold, Undecided, MaxSize
  <2>2. Routed' /\ Failures' /\ Orders'
    BY <1>4 DEF HoldFinalize, GraphInv, Routed, Failures, Orders, input, history
  <2>3. Debated'
    BY <1>4 DEF HoldFinalize, GraphInv, Routed, Debated, FullDebate, input, history
  <2>4. HeldSkippedByAlertOnly' /\ HypothesisMatchesOrder' /\ ReflectsOrders'
    BY <1>4 DEF HoldFinalize, GraphInv, Routed, DecidedAtEnd, HeldSkippedByAlertOnly,
                HypothesisMatchesOrder, ReflectsOrders, NothingToReflect, input, history,
                Hold
  <2> QED
    BY <2>1, <2>2, <2>3, <2>4 DEF GraphInv
<1> QED
  BY <1>1, <1>2, <1>3, <1>4

\* The nodes that ask, between the prefilter and the trader.
LEMMA NodeKeeps ==
  ASSUME GraphInv,
         (\E view \in {"dull", "lively"} : AnalystDone(view)) \/ NoNews \/ NewsDone \/ Argue
  PROVE  GraphInv'
<1>0. settings.rounds \in Nat /\ settings.debate \in BOOLEAN /\ arguments \in Nat
  BY SettingsType DEF GraphInv, TypeOK
<1>1. UNCHANGED <<settings, held, market, decision, path, hypothesis, asked, unanswered>>
  BY DEF AnalystDone, NoNews, NewsDone, Argue, input, history
<1>2. /\ node \in {"market_analyst", "news_analyst", "bull_bear_debate"}
      /\ outcome = "running" /\ "trader" \notin asked
      /\ call' = NoCall /\ outcome' \in {"running", "raised"}
  BY DEF AnalystDone, NoNews, NewsDone, Argue, Answered, GraphInv, Routed
<1>3. \/ /\ node # "bull_bear_debate" /\ outcome' = "running" /\ arguments' = arguments
         /\ \/ node' = AfterNews \/ node' = "news_analyst"
            \/ node' = "hold_finalize" /\ ~held
      \/ /\ node = "bull_bear_debate" /\ call.answer = "failed" /\ node' = node
         /\ outcome' = "raised" /\ arguments' = arguments
      \/ /\ node = "bull_bear_debate" /\ call.answer # "failed" /\ outcome' = "running"
         /\ arguments' = arguments + 1
         /\ node' = IF arguments + 1 = 2 * settings.rounds THEN "trader" ELSE node
  BY DEF AnalystDone, NoNews, NewsDone, Argue, Answered, EarlyExit
<1>4. /\ node' \in {"news_analyst", "bull_bear_debate", "trader", "hold_finalize"}
      /\ node' = "hold_finalize" => ~held
  BY <1>3 DEF AfterNews
<1>5. Debated' /\ arguments' \in 0..(2 * settings.rounds)
  <2>1. CASE node = "bull_bear_debate"
    BY <1>0, <1>1, <1>2, <1>3, <2>1 DEF GraphInv, Debated, FullDebate
  <2>2. CASE node # "bull_bear_debate"
    BY <1>0, <1>1, <1>2, <1>3, <2>2 DEF GraphInv, Debated, FullDebate, AfterNews
  <2> QED
    BY <2>1, <2>2
<1>6. TypeOK'
  <2>1. analyst' \in {"none", "dull", "lively"}
    BY DEF AnalystDone, NoNews, NewsDone, Argue, GraphInv, TypeOK
  <2>2. call' \in [role : Roles \cup {"none"}, requests : 0..(2 * MaxAttempts),
                   answer : {"none", "ok", "failed"}]
    BY <1>2, MaxAttemptsAssumption DEF NoCall
  <2> QED
    BY <1>1, <1>2, <1>4, <1>5, <2>1, <2>2 DEF GraphInv, TypeOK, Nodes
<1>7. CallFits' /\ DecidedAtEnd' /\ Routed' /\ Orders'
  BY <1>1, <1>2, <1>4 DEF GraphInv, CallFits, DecidedAtEnd, Routed, Orders
<1>8. Failures'
  BY <1>1, <1>2, <1>3 DEF GraphInv, Failures
<1>9. HeldSkippedByAlertOnly' /\ HypothesisMatchesOrder' /\ ReflectsOrders'
  BY <1>1, <1>2 DEF GraphInv, HeldSkippedByAlertOnly, HypothesisMatchesOrder,
     ReflectsOrders, DecidedAtEnd
<1> QED
  BY <1>5, <1>6, <1>7, <1>8, <1>9 DEF GraphInv

\* What the clipping makes of an answer.
LEMMA ClippedType ==
  ASSUME NEW raw \in Raw
  PROVE  /\ Clipped(raw) \in [signal : {"BUY", "SELL", "HOLD"}, size : 0..MaxSize]
         /\ Clipped(raw) # Undecided
         /\ raw.signal = "HOLD" => Clipped(raw) = Hold
         /\ Clipped(raw).signal = raw.signal
BY DEF Raw, Clipped, Hold, Undecided, MaxSize

LEMMA TraderKeeps ==
  ASSUME GraphInv, NEW raw \in Raw, TraderDone(raw) PROVE GraphInv'
<1>1. /\ UNCHANGED <<settings, held, market, analyst, arguments, path, hypothesis, asked,
                     unanswered>>
      /\ node = "trader" /\ outcome = "running" /\ call.answer # "none" /\ call' = NoCall
      /\ call.answer = "failed" => raw = Hold
      /\ decision' = Clipped(raw)
      /\ \/ /\ settings.reflection /\ node' = "reflection_post_decision"
            /\ outcome' = "running"
         \/ ~settings.reflection /\ node' = "END" /\ outcome' = "decided"
  BY DEF TraderDone, Answered, input, history
<1>2. "trader" \in asked
  BY <1>1 DEF GraphInv, CallFits, NoCall
<1>3. TypeOK'
  <2>1. call' \in [role : Roles \cup {"none"}, requests : 0..(2 * MaxAttempts),
                   answer : {"none", "ok", "failed"}]
    BY <1>1, MaxAttemptsAssumption DEF NoCall
  <2> QED
    BY <1>1, <2>1, ClippedType DEF GraphInv, TypeOK, Nodes
<1>4. CallFits' /\ DecidedAtEnd' /\ Routed'
  BY <1>1, <1>2, ClippedType DEF GraphInv, CallFits, DecidedAtEnd, Routed
<1>5. Debated'
  BY <1>1, <1>2 DEF GraphInv, Debated, FullDebate
<1>6. Failures'
  <2>1. Hold.signal = "HOLD" /\ decision # Hold
    BY <1>1 DEF GraphInv, DecidedAtEnd, Hold, Undecided
  <2> QED
    BY <1>1, <2>1, ClippedType DEF GraphInv, Failures
<1>7. Orders'
  <2>1. Clipped(raw) # Hold => Clipped(raw).signal # "HOLD" /\ Clipped(raw).size <= MaxSize
    BY ClippedType DEF MaxSize
  <2> QED
    BY <1>1, <1>2, <2>1 DEF Orders
<1>8. HeldSkippedByAlertOnly' /\ ReflectsOrders'
  BY <1>1, <1>2 DEF GraphInv, HeldSkippedByAlertOnly, ReflectsOrders, DecidedAtEnd
<1>9. HypothesisMatchesOrder'
  BY <1>1 DEF GraphInv, ReflectsOrders, HypothesisMatchesOrder, DecidedAtEnd
<1> QED
  BY <1>3, <1>4, <1>5, <1>6, <1>7, <1>8, <1>9 DEF GraphInv

LEMMA ReflectionKeeps ==
  ASSUME GraphInv, ReflectSkip \/ Reflected PROVE GraphInv'
<1>1. /\ UNCHANGED <<settings, held, market, analyst, arguments, decision, path, asked,
                     unanswered>>
      /\ node = "reflection_post_decision" /\ outcome = "running"
      /\ node' = "END" /\ outcome' = "decided" /\ hypothesis' \in BOOLEAN
  BY DEF ReflectSkip, Reflected, Answered, input, history, GraphInv, TypeOK
<1>2. /\ call' = NoCall /\ (hypothesis' => ~NothingToReflect)
      /\ "reflection" \in asked <=> ~NothingToReflect
  <2>1. CASE ReflectSkip
    BY <2>1, <1>1 DEF ReflectSkip, GraphInv, CallFits, DecidedAtEnd, ReflectsOrders
  <2>2. CASE Reflected
    BY <2>2 DEF Reflected, Answered, GraphInv, CallFits, NoCall
  <2> QED
    BY <2>1, <2>2
<1>3. TypeOK'
  <2>1. call' \in [role : Roles \cup {"none"}, requests : 0..(2 * MaxAttempts),
                   answer : {"none", "ok", "failed"}]
    BY <1>2, MaxAttemptsAssumption DEF NoCall
  <2>2. decision # Undecided
    BY <1>1 DEF GraphInv, DecidedAtEnd
  <2> QED
    BY <1>1, <1>2, <2>1, <2>2 DEF GraphInv, TypeOK, Nodes
<1>4. CallFits' /\ DecidedAtEnd' /\ Routed' /\ Failures' /\ Orders' /\ ReflectsOrders'
  BY <1>1, <1>2 DEF GraphInv, CallFits, DecidedAtEnd, Routed, Failures, Orders,
     ReflectsOrders, NothingToReflect
<1>5. Debated'
  BY <1>1 DEF GraphInv, Debated, FullDebate, Routed
<1>6. HeldSkippedByAlertOnly'
  BY <1>1 DEF GraphInv, HeldSkippedByAlertOnly, Routed
<1>7. HypothesisMatchesOrder'
  <2>1. settings.reflection /\ decision.size \in Nat
    BY <1>1 DEF GraphInv, TypeOK, Routed, DecidedAtEnd, MaxSize
  <2> QED
    BY <1>1, <1>2, <2>1 DEF HypothesisMatchesOrder, NothingToReflect
<1> QED
  BY <1>3, <1>4, <1>5, <1>6, <1>7 DEF GraphInv

LEMMA Inductive == GraphInv /\ [Next]_vars => GraphInv'
<1> SUFFICES ASSUME GraphInv, [Next]_vars PROVE GraphInv'
  OBVIOUS
<1>1. CASE Ask
  BY <1>1, AskKeeps
<1>2. CASE Request
  BY <1>2, RequestKeeps
<1>3. CASE Run
  BY <1>3, WayOutKeeps, NodeKeeps, TraderKeeps, ReflectionKeeps DEF Run
<1>4. CASE UNCHANGED vars
  BY <1>4 DEF vars, GraphInv, TypeOK, CallFits, DecidedAtEnd, Routed, Debated, FullDebate,
     Failures, Orders, ReflectsOrders, HeldSkippedByAlertOnly, HypothesisMatchesOrder,
     NothingToReflect, AlertHold
<1> QED
  BY <1>1, <1>2, <1>3, <1>4 DEF Next

THEOREM InvCorrect == Spec => []GraphInv
<1> QED
  BY InitInv, Inductive, PTL DEF Spec

-------------------------------------------------------------------------------
(* The theorems. *)

\* The graph's state stays well typed: in particular a call makes at most two
\* requests per attempt.
THEOREM TypeCorrect == Spec => []TypeOK
<1>1. GraphInv => TypeOK
  BY DEF GraphInv
<1> QED
  BY <1>1, InvCorrect, PTL

\* A position is left without the trader's view by a Mega Alert only.
THEOREM PositionsReachTrader == Spec => []HeldSkippedByAlertOnly
<1>1. GraphInv => HeldSkippedByAlertOnly
  BY DEF GraphInv
<1> QED
  BY <1>1, InvCorrect, PTL

\* Only the trader's answer makes an order, within the cap, whatever fails.
THEOREM OrdersCorrect == Spec => []OrdersComeFromTrader
<1>1. GraphInv => OrdersComeFromTrader
  BY DEF GraphInv, OrdersComeFromTrader, Orders, Failures, DecidedAtEnd
<1> QED
  BY <1>1, InvCorrect, PTL

\* The trader sees a debate in full, for any number of rounds, or none.
THEOREM DebateCorrect == Spec => []DebateIsWhole
<1>1. GraphInv => DebateIsWhole
  BY DEF GraphInv, DebateIsWhole, Debated, FullDebate, Failures, Routed
<1> QED
  BY <1>1, InvCorrect, PTL

\* Every decided order, and nothing else, is one the model was asked for a
\* hypothesis about, and what is journalled is about such an order: for any
\* number of attempts and rounds, whatever fails.
THEOREM HypothesisCorrect == Spec => []HypothesisMatchesOrder
<1>1. GraphInv => HypothesisMatchesOrder
  BY DEF GraphInv
<1> QED
  BY <1>1, InvCorrect, PTL

-------------------------------------------------------------------------------
(* How long a run can last.  Every step lowers a number, so that a run that  *)
(* goes on ends; that it goes on is the fairness GraphEnds assumes.          *)

\* Nodes from this one to the end of the longest way, but for the debate.
NodesLeft ==
  [prefilter |-> 5, market_analyst |-> 4, news_analyst |-> 3, bull_bear_debate |-> 2,
   trader |-> 2, reflection_post_decision |-> 1, hold_finalize |-> 1, END |-> 0]

BeforeTrader == {"prefilter", "market_analyst", "news_analyst", "bull_bear_debate"}

\* Calls of complete_json the run can still begin, the one under way included.
CallsLeft ==
  NodesLeft[node] + (IF node \in BeforeTrader THEN 2 * settings.rounds - arguments ELSE 0)

\* The steps of one call: it is asked, two requests an attempt, it is taken up.
CallSteps == 2 * MaxAttempts + 2

Spent == IF call = NoCall THEN 0 ELSE call.requests + 1

StepsLeft == IF outcome = "running" THEN CallSteps * CallsLeft - Spent ELSE 0

\* While it runs, a call or more is left; the one under way has not used them up.
Shortening ==
  /\ CallsLeft \in Nat /\ Spent \in Nat /\ Spent < CallSteps
  /\ outcome = "running" => CallsLeft > 0

LEMMA CallStepsType == CallSteps \in Nat
  BY MaxAttemptsAssumption DEF CallSteps

LEMMA StepsLeftType == GraphInv => Shortening
<1> SUFFICES ASSUME GraphInv PROVE Shortening
  OBVIOUS
<1>1. settings.rounds \in Nat /\ arguments \in 0..(2 * settings.rounds) /\ arguments \in Nat
  BY SettingsType DEF GraphInv, TypeOK
<1>2. NodesLeft[node] \in Nat /\ (node # "END" => NodesLeft[node] > 0)
  BY DEF GraphInv, TypeOK, Nodes, NodesLeft
<1>3. CallsLeft \in Nat /\ (node # "END" => CallsLeft > 0)
  BY <1>1, <1>2 DEF CallsLeft
<1>4. outcome = "running" => node # "END"
  BY DEF GraphInv, DecidedAtEnd
<1>5. Spent \in Nat /\ Spent < CallSteps
  BY MaxAttemptsAssumption DEF GraphInv, TypeOK, Spent, CallSteps
<1> QED
  BY <1>3, <1>4, <1>5 DEF Shortening

LEMMA FewerCalls ==
  ASSUME NEW w \in Nat, NEW m \in Nat, NEW n \in Nat, NEW s \in Nat, n < m, s < w
  PROVE  /\ w * n < w * m - s
         /\ 0 < w * m - s
<1>1. PICK k \in Nat : m = n + 1 + k
  <2>1. m - n - 1 \in Nat /\ m = n + 1 + (m - n - 1)
    OBVIOUS
  <2> QED
    BY <2>1
<1>2. w * m = w * n + w + w * k
  BY <1>1
<1>3. w * k \in Nat /\ w * n \in Nat
  OBVIOUS
<1> QED
  BY <1>2, <1>3

\* A node that is left leaves fewer calls.
LEMMA NodeShortens ==
  ASSUME GraphInv, GraphInv', Run, outcome' = "running"
  PROVE  CallsLeft' < CallsLeft
<1>1. settings.rounds \in Nat /\ arguments \in Nat /\ arguments <= 2 * settings.rounds
  BY SettingsType DEF GraphInv, TypeOK
<1>2. settings' = settings
  BY DEF Run, PrefilterDisabled, Prefilter, SnapshotFails, AnalystDone, HoldFinalize, NoNews,
         NewsDone, Argue, TraderDone, ReflectSkip, Reflected, input
<1>3. CASE node = "bull_bear_debate"
  <2>1. Argue
    BY <1>3 DEF Run, PrefilterDisabled, Prefilter, SnapshotFails, AnalystDone, HoldFinalize,
         NoNews, NewsDone, TraderDone, ReflectSkip, Reflected, Answered
  <2>2. /\ arguments' = arguments + 1
        /\ \/ node' = "trader" /\ arguments + 1 = 2 * settings.rounds
           \/ node' = "bull_bear_debate"
    BY <2>1, <1>3 DEF Argue
  <2>3. arguments' <= 2 * settings.rounds
    BY <1>1, <1>2 DEF GraphInv, TypeOK
  <2> QED
    BY <1>1, <1>2, <1>3, <2>2, <2>3 DEF CallsLeft, NodesLeft, BeforeTrader
<1>4. CASE node # "bull_bear_debate"
  <2>1. /\ arguments' = arguments
        /\ \/ node = "prefilter" /\ node' = "market_analyst"
           \/ /\ node = "market_analyst"
              /\ node' \in {"hold_finalize", "news_analyst", "bull_bear_debate", "trader"}
           \/ node = "news_analyst" /\ node' \in {"bull_bear_debate", "trader"}
           \/ node = "trader" /\ node' = "reflection_post_decision"
    BY <1>4 DEF Run, PrefilterDisabled, Prefilter, SnapshotFails, AnalystDone, HoldFinalize,
         NoNews, NewsDone, Argue, TraderDone, ReflectSkip, Reflected, Answered, AfterNews
  <2> QED
    BY <1>1, <1>2, <2>1 DEF CallsLeft, NodesLeft, BeforeTrader
<1> QED
  BY <1>3, <1>4

LEMMA StepShortens ==
  ASSUME GraphInv, GraphInv', Shortening, Shortening', Next
  PROVE  StepsLeft' < StepsLeft
<1> DEFINE m == CallsLeft
           s == Spent
<1>1. /\ m \in Nat /\ s \in Nat /\ s < CallSteps /\ CallSteps \in Nat
      /\ outcome = "running" => m > 0
      /\ m' \in Nat /\ s' \in Nat
  BY CallStepsType DEF Shortening
<1>2. outcome = "running"
  BY DEF Next, Ask, AskInside, Request, RequestOk, RequestFails, Asking, Run,
         PrefilterDisabled, Prefilter, SnapshotFails, AnalystDone, HoldFinalize, NoNews,
         NewsDone, Argue, TraderDone, ReflectSkip, Reflected, Answered
<1>3. 0 < CallSteps * m - s /\ StepsLeft = CallSteps * m - s
  BY <1>1, <1>2, FewerCalls DEF StepsLeft
<1>4. CASE Ask \/ Request
  <2>1. node' = node /\ settings' = settings /\ arguments' = arguments /\ outcome' = outcome
    BY <1>4 DEF Ask, AskInside, Request, RequestOk, RequestFails, input
  <2>2. m' = m
    BY <2>1 DEF CallsLeft
  <2>3. s' = s + 1
    <3>1. CASE Ask
      BY <3>1 DEF Ask, AskInside, NoCall, Spent, Speaker
    <3>2. CASE Request
      <4>1. Asking
        BY <3>2 DEF Request, RequestOk, RequestFails
      <4>2. call.role # "none" /\ call # NoCall
        BY <4>1 DEF Asking, NoCall
      <4>3. \E answer : call' = [call EXCEPT !.requests = @ + 1, !.answer = answer]
        BY <3>2 DEF Request, RequestOk, RequestFails
      <4>4. call'.role = call.role /\ call'.requests = call.requests + 1
        BY <4>3 DEF GraphInv, TypeOK
      <4>5. call' # NoCall
        BY <4>2, <4>4 DEF NoCall
      <4> QED
        BY <4>2, <4>4, <4>5 DEF Spent
    <3> QED
      BY <1>4, <3>1, <3>2
  <2>4. StepsLeft' = CallSteps * m - (s + 1)
    BY <1>2, <2>1, <2>2, <2>3 DEF StepsLeft, CallSteps
  <2>5. CallSteps * m \in Nat
    BY <1>1
  <2> HIDE DEF m, s
  <2> QED
    BY <1>1, <1>3, <2>4, <2>5
<1>5. CASE Run
  <2>1. CASE outcome' = "running"
    <3>1. m' < m
      BY <1>5, <2>1, NodeShortens
    <3>2. StepsLeft' = CallSteps * m' - s' /\ CallSteps * m' < CallSteps * m - s
      BY <1>1, <2>1, <3>1, FewerCalls DEF StepsLeft, CallSteps
    <3>3. CallSteps * m' \in Nat /\ CallSteps * m \in Nat /\ s \in Nat /\ s' \in Nat
      <4> DEFINE n == m'
      <4>1. CallSteps \in Nat /\ m \in Nat /\ n \in Nat /\ s \in Nat /\ s' \in Nat
        BY <1>1
      <4> HIDE DEF m, n, s
      <4>2. CallSteps * n \in Nat /\ CallSteps * m \in Nat
        BY <4>1
      <4> QED
        BY <4>1, <4>2 DEF n
    <3>4. ASSUME NEW a \in Nat, NEW b \in Nat, NEW x \in Nat, NEW y \in Nat, a < b - x
          PROVE  a - y < b - x
      BY <3>4
    <3>5. CallSteps * m' - s' < CallSteps * m - s
      BY <3>2, <3>3, <3>4
    <3> QED
      BY <1>3, <3>2, <3>5
  <2>2. CASE outcome' # "running"
    BY <1>3, <2>2 DEF StepsLeft
  <2> QED
    BY <2>1, <2>2
<1> QED
  BY <1>4, <1>5 DEF Next

\* Whatever is answered and whatever fails, every step brings the end of the
\* run nearer: it takes at most (5 + 2 * rounds) times the steps of one call, so
\* neither retries nor debate go on for ever.
THEOREM RunShortens ==
  Spec => [](StepsLeft \in Nat) /\ [][StepsLeft' < StepsLeft]_vars
<1>1. GraphInv => StepsLeft \in Nat
  <2> SUFFICES ASSUME GraphInv PROVE StepsLeft \in Nat
    OBVIOUS
  <2>1. CASE outcome = "running"
    <3> DEFINE m == CallsLeft
               s == Spent
    <3>1. m \in Nat /\ s \in Nat /\ s < CallSteps /\ CallSteps \in Nat /\ m > 0
      BY <2>1, StepsLeftType, CallStepsType DEF Shortening
    <3>2. 0 < CallSteps * m - s /\ CallSteps * m \in Nat
      BY <3>1, FewerCalls
    <3> HIDE DEF m, s
    <3>3. CallSteps * m - s \in Nat
      BY <3>1, <3>2
    <3> QED
      BY <2>1, <3>3 DEF StepsLeft, m, s
  <2> QED
    BY <2>1 DEF StepsLeft
<1>2. ASSUME GraphInv, GraphInv', Shortening, Shortening', [Next]_vars
      PROVE  [StepsLeft' < StepsLeft]_vars
  BY <1>2, StepShortens
<1> QED
  BY <1>1, <1>2, InvCorrect, StepsLeftType, PTL DEF Spec

-------------------------------------------------------------------------------
(* A write, as the journal sees it. *)

LineOf(S) == [record : S, readable : BOOLEAN, ended : BOOLEAN]

Entries == Records \cup {Scrap}

\* The lines g of a file leave those of the lines f it had before alone that
\* are ended.
Extends(f, g) ==
  Len(f) <= Len(g) /\ \A i \in 1..Len(f) : f[i].ended => g[i] = f[i]

LEMMA AddLineGrows ==
  ASSUME NEW S, NEW f \in Seq(LineOf(S)), NEW record \in S,
         NEW readable \in BOOLEAN, NEW ended \in BOOLEAN,
         NEW g, g = AddLine(f, record, readable, ended)
  PROVE  /\ g \in Seq(LineOf(S)) /\ Extends(f, g)
         /\ Unended(g) <=> ended = FALSE
         /\ ~Unended(f) => g = Append(f, Line(record, readable, ended))
<1> DEFINE n == Len(f)
<1>0. n \in Nat /\ DOMAIN f = 1..n /\ \A i \in 1..n : f[i] \in LineOf(S)
  BY LenProperties, ElementOfSeq
<1>1. CASE Unended(f)
  <2>1. n \in 1..n /\ n # 0 /\ Last(f) = f[n] /\ f[n].ended = FALSE
    BY <1>0, <1>1, EmptySeq DEF Unended, Last, LineOf
  <2> DEFINE new == [f[n] EXCEPT !.readable = FALSE, !.ended = ended]
  <2>2. new \in LineOf(S) /\ new.ended = ended
    BY <1>0, <2>1 DEF LineOf
  <2>3. /\ Front(f) \in Seq(LineOf(S)) /\ Len(Front(f)) = n - 1
        /\ \A i \in 1..(n - 1) : Front(f)[i] = f[i]
    BY <1>0, <2>1, SubSeqProperties DEF Front
  <2>4. g = Append(Front(f), new)
    BY <1>1, <2>1 DEF AddLine
  <2> HIDE DEF new, n
  <2>5. /\ g \in Seq(LineOf(S)) /\ Len(g) = n /\ g[n] = new
        /\ \A i \in 1..(n - 1) : g[i] = f[i]
    <3>1. Front(f) \in Seq(LineOf(S)) /\ Len(Front(f)) + 1 = n
      BY <1>0, <2>3
    <3>2. \A i \in 1..(n - 1) : i \in 1..Len(Front(f))
      BY <1>0, <2>3
    <3> HIDE DEF LineOf
    <3> QED
      BY <1>0, <2>2, <2>3, <2>4, <3>1, <3>2, AppendProperties
  <2>6. g # <<>> /\ Last(g) = new
    BY <1>0, <2>1, <2>5 DEF Last
  <2>7. \A i \in 1..n : i # n => i \in 1..(n - 1)
    BY <1>0
  <2>8. Extends(f, g)
    <3>1. Len(f) = n /\ Len(f) <= Len(g)
      BY <1>0, <2>5 DEF n
    <3>2. ASSUME NEW i \in 1..n, f[i].ended PROVE g[i] = f[i]
      <4>1. i # n
        BY <2>1, <3>2
      <4> QED
        BY <2>5, <2>7, <4>1
    <3> QED
      BY <3>1, <3>2 DEF Extends
  <2>9. Unended(g) <=> ended = FALSE
    BY <2>2, <2>6 DEF Unended
  <2> QED
    BY <1>1, <2>5, <2>8, <2>9
<1>2. CASE ~Unended(f)
  <2> DEFINE new == Line(record, readable, ended)
  <2>1. new \in LineOf(S) /\ new.ended = ended
    BY DEF Line, LineOf
  <2>2. g = Append(f, new)
    BY <1>2 DEF AddLine
  <2> HIDE DEF new
  <2>3. /\ g \in Seq(LineOf(S)) /\ Len(g) = n + 1 /\ g[n + 1] = new
        /\ \A i \in 1..n : g[i] = f[i]
    BY <1>0, <2>1, <2>2, AppendProperties
  <2>4. g # <<>> /\ Last(g) = new
    BY <1>0, <2>3 DEF Last
  <2>5. Extends(f, g) /\ (Unended(g) <=> ended = FALSE)
    BY <1>0, <2>1, <2>3, <2>4 DEF Extends, Unended
  <2> QED
    BY <2>2, <2>3, <2>5 DEF new
<1> QED
  BY <1>1, <1>2

LEMMA ExtendsTwice ==
  ASSUME NEW S, NEW f \in Seq(S), NEW g \in Seq(S), NEW h \in Seq(S),
         Extends(f, g), Extends(g, h)
  PROVE  Extends(f, h)
<1>1. Len(f) \in Nat /\ Len(g) \in Nat /\ Len(h) \in Nat
  BY LenProperties
<1>2. Len(f) <= Len(g) /\ Len(g) <= Len(h)
  BY DEF Extends
<1>3. Len(f) <= Len(h) /\ \A i \in 1..Len(f) : i \in 1..Len(g)
  BY <1>1, <1>2
<1> QED
  BY <1>3 DEF Extends

LEMMA ExtendsSelf == ASSUME NEW S, NEW f \in Seq(S) PROVE Extends(f, f)
BY LenProperties DEF Extends

LEMMA PiecesType ==
  ASSUME NEW record \in Records, NEW middle \in Pieces(record)
  PROVE  /\ middle \in Seq(LineOf(Entries))
         /\ \A i \in 1..Len(middle) : middle[i].ended = TRUE
<1> DEFINE P == {Line(record, FALSE, TRUE), Line(Scrap, TRUE, TRUE)}
<1>1. P \subseteq LineOf(Entries) /\ \A line \in P : line.ended = TRUE
  BY DEF Line, LineOf, Entries
<1> HIDE DEF P
<1>2. PICK m \in 0..MaxPieces : middle \in [1..m -> P]
  BY DEF Pieces, BoundedSeq, SeqOf, P
<1>3. m \in Nat
  BY <1>2
<1>4. middle \in Seq(P) /\ Len(middle) = m
  BY <1>2, <1>3
<1>5. \A i \in 1..Len(middle) : middle[i] \in P
  BY <1>2, <1>4
<1>6. middle \in [1..m -> LineOf(Entries)]
  BY <1>1, <1>2
<1> QED
  BY <1>1, <1>3, <1>5, <1>6

\* The first piece of a text with separators, and more after it.
LEMMA PiecesGrow ==
  ASSUME NEW f \in Seq(LineOf(Entries)), NEW record \in Records,
         NEW middle \in Pieces(record), NEW h,
         h = AddLine(f, record, FALSE, TRUE) \o middle
  PROVE  h \in Seq(LineOf(Entries)) /\ Extends(f, h) /\ ~Unended(h)
<1>1. PICK g : g = AddLine(f, record, FALSE, TRUE)
  OBVIOUS
<1>2. g \in Seq(LineOf(Entries)) /\ Extends(f, g) /\ ~Unended(g)
  <2>1. record \in Entries
    BY DEF Entries
  <2> QED
    BY <1>1, <2>1, AddLineGrows
<1>3. /\ middle \in Seq(LineOf(Entries))
      /\ \A i \in 1..Len(middle) : middle[i].ended = TRUE
  BY PiecesType
<1>4. /\ h = g \o middle /\ h \in Seq(LineOf(Entries))
      /\ Len(h) = Len(g) + Len(middle)
      /\ Len(g) \in Nat /\ Len(middle) \in Nat
      /\ \A i \in 1..(Len(g) + Len(middle)) :
           h[i] = IF i <= Len(g) THEN g[i] ELSE middle[i - Len(g)]
  BY <1>1, <1>2, <1>3, ConcatProperties, LenProperties
<1> PICK a \in Nat, b \in Nat : a = Len(g) /\ b = Len(middle)
  BY <1>4
<1>5. /\ Len(h) = a + b
      /\ \A i \in 1..a : h[i] = g[i]
      /\ \A i \in 1..b : h[a + i] = middle[i]
  <2>1. \A i \in 1..(a + b) : h[i] = IF i <= a THEN g[i] ELSE middle[i - a]
    BY <1>4
  <2>2. \A i \in 1..a : i \in 1..(a + b) /\ i <= a
    OBVIOUS
  <2>3. \A i \in 1..b : a + i \in 1..(a + b) /\ ~(a + i <= a) /\ (a + i) - a = i
    OBVIOUS
  <2>4. \A i \in 1..a : h[i] = g[i]
    BY <2>1, <2>2, Zenon
  <2>5. \A i \in 1..b : h[a + i] = middle[i]
    BY <2>1, <2>3, Zenon
  <2> QED
    BY <1>4, <2>4, <2>5, Zenon
<1>6. Extends(g, h) /\ ~Unended(h)
  <2>1. a <= a + b
    OBVIOUS
  <2>2. Extends(g, h)
    BY <1>5, <2>1 DEF Extends
  <2>3. CASE b = 0
    <3>0. a + 0 = a
      OBVIOUS
    <3>1. Len(h) = a
      BY <1>5, <2>3, <3>0, Zenon
    <3>2. ASSUME h # <<>> PROVE h[Len(h)].ended
      <4>1. a # 0
        BY <1>4, <3>1, <3>2, EmptySeq
      <4>2. a \in 1..a /\ g # <<>>
        BY <1>2, <4>1, EmptySeq
      <4> QED
        BY <1>2, <1>5, <3>1, <4>2 DEF Unended, Last
    <3> QED
      BY <2>2, <3>2 DEF Unended, Last
  <2>4. CASE b # 0
    <3>1. b \in 1..b
      BY <2>4
    <3>2. h[Len(h)].ended
      BY <1>3, <1>5, <3>1
    <3> QED
      BY <2>2, <3>2 DEF Unended, Last
  <2> QED
    BY <2>3, <2>4
<1>7. Extends(f, h)
  BY <1>2, <1>4, <1>6, ExtendsTwice
<1> QED
  BY <1>4, <1>6, <1>7

\* The journal after the record has been given to write, with this end.
Recorded(record, how) ==
  /\ offered' = Append(offered, record) /\ fate' = Append(fate, how)
  /\ ends' = Append(ends, Len(file'))
  /\ file' \in Seq(LineOf(Entries)) /\ Extends(file, file')
  /\ how = "failed" => file' = file
  /\ how = "written" => ~Unended(file')
  /\ how = "written" /\ record \in Plain /\ ~Unended(file)
       => file' = Append(file, Line(record, TRUE, TRUE))

Fates == {"written", "failed", "cut"}

JournalType ==
  /\ file \in Seq(LineOf(Entries))
  /\ offered \in Seq(Records)
  /\ fate \in Seq(Fates) /\ Len(fate) = Len(offered)
  /\ ends \in Seq(Nat) /\ Len(ends) = Len(offered)

LEMMA LeavesLines ==
  ASSUME JournalType, NEW record \in Records, Leaves(record)
  PROVE  file' \in Seq(LineOf(Entries)) /\ Extends(file, file')
<1>1. file \in Seq(LineOf(Entries)) /\ record \in Entries /\ Scrap \in Entries
  BY DEF JournalType, Entries
<1>2. CASE record \in Plain /\ file' \in Torn(file, record)
  BY <1>1, <1>2, AddLineGrows DEF Torn
<1>3. CASE \E middle \in Pieces(record) :
             file' \in TornSplit(file, record, middle, Scrap)
  <2>1. PICK middle \in Pieces(record) :
          file' \in TornSplit(file, record, middle, Scrap)
    BY <1>3
  <2>2. PICK left : left = AddLine(file, record, FALSE, TRUE) \o middle
    OBVIOUS
  <2>3. left \in Seq(LineOf(Entries)) /\ Extends(file, left)
    BY <1>1, <2>2, PiecesGrow
  <2>4. CASE file' = AddLine(file, record, FALSE, FALSE)
    BY <1>1, <2>4, AddLineGrows
  <2>5. CASE file' = left
    BY <2>3, <2>5
  <2>6. CASE file' = AddLine(left, record, FALSE, FALSE)
             \/ file' = AddLine(left, Scrap, TRUE, FALSE)
    <3>1. file' \in Seq(LineOf(Entries)) /\ Extends(left, file')
      BY <1>1, <2>3, <2>6, AddLineGrows
    <3> QED
      BY <1>1, <2>3, <3>1, ExtendsTwice
  <2> QED
    BY <2>1, <2>2, <2>4, <2>5, <2>6 DEF TornSplit
<1> QED
  BY <1>2, <1>3 DEF Leaves

LEMMA Recording ==
  ASSUME JournalType, NEW record \in Records
  PROVE  /\ WriteRecord(record) => Recorded(record, "written")
         /\ WriteFails(record) => Recorded(record, "failed") \/ Recorded(record, "cut")
         /\ CrashInWrite(record) => Recorded(record, "cut")
<1>1. file \in Seq(LineOf(Entries)) /\ record \in Entries
  BY DEF JournalType, Entries
<1>2. ASSUME WriteRecord(record) PROVE Recorded(record, "written")
  <2>1. /\ offered' = Append(offered, record) /\ fate' = Append(fate, "written")
        /\ ends' = Append(ends, Len(file'))
    BY <1>2 DEF WriteRecord, Offer
  <2>2. CASE record \in Plain /\ file' = Write(file, record)
    <3>1. file' = AddLine(file, record, TRUE, TRUE)
      BY <2>2 DEF Write
    <3>2. /\ file' \in Seq(LineOf(Entries)) /\ Extends(file, file')
          /\ ~Unended(file')
          /\ ~Unended(file) => file' = Append(file, Line(record, TRUE, TRUE))
      BY <1>1, <3>1, AddLineGrows
    <3> QED
      BY <2>1, <3>2 DEF Recorded
  <2>3. CASE \E middle \in Pieces(record) :
               record \in Separated /\ file' = WriteSplit(file, record, middle)
    <3>1. PICK middle \in Pieces(record) :
            record \in Separated /\ file' = WriteSplit(file, record, middle)
      BY <2>3
    <3>2. PICK left : left = AddLine(file, record, FALSE, TRUE) \o middle
      OBVIOUS
    <3>3. left \in Seq(LineOf(Entries)) /\ Extends(file, left)
      BY <1>1, <3>2, PiecesGrow
    <3>4. file' = AddLine(left, record, FALSE, TRUE)
      BY <3>1, <3>2 DEF WriteSplit
    <3>5. /\ file' \in Seq(LineOf(Entries)) /\ Extends(left, file')
          /\ ~Unended(file')
      BY <1>1, <3>3, <3>4, AddLineGrows
    <3>6. Extends(file, file')
      BY <1>1, <3>3, <3>5, ExtendsTwice
    <3>7. record \notin Plain
      BY <3>1, RecordsAssumption
    <3> QED
      BY <2>1, <3>5, <3>6, <3>7 DEF Recorded
  <2> QED
    BY <1>2, <2>2, <2>3 DEF WriteRecord
<1>3. ASSUME UNCHANGED file, Offer(record, "failed")
      PROVE  Recorded(record, "failed")
  BY <1>1, <1>3, ExtendsSelf DEF Offer, Recorded
<1>4. ASSUME Leaves(record), Offer(record, "cut")
      PROVE  Recorded(record, "cut")
  BY <1>4, LeavesLines DEF Offer, Recorded
<1> QED
  BY <1>2, <1>3, <1>4 DEF WriteFails, CrashInWrite

LEMMA LastLinesFacts ==
  ASSUME NEW S, NEW f \in Seq(LineOf(S))
  PROVE  \E skip \in 0..Len(f) :
           /\ skip = IF Len(f) > TailLines THEN Len(f) - TailLines ELSE 0
           /\ LastLines(f, TailLines) \in Seq(LineOf(S))
           /\ Len(LastLines(f, TailLines)) = Len(f) - skip
           /\ \A i \in 1..(Len(f) - skip) : LastLines(f, TailLines)[i] = f[i + skip]
<1>1. Len(f) \in Nat /\ TailLines \in Nat
  BY LenProperties, TailAssumption
<1> DEFINE skip == IF Len(f) > TailLines THEN Len(f) - TailLines ELSE 0
<1>2. skip \in 0..Len(f)
  BY <1>1
<1>3. CASE Len(f) > TailLines
  <2>1. LastLines(f, TailLines) = SubSeq(f, skip + 1, Len(f))
    <3>1. (Len(f) - TailLines) + 1 = skip + 1
      BY <1>3
    <3> QED
      BY <1>3, <3>1 DEF LastLines
  <2>2. skip + 1 \in 1..(Len(f) + 1)
    BY <1>1, <1>2
  <2>3. /\ SubSeq(f, skip + 1, Len(f)) \in Seq(LineOf(S))
        /\ Len(SubSeq(f, skip + 1, Len(f))) = Len(f) - skip
        /\ \A i \in 1..(Len(f) - skip) : SubSeq(f, skip + 1, Len(f))[i] = f[i + skip]
    <3>1. skip \in Int
      BY <1>2
    <3> HIDE DEF skip, LineOf
    <3> QED
      BY <1>1, <1>2, <2>2, <3>1, SubSeqProperties
  <2> QED
    BY <1>2, <2>1, <2>3
<1>4. CASE ~(Len(f) > TailLines)
  <2>1. LastLines(f, TailLines) = f /\ skip = 0
    BY <1>4 DEF LastLines
  <2> QED
    BY <1>1, <1>2, <2>1
<1> QED
  BY <1>3, <1>4

-------------------------------------------------------------------------------
(* Damage stays local. *)

IntactSet == {i \in DOMAIN offered : Intact(i)}

\* An intact record has the line it made, and nobody has touched it since.
PlaceKnown ==
  /\ \A i \in IntactSet :
       /\ ends[i] \in 1..Len(file)
       /\ file[ends[i]] = Line(offered[i], TRUE, TRUE)
  /\ \A i, j \in IntactSet : i < j => ends[i] < ends[j]

\* The next record may be glued to the last line only if that was cut off.
EndKnown == Unended(file) => AfterCut(Len(offered) + 1)

LEMMA HistoryGrows ==
  ASSUME JournalType, NEW record \in Records, NEW how, Recorded(record, how)
  PROVE  LET m == Len(offered)
         IN  /\ m \in Nat /\ DOMAIN offered = 1..m /\ DOMAIN offered' = 1..(m + 1)
             /\ Len(offered') = m + 1 /\ offered'[m + 1] = record
             /\ \A i \in 1..m : offered'[i] = offered[i]
             /\ fate'[m + 1] = how /\ \A i \in 1..m : fate'[i] = fate[i]
             /\ ends'[m + 1] = Len(file') /\ \A i \in 1..m : ends'[i] = ends[i]
BY LenProperties, AppendProperties DEF JournalType, Recorded

LEMMA EndKept ==
  ASSUME JournalType, EndKnown, NEW record \in Records, NEW how \in Fates,
         Recorded(record, how)
  PROVE  EndKnown'
<1> DEFINE m == Len(offered)
<1>1. /\ m \in Nat /\ Len(offered') = m + 1 /\ fate'[m + 1] = how
      /\ \A j \in 1..m : fate'[j] = fate[j]
  BY HistoryGrows
<1> HIDE DEF m
<1>2. AfterCut(Len(offered) + 1)' <=>
        \E j \in 1..(m + 1) :
          fate'[j] = "cut" /\ \A k \in (j + 1)..(m + 1) : fate'[k] = "failed"
  <2>1. (m + 1) + 1 - 1 = m + 1
    BY <1>1
  <2> QED
    BY <1>1, <2>1 DEF AfterCut
<1>3. AfterCut(Len(offered) + 1) <=>
        \E j \in 1..m :
          fate[j] = "cut" /\ \A k \in (j + 1)..m : fate[k] = "failed"
  <2>1. (m + 1) - 1 = m
    BY <1>1
  <2> QED
    BY <2>1 DEF AfterCut, m
<1>4. CASE how = "cut"
  <2>1. \A k \in ((m + 1) + 1)..(m + 1) : fate'[k] = "failed"
    BY <1>1
  <2>2. m + 1 \in 1..(m + 1) /\ fate'[m + 1] = "cut"
    BY <1>1, <1>4
  <2>3. AfterCut(Len(offered) + 1)'
    BY <1>2, <2>1, <2>2
  <2> QED
    BY <2>3 DEF EndKnown
<1>5. CASE how = "written"
  BY <1>5 DEF Recorded, EndKnown
<1>6. CASE how = "failed" /\ Unended(file')
  <2>1. AfterCut(Len(offered) + 1)
    BY <1>6 DEF Recorded, EndKnown
  <2>2. PICK j \in 1..m : fate[j] = "cut" /\ \A k \in (j + 1)..m : fate[k] = "failed"
    BY <1>3, <2>1
  <2>3. j \in 1..(m + 1) /\ fate'[j] = "cut"
    BY <1>1, <2>2
  <2>4. ASSUME NEW k \in (j + 1)..(m + 1) PROVE fate'[k] = "failed"
    <3>1. k = m + 1 \/ (k \in (j + 1)..m /\ k \in 1..m)
      BY <1>1
    <3> QED
      BY <1>1, <1>6, <2>2, <3>1
  <2>5. AfterCut(Len(offered) + 1)'
    BY <1>2, <2>3, <2>4
  <2> QED
    BY <2>5 DEF EndKnown
<1> QED
  BY <1>4, <1>5, <1>6 DEF Fates, EndKnown

LEMMA AfterCutKept ==
  ASSUME JournalType, NEW record \in Records, NEW how, Recorded(record, how),
         NEW i \in 1..(Len(offered) + 1)
  PROVE  AfterCut(i)' <=> AfterCut(i)
<1>1. Len(offered) \in Nat /\ \A j \in 1..Len(offered) : fate'[j] = fate[j]
  BY HistoryGrows
<1>2. \A j \in 1..(i - 1) : j \in 1..Len(offered)
  BY <1>1
<1>3. \A j \in 1..(i - 1) : fate'[j] = fate[j]
  BY <1>1, <1>2
<1>4. \A j \in 1..(i - 1) : \A k \in (j + 1)..(i - 1) : fate'[k] = fate[k]
  BY <1>1, <1>3
<1> QED
  BY <1>3, <1>4 DEF AfterCut

LEMMA IntactKept ==
  ASSUME JournalType, EndKnown, NEW record \in Records, NEW how,
         Recorded(record, how)
  PROVE  /\ \A i \in 1..Len(offered) : i \in IntactSet' <=> i \in IntactSet
         /\ Len(offered) + 1 \in IntactSet' =>
              /\ how = "written" /\ record \in Plain
              /\ file' = Append(file, Line(record, TRUE, TRUE))
         /\ IntactSet' \subseteq 1..(Len(offered) + 1)
         /\ IntactSet \subseteq 1..Len(offered)
<1> DEFINE m == Len(offered)
<1>1. /\ m \in Nat /\ DOMAIN offered = 1..m /\ DOMAIN offered' = 1..(m + 1)
      /\ offered'[m + 1] = record /\ \A i \in 1..m : offered'[i] = offered[i]
      /\ fate'[m + 1] = how /\ \A i \in 1..m : fate'[i] = fate[i]
  BY HistoryGrows
<1>2. IntactSet' = {i \in 1..(m + 1) :
                      fate'[i] = "written" /\ offered'[i] \in Plain /\ ~AfterCut(i)'}
  BY <1>1 DEF IntactSet, Intact
<1>3. IntactSet = {i \in 1..m :
                      fate[i] = "written" /\ offered[i] \in Plain /\ ~AfterCut(i)}
  BY <1>1 DEF IntactSet, Intact
<1>4. \A i \in 1..(m + 1) : AfterCut(i)' <=> AfterCut(i)
  BY AfterCutKept
<1>5. \A i \in 1..m : i \in 1..(m + 1)
  BY <1>1
<1>6. m + 1 \in 1..(m + 1)
  BY <1>1
<1>7. ASSUME m + 1 \in IntactSet'
      PROVE  /\ how = "written" /\ record \in Plain
             /\ file' = Append(file, Line(record, TRUE, TRUE))
  <2>1. how = "written" /\ record \in Plain
    BY <1>1, <1>2, <1>7
  <2>2. ~AfterCut(m + 1)
    BY <1>2, <1>4, <1>6, <1>7
  <2>3. ~Unended(file)
    BY <2>2 DEF EndKnown
  <2> QED
    BY <2>1, <2>3 DEF Recorded
<1>8. \A i \in 1..m : i \in IntactSet' <=> i \in IntactSet
  BY <1>1, <1>2, <1>3, <1>4, <1>5
<1> QED
  BY <1>2, <1>3, <1>7, <1>8

LEMMA PlaceKept ==
  ASSUME JournalType, EndKnown, PlaceKnown, NEW record \in Records, NEW how,
         Recorded(record, how)
  PROVE  PlaceKnown'
<1> DEFINE m == Len(offered)
           n == Len(file)
<1>1. /\ m \in Nat /\ offered'[m + 1] = record /\ ends'[m + 1] = Len(file')
      /\ \A i \in 1..m : offered'[i] = offered[i] /\ ends'[i] = ends[i]
  BY HistoryGrows
<1>2. /\ n \in Nat /\ Len(file') \in Nat /\ n <= Len(file')
      /\ \A j \in 1..n : file[j].ended => file'[j] = file[j]
  BY LenProperties DEF JournalType, Recorded, Extends
<1>3. /\ \A i \in 1..m : i \in IntactSet' <=> i \in IntactSet
      /\ m + 1 \in IntactSet' => file' = Append(file, Line(record, TRUE, TRUE))
      /\ IntactSet' \subseteq 1..(m + 1) /\ IntactSet \subseteq 1..m
  BY IntactKept
<1>4. m + 1 \in IntactSet' =>
        Len(file') = n + 1 /\ file'[n + 1] = Line(record, TRUE, TRUE)
  <2>1. record \in Entries /\ file \in Seq(LineOf(Entries))
    BY DEF JournalType, Entries
  <2>2. Line(record, TRUE, TRUE) \in LineOf(Entries)
    BY <2>1 DEF LineOf, Line
  <2>3. Len(Append(file, Line(record, TRUE, TRUE))) = n + 1
        /\ Append(file, Line(record, TRUE, TRUE))[n + 1] = Line(record, TRUE, TRUE)
    <3> HIDE DEF LineOf, Line, n
    <3> QED
      BY <2>1, <2>2, AppendProperties DEF n
  <2> QED
    BY <1>3, <2>3
<1> HIDE DEF m, n
<1>5. \A i \in IntactSet' : i \in 1..m \/ i = m + 1
  BY <1>1, <1>3
<1>6. ASSUME NEW i \in IntactSet', i \in 1..m
      PROVE  /\ i \in IntactSet /\ ends'[i] = ends[i] /\ ends[i] \in 1..n
             /\ file'[ends[i]] = Line(offered'[i], TRUE, TRUE)
  <2>1. i \in IntactSet /\ ends'[i] = ends[i] /\ offered'[i] = offered[i]
    BY <1>1, <1>3, <1>6
  <2>2. ends[i] \in 1..n /\ file[ends[i]] = Line(offered[i], TRUE, TRUE)
    BY <2>1 DEF PlaceKnown, n
  <2>3. file[ends[i]].ended
    BY <2>2 DEF Line
  <2> QED
    BY <1>2, <2>1, <2>2, <2>3
<1>7. ASSUME NEW i \in IntactSet', i \notin 1..m
      PROVE  /\ i = m + 1 /\ ends'[i] = n + 1 /\ Len(file') = n + 1
             /\ file'[n + 1] = Line(offered'[i], TRUE, TRUE)
  <2>1. i = m + 1
    BY <1>5, <1>7
  <2> QED
    BY <1>1, <1>4, <2>1
<1>8. ASSUME NEW i \in IntactSet'
      PROVE  /\ ends'[i] \in 1..Len(file')
             /\ file'[ends'[i]] = Line(offered'[i], TRUE, TRUE)
  <2>1. CASE i \in 1..m
    <3>1. \A k \in 1..n : k \in 1..Len(file')
      BY <1>2
    <3> QED
      BY <1>6, <2>1, <3>1
  <2>2. CASE i \notin 1..m
    <3>1. n + 1 \in 1..(n + 1)
      BY <1>2
    <3> QED
      BY <1>7, <2>2, <3>1
  <2> QED
    BY <2>1, <2>2
<1>9. ASSUME NEW i \in IntactSet', NEW j \in IntactSet', i < j
      PROVE  ends'[i] < ends'[j]
  <2>1. CASE i \in 1..m /\ j \in 1..m
    BY <1>6, <1>9, <2>1 DEF PlaceKnown
  <2>2. CASE i \in 1..m /\ j \notin 1..m
    <3>1. ends'[i] \in 1..n /\ ends'[j] = n + 1
      BY <1>6, <1>7, <2>2
    <3>2. \A k \in 1..n : k < n + 1
      BY <1>2
    <3> QED
      BY <3>1, <3>2
  <2>3. CASE i \notin 1..m
    <3>1. i = m + 1 /\ j \in 1..(m + 1)
      BY <1>3, <1>7, <2>3
    <3> QED
      BY <1>1, <1>9, <3>1
  <2> QED
    BY <2>1, <2>2, <2>3
<1> QED
  BY <1>8, <1>9 DEF PlaceKnown

LEMMA IntactFromPlace ==
  ASSUME JournalType, PlaceKnown
  PROVE  IntactIsReturned
<1> DEFINE lines == LastLines(file, TailLines)
           due == {i \in DOMAIN offered : Intact(i) /\ Recent(i)}
           n == Len(file)
<1>1. n \in Nat /\ DOMAIN file = 1..n /\ TailLines \in Nat
  BY LenProperties, TailAssumption DEF JournalType
<1>2. PICK skip \in 0..n :
        /\ skip = IF n > TailLines THEN n - TailLines ELSE 0
        /\ lines \in Seq(LineOf(Entries)) /\ Len(lines) = n - skip
        /\ \A i \in 1..(n - skip) : lines[i] = file[i + skip]
  BY LastLinesFacts DEF JournalType
<1>3. DOMAIN lines = 1..(n - skip)
  BY <1>2, LenProperties
<1>4. \A i \in due : /\ i \in IntactSet /\ n - ends[i] < TailLines
                     /\ ends[i] \in 1..n
                     /\ file[ends[i]] = Line(offered[i], TRUE, TRUE)
  BY DEF IntactSet, Recent, PlaceKnown
<1> HIDE DEF lines, due, n
<1>5. ASSUME NEW i \in due
      PROVE  /\ ends[i] - skip \in 1..(n - skip)
             /\ (ends[i] - skip) + skip = ends[i]
  <2>1. PICK p \in 1..n : p = ends[i]
    BY <1>4
  <2>2. n - p < TailLines
    BY <1>4, <2>1
  <2>3. p - skip \in 1..(n - skip) /\ (p - skip) + skip = p
    BY <1>1, <1>2, <2>2
  <2> QED
    BY <2>1, <2>3
<1> DEFINE place == [i \in due |-> ends[i] - skip]
<1>6. ASSUME NEW i \in due
      PROVE  /\ lines[place[i]].readable = TRUE
             /\ lines[place[i]].record = offered[i]
  <2>1. lines[ends[i] - skip] = file[(ends[i] - skip) + skip]
    BY <1>2, <1>5
  <2>2. lines[place[i]] = Line(offered[i], TRUE, TRUE)
    BY <1>4, <1>5, <2>1
  <2> QED
    BY <2>2 DEF Line
<1>7. place \in [due -> Parsed(lines)]
  <2> SUFFICES ASSUME NEW i \in due PROVE place[i] \in Parsed(lines)
    OBVIOUS
  <2>1. place[i] \in DOMAIN lines
    BY <1>3, <1>5
  <2>2. lines[place[i]].readable
    BY <1>6
  <2> QED
    BY <2>1, <2>2 DEF Parsed
<1>8. Increasing(place)
  <2> SUFFICES ASSUME NEW i \in due, NEW j \in due, i < j
               PROVE  place[i] < place[j]
    BY DEF Increasing
  <2>1. PICK p \in 1..n, q \in 1..n : p = ends[i] /\ q = ends[j]
    BY <1>4
  <2>2. p < q
    BY <1>4, <2>1 DEF PlaceKnown
  <2>3. p - skip < q - skip
    BY <1>1, <2>2
  <2> QED
    BY <2>1, <2>3
<1>9. \A i \in due : lines[place[i]].record = offered[i]
  BY <1>6
<1> HIDE DEF place
<1>10. \E f \in [due -> Parsed(lines)] :
         /\ Increasing(f)
         /\ \A i \in due : lines[f[i]].record = offered[i]
  BY <1>7, <1>8, <1>9
<1> QED
  BY <1>10 DEF IntactIsReturned, lines, due

-------------------------------------------------------------------------------
(* The inductive invariant of the memory. *)

MemoryType ==
  /\ JournalType
  /\ day \in Days /\ evening \in BOOLEAN
  /\ marker \in Nat /\ marker <= day
  /\ loop \in {"sleep", "choosing", "trading", "gathering", "reviewing", "written"}
  /\ thread \in [Threads -> {"idle", "asking", "stored", "deciding"}]
  /\ ask \in [Callers -> [today : Nat, few : BOOLEAN]]
  /\ cache \in [day : Nat, rows : {"none", "cut", "whole"}]
  /\ reviewed \in Nat
  /\ seen \in [Threads -> {"nothing", "none", "cut", "whole"}]
  /\ overran \in SUBSET Days
  /\ slips \in [Days -> Nat]

\* A review is about a day that has begun and that the marker does not name.
ReviewDated ==
  loop \in {"gathering", "reviewing", "written"} =>
    reviewed \in Days /\ reviewed <= day /\ marker < reviewed

JournalKnown == EndKnown /\ PlaceKnown

\* Who waits for an answer of fetch_mega_alerts_today.
Waiting(t) == thread[t] \in {"asking", "stored"}

\* Only the review asks for a few rows.
OnlyReviewCuts ==
  /\ \A t \in Threads : ~ask[t].few
  /\ loop = "choosing" => ~ask["loop"].few

\* Nobody has asked for a date to come, nor for a later one than the review.
AskedDates ==
  /\ \A c \in Callers : ask[c].today <= day
  /\ loop = "reviewing" =>
       \A t \in Threads : Waiting(t) => ask[t].today <= ask["loop"].today
  /\ loop \in {"choosing", "trading"} /\ evening => ask["loop"].today = day

\* A date that began while a thread waited for an answer has been overrun.
WaitedOver ==
  \A t \in Threads, x \in Days :
    Waiting(t) /\ ask[t].today < x /\ x <= day => x \in overran

\* The list is that of the date the event loop counts on, or the date is one of
\* those.
ListIsToday ==
  /\ loop = "trading" /\ ask["loop"].today = day => cache.day = day \/ day \in overran
  /\ loop = "gathering" => cache.day = day \/ day \in overran
  /\ loop = "reviewing" =>
       cache.day = ask["loop"].today \/ ask["loop"].today \in overran

\* Where a shortened list can come from, and who can be given it.
CutKnown ==
  cache.rows = "cut" =>
    /\ cache.day \in overran
    /\ \A t \in Threads : thread[t] = "stored" => cache.day >= ask[t].today

GivenKnown ==
  /\ \A t \in Threads : thread[t] # "deciding" => seen[t] = "nothing"
  /\ AlertsAreWhole

AlertsKnown ==
  OnlyReviewCuts /\ AskedDates /\ WaitedOver /\ ListIsToday /\ CutKnown /\ GivenKnown

\* A day whose review need not run again: it is marked, about to be, or over.
Settled(d) ==
  /\ ~(loop \in {"gathering", "reviewing"} /\ reviewed = d)
  /\ (loop = "written" /\ reviewed = d) \/ marker = d \/ d < day

\* Reviews of a day that is not settled were all cut short.
ReviewsCounted ==
  \A d \in Days : Cardinality(Reviews(d)) <= slips[d] + (IF Settled(d) THEN 1 ELSE 0)

LEMMA MemoryTypeInit == MemoryInit => MemoryType
<1> SUFFICES ASSUME MemoryInit PROVE MemoryType
  OBVIOUS
<1>1. 1 \in Days
  BY DaysAssumption DEF Days
<1>2. JournalType
  <2>1. file = <<>> /\ offered = <<>> /\ fate = <<>> /\ ends = <<>>
    BY DEF MemoryInit, Empty
  <2> QED
    BY <2>1 DEF JournalType
<1>3. /\ day = 1 /\ evening = FALSE /\ marker = 0 /\ loop = "sleep" /\ reviewed = 0
      /\ overran = {} /\ slips = [d \in Days |-> 0]
  BY DEF MemoryInit
<1>4. thread \in [Threads -> {"idle", "asking", "stored", "deciding"}]
  BY DEF MemoryInit, Idle
<1>5. ask \in [Callers -> [today : Nat, few : BOOLEAN]]
  BY DEF MemoryInit, Unasked, NotAsking
<1>6. cache \in [day : Nat, rows : {"none", "cut", "whole"}]
  BY DEF MemoryInit, NoList
<1>7. seen \in [Threads -> {"nothing", "none", "cut", "whole"}]
  BY DEF MemoryInit, Unseen
<1>8. marker <= day
  BY <1>3
<1> QED
  BY <1>1, <1>2, <1>3, <1>4, <1>5, <1>6, <1>7, <1>8 DEF MemoryType

LEMMA ReviewPlain == ASSUME MemoryType, reviewed \in Days PROVE Review \in Records
BY ReflectionsAssumption DEF Review, Records, Reflections

\* Every step that touches the journal gives it one record.
LEMMA JournalStep ==
  ASSUME MemoryType, ReviewDated, [MemoryNext]_memory
  PROVE  \/ UNCHANGED <<file, offered, fate, ends>>
         \/ \E record \in Records, how \in Fates : Recorded(record, how)
<1>0. JournalType
  BY DEF MemoryType
<1>1. ASSUME NEW record \in Records, WriteRecord(record) \/ WriteFails(record)
      PROVE  \E r \in Records, how \in Fates : Recorded(r, how)
  BY <1>0, <1>1, Recording DEF Fates
<1>2. ASSUME NEW record \in Records, CrashInWrite(record)
      PROVE  \E r \in Records, how \in Fates : Recorded(r, how)
  BY <1>0, <1>2, Recording DEF Fates
<1>3. ASSUME NEW split \in BOOLEAN, Lesson(split)
      PROVE  \E r \in Records, how \in Fates : Recorded(r, how)
  BY <1>1, <1>3 DEF Lesson
<1>4. ASSUME WriteReview
      PROVE  \E r \in Records, how \in Fates : Recorded(r, how)
  <2>1. Review \in Records
    BY <1>4, ReviewPlain DEF WriteReview, ReviewDated
  <2> QED
    BY <1>1, <1>4, <2>1 DEF WriteReview
<1>5. ASSUME NEW t \in Threads, Decide(t)
      PROVE  \/ UNCHANGED <<file, offered, fate, ends>>
             \/ \E r \in Records, how \in Fates : Recorded(r, how)
  BY <1>1, <1>5 DEF Decide, journal
<1>6. ASSUME Crash
      PROVE  \/ UNCHANGED <<file, offered, fate, ends>>
             \/ \E r \in Records, how \in Fates : Recorded(r, how)
  BY <1>2, <1>6 DEF Crash, CrashElsewhere
<1>7. CASE StartTick \/ LoopFetches \/ StartGraphs \/ EndTick \/ StartReview
           \/ ReviewAsks \/ MarkReview \/ MarkFails \/ SessionEnds \/ Midnight
  BY <1>7 DEF StartTick, LoopFetches, StartGraphs, EndTick, StartReview, ReviewAsks,
              MarkReview, MarkFails, SessionEnds, Midnight, journal
<1>8. CASE \E t \in Threads : EntersGraph(t) \/ ThreadFetches(t) \/ IsGiven(t)
  BY <1>8 DEF EntersGraph, ThreadFetches, IsGiven, journal
<1>9. CASE UNCHANGED memory
  BY <1>9 DEF memory, journal
<1> QED
  BY <1>3, <1>4, <1>5, <1>6, <1>7, <1>8, <1>9 DEF MemoryNext, Loop, Thread

LEMMA JournalTypeKept ==
  ASSUME JournalType, NEW record \in Records, NEW how \in Fates,
         Recorded(record, how)
  PROVE  JournalType'
BY AppendProperties DEF JournalType, Recorded

LEMMA JournalKept ==
  ASSUME MemoryType, ReviewDated, JournalKnown, [MemoryNext]_memory
  PROVE  JournalType' /\ JournalKnown'
<1>0. JournalType
  BY DEF MemoryType
<1>1. CASE UNCHANGED <<file, offered, fate, ends>>
  <2>1. JournalType'
    BY <1>0, <1>1 DEF JournalType
  <2>2. EndKnown'
    BY <1>1 DEF JournalKnown, EndKnown, AfterCut
  <2>3. IntactSet' = IntactSet
    BY <1>1 DEF IntactSet, Intact, AfterCut
  <2>4. PlaceKnown'
    BY <1>1, <2>3 DEF JournalKnown, PlaceKnown
  <2> QED
    BY <2>1, <2>2, <2>4 DEF JournalKnown
<1>2. CASE \E record \in Records, how \in Fates : Recorded(record, how)
  <2>1. PICK record \in Records, how \in Fates : Recorded(record, how)
    BY <1>2
  <2> QED
    BY <1>0, <2>1, JournalTypeKept, EndKept, PlaceKept DEF JournalKnown
<1> QED
  BY <1>1, <1>2, JournalStep

-------------------------------------------------------------------------------
(* Types and the dates of a review, step by step. *)

LEMMA AsksType ==
  ASSUME MemoryType, NEW c \in Callers, NEW few \in BOOLEAN, Asks(c, few)
  PROVE  ask' \in [Callers -> [today : Nat, few : BOOLEAN]]
<1>1. day \in Nat
  BY DEF MemoryType, Days
<1> QED
  BY <1>1 DEF MemoryType, Asks

LEMMA StoresType ==
  ASSUME MemoryType, NEW c \in Callers, Stores(c)
  PROVE  cache' \in [day : Nat, rows : {"none", "cut", "whole"}]
BY DEF MemoryType, Stores

LEMMA LoopCalls == "loop" \in Callers /\ Threads \subseteq Callers
BY DEF Callers

LEMMA MemoryTypeStep ==
  ASSUME MemoryType, ReviewDated, JournalKnown, [MemoryNext]_memory
  PROVE  MemoryType' /\ ReviewDated'
<1> USE LoopCalls
<1>0. JournalType'
  BY JournalKept
<1>a. day \in Nat /\ marker \in Nat /\ marker <= day /\ DaysAssumption /\ Days \subseteq Nat
  BY DaysAssumption DEF MemoryType, Days
<1>1. CASE \/ UNCHANGED memory
           \/ \E split \in BOOLEAN : Lesson(split)
  <2>1. UNCHANGED <<process, clock, marker, histories>>
    BY <1>1 DEF memory, Lesson
  <2> QED
    BY <1>0, <2>1 DEF MemoryType, ReviewDated, process, clock, histories
<1>2. CASE StartTick
  <2>1. ask' \in [Callers -> [today : Nat, few : BOOLEAN]]
    BY <1>2, AsksType DEF StartTick
  <2> QED
    BY <1>0, <1>2, <2>1 DEF StartTick, MemoryType, ReviewDated, clock, histories
<1>3. CASE LoopFetches
  <2>1. cache' \in [day : Nat, rows : {"none", "cut", "whole"}]
    BY <1>3, StoresType DEF LoopFetches
  <2> QED
    BY <1>0, <1>3, <2>1 DEF LoopFetches, MemoryType, ReviewDated, clock, histories
<1>4. CASE StartGraphs
  BY <1>0, <1>4 DEF StartGraphs, MemoryType, ReviewDated, clock, histories
<1>5. CASE EndTick
  BY <1>0, <1>5 DEF EndTick, MemoryType, ReviewDated, clock, histories
<1>6. CASE StartReview
  <2>1. /\ loop' = "gathering" /\ reviewed' = day
        /\ UNCHANGED <<thread, ask, cache, seen, day, evening, marker, overran, slips>>
        /\ marker # day
    BY <1>6 DEF StartReview, ShouldRun, clock, histories
  <2>2. MemoryType'
    BY <1>0, <1>a, <2>1 DEF MemoryType
  <2>3. marker < day /\ day <= day /\ day \in Days
    BY <1>a, <2>1 DEF MemoryType
  <2>4. ReviewDated'
    BY <2>1, <2>3 DEF ReviewDated
  <2> QED
    BY <2>2, <2>4
<1>7. CASE ReviewAsks
  <2>1. ask' \in [Callers -> [today : Nat, few : BOOLEAN]]
    BY <1>7, AsksType DEF ReviewAsks
  <2> QED
    BY <1>0, <1>7, <2>1 DEF ReviewAsks, MemoryType, ReviewDated, clock, histories
<1>8. CASE WriteReview
  BY <1>0, <1>8 DEF WriteReview, MemoryType, ReviewDated, clock, histories
<1>9. CASE MarkReview
  <2>1. /\ loop' = "sleep" /\ marker' = day
        /\ UNCHANGED <<thread, ask, cache, reviewed, seen, day, evening, overran, slips>>
    BY <1>9 DEF MarkReview, clock, histories
  <2>2. marker' \in Nat /\ marker' <= day'
    BY <1>a, <2>1
  <2> QED
    BY <1>0, <2>1, <2>2 DEF MemoryType, ReviewDated
<1>10. CASE MarkFails
  <2>1. /\ loop' = "sleep" /\ marker' \in {marker, 0} /\ reviewed \in Days
        /\ slips' = [slips EXCEPT ![reviewed] = @ + 1]
        /\ UNCHANGED <<thread, ask, cache, reviewed, seen, day, evening, overran>>
    BY <1>10 DEF MarkFails, Slip, clock, ReviewDated
  <2>2. marker' \in Nat /\ marker' <= day'
    BY <1>a, <2>1
  <2>3. slips' \in [Days -> Nat]
    BY <2>1 DEF MemoryType
  <2> QED
    BY <1>0, <2>1, <2>2, <2>3 DEF MemoryType, ReviewDated
<1>11. ASSUME NEW t \in Threads, EntersGraph(t)
       PROVE  MemoryType' /\ ReviewDated'
  <2>1. ask' \in [Callers -> [today : Nat, few : BOOLEAN]]
    BY <1>11, AsksType DEF EntersGraph
  <2> QED
    BY <1>0, <1>11, <2>1 DEF EntersGraph, MemoryType, ReviewDated, clock, histories
<1>12. ASSUME NEW t \in Threads, ThreadFetches(t)
       PROVE  MemoryType' /\ ReviewDated'
  <2>1. cache' \in [day : Nat, rows : {"none", "cut", "whole"}]
    BY <1>12, StoresType DEF ThreadFetches
  <2> QED
    BY <1>0, <1>12, <2>1 DEF ThreadFetches, MemoryType, ReviewDated, clock, histories
<1>13. ASSUME NEW t \in Threads, IsGiven(t)
       PROVE  MemoryType' /\ ReviewDated'
  <2>1. cache.rows \in {"none", "cut", "whole"}
    BY DEF MemoryType
  <2> QED
    BY <1>0, <1>13, <2>1 DEF IsGiven, MemoryType, ReviewDated, clock, histories
<1>14. ASSUME NEW t \in Threads, Decide(t)
       PROVE  MemoryType' /\ ReviewDated'
  <2>1. NotAsking \in [today : Nat, few : BOOLEAN]
    BY DEF NotAsking
  <2>2. ask' \in [Callers -> [today : Nat, few : BOOLEAN]]
    BY <1>14, <2>1 DEF Decide, MemoryType
  <2> QED
    BY <1>0, <1>14, <2>2 DEF Decide, MemoryType, ReviewDated, clock, histories
<1>15. CASE SessionEnds
  BY <1>0, <1>15 DEF SessionEnds, MemoryType, ReviewDated, process, histories
<1>16. CASE Midnight
  <2>1. /\ day' = day + 1 /\ evening' = FALSE /\ day < MaxDays
        /\ overran' \in {overran, overran \cup {day + 1}}
        /\ UNCHANGED <<loop, thread, ask, cache, reviewed, seen, marker, slips>>
    BY <1>16 DEF Midnight, process
  <2>2. day + 1 \in Days
    BY <1>a, <2>1, DaysAssumption DEF Days, MemoryType
  <2>3. marker' <= day'
    BY <1>a, <2>1
  <2>4. \A x \in Nat : x <= day => x <= day + 1
    BY <1>a
  <2>5. MemoryType'
    BY <1>0, <2>1, <2>2, <2>3 DEF MemoryType
  <2>6. ReviewDated'
    BY <1>a, <2>1, <2>4 DEF ReviewDated
  <2> QED
    BY <2>5, <2>6
<1>17. CASE Crash
  <2>1. /\ loop' = "sleep" /\ thread' = Idle /\ ask' = Unasked /\ cache' = NoList
        /\ reviewed' = 0 /\ seen' = Unseen
        /\ UNCHANGED <<day, evening, overran>>
    BY <1>17 DEF Crash, clock
  <2>2. /\ thread' \in [Threads -> {"idle", "asking", "stored", "deciding"}]
        /\ ask' \in [Callers -> [today : Nat, few : BOOLEAN]]
        /\ cache' \in [day : Nat, rows : {"none", "cut", "whole"}]
        /\ seen' \in [Threads -> {"nothing", "none", "cut", "whole"}]
    BY <2>1 DEF Idle, Unasked, NotAsking, NoList, Unseen
  <2>3. marker' \in {marker, 0, day}
    BY <1>17 DEF Crash
  <2>4. marker' \in Nat /\ marker' <= day'
    BY <1>a, <2>1, <2>3
  <2>5. UNCHANGED slips \/ Slip
    BY <1>17 DEF Crash
  <2>6. slips' \in [Days -> Nat]
    BY <2>5 DEF Slip, MemoryType
  <2> QED
    BY <1>0, <2>1, <2>2, <2>4, <2>6 DEF MemoryType, ReviewDated
<1> QED
  BY <1>1, <1>2, <1>3, <1>4, <1>5, <1>6, <1>7, <1>8, <1>9, <1>10, <1>11, <1>12,
     <1>13, <1>14, <1>15, <1>16, <1>17 DEF MemoryNext, Loop, Thread

-------------------------------------------------------------------------------
(* No decision on a shortened list. *)

LEMMA AlertsInit == MemoryInit => AlertsKnown
<1> SUFFICES ASSUME MemoryInit PROVE AlertsKnown
  OBVIOUS
<1>1. /\ day = 1 /\ evening = FALSE /\ loop = "sleep"
      /\ \A t \in Threads : thread[t] = "idle" /\ seen[t] = "nothing"
      /\ \A c \in Callers : ask[c] = NotAsking
      /\ cache.rows = "none"
  BY DEF MemoryInit, Idle, Unasked, Unseen, NoList
<1>2. OnlyReviewCuts /\ AskedDates
  BY <1>1, LoopCalls DEF OnlyReviewCuts, AskedDates, NotAsking
<1> QED
  BY <1>1, <1>2 DEF AlertsKnown, WaitedOver, Waiting, ListIsToday, CutKnown,
                    GivenKnown, AlertsAreWhole

\* A step that only takes the event loop out of its waiting states.
LEMMA AlertsRetired ==
  ASSUME AlertsKnown,
         loop' = loop \/ loop' \in {"sleep", "written"},
         UNCHANGED <<thread, ask, cache, seen, day, evening, overran>>
  PROVE  AlertsKnown'
<1>1. OnlyReviewCuts' /\ AskedDates'
  BY DEF AlertsKnown, OnlyReviewCuts, AskedDates, Waiting
<1>2. WaitedOver' /\ ListIsToday'
  BY DEF AlertsKnown, WaitedOver, ListIsToday, Waiting
<1>3. CutKnown' /\ GivenKnown'
  BY DEF AlertsKnown, CutKnown, GivenKnown, AlertsAreWhole
<1> QED
  BY <1>1, <1>2, <1>3 DEF AlertsKnown

LEMMA StartTickAlerts ==
  ASSUME MemoryType, AlertsKnown, StartTick
  PROVE  AlertsKnown'
<1>1. /\ loop' = "choosing"
      /\ ask'["loop"] = [today |-> day, few |-> FALSE]
      /\ \A t \in Threads : ask'[t] = ask[t]
      /\ UNCHANGED <<thread, cache, seen, day, evening, overran>>
  BY LoopCalls, ThreadsAssumption DEF StartTick, Asks, MemoryType, clock, histories
<1>2. \A c \in Callers : c = "loop" \/ c \in Threads
  BY DEF Callers
<1>3. day <= day
  BY DEF MemoryType, Days
<1>4. OnlyReviewCuts' /\ AskedDates'
  BY <1>1, <1>2, <1>3, LoopCalls DEF AlertsKnown, OnlyReviewCuts, AskedDates
<1>5. WaitedOver' /\ ListIsToday'
  BY <1>1 DEF AlertsKnown, WaitedOver, ListIsToday, Waiting
<1>6. CutKnown' /\ GivenKnown'
  BY <1>1 DEF AlertsKnown, CutKnown, GivenKnown, AlertsAreWhole
<1> QED
  BY <1>4, <1>5, <1>6 DEF AlertsKnown

LEMMA LoopFetchesAlerts ==
  ASSUME MemoryType, AlertsKnown, LoopFetches
  PROVE  AlertsKnown'
<1>1. /\ loop \in {"choosing", "reviewing"} /\ ~Hit("loop")
      /\ cache'.day = ask["loop"].today
      /\ cache'.rows \in {"none", IF ask["loop"].few THEN "cut" ELSE "whole"}
      /\ UNCHANGED <<loop, thread, ask, seen, day, evening, overran>>
  BY DEF LoopFetches, Stores, clock, histories
<1>2. ASSUME cache'.rows = "cut"
      PROVE  loop = "reviewing" /\ ask["loop"].today \in overran
  <2>1. ask["loop"].few
    BY <1>1, <1>2
  <2>2. loop = "reviewing"
    BY <1>1, <2>1 DEF AlertsKnown, OnlyReviewCuts
  <2> QED
    BY <1>1, <2>2 DEF AlertsKnown, ListIsToday, Hit
<1>3. OnlyReviewCuts' /\ AskedDates' /\ WaitedOver'
  BY <1>1 DEF AlertsKnown, OnlyReviewCuts, AskedDates, WaitedOver, Waiting
<1>4. ListIsToday'
  BY <1>1 DEF ListIsToday
<1>5. CutKnown'
  BY <1>1, <1>2 DEF AlertsKnown, CutKnown, AskedDates, Waiting
<1>6. GivenKnown'
  BY <1>1 DEF AlertsKnown, GivenKnown, AlertsAreWhole
<1> QED
  BY <1>3, <1>4, <1>5, <1>6 DEF AlertsKnown

LEMMA StartGraphsAlerts ==
  ASSUME MemoryType, AlertsKnown, StartGraphs
  PROVE  AlertsKnown'
<1>1. /\ loop = "choosing" /\ loop' = "trading" /\ cache.day = ask["loop"].today
      /\ UNCHANGED <<thread, ask, cache, seen, day, evening, overran>>
  BY DEF StartGraphs, Hit, clock, histories
<1>2. OnlyReviewCuts' /\ AskedDates'
  BY <1>1 DEF AlertsKnown, OnlyReviewCuts, AskedDates
<1>3. WaitedOver' /\ ListIsToday'
  BY <1>1 DEF AlertsKnown, WaitedOver, ListIsToday, Waiting
<1>4. CutKnown' /\ GivenKnown'
  BY <1>1 DEF AlertsKnown, CutKnown, GivenKnown, AlertsAreWhole
<1> QED
  BY <1>2, <1>3, <1>4 DEF AlertsKnown

LEMMA StartReviewAlerts ==
  ASSUME MemoryType, AlertsKnown, StartReview
  PROVE  AlertsKnown'
<1>1. /\ loop = "trading" /\ loop' = "gathering" /\ evening
      /\ UNCHANGED <<thread, ask, cache, seen, day, evening, overran>>
  BY DEF StartReview, ShouldRun, clock, histories
<1>2. cache.day = day \/ day \in overran
  BY <1>1 DEF AlertsKnown, AskedDates, ListIsToday
<1>3. OnlyReviewCuts' /\ AskedDates'
  BY <1>1 DEF AlertsKnown, OnlyReviewCuts, AskedDates
<1>4. WaitedOver' /\ ListIsToday'
  BY <1>1, <1>2 DEF AlertsKnown, WaitedOver, ListIsToday, Waiting
<1>5. CutKnown' /\ GivenKnown'
  BY <1>1 DEF AlertsKnown, CutKnown, GivenKnown, AlertsAreWhole
<1> QED
  BY <1>3, <1>4, <1>5 DEF AlertsKnown

LEMMA ReviewAsksAlerts ==
  ASSUME MemoryType, AlertsKnown, ReviewAsks
  PROVE  AlertsKnown'
<1>1. /\ loop = "gathering" /\ loop' = "reviewing"
      /\ ask'["loop"] = [today |-> day, few |-> TRUE]
      /\ \A t \in Threads : ask'[t] = ask[t]
      /\ UNCHANGED <<thread, cache, seen, day, evening, overran>>
  BY LoopCalls, ThreadsAssumption DEF ReviewAsks, Asks, MemoryType, clock, histories
<1>2. \A c \in Callers : c = "loop" \/ c \in Threads
  BY DEF Callers
<1>3. day <= day
  BY DEF MemoryType, Days
<1>4. OnlyReviewCuts'
  BY <1>1 DEF AlertsKnown, OnlyReviewCuts
<1>5. AskedDates'
  BY <1>1, <1>2, <1>3, LoopCalls DEF AlertsKnown, AskedDates
<1>6. WaitedOver' /\ ListIsToday'
  BY <1>1 DEF AlertsKnown, WaitedOver, ListIsToday, Waiting
<1>7. CutKnown' /\ GivenKnown'
  BY <1>1 DEF AlertsKnown, CutKnown, GivenKnown, AlertsAreWhole
<1> QED
  BY <1>4, <1>5, <1>6, <1>7 DEF AlertsKnown

LEMMA EntersGraphAlerts ==
  ASSUME MemoryType, AlertsKnown, NEW t \in Threads, EntersGraph(t)
  PROVE  AlertsKnown'
<1>1. /\ loop = "trading" /\ thread[t] = "idle" /\ thread'[t] = "asking"
      /\ \A u \in Threads : u # t => thread'[u] = thread[u]
      /\ ask'[t] = [today |-> day, few |-> FALSE]
      /\ \A c \in Callers : c # t => ask'[c] = ask[c]
      /\ UNCHANGED <<loop, cache, seen, day, evening, overran>>
  BY LoopCalls DEF EntersGraph, Asks, MemoryType, clock, histories
<1>2. t # "loop"
  BY ThreadsAssumption
<1>3. day \in Nat /\ day <= day /\ Days \subseteq Nat
  BY DEF MemoryType, Days
<1>4. OnlyReviewCuts' /\ AskedDates'
  BY <1>1, <1>2, <1>3, LoopCalls DEF AlertsKnown, OnlyReviewCuts, AskedDates
<1>5. WaitedOver'
  <2>1. \A x \in Days : ~(day < x /\ x <= day)
    BY <1>3
  <2> QED
    BY <1>1, <2>1, LoopCalls DEF AlertsKnown, WaitedOver, Waiting
<1>6. ListIsToday'
  BY <1>1, <1>2, LoopCalls DEF AlertsKnown, ListIsToday
<1>7. CutKnown'
  BY <1>1, LoopCalls DEF AlertsKnown, CutKnown
<1>8. GivenKnown'
  BY <1>1, LoopCalls DEF AlertsKnown, GivenKnown, AlertsAreWhole
<1> QED
  BY <1>4, <1>5, <1>6, <1>7, <1>8 DEF AlertsKnown

LEMMA ThreadFetchesAlerts ==
  ASSUME MemoryType, AlertsKnown, NEW t \in Threads, ThreadFetches(t)
  PROVE  AlertsKnown'
<1>1. /\ thread[t] = "asking" /\ thread'[t] = "stored"
      /\ \A u \in Threads : u # t => thread'[u] = thread[u]
      /\ cache'.day = ask[t].today
      /\ cache'.rows \in {"none", IF ask[t].few THEN "cut" ELSE "whole"}
      /\ UNCHANGED <<loop, ask, seen, day, evening, overran>>
  BY DEF ThreadFetches, Stores, MemoryType, clock, histories
<1>2. cache'.rows # "cut"
  BY <1>1 DEF AlertsKnown, OnlyReviewCuts
<1>3. \A u \in Threads : Waiting(u)' => Waiting(u)
  BY <1>1 DEF Waiting
<1>4. /\ day \in Days /\ day \in Nat /\ Days \subseteq Nat /\ ask[t].today \in Nat
      /\ ask["loop"].today \in Nat
  BY LoopCalls DEF MemoryType, Days
<1>5. \A x \in Days : ask[t].today <= x /\ x <= day => ask[t].today = x \/ x \in overran
  <2>1. \A x \in Days : ask[t].today <= x => ask[t].today = x \/ ask[t].today < x
    BY <1>4
  <2> QED
    BY <1>1, <2>1 DEF AlertsKnown, WaitedOver, Waiting
<1>6. ask[t].today <= day
  BY LoopCalls DEF AlertsKnown, AskedDates
<1>7. ask[t].today = day \/ day \in overran
  <2>1. day <= day
    BY <1>4
  <2> QED
    BY <1>4, <1>5, <1>6, <2>1
<1>8. ASSUME loop = "reviewing"
      PROVE  ask[t].today = ask["loop"].today \/ ask["loop"].today \in overran
  <2>1. ask[t].today <= ask["loop"].today /\ ask["loop"].today <= day
    BY <1>1, <1>8, LoopCalls DEF AlertsKnown, AskedDates, Waiting
  <2>2. CASE ask["loop"].today = 0
    BY <1>4, <2>1, <2>2
  <2>3. CASE ask["loop"].today # 0
    <3>1. ask["loop"].today \in Days
      BY <1>4, <2>1, <2>3, DaysAssumption DEF Days
    <3> QED
      BY <1>5, <2>1, <3>1
  <2> QED
    BY <2>2, <2>3
<1>9. OnlyReviewCuts' /\ AskedDates' /\ WaitedOver'
  BY <1>1, <1>3 DEF AlertsKnown, OnlyReviewCuts, AskedDates, WaitedOver
<1>10. ListIsToday'
  BY <1>1, <1>7, <1>8 DEF ListIsToday
<1>11. CutKnown'
  BY <1>2 DEF CutKnown
<1>12. GivenKnown'
  BY <1>1 DEF AlertsKnown, GivenKnown, AlertsAreWhole
<1> QED
  BY <1>9, <1>10, <1>11, <1>12 DEF AlertsKnown

LEMMA IsGivenAlerts ==
  ASSUME MemoryType, AlertsKnown, NEW t \in Threads, IsGiven(t)
  PROVE  AlertsKnown'
<1>1. /\ thread[t] = "stored" \/ (thread[t] = "asking" /\ cache.day = ask[t].today)
      /\ thread'[t] = "deciding" /\ seen'[t] = cache.rows
      /\ \A u \in Threads : u # t => thread'[u] = thread[u] /\ seen'[u] = seen[u]
      /\ UNCHANGED <<loop, ask, cache, day, evening, overran>>
  BY DEF IsGiven, Hit, MemoryType, clock, histories
<1>2. cache.rows = "cut" => cache.day \in overran /\ cache.day >= ask[t].today
  <2>1. ask[t].today \in Nat
    BY LoopCalls DEF MemoryType
  <2> QED
    BY <1>1, <2>1 DEF AlertsKnown, CutKnown
<1>3. \A u \in Threads : Waiting(u)' => Waiting(u)
  BY <1>1 DEF Waiting
<1>4. OnlyReviewCuts' /\ AskedDates' /\ WaitedOver'
  BY <1>1, <1>3 DEF AlertsKnown, OnlyReviewCuts, AskedDates, WaitedOver
<1>5. ListIsToday' /\ CutKnown'
  BY <1>1 DEF AlertsKnown, ListIsToday, CutKnown
<1>6. AlertsAreWhole'
  <2> SUFFICES ASSUME NEW u \in Threads, seen'[u] = "cut"
               PROVE  \E d \in overran : d >= ask[u].today
    BY <1>1 DEF AlertsAreWhole
  <2>1. CASE u = t
    BY <1>1, <1>2, <2>1
  <2>2. CASE u # t
    BY <1>1, <2>2 DEF AlertsKnown, GivenKnown, AlertsAreWhole
  <2> QED
    BY <2>1, <2>2
<1>7. GivenKnown'
  BY <1>1, <1>6 DEF AlertsKnown, GivenKnown
<1> QED
  BY <1>4, <1>5, <1>7 DEF AlertsKnown

LEMMA DecideAlerts ==
  ASSUME MemoryType, AlertsKnown, NEW t \in Threads, Decide(t)
  PROVE  AlertsKnown'
<1>1. /\ thread'[t] = "idle" /\ seen'[t] = "nothing" /\ ask'[t] = NotAsking
      /\ \A u \in Threads : u # t => thread'[u] = thread[u] /\ seen'[u] = seen[u]
      /\ \A c \in Callers : c # t => ask'[c] = ask[c]
      /\ UNCHANGED <<loop, cache, day, evening, overran>>
  BY LoopCalls DEF Decide, MemoryType, clock, histories
<1>2. t # "loop" /\ ask'["loop"] = ask["loop"]
  BY <1>1, LoopCalls, ThreadsAssumption
<1>3. \A u \in Threads : Waiting(u)' => Waiting(u) /\ u # t /\ ask'[u] = ask[u]
  BY <1>1, LoopCalls DEF Waiting
<1>4. OnlyReviewCuts'
  BY <1>1, <1>2, LoopCalls DEF AlertsKnown, OnlyReviewCuts, NotAsking
<1>5. AskedDates'
  <2>1. 0 <= day
    BY DEF MemoryType, Days
  <2>2. \A c \in Callers : ask'[c].today <= day
    BY <1>1, <2>1 DEF AlertsKnown, AskedDates, NotAsking
  <2> QED
    BY <1>1, <1>2, <1>3, <2>2 DEF AlertsKnown, AskedDates
<1>6. WaitedOver'
  BY <1>1, <1>3 DEF AlertsKnown, WaitedOver
<1>7. ListIsToday'
  BY <1>1, <1>2 DEF AlertsKnown, ListIsToday
<1>8. CutKnown'
  BY <1>1, LoopCalls DEF AlertsKnown, CutKnown
<1>9. GivenKnown'
  BY <1>1, LoopCalls DEF AlertsKnown, GivenKnown, AlertsAreWhole
<1> QED
  BY <1>4, <1>5, <1>6, <1>7, <1>8, <1>9 DEF AlertsKnown

LEMMA SessionEndsAlerts ==
  ASSUME MemoryType, AlertsKnown, SessionEnds
  PROVE  AlertsKnown'
<1>1. /\ loop = "sleep" \/ ask["loop"].today = day
      /\ UNCHANGED <<loop, thread, ask, cache, seen, day, overran>>
  BY DEF SessionEnds, process, histories
<1>2. OnlyReviewCuts' /\ WaitedOver' /\ ListIsToday' /\ CutKnown' /\ GivenKnown'
  BY <1>1 DEF AlertsKnown, OnlyReviewCuts, WaitedOver, Waiting, ListIsToday, CutKnown,
              GivenKnown, AlertsAreWhole
<1>3. AskedDates'
  BY <1>1 DEF AlertsKnown, AskedDates, Waiting
<1> QED
  BY <1>2, <1>3 DEF AlertsKnown

LEMMA MidnightAlerts ==
  ASSUME MemoryType, AlertsKnown, Midnight
  PROVE  AlertsKnown'
<1>1. /\ day' = day + 1 /\ evening' = FALSE
      /\ overran \subseteq overran'
      /\ \/ loop \in {"choosing", "gathering", "reviewing", "written"}
         \/ \E t \in Threads : Waiting(t)
         => day + 1 \in overran'
      /\ UNCHANGED <<loop, thread, ask, cache, seen>>
  BY DEF Midnight, process, Waiting
<1>2. day \in Nat /\ Days \subseteq Nat /\ \A c \in Callers : ask[c].today \in Nat
  BY DEF MemoryType, Days
<1>3. OnlyReviewCuts'
  BY <1>1 DEF AlertsKnown, OnlyReviewCuts
<1>4. \A c \in Callers : ask[c].today <= day
  BY DEF AlertsKnown, AskedDates
<1>5. \A c \in Callers : ask[c].today <= day + 1 /\ ask[c].today # day + 1
  BY <1>2, <1>4
<1>6. AskedDates'
  BY <1>1, <1>5 DEF AlertsKnown, AskedDates, Waiting
<1>7. WaitedOver'
  <2>1. \A x \in Days : x <= day + 1 => x = day + 1 \/ x <= day
    BY <1>2
  <2> QED
    BY <1>1, <2>1 DEF AlertsKnown, WaitedOver, Waiting
<1>8. ListIsToday'
  BY <1>1, <1>5, LoopCalls DEF AlertsKnown, ListIsToday
<1>9. CutKnown' /\ GivenKnown'
  BY <1>1 DEF AlertsKnown, CutKnown, GivenKnown, AlertsAreWhole
<1> QED
  BY <1>3, <1>6, <1>7, <1>8, <1>9 DEF AlertsKnown

LEMMA CrashAlerts ==
  ASSUME MemoryType, AlertsKnown, Crash
  PROVE  AlertsKnown'
<1>1. /\ loop' = "sleep" /\ cache'.rows = "none"
      /\ \A t \in Threads : thread'[t] = "idle" /\ seen'[t] = "nothing"
      /\ \A c \in Callers : ask'[c] = NotAsking
      /\ UNCHANGED <<day, evening, overran>>
  BY DEF Crash, clock, Idle, Unasked, NoList, Unseen
<1>2. 0 <= day
  BY DEF MemoryType, Days
<1>3. OnlyReviewCuts' /\ AskedDates'
  BY <1>1, <1>2, LoopCalls DEF OnlyReviewCuts, AskedDates, NotAsking
<1> QED
  BY <1>1, <1>3 DEF AlertsKnown, WaitedOver, Waiting, ListIsToday, CutKnown,
                    GivenKnown, AlertsAreWhole

LEMMA AlertsStep ==
  ASSUME MemoryType, AlertsKnown, [MemoryNext]_memory
  PROVE  AlertsKnown'
<1>1. CASE \/ UNCHANGED memory \/ EndTick \/ WriteReview \/ MarkReview \/ MarkFails
           \/ \E split \in BOOLEAN : Lesson(split)
  BY <1>1, AlertsRetired
     DEF memory, process, clock, histories, EndTick, WriteReview, MarkReview, MarkFails,
         Lesson
<1> QED
  BY <1>1, StartTickAlerts, LoopFetchesAlerts, StartGraphsAlerts, StartReviewAlerts,
     ReviewAsksAlerts, EntersGraphAlerts, ThreadFetchesAlerts, IsGivenAlerts,
     DecideAlerts, SessionEndsAlerts, MidnightAlerts, CrashAlerts
     DEF MemoryNext, Loop, Thread

-------------------------------------------------------------------------------
(* A day is reviewed once. *)

LEMMA ReviewsFinite ==
  ASSUME MemoryType, NEW d \in Days
  PROVE  IsFiniteSet(Reviews(d)) /\ Cardinality(Reviews(d)) \in Nat
<1>1. Len(offered) \in Nat /\ DOMAIN offered = 1..Len(offered)
  BY LenProperties DEF MemoryType, JournalType
<1>2. IsFiniteSet(1..Len(offered)) /\ Reviews(d) \in SUBSET (1..Len(offered))
  BY <1>1, FS_Interval DEF Reviews
<1> QED
  BY <1>2, FS_Subset, FS_CardinalityType

LEMMA ReviewsKept ==
  ASSUME MemoryType, UNCHANGED offered, NEW d \in Days
  PROVE  Cardinality(Reviews(d))' = Cardinality(Reviews(d))
BY DEF Reviews

LEMMA ReviewsGrow ==
  ASSUME MemoryType, NEW record \in Records, NEW how, Recorded(record, how),
         NEW d \in Days
  PROVE  Cardinality(Reviews(d))' = Cardinality(Reviews(d))
           + (IF record.source = "meta" /\ record.day = d THEN 1 ELSE 0)
<1> DEFINE m == Len(offered)
           old == Reviews(d)
           next == {i \in 1..(m + 1) : offered'[i].source = "meta" /\ offered'[i].day = d}
<1>1. /\ m \in Nat /\ DOMAIN offered = 1..m /\ DOMAIN offered' = 1..(m + 1)
      /\ offered'[m + 1] = record /\ \A i \in 1..m : offered'[i] = offered[i]
  BY HistoryGrows DEF MemoryType
<1>2. IsFiniteSet(old) /\ Cardinality(old) \in Nat
  BY ReviewsFinite
<1>3. old = {i \in 1..m : offered[i].source = "meta" /\ offered[i].day = d}
  BY <1>1 DEF Reviews
<1>4. Reviews(d)' = next
  BY <1>1 DEF Reviews
<1>5. \A i : i \in 1..(m + 1) <=> i \in 1..m \/ i = m + 1
  BY <1>1
<1>6. m + 1 \notin 1..m
  BY <1>1
<1> HIDE DEF m, old
<1>7. CASE record.source = "meta" /\ record.day = d
  <2>1. next = old \cup {m + 1} /\ m + 1 \notin old
    BY <1>1, <1>3, <1>5, <1>6, <1>7
  <2> HIDE DEF next
  <2>2. Cardinality(next) = Cardinality(old) + 1
    BY <1>2, <2>1, FS_AddElement
  <2> QED
    BY <1>4, <1>7, <2>2 DEF old
<1>8. CASE ~(record.source = "meta" /\ record.day = d)
  <2>1. next = old
    BY <1>1, <1>3, <1>5, <1>6, <1>8
  <2> QED
    <3> HIDE DEF next
    <3>1. Cardinality(Reviews(d)') = Cardinality(old) + 0
      BY <1>2, <1>4, <2>1
    <3> QED
      BY <1>8, <3>1 DEF old
<1> QED
  BY <1>7, <1>8

LEMMA ReviewsInit == MemoryInit => ReviewsCounted
<1> SUFFICES ASSUME MemoryInit, NEW d \in Days
             PROVE  Cardinality(Reviews(d)) <= slips[d] + (IF Settled(d) THEN 1 ELSE 0)
  BY DEF ReviewsCounted
<1>1. offered = <<>> /\ slips[d] = 0
  BY DEF MemoryInit, Empty
<1>2. Reviews(d) = {}
  BY <1>1 DEF Reviews
<1>3. Cardinality(Reviews(d)) = 0
  BY <1>2, FS_EmptySet
<1> QED
  BY <1>1, <1>3

\* A step that gives the journal no review and unsettles no day.
LEMMA ReviewsRetained ==
  ASSUME MemoryType, ReviewsCounted,
         \A d \in Days : Cardinality(Reviews(d))' = Cardinality(Reviews(d)),
         \A d \in Days : slips'[d] = slips[d] /\ (Settled(d) => Settled(d)')
  PROVE  ReviewsCounted'
<1> SUFFICES ASSUME NEW d \in Days
             PROVE  Cardinality(Reviews(d))' <= slips'[d] + (IF Settled(d)' THEN 1 ELSE 0)
  BY DEF ReviewsCounted
<1>1. PICK c \in Nat : c = Cardinality(Reviews(d))
  BY ReviewsFinite
<1>2. PICK s \in Nat : s = slips[d]
  BY DEF MemoryType
<1>3. c <= s + (IF Settled(d) THEN 1 ELSE 0)
  BY <1>1, <1>2 DEF ReviewsCounted
<1>4. c <= s + (IF Settled(d)' THEN 1 ELSE 0)
  <2>1. CASE Settled(d)
    BY <1>3, <2>1
  <2>2. CASE ~Settled(d)
    BY <1>3, <2>2
  <2> QED
    BY <2>1, <2>2
<1> QED
  BY <1>1, <1>2, <1>4

\* A record that is no review.
LEMMA OtherRecord ==
  ASSUME MemoryType, NEW record \in Records, record.source # "meta",
         \/ WriteRecord(record) \/ WriteFails(record) \/ CrashInWrite(record)
  PROVE  \A d \in Days : Cardinality(Reviews(d))' = Cardinality(Reviews(d))
<1> SUFFICES ASSUME NEW d \in Days
             PROVE  Cardinality(Reviews(d))' = Cardinality(Reviews(d))
  OBVIOUS
<1>1. PICK how \in Fates : Recorded(record, how)
  BY Recording DEF Fates, MemoryType
<1>2. Cardinality(Reviews(d))' = Cardinality(Reviews(d)) + 0
  BY <1>1, ReviewsGrow
<1> QED
  BY <1>2, ReviewsFinite

\* The review itself: its day gets one more, and is settled or has slipped.
LEMMA ReviewWritten ==
  ASSUME MemoryType, ReviewsCounted,
         NEW r \in Days, loop = "reviewing", reviewed = r,
         WriteRecord(Review) \/ WriteFails(Review) \/ CrashInWrite(Review),
         \A d \in Days \ {r} : slips'[d] = slips[d] /\ (Settled(d) => Settled(d)'),
         \/ slips'[r] = slips[r] /\ Settled(r)'
         \/ slips'[r] = slips[r] + 1
  PROVE  ReviewsCounted'
<1>1. Review \in Records
  BY ReviewPlain
<1>2. PICK how \in Fates : Recorded(Review, how)
  BY <1>1, Recording DEF Fates, MemoryType
<1>3. Review.source = "meta" /\ Review.day = r
  BY DEF Review
<1> SUFFICES ASSUME NEW d \in Days
             PROVE  Cardinality(Reviews(d))' <= slips'[d] + (IF Settled(d)' THEN 1 ELSE 0)
  BY DEF ReviewsCounted
<1>4. PICK c \in Nat : c = Cardinality(Reviews(d))
  BY ReviewsFinite
<1>5. PICK s \in Nat : s = slips[d]
  BY DEF MemoryType
<1>6. c <= s + (IF Settled(d) THEN 1 ELSE 0)
  BY <1>4, <1>5 DEF ReviewsCounted
<1>7. Cardinality(Reviews(d))' = c + (IF d = r THEN 1 ELSE 0)
  <2>1. Cardinality(Reviews(d))' = Cardinality(Reviews(d))
          + (IF Review.source = "meta" /\ Review.day = d THEN 1 ELSE 0)
    BY <1>1, <1>2, ReviewsGrow
  <2> QED
    BY <1>3, <1>4, <2>1
<1>8. CASE d = r
  <2>1. ~Settled(d)
    BY <1>8 DEF Settled
  <2>2. c <= s
    BY <1>6, <2>1
  <2>3. c + 1 <= slips'[d] + (IF Settled(d)' THEN 1 ELSE 0)
    <3>1. CASE slips'[r] = slips[r] /\ Settled(r)'
      <4>1. slips'[d] = s
        BY <1>5, <1>8, <3>1
      <4>2. Settled(d)'
        BY <1>8, <3>1
      <4> QED
        BY <2>2, <4>1, <4>2
    <3>2. CASE slips'[r] = slips[r] + 1
      BY <1>5, <1>8, <2>2, <3>2
    <3> QED
      BY <3>1, <3>2
  <2> QED
    BY <1>7, <1>8, <2>3
<1>9. CASE d # r
  <2>1. c <= s + (IF Settled(d)' THEN 1 ELSE 0)
    <3>1. CASE Settled(d)
      BY <1>6, <1>9, <3>1
    <3>2. CASE ~Settled(d)
      BY <1>6, <3>2
    <3> QED
      BY <3>1, <3>2
  <2>2. slips'[d] = s
    BY <1>5, <1>9
  <2> QED
    BY <1>4, <1>7, <1>9, <2>1, <2>2
<1> QED
  BY <1>8, <1>9

\* A review that keeps its place in the journal but is not marked.
LEMMA ReviewSlips ==
  ASSUME MemoryType, ReviewsCounted, reviewed \in Days, Slip,
         \A d \in Days : Cardinality(Reviews(d))' = Cardinality(Reviews(d)),
         \A d \in Days \ {reviewed} : Settled(d) => Settled(d)'
  PROVE  ReviewsCounted'
<1> SUFFICES ASSUME NEW d \in Days
             PROVE  Cardinality(Reviews(d))' <= slips'[d] + (IF Settled(d)' THEN 1 ELSE 0)
  BY DEF ReviewsCounted
<1>1. PICK c \in Nat : c = Cardinality(Reviews(d))
  BY ReviewsFinite
<1>2. PICK s \in Nat : s = slips[d]
  BY DEF MemoryType
<1>3. c <= s + (IF Settled(d) THEN 1 ELSE 0)
  BY <1>1, <1>2 DEF ReviewsCounted
<1>4. slips'[d] = IF d = reviewed THEN s + 1 ELSE s
  BY <1>2 DEF Slip, MemoryType
<1>5. c <= slips'[d] + (IF Settled(d)' THEN 1 ELSE 0)
  <2>1. CASE d = reviewed
    BY <1>3, <1>4, <2>1
  <2>2. CASE d # reviewed /\ Settled(d)
    BY <1>3, <1>4, <2>2
  <2>3. CASE d # reviewed /\ ~Settled(d)
    BY <1>3, <1>4, <2>3
  <2> QED
    BY <2>1, <2>2, <2>3
<1> QED
  BY <1>1, <1>5

LEMMA ReviewsStep ==
  ASSUME MemoryType, ReviewDated, JournalKnown, ReviewsCounted, [MemoryNext]_memory
  PROVE  ReviewsCounted'
<1>0. /\ day \in Nat /\ marker \in Nat /\ marker <= day /\ Days \subseteq Nat
      /\ \A x \in Days : x \in Nat /\ (x <= day => x = day \/ x < day)
  BY DEF MemoryType, Days
<1>1. CASE /\ UNCHANGED <<offered, slips, loop, reviewed, marker, day>>
  BY <1>1, ReviewsKept, ReviewsRetained DEF Settled
<1>2. CASE StartTick \/ LoopFetches \/ StartGraphs \/ EndTick \/ SessionEnds
           \/ \E t \in Threads : EntersGraph(t) \/ ThreadFetches(t) \/ IsGiven(t)
  <2>1. UNCHANGED <<offered, slips, reviewed, marker, day>>
    BY <1>2 DEF StartTick, LoopFetches, StartGraphs, EndTick, SessionEnds, EntersGraph,
                ThreadFetches, IsGiven, journal, process, clock, histories
  <2>2. loop' = loop \/ (loop' \in {"choosing", "trading", "sleep"} /\ loop # "written")
    BY <1>2 DEF StartTick, LoopFetches, StartGraphs, EndTick, SessionEnds, EntersGraph,
                ThreadFetches, IsGiven, process
  <2>3. \A d \in Days : Settled(d) => Settled(d)'
    BY <2>1, <2>2 DEF Settled
  <2> QED
    BY <2>1, <2>3, ReviewsKept, ReviewsRetained
<1>3. ASSUME NEW split \in BOOLEAN, Lesson(split)
      PROVE  ReviewsCounted'
  <2>1. UNCHANGED <<slips, loop, reviewed, marker, day>>
    BY <1>3 DEF Lesson, process, clock, histories
  <2>2. \A d \in Days : Cardinality(Reviews(d))' = Cardinality(Reviews(d))
    BY <1>3, OtherRecord DEF Lesson
  <2> QED
    BY <2>1, <2>2, ReviewsRetained DEF Settled
<1>4. ASSUME NEW t \in Threads, Decide(t)
      PROVE  ReviewsCounted'
  <2>1. UNCHANGED <<slips, loop, reviewed, marker, day>>
    BY <1>4 DEF Decide, clock, histories
  <2>2. \A d \in Days : Cardinality(Reviews(d))' = Cardinality(Reviews(d))
    <3>1. CASE UNCHANGED journal
      BY <3>1, ReviewsKept DEF journal
    <3>2. CASE \E split \in BOOLEAN :
                 /\ Hypothesis(split) \in Records
                 /\ WriteRecord(Hypothesis(split)) \/ WriteFails(Hypothesis(split))
      BY <3>2, OtherRecord DEF Hypothesis
    <3> QED
      BY <1>4, <3>1, <3>2 DEF Decide
  <2> QED
    BY <2>1, <2>2, ReviewsRetained DEF Settled
<1>5. CASE StartReview
  <2>1. /\ loop = "trading" /\ loop' = "gathering" /\ reviewed' = day /\ marker # day
        /\ UNCHANGED <<offered, slips, marker, day>>
    BY <1>5 DEF StartReview, ShouldRun, journal, clock, histories
  <2>2. \A d \in Days : Settled(d) => Settled(d)'
    BY <1>0, <2>1 DEF Settled
  <2> QED
    BY <2>1, <2>2, ReviewsKept, ReviewsRetained
<1>6. CASE ReviewAsks
  <2>1. /\ loop = "gathering" /\ loop' = "reviewing"
        /\ UNCHANGED <<offered, slips, reviewed, marker, day>>
    BY <1>6 DEF ReviewAsks, journal, clock, histories
  <2>2. \A d \in Days : Settled(d) => Settled(d)'
    BY <2>1 DEF Settled
  <2> QED
    BY <2>1, <2>2, ReviewsKept, ReviewsRetained
<1>7. CASE WriteReview
  <2>1. /\ loop = "reviewing" /\ loop' = "written"
        /\ WriteRecord(Review) \/ WriteFails(Review)
        /\ UNCHANGED <<slips, reviewed, marker, day>>
    BY <1>7 DEF WriteReview, clock, histories
  <2>2. reviewed \in Days
    BY <2>1 DEF ReviewDated
  <2>3. PICK r \in Days : r = reviewed
    BY <2>2
  <2>4. Settled(r)'
    BY <2>1, <2>3 DEF Settled
  <2>5. \A d \in Days : d # r /\ Settled(d) => Settled(d)'
    BY <2>1, <2>3 DEF Settled
  <2> QED
    BY <2>1, <2>3, <2>4, <2>5, ReviewWritten
<1>8. CASE MarkReview
  <2>1. /\ loop = "written" /\ loop' = "sleep" /\ marker' = day
        /\ UNCHANGED <<offered, slips, reviewed, day>>
    BY <1>8 DEF MarkReview, journal, clock, histories
  <2>2. reviewed \in Days /\ reviewed <= day /\ marker < reviewed
    BY <2>1 DEF ReviewDated
  <2>3. \A d \in Days : Settled(d) => d <= day
    <3> SUFFICES ASSUME NEW d \in Days, Settled(d) PROVE d <= day
      OBVIOUS
    <3>1. (loop = "written" /\ reviewed = d) \/ marker = d \/ d < day
      BY DEF Settled
    <3>2. CASE reviewed = d
      BY <2>2, <3>2
    <3>3. CASE marker = d
      BY <1>0, <3>3
    <3>4. CASE d < day
      BY <1>0, <3>4
    <3> QED
      BY <3>1, <3>2, <3>3, <3>4
  <2>4. \A d \in Days : d <= day => Settled(d)'
    BY <1>0, <2>1 DEF Settled
  <2>5. \A d \in Days : Settled(d) => Settled(d)'
    BY <2>3, <2>4
  <2> QED
    BY <2>1, <2>5, ReviewsKept, ReviewsRetained
<1>9. ASSUME loop \in {"gathering", "reviewing", "written"}
      PROVE  \A d \in Days \ {reviewed} : Settled(d) => d < day
  <2> SUFFICES ASSUME NEW d \in Days, d # reviewed, Settled(d) PROVE d < day
    OBVIOUS
  <2>1. marker = d \/ d < day
    BY DEF Settled
  <2>2. reviewed \in Days /\ reviewed <= day /\ marker < reviewed
    BY <1>9 DEF ReviewDated
  <2>3. marker < day
    BY <1>0, <2>2
  <2> QED
    BY <2>1, <2>3
<1>10. CASE MarkFails
  <2>1. /\ loop = "written" /\ loop' = "sleep" /\ Slip
        /\ UNCHANGED <<offered, reviewed, day>>
    BY <1>10 DEF MarkFails, journal, clock
  <2>2. reviewed \in Days
    BY <2>1 DEF ReviewDated
  <2>3. \A d \in Days \ {reviewed} : Settled(d) => Settled(d)'
    BY <1>9, <2>1 DEF Settled
  <2> QED
    BY <2>1, <2>2, <2>3, ReviewsKept, ReviewSlips
<1>11. CASE Midnight
  <2>1. /\ day' = day + 1
        /\ UNCHANGED <<offered, slips, loop, reviewed, marker>>
    BY <1>11 DEF Midnight, journal, process
  <2>2. \A d \in Days : d < day => d < day + 1
    BY <1>0
  <2>3. \A d \in Days : Settled(d) => Settled(d)'
    BY <2>1, <2>2 DEF Settled
  <2> QED
    BY <2>1, <2>3, ReviewsKept, ReviewsRetained
<1>12. CASE Crash
  <2>1. loop' = "sleep" /\ reviewed' = 0 /\ UNCHANGED day
    BY <1>12 DEF Crash, clock
  <2>2. \A d \in Days : d < day => Settled(d)'
    BY <2>1 DEF Settled
  <2>3. CASE loop = "written"
    <3>1. Slip
      BY <1>12, <2>3 DEF Crash
    <3>2. reviewed \in Days
      BY <2>3 DEF ReviewDated
    <3>3. \A d \in Days : Cardinality(Reviews(d))' = Cardinality(Reviews(d))
      <4>1. CASE CrashElsewhere
        BY <4>1, ReviewsKept DEF CrashElsewhere
      <4>2. CASE \E record \in Records : BeingWritten(record) /\ CrashInWrite(record)
        <5>1. PICK record \in Records : BeingWritten(record) /\ CrashInWrite(record)
          BY <4>2
        <5>2. record.source # "meta"
          BY <2>3, <5>1 DEF BeingWritten
        <5> QED
          BY <5>1, <5>2, OtherRecord
      <4> QED
        BY <1>12, <4>1, <4>2 DEF Crash
    <3>4. \A d \in Days \ {reviewed} : Settled(d) => Settled(d)'
      BY <1>9, <2>2, <2>3
    <3> QED
      BY <3>1, <3>2, <3>3, <3>4, ReviewSlips
  <2>4. ASSUME loop # "written", UNCHANGED <<slips, marker>>,
               \A d \in Days : Cardinality(Reviews(d))' = Cardinality(Reviews(d))
        PROVE  ReviewsCounted'
    <3>1. \A d \in Days : Settled(d) => Settled(d)'
      BY <2>1, <2>4 DEF Settled
    <3> QED
      BY <2>4, <3>1, ReviewsRetained
  <2>5. CASE loop # "written" /\ CrashElsewhere
    <3>1. offered' = offered
      BY <2>5 DEF CrashElsewhere
    <3>2. UNCHANGED <<slips, marker>>
      BY <1>12, <2>5, <3>1 DEF Crash
    <3> QED
      BY <2>4, <2>5, <3>1, <3>2, ReviewsKept
  <2>6. CASE loop # "written"
             /\ \E record \in Records : BeingWritten(record) /\ CrashInWrite(record)
    <3>1. PICK record \in Records : BeingWritten(record) /\ CrashInWrite(record)
      BY <2>6
    <3>2. Last(offered') = record /\ offered' # offered
      <4>1. offered' = Append(offered, record)
        BY <3>1 DEF CrashInWrite, Offer
      <4>2. /\ Len(offered) \in Nat /\ Len(offered') = Len(offered) + 1
            /\ offered'[Len(offered) + 1] = record
        BY <4>1, AppendProperties, LenProperties DEF MemoryType, JournalType
      <4>3. Len(offered) + 1 # Len(offered)
        BY <4>2
      <4> QED
        BY <4>2, <4>3 DEF Last
    <3>3. CASE record.source # "meta"
      <4>1. UNCHANGED <<slips, marker>>
        BY <1>12, <2>6, <3>2, <3>3 DEF Crash
      <4> QED
        BY <2>4, <2>6, <3>1, <3>3, <4>1, OtherRecord
    <3>4. CASE record.source = "meta"
      <4>1. loop = "reviewing" /\ record = Review
        BY <3>1, <3>4 DEF BeingWritten
      <4>2. Slip
        BY <1>12, <2>6, <3>2, <3>4 DEF Crash
      <4>3. reviewed \in Days
        BY <4>1 DEF ReviewDated
      <4>4. PICK r \in Days : r = reviewed
        BY <4>3
      <4>5. slips'[r] = slips[r] + 1 /\ \A d \in Days \ {r} : slips'[d] = slips[d]
        BY <4>2, <4>4 DEF Slip, MemoryType
      <4>6. \A d \in Days \ {r} : Settled(d) => Settled(d)'
        BY <1>9, <2>2, <4>1, <4>4
      <4> QED
        BY <3>1, <4>1, <4>4, <4>5, <4>6, ReviewWritten
    <3> QED
      BY <3>3, <3>4
  <2> QED
    BY <1>12, <2>3, <2>5, <2>6 DEF Crash
<1>13. CASE UNCHANGED memory
  <2>1. UNCHANGED <<offered, slips, loop, reviewed, marker, day>>
    BY <1>13 DEF memory, journal, process, clock, histories
  <2> QED
    BY <1>1, <2>1
<1> QED
  BY <1>2, <1>3, <1>4, <1>5, <1>6, <1>7, <1>8, <1>10, <1>11, <1>12, <1>13
     DEF MemoryNext, Loop, Thread

-------------------------------------------------------------------------------
(* The theorems. *)

MemoryInv ==
  MemoryType /\ ReviewDated /\ JournalKnown /\ AlertsKnown /\ ReviewsCounted

LEMMA JournalInit == MemoryInit => JournalKnown
<1> SUFFICES ASSUME MemoryInit PROVE JournalKnown
  OBVIOUS
<1>1. file = <<>> /\ offered = <<>>
  BY DEF MemoryInit, Empty
<1>2. IntactSet = {} /\ ~Unended(file)
  BY <1>1 DEF IntactSet, Unended
<1> QED
  BY <1>2 DEF JournalKnown, EndKnown, PlaceKnown

LEMMA MemoryInductive == MemorySpec => []MemoryInv
<1>1. MemoryInit => MemoryInv
  <2>1. MemoryInit => ReviewDated
    BY DEF MemoryInit, ReviewDated
  <2> QED
    BY <2>1, MemoryTypeInit, JournalInit, AlertsInit, ReviewsInit DEF MemoryInv
<1>2. MemoryInv /\ [MemoryNext]_memory => MemoryInv'
  BY MemoryTypeStep, JournalKept, AlertsStep, ReviewsStep DEF MemoryInv
<1> QED
  BY <1>1, <1>2, PTL DEF MemorySpec

\* Whatever writes to the journal of lessons, and wherever it stops or fails: a
\* recent record of plain text is returned, unless its own write failed or came
\* right after one that was cut off.
THEOREM IntactCorrect == MemorySpec => []IntactIsReturned
<1>1. MemoryInv => IntactIsReturned
  BY IntactFromPlace DEF MemoryInv, MemoryType, JournalKnown
<1> QED
  BY <1>1, MemoryInductive, PTL

\* A day gets one evening review, and one more for each that was cut short.
THEOREM ReviewCorrect == MemorySpec => []ReviewedOnce
<1>1. MemoryInv => ReviewedOnce
  <2> SUFFICES ASSUME MemoryInv, NEW d \in Days
               PROVE  Cardinality(Reviews(d)) <= 1 + slips[d]
    BY DEF ReviewedOnce
  <2>1. PICK c \in Nat : c = Cardinality(Reviews(d))
    BY ReviewsFinite DEF MemoryInv
  <2>2. PICK s \in Nat : s = slips[d]
    BY DEF MemoryInv, MemoryType
  <2>3. c <= s + (IF Settled(d) THEN 1 ELSE 0)
    BY <2>1, <2>2 DEF MemoryInv, ReviewsCounted
  <2>4. c <= 1 + s
    BY <2>3
  <2> QED
    BY <2>1, <2>2, <2>4
<1> QED
  BY <1>1, MemoryInductive, PTL

\* With any number of threads that outlive their tick, a decision sees the list
\* the review has shortened only for a date a request or a review ran into.
THEOREM AlertsCorrect == MemorySpec => []AlertsAreWhole
<1>1. MemoryInv => AlertsAreWhole
  BY DEF MemoryInv, AlertsKnown, GivenKnown
<1> QED
  BY <1>1, MemoryInductive, PTL
===============================================================================
