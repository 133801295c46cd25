------------------------------ MODULE Reflection ------------------------------
(***************************************************************************)
(* What the bot remembers between decisions.  Lessons go to one file that  *)
(* graph threads (a hypothesis before the trade), phase 2 (a lesson after  *)
(* a close) and the daily review of the event loop append to; the review   *)
(* leaves a marker with its date; the alerts of the exchange are kept in a *)
(* variable of the process, one list a day.  Files survive a restart, the  *)
(* variable does not, and midnight may come at any moment.                 *)
(***************************************************************************)
EXTENDS Journal

CONSTANTS
  Threads,   \* threads a graph run may be in
  MaxDays,   \* bound: days
  MaxSlips   \* bound: failures to leave the marker, per day

ASSUME ThreadsAssumption == IsFiniteSet(Threads) /\ "loop" \notin Threads
ASSUME DaysAssumption == MaxDays \in Nat \ {0} /\ MaxSlips \in Nat

Days == 1..MaxDays

\* Only for a review it matters what day it is about.
Reflections ==
  [source : {"hypothesis", "trade"}, day : {0}, split : BOOLEAN]
    \cup [source : {"meta"}, day : Days, split : {FALSE}]

ASSUME ReflectionsAssumption ==
  /\ Plain \subseteq {r \in Reflections : ~r.split}
  /\ Separated \subseteq {r \in Reflections : r.split}
  /\ \A d \in Days : [source |-> "meta", day |-> d, split |-> FALSE] \in Plain

VARIABLES
  day, evening,   \* the date, and whether the main session is over
  loop,           \* where the event loop is in its tick
  thread,         \* where each graph thread is
  ask,            \* per caller of fetch_mega_alerts_today: its date, its max_rows
  cache,          \* _ALERTS_CACHE
  marker,         \* date in meta_reflection_state.json, 0: none or unreadable
  reviewed,       \* the date run_meta_reflection took when it began
  seen,           \* history: the list each thread was given last
  overran,        \* history: dates that began during a request or a review
  slips           \* history: per date, reviews written but not marked

process == <<loop, thread, ask, cache, reviewed, seen>>
clock == <<day, evening>>
histories == <<overran, slips>>
memory == <<journal, process, clock, marker, histories>>

Callers == Threads \cup {"loop"}
NoList == [day |-> 0, rows |-> "none"]
NotAsking == [today |-> 0, few |-> FALSE]

Idle == [t \in Threads |-> "idle"]
Unasked == [c \in Callers |-> NotAsking]
Unseen == [t \in Threads |-> "nothing"]

MemoryInit ==
  /\ Empty
  /\ loop = "sleep" /\ thread = Idle /\ ask = Unasked
  /\ cache = NoList /\ reviewed = 0 /\ seen = Unseen
  /\ day = 1 /\ evening = FALSE
  /\ marker = 0
  /\ overran = {} /\ slips = [d \in Days |-> 0]

-------------------------------------------------------------------------------
(* fetch_mega_alerts_today, called from the event loop and from threads. *)

Asks(c, few) == ask' = [ask EXCEPT ![c] = [today |-> day, few |-> few]]

\* Only a list of the date the caller has taken is good enough.
Hit(c) == cache.day = ask[c].today

\* The exchange answers for the date asked for, or the list stays empty.
\* The meta review keeps max_rows of it, for everyone.
Stores(c) ==
  /\ ~Hit(c)
  /\ \E rows \in {"none", IF ask[c].few THEN "cut" ELSE "whole"} :
       cache' = [day |-> ask[c].today, rows |-> rows]

-------------------------------------------------------------------------------
(* The event loop. *)

\* Variant: the tick does not ask for the alerts itself.
StartTickBlind ==
  /\ loop = "sleep" /\ loop' = "trading"
  /\ UNCHANGED <<thread, ask, cache, reviewed, seen, journal, clock, marker, histories>>

\* A tick asks for the alerts of all its tickers before it starts any graph.
StartTick ==
  /\ loop = "sleep" /\ loop' = "choosing"
  /\ Asks("loop", FALSE)
  /\ UNCHANGED <<thread, cache, reviewed, seen, journal, clock, marker, histories>>

LoopFetches ==
  /\ loop \in {"choosing", "reviewing"} /\ Stores("loop")
  /\ UNCHANGED <<loop, thread, ask, reviewed, seen, journal, clock, marker, histories>>

StartGraphs ==
  /\ loop = "choosing" /\ Hit("loop") /\ loop' = "trading"
  /\ UNCHANGED <<thread, ask, cache, reviewed, seen, journal, clock, marker, histories>>

\* reflect_on_trade, in the thread of phase 2.
Lesson(split) ==
  /\ loop = "trading"
  /\ LET record == [source |-> "trade", day |-> 0, split |-> split]
     IN  record \in Records /\ (WriteRecord(record) \/ WriteFails(record))
  /\ UNCHANGED <<process, clock, marker, histories>>

\* Variant: the marker is not looked at.
ShouldRunAnyway == evening

\* should_run_meta_reflection, on a weekday.
ShouldRun == evening /\ marker # day

EndTick ==
  /\ loop = "trading" /\ ~ShouldRun /\ loop' = "sleep"
  /\ UNCHANGED <<thread, ask, cache, reviewed, seen, journal, clock, marker, histories>>

\* run_meta_reflection blocks the event loop from here to MarkReview.
StartReview ==
  /\ loop = "trading" /\ ShouldRun /\ loop' = "gathering"
  /\ reviewed' = day
  /\ UNCHANGED <<thread, ask, cache, seen, journal, clock, marker, histories>>

ReviewAsks ==
  /\ loop = "gathering" /\ loop' = "reviewing"
  /\ Asks("loop", TRUE)
  /\ UNCHANGED <<thread, cache, reviewed, seen, journal, clock, marker, histories>>

Review == [source |-> "meta", day |-> reviewed, split |-> FALSE]

WriteReview ==
  /\ loop = "reviewing" /\ Hit("loop") /\ loop' = "written"
  /\ WriteRecord(Review) \/ WriteFails(Review)
  /\ UNCHANGED <<thread, ask, cache, reviewed, seen, clock, marker, histories>>

\* The marker gets the date of the moment, not that of the review.
MarkReview ==
  /\ loop = "written" /\ loop' = "sleep"
  /\ marker' = day
  /\ UNCHANGED <<thread, ask, cache, reviewed, seen, journal, clock, histories>>

Slip == slips' = [slips EXCEPT ![reviewed] = @ + 1]

\* The exception ends the review; the file may have been emptied.
MarkFails ==
  /\ loop = "written" /\ loop' = "sleep"
  /\ Slip /\ marker' \in {marker, 0}
  /\ slips[reviewed] < MaxSlips
  /\ UNCHANGED <<thread, ask, cache, reviewed, seen, journal, clock, overran>>

-------------------------------------------------------------------------------
(* A graph run, in its thread; one that timed out goes on after its tick.  *)

EntersGraph(t) ==
  /\ loop = "trading" /\ thread[t] = "idle"
  /\ thread' = [thread EXCEPT ![t] = "asking"]
  /\ Asks(t, FALSE)
  /\ UNCHANGED <<loop, cache, reviewed, seen, journal, clock, marker, histories>>

ThreadFetches(t) ==
  /\ thread[t] = "asking" /\ Stores(t)
  /\ thread' = [thread EXCEPT ![t] = "stored"]
  /\ UNCHANGED <<loop, ask, reviewed, seen, journal, clock, marker, histories>>

\* What is returned is read from the variable again, whoever has set it since.
IsGiven(t) ==
  /\ thread[t] = "stored" \/ (thread[t] = "asking" /\ Hit(t))
  /\ thread' = [thread EXCEPT ![t] = "deciding"]
  /\ seen' = [seen EXCEPT ![t] = cache.rows]
  /\ UNCHANGED <<loop, ask, cache, reviewed, journal, clock, marker, histories>>

Hypothesis(split) == [source |-> "hypothesis", day |-> 0, split |-> split]

\* reflection_post_decision_node; nothing is written for HOLD.
Decide(t) ==
  /\ thread[t] = "deciding"
  /\ thread' = [thread EXCEPT ![t] = "idle"]
  /\ ask' = [ask EXCEPT ![t] = NotAsking] /\ seen' = [seen EXCEPT ![t] = "nothing"]
  /\ \/ UNCHANGED journal
     \/ \E split \in BOOLEAN :
          /\ Hypothesis(split) \in Records
          /\ WriteRecord(Hypothesis(split)) \/ WriteFails(Hypothesis(split))
  /\ UNCHANGED <<loop, cache, reviewed, clock, marker, histories>>

-------------------------------------------------------------------------------
(* Time and crashes. *)

\* Time-outs keep ticks and requests from lasting until the next evening.
SessionEnds ==
  /\ ~evening /\ evening' = TRUE
  /\ loop = "sleep" \/ ask["loop"].today = day
  /\ \A t \in Threads : thread[t] \in {"asking", "stored"} => ask[t].today = day
  /\ UNCHANGED <<day, journal, process, marker, histories>>

Midnight ==
  /\ evening /\ day < MaxDays
  /\ day' = day + 1 /\ evening' = FALSE
  /\ overran' = IF \/ loop \in {"choosing", "gathering", "reviewing", "written"}
                   \/ \E t \in Threads : thread[t] \in {"asking", "stored"}
                THEN overran \cup {day + 1} ELSE overran
  /\ UNCHANGED <<journal, process, marker, slips>>

\* The record the process may be writing.
BeingWritten(record) ==
  \/ record.source = "trade" /\ loop = "trading"
  \/ record.source = "hypothesis"
       /\ \E t \in Threads : thread[t] = "deciding"
  \/ loop = "reviewing" /\ Hit("loop") /\ record = Review

\* The process stops; between the lesson of a review and its marker the review
\* is one that will be repeated, and the marker may be left empty.
Crash ==
  /\ \/ CrashElsewhere
     \/ \E record \in Records : BeingWritten(record) /\ CrashInWrite(record)
  /\ loop' = "sleep" /\ thread' = Idle /\ ask' = Unasked
  /\ cache' = NoList /\ reviewed' = 0 /\ seen' = Unseen
  /\ IF loop = "written" THEN Slip /\ marker' \in {marker, 0, day}
     ELSE IF offered' # offered /\ Last(offered').source = "meta"
          THEN Slip /\ UNCHANGED marker
     ELSE UNCHANGED <<slips, marker>>
  /\ UNCHANGED <<clock, overran>>

Loop == StartTick \/ LoopFetches \/ StartGraphs \/ EndTick
        \/ (\E split \in BOOLEAN : Lesson(split))
        \/ StartReview \/ ReviewAsks \/ WriteReview \/ MarkReview \/ MarkFails

Thread(t) == EntersGraph(t) \/ ThreadFetches(t) \/ IsGiven(t) \/ Decide(t)

MemoryNext == Loop \/ (\E t \in Threads : Thread(t)) \/ SessionEnds \/ Midnight \/ Crash

MemorySpec == MemoryInit /\ [][MemoryNext]_memory

-------------------------------------------------------------------------------
(* Properties. *)

Reviews(d) == {i \in DOMAIN offered : offered[i].source = "meta" /\ offered[i].day = d}

\* A day is reviewed once, and once more for every review that was cut short
\* between its lesson and its marker: through restarts, unwritable markers and
\* reviews that run over midnight.
ReviewedOnce == \A d \in Days : Cardinality(Reviews(d)) <= 1 + slips[d]

\* The few rows the review keeps never reach a decision: a graph sees the whole
\* list of alerts or none at all, through restarts in the evening and threads
\* that outlive their tick; only a request or a review that runs over midnight
\* can change that, for the date that begins.
AlertsAreWhole ==
  \A t \in Threads :
    seen[t] = "cut" => \E d \in overran : d >= ask[t].today
===============================================================================
