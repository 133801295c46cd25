-------------------------- MODULE TickThreads_proofs --------------------------
(***************************************************************************)
(* What the event loop and its threads keep, for any universe, cap, number *)
(* of slots and of threads, whatever times out and whenever it is stopped. *)
(***************************************************************************)
EXTENDS TickThreads, FiniteSetTheorems, SequenceTheorems, TLAPS

-------------------------------------------------------------------------------
(* The inductive invariant. *)

Outstanding == Queued \cup running \cup over

\* A call is in one place, and once in the queue.
CallsOnce ==
  /\ \A i, j \in DOMAIN queue : queue[i] = queue[j] => i = j
  /\ Queued \cap running = {} /\ Queued \cap over = {} /\ running \cap over = {}

\* What a graph run of this tick says about its coroutine.
GraphsBegun ==
  \A c \in Outstanding :
    /\ c.tick <= tick
    /\ c.kind = "graph" =>
         /\ c.ticker \in Tickers
         /\ c.tick = tick => stage # "read" /\ coro[c.ticker] \notin {"skipped", "waiting"}

\* Graph runs that wait, or whose result waits, have a caller.
GraphsAwaited ==
  \A c \in Queued \cup over :
    c.kind = "graph" => c.tick = tick /\ stage = "evaluate" /\ coro[c.ticker] = "inside"

\* The other calls: the read the loop waits for, or one order after another.
OthersAwaited ==
  \A c \in Outstanding :
    c.kind # "graph" =>
      \/ Stopped
      \/ stage = "read" /\ c = Read(step)
      \/ stage = "apply" /\ c.kind = "apply" /\ c.tick = tick

OneApply ==
  \A c, d \in Outstanding :
    c.kind = "apply" /\ d.kind = "apply" =>
      c = d /\ c.tick = tick /\ (stage = "apply" \/ Stopped)

SlotsTaken == stage = "evaluate" => free + Cardinality(InGraph) = Slots

StoppedQuiet == Stopped => queue = <<>> /\ over = {} /\ stage = "sleep"

ThreadsInv ==
  /\ TypeOK /\ IsFiniteSet(running) /\ (stage # "sleep" => tick > 0)
  /\ CallsOnce /\ GraphsBegun /\ GraphsAwaited /\ OthersAwaited /\ OneApply
  /\ SlotsTaken /\ StoppedQuiet
  /\ PositionsAreEvaluated /\ ResultsAreFresh

-------------------------------------------------------------------------------
(* The queue. *)

Members(q) == {q[i] : i \in DOMAIN q}
Once(q) == \A i, j \in DOMAIN q : q[i] = q[j] => i = j

LEMMA Appended ==
  ASSUME NEW S, NEW q \in Seq(S), NEW c \in S, Once(q), c \notin Members(q)
  PROVE  /\ Append(q, c) \in Seq(S)
         /\ Members(Append(q, c)) = Members(q) \cup {c}
         /\ Once(Append(q, c))
<1>1. /\ Append(q, c) \in Seq(S) /\ DOMAIN q = 1..Len(q) /\ Len(q) \in Nat
      /\ DOMAIN Append(q, c) = 1..(Len(q) + 1)
      /\ \A i \in 1..Len(q) : Append(q, c)[i] = q[i]
      /\ Append(q, c)[Len(q) + 1] = c
  OBVIOUS
<1>2. Members(Append(q, c)) = Members(q) \cup {c}
  BY <1>1 DEF Members
<1>3. Once(Append(q, c))
  BY <1>1 DEF Members, Once
<1> QED
  BY <1>1, <1>2, <1>3

LEMMA Taken ==
  ASSUME NEW S, NEW q \in Seq(S), q # <<>>, Once(q)
  PROVE  /\ Tail(q) \in Seq(S) /\ Head(q) \in Members(q) /\ Head(q) \in S
         /\ Members(Tail(q)) = Members(q) \ {Head(q)}
         /\ Once(Tail(q))
<1>1. /\ Tail(q) \in Seq(S) /\ DOMAIN q = 1..Len(q) /\ Len(q) \in Nat /\ Len(q) > 0
      /\ DOMAIN Tail(q) = 1..(Len(q) - 1)
      /\ \A i \in 1..(Len(q) - 1) : Tail(q)[i] = q[i + 1]
      /\ Head(q) = q[1] /\ q[1] \in S
  OBVIOUS
<1>2. \A i \in DOMAIN q : i = 1 \/ (i - 1 \in DOMAIN Tail(q) /\ q[i] = Tail(q)[i - 1])
  BY <1>1
<1>3. Members(Tail(q)) = Members(q) \ {Head(q)}
  <2>1. ASSUME NEW i \in DOMAIN Tail(q) PROVE Tail(q)[i] \in Members(q) \ {Head(q)}
    <3>1. i + 1 \in DOMAIN q /\ 1 \in DOMAIN q /\ i + 1 # 1
      BY <1>1
    <3> QED
      BY <1>1, <3>1 DEF Members, Once
  <2>2. ASSUME NEW i \in DOMAIN q, q[i] # Head(q) PROVE q[i] \in Members(Tail(q))
    BY <1>1, <1>2, <2>2 DEF Members
  <2> QED
    BY <2>1, <2>2 DEF Members
<1>4. Once(Tail(q))
  BY <1>1 DEF Once
<1>5. 1 \in DOMAIN q
  BY <1>1
<1> QED
  BY <1>1, <1>3, <1>4, <1>5 DEF Members

LEMMA Cancelled ==
  ASSUME queue \in Seq(Calls), Once(queue), NEW c
  PROVE  /\ Without(c) \in Seq(Calls)
         /\ Members(Without(c)) = Members(queue) \ {c}
         /\ Once(Without(c))
<1>1. CASE \E i \in DOMAIN queue : queue[i] = c
  <2> DEFINE k == CHOOSE i \in DOMAIN queue : queue[i] = c
             rest == SubSeq(queue, 1, k - 1) \o SubSeq(queue, k + 1, Len(queue))
  <2>1. k \in DOMAIN queue /\ queue[k] = c /\ Without(c) = rest
    BY <1>1 DEF Without
  <2>2. DOMAIN queue = 1..Len(queue) /\ Len(queue) \in Nat
    OBVIOUS
  <2> HIDE DEF k
  <2> DEFINE before == SubSeq(queue, 1, k - 1)
             after == SubSeq(queue, k + 1, Len(queue))
  <2>a. /\ before \in Seq(Calls) /\ Len(before) = k - 1
        /\ \A i \in 1..(k - 1) : before[i] = queue[i]
    BY <2>1, <2>2
  <2>b. /\ after \in Seq(Calls) /\ Len(after) = Len(queue) - k
        /\ \A i \in 1..(Len(queue) - k) : after[i] = queue[k + i]
    BY <2>1, <2>2
  <2>3. /\ rest = before \o after
        /\ k \in 1..Len(queue)
    BY <2>1, <2>2
  <2> HIDE DEF before, after, rest
  <2>4. /\ rest \in Seq(Calls) /\ Len(rest) = Len(queue) - 1
        /\ DOMAIN rest = 1..(Len(queue) - 1)
    BY <2>a, <2>b, <2>2, <2>3
  <2>5. \A i \in DOMAIN rest :
          (i < k /\ rest[i] = queue[i]) \/ (i >= k /\ rest[i] = queue[i + 1])
    <3> TAKE i \in DOMAIN rest
    <3>1. i \in 1..(Len(queue) - 1)
      BY <2>4
    <3>2. CASE i < k
      BY <2>a, <2>b, <2>2, <2>3, <3>1, <3>2
    <3>3. CASE i >= k
      <4>1. i - Len(before) \in 1..Len(after) /\ rest[i] = after[i - Len(before)]
        BY <2>a, <2>b, <2>2, <2>3, <3>1, <3>3
      <4>2. k + (i - Len(before)) = i + 1
        BY <2>a, <2>2, <2>3, <3>1
      <4> QED
        BY <2>b, <3>3, <4>1, <4>2
    <3> QED
      BY <2>3, <3>1, <3>2, <3>3
  <2>6. \A i \in DOMAIN queue : i = k \/ (i \in DOMAIN rest /\ i < k) \/ (i - 1 \in DOMAIN rest /\ i - 1 >= k)
    <3> TAKE i \in DOMAIN queue
    <3>1. i \in 1..Len(queue) /\ k \in 1..Len(queue) /\ Len(queue) \in Nat
      BY <2>2, <2>3
    <3>2. i < k => i \in 1..(Len(queue) - 1)
      BY <3>1
    <3>3. i > k => i - 1 \in 1..(Len(queue) - 1) /\ i - 1 >= k
      BY <3>1
    <3> QED
      BY <2>4, <3>1, <3>2, <3>3
  <2>7. Members(rest) = Members(queue) \ {c}
    <3>1. ASSUME NEW i \in DOMAIN rest PROVE rest[i] \in Members(queue) \ {c}
      BY <2>1, <2>2, <2>4, <2>5 DEF Members, Once
    <3>2. ASSUME NEW i \in DOMAIN queue, queue[i] # c PROVE queue[i] \in Members(rest)
      <4>1. i # k
        BY <2>1, <3>2
      <4>2. CASE i \in DOMAIN rest /\ i < k
        BY <2>3, <2>4, <2>5, <4>2 DEF Members
      <4>3. CASE i - 1 \in DOMAIN rest /\ i - 1 >= k
        <5>1. rest[i - 1] = queue[(i - 1) + 1] /\ (i - 1) + 1 = i
          <6>1. i \in Int /\ k \in Int
            BY <2>2, <2>3
          <6>2. ~(i - 1 < k)
            BY <4>3, <6>1
          <6> QED
            BY <2>5, <4>3, <6>1, <6>2
        <5> QED
          BY <4>3, <5>1 DEF Members
      <4> QED
        BY <2>6, <4>1, <4>2, <4>3
    <3> QED
      BY <3>1, <3>2 DEF Members
  <2>8. Once(rest)
    BY <2>1, <2>2, <2>4, <2>5 DEF Once
  <2> QED
    BY <2>1, <2>4, <2>7, <2>8
<1>2. CASE ~\E i \in DOMAIN queue : queue[i] = c
  BY <1>2 DEF Without, Members
<1> QED
  BY <1>1, <1>2

LEMMA ReadTypes ==
  /\ Len(Reads) = 4
  /\ \A n \in 1..4 : Reads[n] \in Kinds \ {"graph", "apply"}
  /\ \A m, n \in 1..4 : Reads[m] = Reads[n] => m = n
BY DEF Reads, Kinds

LEMMA InitInv == Init => ThreadsInv
<1> SUFFICES ASSUME Init PROVE ThreadsInv
  OBVIOUS
<1> USE NumbersAssumption DEF Init
<1>1. TypeOK /\ IsFiniteSet(running) /\ (stage # "sleep" => tick > 0)
  <2>1. Cardinality(running) = 0 /\ IsFiniteSet(running)
    BY FS_EmptySet
  <2> QED
    BY <2>1, ReadTypes DEF TypeOK
<1>2. CallsOnce /\ GraphsBegun /\ GraphsAwaited /\ OthersAwaited /\ OneApply
  BY DEF CallsOnce, GraphsBegun, GraphsAwaited, OthersAwaited, OneApply, Outstanding, Queued
<1>3. SlotsTaken /\ StoppedQuiet /\ PositionsAreEvaluated /\ ResultsAreFresh
  BY DEF SlotsTaken, StoppedQuiet, PositionsAreEvaluated, ResultsAreFresh, Stopped
<1> QED
  BY <1>1, <1>2, <1>3 DEF ThreadsInv
-------------------------------------------------------------------------------
(* What several steps share. *)

LEMMA Places ==
  ASSUME ThreadsInv
  PROVE  /\ queue \in Seq(Calls) /\ Once(queue)
         /\ Queued = Members(queue)
         /\ Queued \subseteq Calls /\ running \subseteq Calls /\ over \subseteq Calls
         /\ IsFiniteSet(running) /\ Cardinality(running) \in Nat
<1>1. queue \in Seq(Calls) /\ Once(queue) /\ Queued = Members(queue)
  BY DEF ThreadsInv, TypeOK, CallsOnce, Once, Members, Queued
<1>2. \A i \in DOMAIN queue : queue[i] \in Calls
  BY <1>1
<1>3. running \subseteq Calls /\ over \subseteq Calls /\ IsFiniteSet(running)
  BY DEF ThreadsInv, TypeOK
<1>4. Cardinality(running) \in Nat
  BY <1>3, FS_CardinalityType
<1> QED
  BY <1>1, <1>2, <1>3, <1>4 DEF Members

\* What phase 1 holds depends on the loop only.
LEMMA LoopKept ==
  ASSUME ThreadsInv, UNCHANGED <<tick, stage, held, coro, free, source>>
  PROVE  /\ SlotsTaken' /\ PositionsAreEvaluated' /\ ResultsAreFresh'
         /\ (stage # "sleep" => tick > 0)'
BY DEF ThreadsInv, SlotsTaken, PositionsAreEvaluated, ResultsAreFresh, InGraph, Batch

\* Calls that only move on.
LEMMA CallsKept ==
  ASSUME ThreadsInv, UNCHANGED <<tick, stage, step, coro, life>>,
         Outstanding' \subseteq Outstanding,
         \A c \in (Queued \cup over)' : c \in Queued \cup over \/ Awaited(c)
  PROVE  GraphsBegun' /\ GraphsAwaited' /\ OthersAwaited' /\ OneApply'
<1>1. GraphsBegun'
  BY DEF ThreadsInv, GraphsBegun
<1>2. GraphsAwaited'
  BY DEF ThreadsInv, GraphsAwaited, Awaited
<1>3. OthersAwaited'
  BY DEF ThreadsInv, OthersAwaited, Stopped, Read
<1>4. OneApply'
  BY DEF ThreadsInv, OneApply, Stopped
<1> QED
  BY <1>1, <1>2, <1>3, <1>4

\* A new call at the end of the queue.
LEMMA CallAdded ==
  ASSUME ThreadsInv, NEW c \in Calls, c \notin Outstanding,
         queue' = Append(queue, c), running' = running, over' \subseteq over
  PROVE  /\ queue' \in Seq(Calls)
         /\ Queued' = Queued \cup {c} /\ CallsOnce'
         /\ Outstanding' \subseteq Outstanding \cup {c}
         /\ (Queued \cup over)' \subseteq (Queued \cup over) \cup {c}
<1>1. c \notin Members(queue)
  BY Places DEF Outstanding
<1>2. queue' \in Seq(Calls) /\ Members(queue') = Members(queue) \cup {c} /\ Once(queue')
  BY <1>1, Places, Appended
<1>3. Queued' = Queued \cup {c}
  BY <1>2, Places DEF Members, Queued
<1>4. CallsOnce'
  BY <1>2, <1>3 DEF ThreadsInv, CallsOnce, Once, Outstanding
<1> QED
  BY <1>2, <1>3, <1>4 DEF Outstanding

-------------------------------------------------------------------------------
(* The executor. *)

LEMMA StartCallKeeps == ThreadsInv /\ StartCall => ThreadsInv'
<1> SUFFICES ASSUME ThreadsInv, StartCall PROVE ThreadsInv'
  OBVIOUS
<1> DEFINE h == Head(queue)
<1>1. /\ UNCHANGED <<tick, stage, step, held, coro, free, todo, source, over, life>>
      /\ queue # <<>> /\ Cardinality(running) < Workers
      /\ running' = running \cup {h} /\ queue' = Tail(queue)
  BY DEF StartCall, loop
<1>2. /\ queue' \in Seq(Calls) /\ h \in Queued /\ h \in Calls
      /\ Queued' = Queued \ {h} /\ Once(queue')
  <2>1. /\ queue' \in Seq(Calls) /\ h \in Members(queue) /\ h \in Calls
        /\ Members(queue') = Members(queue) \ {h} /\ Once(queue')
    BY <1>1, Places, Taken
  <2>2. Queued' = Members(queue')
    BY DEF Queued, Members
  <2> QED
    BY <2>1, <2>2, Places
<1> HIDE DEF h
<1>3. /\ h \notin running /\ h \notin over
      /\ Outstanding' = Outstanding /\ (Queued \cup over)' \subseteq Queued \cup over
  BY <1>1, <1>2 DEF ThreadsInv, CallsOnce, Outstanding
<1>4. IsFiniteSet(running') /\ Cardinality(running') = Cardinality(running) + 1
  BY <1>1, <1>3, Places, FS_AddElement
<1>5. Cardinality(running') <= Workers
  BY <1>1, <1>4, Places, NumbersAssumption
<1>6. TypeOK'
  BY <1>1, <1>2, <1>5, Places DEF ThreadsInv, TypeOK
<1>7. CallsOnce'
  BY <1>1, <1>2, <1>3 DEF ThreadsInv, CallsOnce, Once
<1>8. GraphsBegun' /\ GraphsAwaited' /\ OthersAwaited' /\ OneApply'
  BY <1>1, <1>3, CallsKept
<1>9. StoppedQuiet'
  BY <1>1 DEF ThreadsInv, StoppedQuiet, Stopped
<1> QED
  BY <1>1, <1>4, <1>6, <1>7, <1>8, <1>9, LoopKept DEF ThreadsInv

LEMMA EndCallKeeps ==
  ASSUME ThreadsInv, NEW c \in running, EndCall(c)
  PROVE  ThreadsInv'
<1>1. /\ UNCHANGED <<tick, stage, step, held, coro, free, todo, source, queue, life>>
      /\ running' = running \ {c}
      /\ over' \in {over, over \cup {c}} /\ (over' # over => Awaited(c))
  BY DEF EndCall, loop
<1>2. Queued' = Queued
  BY <1>1 DEF Queued
<1>3. c \in Calls /\ c \notin Queued /\ c \notin over
  BY Places DEF ThreadsInv, CallsOnce
<1>4. /\ Outstanding' \subseteq Outstanding
      /\ \A d \in (Queued \cup over)' : d \in Queued \cup over \/ Awaited(d)
  BY <1>1, <1>2 DEF Outstanding
<1>5. IsFiniteSet(running') /\ Cardinality(running') = Cardinality(running) - 1
  BY <1>1, Places, FS_RemoveElement
<1>6. Cardinality(running') <= Workers
  BY <1>5, Places, NumbersAssumption DEF ThreadsInv, TypeOK
<1>7. TypeOK'
  BY <1>1, <1>3, <1>6, Places DEF ThreadsInv, TypeOK
<1>8. CallsOnce'
  BY <1>1, <1>2, <1>3 DEF ThreadsInv, CallsOnce
<1>9. GraphsBegun' /\ GraphsAwaited' /\ OthersAwaited' /\ OneApply'
  BY <1>1, <1>4, CallsKept
<1>10. StoppedQuiet'
  BY <1>1 DEF ThreadsInv, StoppedQuiet, Stopped, Awaited
<1> QED
  BY <1>1, <1>5, <1>7, <1>8, <1>9, <1>10, LoopKept DEF ThreadsInv

-------------------------------------------------------------------------------
(* The reads and the batch. *)

LEMMA CallTypes ==
  ASSUME ThreadsInv, tick > 0
  PROVE  /\ \A n \in 1..4 : /\ Read(n) \in Calls /\ Read(n).tick = tick
                            /\ Read(n).kind = Reads[n]
                            /\ Read(n).kind # "graph" /\ Read(n).kind # "apply"
         /\ \A t \in Tickers : Graph(t) \in Calls /\ Apply(t) \in Calls
         /\ \A c \in Calls : c.kind = "graph" /\ c.tick = tick => c = Graph(c.ticker)
<1>1. tick \in 1..MaxTicks /\ tick \in 0..MaxTicks /\ MaxTicks \in Nat
  BY NumbersAssumption DEF ThreadsInv, TypeOK
<1>2. ASSUME NEW n \in 1..4
      PROVE  /\ Read(n) \in Calls /\ Read(n).tick = tick /\ Read(n).kind = Reads[n]
             /\ Read(n).kind # "graph" /\ Read(n).kind # "apply"
  BY <1>1, ReadTypes DEF Read, Calls
<1>3. ASSUME NEW t \in Tickers PROVE Graph(t) \in Calls /\ Apply(t) \in Calls
  BY <1>1 DEF Graph, Apply, Calls, Kinds
<1>4. \A c \in Calls : c.kind = "graph" /\ c.tick = tick => c = Graph(c.ticker)
  BY DEF Graph, Calls
<1> QED
  BY <1>2, <1>3, <1>4

\* While it reads, the loop waits for one call.
LEMMA Reading ==
  ASSUME ThreadsInv, stage = "read"
  PROVE  /\ tick > 0 /\ ~Stopped
         /\ \A c \in Outstanding : c.kind # "graph" => c = Read(step)
         /\ \A c \in Queued \cup over : c.kind # "graph"
         /\ \A c \in Outstanding : c.kind = "graph" => c.tick < tick
         /\ step \in 1..4
<1>1. tick > 0 /\ ~Stopped /\ step \in 1..4 /\ tick \in Nat
  BY ReadTypes, NumbersAssumption DEF ThreadsInv, StoppedQuiet, TypeOK
<1>2. \A c \in Outstanding : c.kind # "graph" => c = Read(step)
  BY <1>1 DEF ThreadsInv, OthersAwaited
<1>3. \A c \in Queued \cup over : c.kind # "graph"
  BY DEF ThreadsInv, GraphsAwaited
<1>4. ASSUME NEW c \in Outstanding, c.kind = "graph" PROVE c.tick < tick
  <2>1. c.tick <= tick /\ c.tick # tick
    BY <1>4 DEF ThreadsInv, GraphsBegun
  <2>2. c.tick \in Nat
    BY Places DEF Outstanding, Calls
  <2> QED
    BY <1>1, <2>1, <2>2
<1> QED
  BY <1>1, <1>2, <1>3, <1>4

LEMMA StartTickKeeps == ThreadsInv /\ StartTick => ThreadsInv'
<1> SUFFICES ASSUME ThreadsInv, StartTick PROVE ThreadsInv'
  OBVIOUS
<1> DEFINE c == [Read(1) EXCEPT !.tick = tick + 1]
<1>1. /\ stage = "sleep" /\ life = "up" /\ tick < MaxTicks
      /\ tick' = tick + 1 /\ stage' = "read" /\ step' = 1
      /\ coro' = [t \in Tickers |-> "skipped"]
      /\ queue' = Append(queue, c) /\ running' = running /\ over' = over
      /\ UNCHANGED <<held, free, todo, source, life>>
  BY DEF StartTick
<1>2. tick \in Nat /\ tick' \in 1..MaxTicks /\ ~Stopped /\ ~Stopped'
  BY <1>1, NumbersAssumption DEF ThreadsInv, TypeOK, Stopped
<1>3. c \in Calls /\ c.tick = tick + 1 /\ c.kind = "portfolio" /\ c = Read(step)'
  BY <1>1, <1>2 DEF Calls, Read, Reads, Kinds
<1> HIDE DEF c
<1>4. \A d \in Outstanding : d.tick \in Nat /\ d.tick <= tick /\ d.kind = "graph"
  BY <1>1, <1>2, Places DEF ThreadsInv, GraphsBegun, OthersAwaited, Outstanding, Calls
<1>5. c \notin Outstanding
  BY <1>2, <1>3, <1>4
<1>6. /\ queue' \in Seq(Calls) /\ Queued' = Queued \cup {c} /\ CallsOnce'
      /\ Outstanding' \subseteq Outstanding \cup {c}
      /\ (Queued \cup over)' \subseteq (Queued \cup over) \cup {c}
  BY <1>1, <1>3, <1>5, CallAdded
<1>7. TypeOK'
  BY <1>1, <1>2, <1>6, ReadTypes DEF ThreadsInv, TypeOK
<1>8. GraphsBegun'
  <2> SUFFICES ASSUME NEW d \in Outstanding'
               PROVE  d.tick <= tick' /\ (d.kind = "graph" => d.ticker \in Tickers /\ d.tick # tick')
    BY DEF GraphsBegun
  <2>1. CASE d = c
    BY <1>1, <1>2, <1>3, <2>1
  <2>2. CASE d \in Outstanding
    BY <1>1, <1>2, <1>4, <2>2 DEF ThreadsInv, GraphsBegun
  <2> QED
    BY <1>6, <2>1, <2>2
<1>9. GraphsAwaited'
  BY <1>1, <1>3, <1>6 DEF ThreadsInv, GraphsAwaited
<1>10. OthersAwaited'
  BY <1>1, <1>3, <1>4, <1>6 DEF OthersAwaited
<1>11. OneApply'
  BY <1>3, <1>4, <1>6 DEF OneApply
<1>12. SlotsTaken' /\ StoppedQuiet' /\ PositionsAreEvaluated' /\ ResultsAreFresh'
  BY <1>1, <1>2 DEF SlotsTaken, StoppedQuiet, PositionsAreEvaluated, ResultsAreFresh
<1>13. (IsFiniteSet(running) /\ (stage # "sleep" => tick > 0))'
  BY <1>1, <1>2 DEF ThreadsInv
<1> QED
  BY <1>6, <1>7, <1>8, <1>9, <1>10, <1>11, <1>12, <1>13 DEF ThreadsInv

LEMMA SkipTickKeeps == ThreadsInv /\ SkipTick => ThreadsInv'
<1> SUFFICES ASSUME ThreadsInv, SkipTick PROVE ThreadsInv'
  OBVIOUS
<1>1. /\ stage = "read" /\ Read(step) \in over
      /\ over' = over \ {Read(step)} /\ stage' = "sleep"
      /\ UNCHANGED <<tick, step, held, coro, free, todo, source, queue, running, life>>
  BY DEF SkipTick, loop
<1>2. /\ Queued' = Queued /\ Outstanding' \subseteq Outstanding
      /\ Read(step) \notin Outstanding' /\ (Stopped' <=> Stopped)
  BY <1>1 DEF Queued, Outstanding, ThreadsInv, CallsOnce, Stopped
<1>3. TypeOK' /\ CallsOnce'
  BY <1>1, <1>2 DEF ThreadsInv, TypeOK, CallsOnce
<1>4. \A d \in Outstanding' : d.kind = "graph"
  BY <1>1, <1>2, Reading
<1>5. GraphsBegun' /\ OthersAwaited' /\ OneApply'
  BY <1>1, <1>2, <1>4 DEF ThreadsInv, GraphsBegun, OthersAwaited, OneApply
<1>6. GraphsAwaited'
  BY <1>1, <1>2, Reading DEF GraphsAwaited
<1>7. SlotsTaken' /\ StoppedQuiet' /\ PositionsAreEvaluated' /\ ResultsAreFresh'
  BY <1>1, <1>2, Reading DEF SlotsTaken, StoppedQuiet, PositionsAreEvaluated, ResultsAreFresh
<1> QED
  BY <1>1, <1>3, <1>5, <1>6, <1>7 DEF ThreadsInv

LEMMA NextReadKeeps ==
  ASSUME ThreadsInv, NEW positions \in SUBSET Tickers, NextRead(positions)
  PROVE  ThreadsInv'
<1> DEFINE c == Read(step + 1)
<1>1. /\ stage = "read" /\ Read(step) \in over /\ step < Len(Reads)
      /\ over' = over \ {Read(step)} /\ step' = step + 1
      /\ queue' = Append(queue, c) /\ running' = running
      /\ UNCHANGED <<tick, stage, coro, free, todo, source, life>>
  BY DEF NextRead
<1>2. held' \subseteq Tickers
  BY DEF NextRead, ThreadsInv, TypeOK
<1>3. step + 1 \in 1..4 /\ step \in 1..4 /\ tick > 0 /\ (Stopped' <=> Stopped)
  BY <1>1, Reading, ReadTypes DEF Stopped
<1>4. c \in Calls /\ c.tick = tick /\ c.kind # "graph" /\ c.kind # "apply"
      /\ c.kind = Reads[step + 1] /\ c = Read(step)' /\ Read(step).kind = Reads[step]
  BY <1>1, <1>3, CallTypes DEF Read
<1> HIDE DEF c
<1>5. c # Read(step)
  BY <1>3, <1>4, ReadTypes
<1>6. c \notin Outstanding
  BY <1>1, <1>4, <1>5, Reading
<1>7. /\ queue' \in Seq(Calls) /\ Queued' = Queued \cup {c} /\ CallsOnce'
      /\ Outstanding' \subseteq Outstanding \cup {c}
      /\ (Queued \cup over)' \subseteq (Queued \cup over) \cup {c}
  BY <1>1, <1>4, <1>6, CallAdded
<1>8. Read(step) \notin Outstanding'
  BY <1>1, <1>5, <1>7 DEF Outstanding, ThreadsInv, CallsOnce
<1>9. TypeOK'
  BY <1>1, <1>2, <1>3, <1>7, ReadTypes DEF ThreadsInv, TypeOK
<1>10. GraphsBegun'
  <2> SUFFICES ASSUME NEW d \in Outstanding'
               PROVE  /\ d.tick <= tick
                      /\ d.kind = "graph" => d.ticker \in Tickers /\ d.tick # tick
    BY <1>1 DEF GraphsBegun
  <2>1. CASE d = c
    BY <1>4, <2>1 DEF Calls
  <2>2. CASE d \in Outstanding
    BY <1>1, <2>2 DEF ThreadsInv, GraphsBegun
  <2> QED
    BY <1>7, <2>1, <2>2
<1>11. GraphsAwaited'
  BY <1>1, <1>4, <1>7, Reading DEF GraphsAwaited
<1>12. OthersAwaited' /\ OneApply'
  BY <1>1, <1>4, <1>7, <1>8, Reading DEF OthersAwaited, OneApply
<1>13. SlotsTaken' /\ StoppedQuiet' /\ PositionsAreEvaluated' /\ ResultsAreFresh'
  BY <1>1, <1>3, Reading DEF SlotsTaken, StoppedQuiet, PositionsAreEvaluated, ResultsAreFresh
<1> QED
  BY <1>1, <1>3, <1>7, <1>9, <1>10, <1>11, <1>12, <1>13 DEF ThreadsInv

\* Every batch holds the positions, and no more than the cap but for them.
LEMMA BatchesHoldPositions ==
  ASSUME ThreadsInv, NEW alerts \in SUBSET Tickers, NEW batch \in Batches(held, alerts)
  PROVE  /\ batch \subseteq Tickers /\ held \subseteq batch
         /\ Cap > 0 => Cardinality(batch) <= IF Cardinality(held) > Cap
                                             THEN Cardinality(held) ELSE Cap
<1>1. /\ held \subseteq Tickers /\ IsFiniteSet(held) /\ Cardinality(held) \in Nat
      /\ Cap \in Nat /\ IsFiniteSet(Tickers) /\ Cardinality(Tickers) \in Nat
  BY TickersAssumption, NumbersAssumption, FS_Subset, FS_CardinalityType DEF ThreadsInv, TypeOK
<1>2. CASE Cap = 0 \/ Cap >= Cardinality(Tickers)
  BY <1>1, <1>2 DEF Batches
<1>3. CASE ~(Cap = 0 \/ Cap >= Cardinality(Tickers))
  <2> DEFINE rest == (Tickers \ held) \ alerts
             room == IF Cardinality(held) >= Cap THEN 0 ELSE Cap - Cardinality(held)
             size == IF room < Cardinality(rest) THEN room ELSE Cardinality(rest)
  <2>1. PICK others \in kSubset(size, rest) : batch = held \cup others
    BY <1>3 DEF Batches
  <2>2. IsFiniteSet(rest) /\ Cardinality(rest) \in Nat /\ rest \subseteq Tickers
    <3>1. rest \subseteq Tickers
      OBVIOUS
    <3> QED
      BY <3>1, TickersAssumption, FS_Subset, FS_CardinalityType
  <2>3. room \in Nat /\ (Cardinality(held) < Cap => room + Cardinality(held) = Cap)
        /\ (Cardinality(held) >= Cap => room = 0)
    BY <1>1
  <2> HIDE DEF rest, room
  <2>4. others \subseteq rest /\ Cardinality(others) <= room
    BY <2>2, <2>3 DEF kSubset
  <2>5. IsFiniteSet(others) /\ Cardinality(others) \in Nat
    BY <2>2, <2>4, FS_Subset, FS_CardinalityType
  <2>6. /\ Cardinality(held \cup others) <= Cardinality(held) + Cardinality(others)
        /\ Cardinality(held \cup others) \in Nat
    <3>1. IsFiniteSet(held \cup others) /\ IsFiniteSet(held \cap others)
      BY <1>1, <2>5, FS_Union, FS_Intersection
    <3>2. Cardinality(held \cup others) \in Nat /\ Cardinality(held \cap others) \in Nat
      BY <3>1, FS_CardinalityType
    <3>3. Cardinality(held \cup others)
            = Cardinality(held) + Cardinality(others) - Cardinality(held \cap others)
      BY <1>1, <2>5, FS_Union
    <3> QED
      BY <1>1, <2>5, <3>2, <3>3
  <2>7. Cardinality(batch) <= IF Cardinality(held) > Cap THEN Cardinality(held) ELSE Cap
    BY <1>1, <2>1, <2>3, <2>4, <2>5, <2>6
  <2> QED
    BY <1>1, <2>1, <2>2, <2>4, <2>7
<1> QED
  BY <1>2, <1>3

LEMMA StartPhase1Keeps ==
  ASSUME ThreadsInv, NEW alerts \in SUBSET Tickers, StartPhase1(alerts)
  PROVE  ThreadsInv'
<1>1. /\ stage = "read" /\ Read(Len(Reads)) \in over
      /\ over' = over \ {Read(Len(Reads))} /\ queue' = queue /\ running' = running
      /\ free' = Slots /\ stage' = "evaluate"
      /\ UNCHANGED <<tick, step, held, todo, source, life>>
  BY DEF StartPhase1
<1>2. PICK batch \in Batches(held, alerts) :
        coro' = [t \in Tickers |-> IF t \in batch THEN "waiting" ELSE "skipped"]
  BY DEF StartPhase1
<1>3. /\ Queued' = Queued /\ Outstanding' \subseteq Outstanding
      /\ (Stopped' <=> Stopped)
  BY <1>1 DEF Queued, Outstanding, Stopped
<1>4. Read(Len(Reads)) = Read(step) /\ Read(step) \notin Outstanding'
  <2>1. Len(Reads) \in 1..4 /\ tick > 0
    BY ReadTypes, <1>1, Reading
  <2>2. Read(Len(Reads)) = Read(step)
    BY <2>1, <1>1, Reading, CallTypes DEF Outstanding
  <2> QED
    BY <1>1, <1>3, <2>2 DEF Outstanding, ThreadsInv, CallsOnce
<1>5. \A d \in Outstanding' : d.kind = "graph" /\ d.tick < tick /\ d.ticker \in Tickers /\ d.tick <= tick
  BY <1>1, <1>3, <1>4, Reading DEF ThreadsInv, GraphsBegun
<1>6. TypeOK'
  BY <1>1, <1>2, NumbersAssumption DEF ThreadsInv, TypeOK
<1>7. CallsOnce'
  BY <1>1, <1>3 DEF ThreadsInv, CallsOnce
<1>8. GraphsBegun' /\ OthersAwaited' /\ OneApply'
  <2>1. \A d \in Outstanding' : d.tick # tick
    BY <1>5, Places, <1>3, NumbersAssumption DEF Outstanding, Calls, ThreadsInv, TypeOK
  <2> QED
    BY <1>1, <1>5, <2>1 DEF GraphsBegun, OthersAwaited, OneApply
<1>9. GraphsAwaited'
  <2>1. (Queued \cup over)' \subseteq Queued \cup over /\ (Queued \cup over)' \subseteq Outstanding'
    BY <1>1, <1>3 DEF Outstanding
  <2>2. (Queued \cup over)' = {}
    BY <1>1, <1>5, <2>1, Reading
  <2> QED
    BY <2>2 DEF GraphsAwaited
<1>10. SlotsTaken'
  <2>1. InGraph' = {}
    BY <1>2 DEF InGraph
  <2> QED
    BY <1>1, <2>1, FS_EmptySet, NumbersAssumption DEF SlotsTaken
<1>11. PositionsAreEvaluated'
  <2>1. Batch' = batch
    BY <1>2, BatchesHoldPositions DEF Batch
  <2> QED
    BY <1>1, <2>1, BatchesHoldPositions DEF PositionsAreEvaluated
<1>12. StoppedQuiet' /\ ResultsAreFresh'
  BY <1>1, <1>2, <1>3, Reading DEF StoppedQuiet, ResultsAreFresh
<1> QED
  BY <1>1, <1>6, <1>7, <1>8, <1>9, <1>10, <1>11, <1>12, Reading DEF ThreadsInv

-------------------------------------------------------------------------------
(* Phase 1. *)

LEMMA Evaluating ==
  ASSUME ThreadsInv, stage = "evaluate"
  PROVE  /\ tick > 0 /\ ~Stopped
         /\ \A c \in Outstanding : c.kind = "graph"
         /\ IsFiniteSet(InGraph) /\ Cardinality(InGraph) \in Nat
         /\ free + Cardinality(InGraph) = Slots
<1>1. tick > 0 /\ ~Stopped
  BY DEF ThreadsInv, StoppedQuiet
<1>2. \A c \in Outstanding : c.kind = "graph"
  BY <1>1 DEF ThreadsInv, OthersAwaited
<1>3. InGraph \subseteq Tickers
  BY DEF InGraph
<1> QED
  BY <1>1, <1>2, <1>3, TickersAssumption, FS_Subset, FS_CardinalityType DEF ThreadsInv, SlotsTaken

LEMMA EnterKeeps ==
  ASSUME ThreadsInv, NEW t \in Tickers, Enter(t)
  PROVE  ThreadsInv'
<1> DEFINE c == Graph(t)
<1>1. /\ stage = "evaluate" /\ coro[t] = "waiting" /\ free > 0
      /\ coro' = [coro EXCEPT ![t] = "inside"] /\ free' = free - 1
      /\ queue' = Append(queue, c) /\ running' = running /\ over' = over
      /\ UNCHANGED <<tick, stage, step, held, todo, source, life>>
  BY DEF Enter
<1>2. /\ coro \in [Tickers -> {"skipped", "waiting", "inside", "decided", "failed", "timed_out"}]
      /\ free \in 0..Slots /\ tick \in Nat
  BY DEF ThreadsInv, TypeOK
<1>3. c \in Calls /\ c.kind = "graph" /\ c.tick = tick /\ c.ticker = t
  BY <1>1, Evaluating, CallTypes DEF Graph
<1> HIDE DEF c
<1>4. c \notin Outstanding
  BY <1>1, <1>3 DEF ThreadsInv, GraphsBegun
<1>5. /\ queue' \in Seq(Calls) /\ Queued' = Queued \cup {c} /\ CallsOnce'
      /\ Outstanding' \subseteq Outstanding \cup {c}
      /\ (Queued \cup over)' \subseteq (Queued \cup over) \cup {c}
  BY <1>1, <1>3, <1>4, CallAdded
<1>6. TypeOK'
  BY <1>1, <1>2, <1>5, NumbersAssumption DEF ThreadsInv, TypeOK
<1>7. GraphsBegun'
  <2> SUFFICES ASSUME NEW d \in Outstanding'
               PROVE  /\ d.tick <= tick /\ d.ticker \in Tickers
                      /\ d.tick = tick => coro'[d.ticker] \notin {"skipped", "waiting"}
    BY <1>1, <1>3, <1>5, Evaluating DEF GraphsBegun
  <2>1. CASE d = c
    BY <1>1, <1>2, <1>3, <2>1
  <2>2. CASE d \in Outstanding
    BY <1>1, <1>2, <2>2, Evaluating DEF ThreadsInv, GraphsBegun
  <2> QED
    BY <1>5, <2>1, <2>2
<1>8. GraphsAwaited'
  <2> SUFFICES ASSUME NEW d \in (Queued \cup over)', d.kind = "graph"
               PROVE  d.tick = tick /\ coro'[d.ticker] = "inside"
    BY <1>1 DEF GraphsAwaited
  <2>1. CASE d = c
    BY <1>1, <1>2, <1>3, <2>1
  <2>2. CASE d \in Queued \cup over
    BY <1>1, <1>2, <2>2 DEF ThreadsInv, GraphsAwaited
  <2> QED
    BY <1>5, <2>1, <2>2
<1>9. OthersAwaited' /\ OneApply'
  BY <1>1, <1>3, <1>5, Evaluating DEF OthersAwaited, OneApply
<1>10. SlotsTaken'
  <2>1. InGraph' = InGraph \cup {t} /\ t \notin InGraph
    BY <1>1, <1>2 DEF InGraph
  <2>2. Cardinality(InGraph') = Cardinality(InGraph) + 1
    BY <1>1, <2>1, Evaluating, FS_AddElement
  <2> QED
    BY <1>1, <1>2, <2>2, Evaluating, NumbersAssumption DEF SlotsTaken
<1>11. Batch' = Batch
  BY <1>1, <1>2 DEF Batch
<1>12. PositionsAreEvaluated' /\ ResultsAreFresh' /\ StoppedQuiet'
  BY <1>1, <1>2, <1>11, Evaluating DEF ThreadsInv, PositionsAreEvaluated, ResultsAreFresh, StoppedQuiet, Stopped
<1> QED
  BY <1>1, <1>5, <1>6, <1>7, <1>8, <1>9, <1>10, <1>12, Evaluating DEF ThreadsInv

\* A coroutine leaves the graph, with a result or without.
LEMMA SlotGivenBack ==
  ASSUME ThreadsInv, stage = "evaluate", NEW t \in Tickers, coro[t] = "inside",
         NEW r \in {"decided", "failed", "timed_out"}, coro' = [coro EXCEPT ![t] = r],
         free' = free + 1, UNCHANGED <<tick, stage, held>>
  PROVE  /\ free' \in 0..Slots /\ SlotsTaken' /\ PositionsAreEvaluated'
         /\ coro' \in [Tickers -> {"skipped", "waiting", "inside", "decided", "failed", "timed_out"}]
<1>1. /\ coro \in [Tickers -> {"skipped", "waiting", "inside", "decided", "failed", "timed_out"}]
      /\ free \in 0..Slots
  BY DEF ThreadsInv, TypeOK
<1>2. InGraph' = InGraph \ {t} /\ t \in InGraph
  BY <1>1 DEF InGraph
<1>3. Cardinality(InGraph') = Cardinality(InGraph) - 1
  BY <1>2, Evaluating, FS_RemoveElement
<1>4. IsFiniteSet(InGraph') /\ Cardinality(InGraph') \in Nat
  BY <1>2, Evaluating, FS_Subset, FS_CardinalityType
<1>5. free' \in 0..Slots /\ SlotsTaken'
  BY <1>1, <1>3, <1>4, Evaluating, NumbersAssumption DEF SlotsTaken
<1>6. Batch' = Batch
  BY <1>1 DEF Batch
<1> QED
  BY <1>1, <1>5, <1>6 DEF ThreadsInv, PositionsAreEvaluated

\* Once the call of the coroutine is gone as well, the others are as before.
LEMMA CallGone ==
  ASSUME ThreadsInv, stage = "evaluate", NEW t \in Tickers, coro[t] = "inside",
         NEW r \in {"decided", "failed", "timed_out"}, coro' = [coro EXCEPT ![t] = r],
         Graph(t) \notin (Queued \cup over)',
         Queued' \subseteq Queued, over' \subseteq over, running' = running,
         UNCHANGED <<tick, stage, step, life>>
  PROVE  GraphsBegun' /\ GraphsAwaited' /\ OthersAwaited' /\ OneApply' /\ StoppedQuiet'
<1>1. coro \in [Tickers -> {"skipped", "waiting", "inside", "decided", "failed", "timed_out"}]
  BY DEF ThreadsInv, TypeOK
<1>2. Outstanding' \subseteq Outstanding /\ (Stopped' <=> Stopped)
  BY DEF Outstanding, Stopped
<1>3. GraphsBegun'
  BY <1>1, <1>2 DEF ThreadsInv, GraphsBegun
<1>4. GraphsAwaited'
  <2> SUFFICES ASSUME NEW d \in (Queued \cup over)', d.kind = "graph"
               PROVE  d.tick = tick /\ coro'[d.ticker] = "inside"
    BY DEF GraphsAwaited
  <2>1. d.tick = tick /\ coro[d.ticker] = "inside" /\ d \in Outstanding /\ d \in Calls
    BY Places DEF ThreadsInv, GraphsAwaited, Outstanding
  <2>2. d = Graph(d.ticker) /\ d.ticker \in Tickers
    BY <2>1, Evaluating, CallTypes DEF ThreadsInv, GraphsBegun
  <2>3. d.ticker # t
    BY <2>2
  <2> QED
    BY <1>1, <2>1, <2>2, <2>3
<1>5. OthersAwaited' /\ OneApply'
  BY <1>2, Evaluating DEF OthersAwaited, OneApply
<1>6. StoppedQuiet'
  BY <1>2, Evaluating DEF StoppedQuiet
<1> QED
  BY <1>3, <1>4, <1>5, <1>6

LEMMA ResumeKeeps ==
  ASSUME ThreadsInv, NEW t \in Tickers, NEW r \in {"decided", "failed"}, Resume(t, r)
  PROVE  ThreadsInv'
<1>1. /\ stage = "evaluate" /\ coro[t] = "inside"
      /\ coro' = [coro EXCEPT ![t] = r] /\ free' = free + 1
      /\ queue' = queue /\ running' = running
      /\ UNCHANGED <<tick, stage, step, held, todo, life>>
  BY DEF Resume
<1>2. PICK c \in over : /\ c.kind = "graph" /\ c.ticker = t
                        /\ over' = over \ {c} /\ source' = [source EXCEPT ![t] = c.tick]
  BY DEF Resume
<1>3. c.tick = tick /\ c = Graph(t) /\ tick \in 0..MaxTicks
  <2>1. c.tick = tick /\ tick \in 0..MaxTicks
    BY <1>2 DEF ThreadsInv, GraphsAwaited, TypeOK
  <2> QED
    BY <1>1, <1>2, <2>1, Places, Evaluating, CallTypes
<1>4. Queued' = Queued /\ Graph(t) \notin (Queued \cup over)'
  BY <1>1, <1>2, <1>3 DEF Queued, ThreadsInv, CallsOnce
<1>5. free' \in 0..Slots /\ SlotsTaken' /\ PositionsAreEvaluated'
      /\ coro' \in [Tickers -> {"skipped", "waiting", "inside", "decided", "failed", "timed_out"}]
  BY <1>1, SlotGivenBack
<1>6. TypeOK'
  BY <1>1, <1>2, <1>3, <1>5 DEF ThreadsInv, TypeOK
<1>7. CallsOnce'
  BY <1>1, <1>2, <1>4 DEF ThreadsInv, CallsOnce
<1>8. GraphsBegun' /\ GraphsAwaited' /\ OthersAwaited' /\ OneApply' /\ StoppedQuiet'
  BY <1>1, <1>2, <1>4, CallGone
<1>9. ResultsAreFresh'
  BY <1>1, <1>2, <1>3 DEF ThreadsInv, ResultsAreFresh, TypeOK
<1> QED
  BY <1>1, <1>5, <1>6, <1>7, <1>8, <1>9, Evaluating DEF ThreadsInv

LEMMA TimeOutKeeps ==
  ASSUME ThreadsInv, NEW t \in Tickers, TimeOut(t)
  PROVE  ThreadsInv'
<1>1. /\ stage = "evaluate" /\ coro[t] = "inside"
      /\ coro' = [coro EXCEPT ![t] = "timed_out"] /\ free' = free + 1
      /\ queue' = Without(Graph(t)) /\ over' = over \ {Graph(t)} /\ running' = running
      /\ UNCHANGED <<tick, stage, step, held, todo, source, life>>
  BY DEF TimeOut
<1>2. queue' \in Seq(Calls) /\ Once(queue') /\ Queued' = Queued \ {Graph(t)}
  <2>1. queue' \in Seq(Calls) /\ Once(queue') /\ Members(queue') = Members(queue) \ {Graph(t)}
    BY <1>1, Places, Cancelled
  <2>2. Queued' = Members(queue')
    BY DEF Queued, Members
  <2> QED
    BY <2>1, <2>2, Places
<1>3. free' \in 0..Slots /\ SlotsTaken' /\ PositionsAreEvaluated'
      /\ coro' \in [Tickers -> {"skipped", "waiting", "inside", "decided", "failed", "timed_out"}]
  BY <1>1, SlotGivenBack
<1>4. TypeOK'
  BY <1>1, <1>2, <1>3 DEF ThreadsInv, TypeOK
<1>5. CallsOnce'
  BY <1>1, <1>2 DEF ThreadsInv, CallsOnce, Once
<1>6. GraphsBegun' /\ GraphsAwaited' /\ OthersAwaited' /\ OneApply' /\ StoppedQuiet'
  BY <1>1, <1>2, CallGone
<1>7. ResultsAreFresh'
  BY <1>1 DEF ThreadsInv, ResultsAreFresh, TypeOK
<1> QED
  BY <1>1, <1>3, <1>4, <1>5, <1>6, <1>7, Evaluating DEF ThreadsInv

-------------------------------------------------------------------------------
(* Phase 2. *)

LEMMA StartPhase2Keeps == ThreadsInv /\ StartPhase2 => ThreadsInv'
<1> SUFFICES ASSUME ThreadsInv, StartPhase2 PROVE ThreadsInv'
  OBVIOUS
<1>1. /\ stage = "evaluate" /\ \A t \in Tickers : coro[t] \notin {"waiting", "inside"}
      /\ todo' \subseteq Tickers /\ stage' = "apply"
      /\ UNCHANGED <<tick, step, held, coro, free, queue, running, over, source, life>>
  BY DEF StartPhase2
<1>2. Queued' = Queued /\ Outstanding' = Outstanding /\ (Stopped' <=> Stopped) /\ Batch' = Batch
  BY <1>1 DEF Queued, Outstanding, Stopped, Batch
<1>3. TypeOK' /\ CallsOnce'
  BY <1>1, <1>2 DEF ThreadsInv, TypeOK, CallsOnce
<1>4. GraphsBegun' /\ OthersAwaited' /\ OneApply'
  BY <1>1, <1>2, Evaluating DEF ThreadsInv, GraphsBegun, OthersAwaited, OneApply
<1>5. \A c \in Queued \cup over : c.kind # "graph"
  BY <1>1 DEF ThreadsInv, GraphsAwaited, GraphsBegun, Outstanding
<1>6. GraphsAwaited'
  BY <1>1, <1>2, <1>5 DEF GraphsAwaited
<1>7. SlotsTaken' /\ StoppedQuiet' /\ PositionsAreEvaluated' /\ ResultsAreFresh'
  BY <1>1, <1>2, Evaluating
     DEF ThreadsInv, SlotsTaken, StoppedQuiet, PositionsAreEvaluated, ResultsAreFresh
<1> QED
  BY <1>1, <1>3, <1>4, <1>6, <1>7, Evaluating DEF ThreadsInv

\* While phase 2 applies, only its own call is waited for.
LEMMA InPhase2 ==
  ASSUME ThreadsInv, stage = "apply"
  PROVE  /\ tick > 0 /\ ~Stopped
         /\ \A c \in Outstanding : c.kind # "graph" => c.kind = "apply" /\ c.tick = tick
         /\ \A c \in Queued \cup over : c.kind # "graph"
<1>1. tick > 0 /\ ~Stopped
  BY DEF ThreadsInv, StoppedQuiet
<1> QED
  BY <1>1 DEF ThreadsInv, OthersAwaited, GraphsAwaited

LEMMA ApplyNextKeeps ==
  ASSUME ThreadsInv, NEW t \in Tickers, ApplyNext(t)
  PROVE  ThreadsInv'
<1> DEFINE c == Apply(t)
<1>1. /\ stage = "apply" /\ ~Applying
      /\ queue' = Append(queue, c) /\ running' = running /\ over' = over
      /\ UNCHANGED <<tick, stage, step, held, coro, free, todo, source, life>>
  BY DEF ApplyNext, loop
<1>2. c \in Calls /\ c.kind = "apply" /\ c.tick = tick
  BY <1>1, InPhase2, CallTypes DEF Apply
<1> HIDE DEF c
<1>3. \A d \in Outstanding : d.kind = "graph"
  BY <1>1, InPhase2 DEF Applying, Outstanding
<1>4. c \notin Outstanding
  BY <1>2, <1>3
<1>5. /\ queue' \in Seq(Calls) /\ Queued' = Queued \cup {c} /\ CallsOnce'
      /\ Outstanding' \subseteq Outstanding \cup {c}
      /\ (Queued \cup over)' \subseteq (Queued \cup over) \cup {c}
  BY <1>1, <1>2, <1>4, CallAdded
<1>6. TypeOK'
  BY <1>1, <1>5 DEF ThreadsInv, TypeOK
<1>7. GraphsBegun'
  <2>1. tick \in Nat
    BY DEF ThreadsInv, TypeOK
  <2> QED
    BY <1>1, <1>2, <1>5, <2>1 DEF ThreadsInv, GraphsBegun
<1>8. GraphsAwaited'
  BY <1>1, <1>2, <1>5, InPhase2 DEF GraphsAwaited
<1>9. OthersAwaited' /\ OneApply'
  BY <1>1, <1>2, <1>3, <1>5 DEF OthersAwaited, OneApply
<1>10. StoppedQuiet'
  BY <1>1, InPhase2 DEF StoppedQuiet, Stopped
<1> QED
  BY <1>1, <1>5, <1>6, <1>7, <1>8, <1>9, <1>10, LoopKept DEF ThreadsInv

LEMMA AppliedKeeps ==
  ASSUME ThreadsInv, NEW t \in Tickers, Applied(t)
  PROVE  ThreadsInv'
<1>1. /\ over' = over \ {Apply(t)} /\ todo' \subseteq todo
      /\ UNCHANGED <<tick, stage, step, held, coro, free, queue, running, source, life>>
  BY DEF Applied
<1>2. Queued' = Queued /\ Outstanding' \subseteq Outstanding
  BY <1>1 DEF Queued, Outstanding
<1>3. TypeOK' /\ CallsOnce' /\ StoppedQuiet'
  BY <1>1, <1>2 DEF ThreadsInv, TypeOK, CallsOnce, StoppedQuiet, Stopped
<1>4. GraphsBegun' /\ GraphsAwaited' /\ OthersAwaited' /\ OneApply'
  BY <1>1, <1>2, CallsKept
<1> QED
  BY <1>1, <1>3, <1>4, LoopKept DEF ThreadsInv

LEMMA EndTickKeeps == ThreadsInv /\ EndTick => ThreadsInv'
<1> SUFFICES ASSUME ThreadsInv, EndTick PROVE ThreadsInv'
  OBVIOUS
<1>1. /\ stage = "apply" /\ ~Applying /\ stage' = "sleep"
      /\ UNCHANGED <<tick, step, held, coro, free, todo, source, queue, running, over, life>>
  BY DEF EndTick, loop
<1>2. Queued' = Queued /\ Outstanding' = Outstanding /\ (Stopped' <=> Stopped)
  BY <1>1 DEF Queued, Outstanding, Stopped
<1>3. \A d \in Outstanding : d.kind = "graph"
  BY <1>1, InPhase2 DEF Applying, Outstanding
<1>4. TypeOK' /\ CallsOnce'
  BY <1>1, <1>2 DEF ThreadsInv, TypeOK, CallsOnce
<1>5. GraphsBegun' /\ OthersAwaited' /\ OneApply'
  BY <1>1, <1>2, <1>3 DEF ThreadsInv, GraphsBegun, OthersAwaited, OneApply
<1>6. GraphsAwaited'
  BY <1>1, <1>2, InPhase2 DEF GraphsAwaited
<1>7. SlotsTaken' /\ StoppedQuiet' /\ PositionsAreEvaluated' /\ ResultsAreFresh'
  BY <1>1, <1>2, InPhase2 DEF SlotsTaken, StoppedQuiet, PositionsAreEvaluated, ResultsAreFresh
<1> QED
  BY <1>1, <1>4, <1>5, <1>6, <1>7 DEF ThreadsInv

-------------------------------------------------------------------------------
(* The life of the process. *)

LEMMA StartKeeps == ThreadsInv /\ Start => ThreadsInv'
<1> SUFFICES ASSUME ThreadsInv, Start PROVE ThreadsInv'
  OBVIOUS
<1>1. /\ life = "down" /\ life' = "up"
      /\ UNCHANGED <<tick, step, held, coro, free, todo, source, stage, queue, running, over>>
  BY DEF Start, loop
<1>2. Queued' = Queued /\ Outstanding' = Outstanding /\ ~Stopped /\ ~Stopped'
  BY <1>1 DEF Queued, Outstanding, Stopped
<1>3. TypeOK' /\ CallsOnce' /\ StoppedQuiet'
  BY <1>1, <1>2 DEF ThreadsInv, TypeOK, CallsOnce, StoppedQuiet
<1>4. GraphsBegun' /\ GraphsAwaited' /\ OthersAwaited' /\ OneApply'
  BY <1>1, <1>2 DEF ThreadsInv, GraphsBegun, GraphsAwaited, OthersAwaited, OneApply, Read
<1> QED
  BY <1>1, <1>3, <1>4, LoopKept DEF ThreadsInv

LEMMA StopKeeps == ThreadsInv /\ Stop => ThreadsInv'
<1> SUFFICES ASSUME ThreadsInv, Stop PROVE ThreadsInv'
  OBVIOUS
<1>1. /\ life' = "stopping" /\ stage' = "sleep" /\ over' = {} /\ queue' = <<>>
      /\ UNCHANGED <<tick, step, held, coro, free, todo, source, running>>
      /\ life = "up"
  BY DEF Stop, loop
<1>2. /\ Queued' = {} /\ Outstanding' \subseteq Outstanding
      /\ ~Stopped /\ Stopped' /\ queue' \in Seq(Calls)
  BY <1>1 DEF Queued, Outstanding, Stopped
<1>3. TypeOK' /\ CallsOnce' /\ StoppedQuiet'
  BY <1>1, <1>2 DEF ThreadsInv, TypeOK, CallsOnce, StoppedQuiet
<1>4. GraphsBegun' /\ GraphsAwaited' /\ OthersAwaited' /\ OneApply'
  BY <1>1, <1>2 DEF ThreadsInv, GraphsBegun, GraphsAwaited, OthersAwaited, OneApply
<1>5. SlotsTaken' /\ PositionsAreEvaluated' /\ ResultsAreFresh'
  BY <1>1 DEF SlotsTaken, PositionsAreEvaluated, ResultsAreFresh
<1> QED
  BY <1>1, <1>3, <1>4, <1>5 DEF ThreadsInv

\* After stop() threads only end.
LEMMA EndingKeeps ==
  ASSUME ThreadsInv, Stopped, Stopped', running' \subseteq running,
         life' \in {"closed", "ended"},
         UNCHANGED <<tick, step, held, coro, free, todo, source, stage, queue, over>>
  PROVE  ThreadsInv'
<1>1. Queued' = Queued /\ Outstanding' \subseteq Outstanding
  BY DEF Queued, Outstanding
<1>2. IsFiniteSet(running') /\ Cardinality(running') <= Cardinality(running)
      /\ Cardinality(running') \in Nat
  BY Places, FS_Subset, FS_CardinalityType
<1>3. TypeOK'
  BY <1>2, Places, NumbersAssumption DEF ThreadsInv, TypeOK
<1>4. CallsOnce' /\ StoppedQuiet'
  BY <1>1 DEF ThreadsInv, CallsOnce, StoppedQuiet
<1>5. GraphsBegun' /\ GraphsAwaited' /\ OthersAwaited' /\ OneApply'
  BY <1>1 DEF ThreadsInv, GraphsBegun, GraphsAwaited, OthersAwaited, OneApply
<1> QED
  BY <1>2, <1>3, <1>4, <1>5, LoopKept DEF ThreadsInv

LEMMA LifeKeeps == ThreadsInv /\ Life => ThreadsInv'
<1> SUFFICES ASSUME ThreadsInv, Life PROVE ThreadsInv'
  OBVIOUS
<1>1. CASE CloseClient \/ Exit \/ Kill
  BY <1>1, EndingKeeps DEF CloseClient, Exit, Kill, Stopped, loop
<1> QED
  BY <1>1, StartKeeps, StopKeeps DEF Life

LEMMA IdleKeeps == ThreadsInv /\ UNCHANGED vars => ThreadsInv'
<1> SUFFICES ASSUME ThreadsInv, UNCHANGED vars PROVE ThreadsInv'
  OBVIOUS
<1>1. UNCHANGED <<tick, stage, step, held, coro, free, todo, queue, running, over, source, life>>
  BY DEF vars
<1>2. Queued' = Queued /\ Outstanding' = Outstanding
  BY <1>1 DEF Queued, Outstanding
<1>3. TypeOK' /\ CallsOnce' /\ StoppedQuiet'
  BY <1>1, <1>2 DEF ThreadsInv, TypeOK, CallsOnce, StoppedQuiet, Stopped
<1>4. GraphsBegun' /\ GraphsAwaited' /\ OthersAwaited' /\ OneApply'
  BY <1>1, <1>2, CallsKept
<1> QED
  BY <1>1, <1>3, <1>4, LoopKept DEF ThreadsInv

LEMMA StepKeeps == ThreadsInv /\ [Next]_vars => ThreadsInv'
<1> SUFFICES ASSUME ThreadsInv, [Next]_vars PROVE ThreadsInv'
  OBVIOUS
<1>1. CASE Step
  BY <1>1, StartTickKeeps, SkipTickKeeps, NextReadKeeps, StartPhase1Keeps, EnterKeeps,
     ResumeKeeps, ApplyNextKeeps, AppliedKeeps, StartPhase2Keeps, EndTickKeeps DEF Step
<1>2. CASE StartCall
  BY <1>2, StartCallKeeps
<1>3. CASE End
  BY <1>3, EndCallKeeps DEF End
<1>4. CASE Expire
  BY <1>4, TimeOutKeeps DEF Expire
<1>5. CASE Life
  BY <1>5, LifeKeeps
<1>6. CASE UNCHANGED vars
  BY <1>6, IdleKeeps
<1> QED
  BY <1>1, <1>2, <1>3, <1>4, <1>5, <1>6 DEF Next

-------------------------------------------------------------------------------
(* The theorems. *)

\* The inductive invariant: who waits for which call.
THEOREM InvCorrect == Spec => []ThreadsInv
<1>1. Init => ThreadsInv
  BY InitInv
<1>2. ThreadsInv /\ [Next]_vars => ThreadsInv'
  BY StepKeeps
<1> QED
  BY <1>1, <1>2, PTL DEF Spec

\* Every variable keeps its type; no more threads run than there are.
THEOREM TypeCorrect == Spec => []TypeOK
<1>1. ThreadsInv => TypeOK
  BY DEF ThreadsInv
<1> QED
  BY <1>1, InvCorrect, PTL

\* Whatever the cap and the alerts, no position is left out of phase 1.
THEOREM PositionsCorrect == Spec => []PositionsAreEvaluated
<1>1. ThreadsInv => PositionsAreEvaluated
  BY DEF ThreadsInv
<1> QED
  BY <1>1, InvCorrect, PTL

\* A run that outlives its tick gives its result to nobody.
THEOREM ResultsCorrect == Spec => []ResultsAreFresh
<1>1. ThreadsInv => ResultsAreFresh
  BY DEF ThreadsInv
<1> QED
  BY <1>1, InvCorrect, PTL

\* Never two tickers at a time in _apply_decision_with_risk.
THEOREM OneOrderCorrect == Spec => []OrdersOneAtATime
<1>1. ASSUME ThreadsInv PROVE OrdersOneAtATime
  <2> DEFINE A == {c \in Queued \cup running \cup over : c.kind = "apply"}
  <2>1. \A c, d \in A : c = d
    BY <1>1 DEF ThreadsInv, OneApply, Outstanding
  <2>2. CASE A = {}
    BY <2>2, FS_EmptySet DEF OrdersOneAtATime
  <2>3. CASE A # {}
    <3>1. PICK c \in A : TRUE
      BY <2>3
    <3>2. A = {c}
      BY <2>1, <3>1
    <3>3. Cardinality({c}) = 1
      BY FS_Singleton
    <3> QED
      BY <3>2, <3>3 DEF OrdersOneAtATime
  <2> QED
    BY <2>2, <2>3
<1> QED
  BY <1>1, InvCorrect, PTL

\* Cancelling the task leaves nothing in the queue to be begun later.
THEOREM NothingBegunCorrect == Spec => NothingBegunAfterStop
<1>1. ASSUME ThreadsInv, [Next]_vars PROVE Stopped => running' \subseteq running
  <2> SUFFICES ASSUME Stopped PROVE running' \subseteq running
    OBVIOUS
  <2>1. queue = <<>>
    BY <1>1 DEF ThreadsInv, StoppedQuiet
  <2>2. ~StartCall
    BY <2>1 DEF StartCall
  <2>3. CASE Step
    BY <2>3 DEF Step, StartTick, SkipTick, NextRead, StartPhase1, Enter, Resume, ApplyNext,
       Applied, StartPhase2, EndTick
  <2>4. CASE End
    BY <2>4 DEF End, EndCall
  <2>5. CASE Expire
    BY <2>5 DEF Expire, TimeOut
  <2>6. CASE Life
    BY <2>6 DEF Life, Start, Stop, CloseClient, Exit, Kill
  <2>7. CASE UNCHANGED vars
    BY <2>7 DEF vars
  <2> QED
    BY <1>1, <2>2, <2>3, <2>4, <2>5, <2>6, <2>7 DEF Next
<1> QED
  BY <1>1, InvCorrect, PTL DEF Spec, NothingBegunAfterStop

\* With as many threads as slots, only abandoned graph runs hold up a call.
THEOREM OrphansCorrect == Spec => []KeptWaitingByOrphansOnly
<1>1. ASSUME ThreadsInv PROVE KeptWaitingByOrphansOnly
  <2> SUFFICES ASSUME ~Stopped, Workers >= Slots, queue # <<>>,
                      Cardinality(running) = Workers, Orphans = {}
               PROVE  FALSE
    BY DEF KeptWaitingByOrphansOnly
  <2> DEFINE h == Head(queue)
  <2>1. h \in Queued /\ h \notin running /\ h \in Outstanding
    BY <1>1, Places, Taken DEF ThreadsInv, CallsOnce, Outstanding
  <2> HIDE DEF h
  <2>2. PICK c \in running : TRUE
    BY NumbersAssumption, FS_EmptySet
  <2>3. \A d \in running : d.kind = "graph" => Awaited(d)
    BY DEF Orphans
  <2>4. \A d \in running \cup {h} : d.kind = "graph" =>
          d.tick = tick /\ stage = "evaluate" /\ coro[d.ticker] = "inside"
    BY <1>1, <2>1, <2>3 DEF ThreadsInv, GraphsAwaited, Awaited
  <2>5. CASE stage # "evaluate"
    <3>1. h.kind # "graph" /\ c.kind # "graph" /\ c \in Outstanding
      BY <2>2, <2>4, <2>5 DEF Outstanding
    <3>2. h = c
      BY <1>1, <2>1, <3>1 DEF ThreadsInv, OthersAwaited, OneApply
    <3> QED
      BY <2>1, <2>2, <3>2
  <2>6. CASE stage = "evaluate"
    <3> DEFINE C == running \cup {h}
               f == [d \in C |-> d.ticker]
    <3>1. \A d \in C : d \in Outstanding /\ d \in Calls /\ d.kind = "graph" /\ d.tick = tick
                       /\ d.ticker \in InGraph
      BY <1>1, <2>1, <2>4, <2>6, Evaluating, Places DEF ThreadsInv, GraphsBegun, Outstanding, InGraph
    <3>2. f \in [C -> InGraph]
      BY <3>1
    <3>3. \A d, e \in C : f[d] = f[e] => d = e
      BY <1>1, <2>6, <3>1, Evaluating, CallTypes
    <3>4. IsFiniteSet(C) /\ Cardinality(C) = Workers + 1
      BY <1>1, <2>1, Places, FS_AddElement
    <3>5. Cardinality(InGraph) < Cardinality(C) /\ IsFiniteSet(InGraph)
      BY <1>1, <2>6, <3>4, Evaluating, NumbersAssumption DEF ThreadsInv, TypeOK
    <3> HIDE DEF C, f
    <3>6. \E d, e \in C : d # e /\ f[d] = f[e]
      BY <3>2, <3>4, <3>5, FS_PigeonHole
    <3> QED
      BY <3>3, <3>6
  <2> QED
    BY <2>5, <2>6
<1> QED
  BY <1>1, InvCorrect, PTL
================================================================================
