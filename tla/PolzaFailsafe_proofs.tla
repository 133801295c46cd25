------------------------- MODULE PolzaFailsafe_proofs -------------------------
(***************************************************************************)
(* What the journal may tell of the balance is never older than what the   *)
(* checks have seen, unless a recovery was not written, and as long as the *)
(* record of the depletion is among the lines a restart reads, it is       *)
(* exactly that.  Closing works on the positions it has read, which        *)
(* nothing else moves while every order is executed once.                  *)
(***************************************************************************)
EXTENDS PolzaFailsafe, WellFoundedInduction, TLAPS

Records == [event : {"depleted", "recovered", "other"}, age : Ages]
FileLines == [record : Records, readable : BOOLEAN, ended : BOOLEAN]

\* The k-th line from the end.
Back(f, k) == f[Len(f) - k + 1]

\* An order is sent for a position that is still to be closed.
CallInv ==
  call # NoCall =>
    phase = "closing" /\ call.t \in todo /\ call.delta = -read[call.t]

\* What has been read is what the broker holds, until the order is executed.
ReadInv ==
  exact =>
    /\ phase = "checking" => read = pos
    /\ \A t \in todo : (call = NoCall \/ t # call.t \/ call.fills = 0) => pos[t] = read[t]

Speaks(line) == line.readable /\ line.record.event # "other"

Says(record) == IF record.event = "recovered" THEN Never ELSE record.age

\* The k-th line from the end is one that a restart may go by, now or once the
\* last line, if it has no newline, has been made unreadable by the next.
Candidate(f, k) ==
  /\ k \in 1..Len(f) /\ Speaks(Back(f, k))
  /\ \A j \in 1..(k - 1) : ~(Speaks(Back(f, j)) /\ Back(f, j).ended)

Dates(f) == {Says(Back(f, k).record) : k \in {k \in 1..Len(f) : Candidate(f, k)}}

\* Of two such lines the earlier one says what the later one says, or nothing.
Agree(f) ==
  \A k \in 1..Len(f) : \A j \in 1..(k - 1) :
    Candidate(f, j) /\ Candidate(f, k)
      => Says(Back(f, k).record) \in {Never, Says(Back(f, j).record)}

ShortFile == Len(file) <= TailLines

\* Neither memory nor journal dates the depletion back.
NotEarlyInv ==
  ~stale =>
    /\ depletedAt <= lowFor
    /\ \A d \in Dates(file) : d <= lowFor
    /\ up => Dates(file) \subseteq {Never, depletedAt}
    /\ Agree(file)

\* The record of the depletion is the last one about the balance, and has its
\* age; so has the process.
DatedBy(f, n, age) ==
  /\ n \in 1..Len(f) /\ Back(f, n) = Line(Depleted(age), TRUE, TRUE)
  /\ \A k \in 1..(n - 1) : ~Speaks(Back(f, k))

GraceInv ==
  /\ lowFor = Never => since = TailLines
  /\ lowFor # Never /\ since < TailLines =>
       /\ \E n \in 1..since : DatedBy(file, n, lowFor)
       /\ up => depletedAt = lowFor

ClosingInv == TypeOK /\ CallInv /\ ReadInv
DateInv == TypeOK /\ ShortFile /\ NotEarlyInv /\ GraceInv

-------------------------------------------------------------------------------
(* Lines of the journal. *)

LEMMA LineType ==
  ASSUME NEW record \in Records, NEW readable \in BOOLEAN, NEW ended \in BOOLEAN
  PROVE  Line(record, readable, ended) \in FileLines
BY DEF Line, FileLines

LEMMA RecordTypes ==
  /\ 0 \in Ages /\ Grace \in Ages /\ Grace \in Nat /\ Never \notin Ages
  /\ \A age \in Ages : Depleted(age) \in Records
  /\ Recovered \in Records /\ Other \in Records
BY GraceAssumption DEF Ages, Never, Records, Depleted, Recovered, Other

LEMMA OtherType == Other \in Records
BY RecordTypes

LEMMA FileType == TypeOK => file \in Seq(FileLines)
BY DEF TypeOK, FileLines, Records

LEMMA AddLineType ==
  ASSUME NEW f \in Seq(FileLines), NEW record \in Records,
         NEW readable \in BOOLEAN, NEW ended \in BOOLEAN
  PROVE  AddLine(f, record, readable, ended) \in Seq(FileLines)
<1>1. CASE Unended(f)
  <2>1. Len(f) \in Nat /\ Len(f) > 0 /\ f[Len(f)] \in FileLines
    BY <1>1 DEF Unended
  <2>2. [f[Len(f)] EXCEPT !.readable = FALSE, !.ended = ended] \in FileLines
    BY <2>1 DEF FileLines
  <2>3. SubSeq(f, 1, Len(f) - 1) \in Seq(FileLines)
    BY <2>1
  <2> QED
    BY <1>1, <2>2, <2>3 DEF AddLine, Front, Last
<1>2. CASE ~Unended(f)
  BY <1>2, LineType DEF AddLine
<1> QED
  BY <1>1, <1>2

\* What is kept are the last lines, counted from the end as before.
LEMMA KeptLines ==
  ASSUME NEW f \in Seq(FileLines)
  PROVE  /\ Kept(f) \in Seq(FileLines)
         /\ Len(Kept(f)) = IF Len(f) > TailLines THEN TailLines ELSE Len(f)
         /\ \A k \in 1..Len(Kept(f)) : Back(Kept(f), k) = Back(f, k)
<1>1. Len(f) \in Nat /\ TailLines \in Nat /\ TailLines > 0
  BY TailAssumption
<1>2. CASE Len(f) > TailLines
  <2> DEFINE m == Len(f) - TailLines + 1
             g == SubSeq(f, m, Len(f))
  <2>1. m \in 1..Len(f) /\ Len(f) - m + 1 = TailLines
    BY <1>1, <1>2
  <2>2. Kept(f) = g
    BY <1>2 DEF Kept, LastLines
  <2>3. g \in Seq(FileLines) /\ Len(g) = TailLines
        /\ \A i \in 1..TailLines : g[i] = f[m + i - 1]
    <3> HIDE DEF m
    <3> QED
      BY <1>1, <2>1
  <2>4. ASSUME NEW k \in 1..TailLines
        PROVE  g[TailLines - k + 1] = f[Len(f) - k + 1]
    <3>1. TailLines - k + 1 \in 1..TailLines
          /\ m + (TailLines - k + 1) - 1 = Len(f) - k + 1
      BY <1>1
    <3> HIDE DEF m, g
    <3> QED
      BY <2>3, <3>1
  <2> HIDE DEF g
  <2> QED
    BY <1>2, <2>2, <2>3, <2>4 DEF Back
<1>3. CASE ~(Len(f) > TailLines)
  BY <1>3 DEF Kept, LastLines
<1> QED
  BY <1>2, <1>3

\* A line that is added is the last one; the others move back by one.
LEMMA AppendLines ==
  ASSUME NEW f \in Seq(FileLines), NEW line \in FileLines
  PROVE  /\ Append(f, line) \in Seq(FileLines)
         /\ Len(Append(f, line)) = Len(f) + 1
         /\ Back(Append(f, line), 1) = line
         /\ \A k \in 1..Len(f) : Back(Append(f, line), k + 1) = Back(f, k)
<1>1. Len(f) \in Nat
  OBVIOUS
<1> DEFINE g == Append(f, line)
<1>2. g \in Seq(FileLines) /\ Len(g) = Len(f) + 1 /\ g[Len(f) + 1] = line
      /\ \A i \in 1..Len(f) : g[i] = f[i]
  OBVIOUS
<1> HIDE DEF g
<1>3. Back(g, 1) = line
  <2>1. Len(g) - 1 + 1 = Len(f) + 1
    BY <1>1, <1>2
  <2> QED
    BY <1>2, <2>1 DEF Back
<1>4. ASSUME NEW k \in 1..Len(f)
      PROVE  Back(g, k + 1) = Back(f, k)
  <2>1. Len(g) - (k + 1) + 1 = Len(f) - k + 1 /\ Len(f) - k + 1 \in 1..Len(f)
    BY <1>1, <1>2
  <2> QED
    BY <1>2, <2>1 DEF Back
<1> QED
  BY <1>2, <1>3, <1>4 DEF g

-------------------------------------------------------------------------------
(* What a restart reads: the last line about the balance decides. *)

\* The n-th line from the end is the last one about the balance.
Decides(f, n) ==
  /\ n \in 1..Len(f) /\ Speaks(Back(f, n))
  /\ \A k \in 1..(n - 1) : ~Speaks(Back(f, k))

Silent(f) == \A k \in 1..Len(f) : ~Speaks(Back(f, k))

LessThan == {pair \in Nat \X Nat : pair[1] < pair[2]}

LEMMA LeastElement ==
  ASSUME NEW T \in SUBSET Nat, T # {}
  PROVE  \E m \in T : \A k \in T : m <= k
<1>1. IsWellFoundedOn(LessThan, Nat)
  <2>1. OpToRel(<, Nat) = LessThan
    BY DEF OpToRel, LessThan
  <2> QED
    BY <2>1, NatLessThanWellFounded
<1>2. PICK m \in T : \A k \in T : ~(<<k, m>> \in LessThan)
  BY <1>1, WFMin
<1>3. \A k \in T : ~(k < m)
  BY <1>2 DEF LessThan
<1> QED
  BY <1>3

LEMMA SilentOrDecided ==
  ASSUME NEW f \in Seq(FileLines)
  PROVE  Silent(f) \/ \E n \in 1..Len(f) : Decides(f, n)
<1> DEFINE T == {k \in 1..Len(f) : Speaks(Back(f, k))}
<1>1. CASE T = {}
  BY <1>1 DEF Silent
<1>2. CASE T # {}
  <2>1. T \in SUBSET Nat /\ Len(f) \in Nat
    OBVIOUS
  <2>2. PICK n \in T : \A k \in T : n <= k
    <3> HIDE DEF T
    <3> QED
      BY <1>2, <2>1, LeastElement
  <2>3. \A k \in 1..(n - 1) : k \notin T /\ k \in 1..Len(f)
    BY <2>1, <2>2
  <2> QED
    BY <2>2, <2>3 DEF Decides
<1> QED
  BY <1>1, <1>2

LEMMA AboutBack ==
  ASSUME NEW f \in Seq(FileLines), NEW i \in 1..Len(f)
  PROVE  /\ Len(f) - i + 1 \in 1..Len(f)
         /\ Back(f, Len(f) - i + 1) = f[i]
         /\ i \in About(f) <=> Speaks(Back(f, Len(f) - i + 1))
<1>1. Len(f) \in Nat /\ Len(f) - (Len(f) - i + 1) + 1 = i
  OBVIOUS
<1>2. Back(f, Len(f) - i + 1) = f[i]
  BY <1>1 DEF Back
<1> QED
  BY <1>1, <1>2 DEF About, Speaks

LEMMA LoadOfSilent ==
  ASSUME NEW f \in Seq(FileLines), Silent(Kept(f))
  PROVE  Load(f) = Never
<1>1. Kept(f) \in Seq(FileLines)
  BY KeptLines
<1>2. About(Kept(f)) = {}
  <2>1. ASSUME NEW i \in About(Kept(f)) PROVE FALSE
    <3>1. i \in 1..Len(Kept(f))
      BY <1>1 DEF About
    <3> QED
      BY <1>1, <2>1, <3>1, AboutBack DEF Silent
  <2> QED
    BY <2>1
<1> QED
  BY <1>2 DEF Load

LEMMA LoadOfDecided ==
  ASSUME NEW f \in Seq(FileLines), NEW n \in 1..Len(Kept(f)), Decides(Kept(f), n)
  PROVE  Load(f) = Says(Back(Kept(f), n).record)
<1> DEFINE lines == Kept(f)
           last == Len(lines) - n + 1
<1>1. lines \in Seq(FileLines) /\ Len(lines) \in Nat /\ n \in 1..Len(lines)
  BY KeptLines
<1>2. last \in 1..Len(lines) /\ Len(lines) - last + 1 = n
      /\ lines[last] = Back(lines, n)
  <2> HIDE DEF lines
  <2> QED
    BY <1>1 DEF Back
<1>3. last \in About(lines)
  <2> HIDE DEF last, lines
  <2> QED
    BY <1>1, <1>2, AboutBack DEF Decides, lines
<1>4. ASSUME NEW i \in About(lines)
      PROVE  i \in Nat /\ last >= i
  <2>1. i \in 1..Len(lines)
    BY <1>1, <1>4 DEF About
  <2>2. Len(lines) - i + 1 \in 1..Len(lines)
        /\ Speaks(Back(lines, Len(lines) - i + 1))
    <3> HIDE DEF lines
    <3> QED
      BY <1>1, <1>4, <2>1, AboutBack
  <2>3. Len(lines) - i + 1 \notin 1..(n - 1)
    BY <2>2 DEF Decides
  <2> HIDE DEF lines
  <2> QED
    BY <1>1, <2>1, <2>3
<1>5. Max(About(lines)) = last
  <2> DEFINE S == About(lines)
  <2>1. last \in S /\ last \in Nat /\ \A i \in S : i \in Nat /\ last >= i
    <3> HIDE DEF lines
    <3> QED
      BY <1>1, <1>2, <1>3, <1>4
  <2> HIDE DEF S, last
  <2>2. Max(S) \in S /\ \A i \in S : Max(S) >= i
    BY <2>1 DEF Max
  <2>3. Max(S) = last
    <3>1. Max(S) \in Nat /\ Max(S) >= last /\ last >= Max(S)
      BY <2>1, <2>2
    <3> QED
      BY <2>1, <3>1
  <2> QED
    BY <2>3 DEF S
<1>6. About(lines) # {}
  BY <1>3
<1> QED
  BY <1>2, <1>5, <1>6 DEF Load, Says

LEMMA LoadType ==
  ASSUME NEW f \in Seq(FileLines)
  PROVE  Load(f) \in Ages \cup {Never}
<1>1. Kept(f) \in Seq(FileLines)
  BY KeptLines
<1>2. CASE Silent(Kept(f))
  BY <1>2, LoadOfSilent
<1>3. CASE \E n \in 1..Len(Kept(f)) : Decides(Kept(f), n)
  <2>1. PICK n \in 1..Len(Kept(f)) : Decides(Kept(f), n)
    BY <1>3
  <2>2. Back(Kept(f), n) \in FileLines
    <3>1. Len(Kept(f)) \in Nat /\ Len(Kept(f)) - n + 1 \in 1..Len(Kept(f))
      BY <1>1
    <3> QED
      BY <1>1, <3>1 DEF Back
  <2>3. Back(Kept(f), n).record.age \in Ages
    BY <2>2 DEF FileLines, Records
  <2> QED
    BY <2>1, <2>3, LoadOfDecided DEF Says
<1> QED
  BY <1>1, <1>2, <1>3, SilentOrDecided

-------------------------------------------------------------------------------
(* Types. *)

LEMMA WriteType ==
  ASSUME NEW f \in Seq(FileLines), NEW record \in Records
  PROVE  \A g \in {Write(f, record)} \cup Failed(f, record) :
           g \in Seq(FileLines) /\ Kept(g) \in Seq(FileLines)
<1>1. Write(f, record) \in Seq(FileLines)
  BY AddLineType DEF Write
<1>2. \A g \in Failed(f, record) : g \in Seq(FileLines)
  BY AddLineType DEF Failed, Torn
<1> QED
  BY <1>1, <1>2, KeptLines

LEMMA LinesType ==
  ASSUME TypeOK, NEW n \in Nat
  PROVE  Lines(n) \in 0..TailLines
<1>1. since \in Nat /\ TailLines \in Nat
  BY TailAssumption DEF TypeOK
<1> QED
  BY <1>1 DEF Lines, Cap

LEMMA FaultType ==
  ASSUME TypeOK, Fault
  PROVE  faults' \in 0..MaxFaults
<1>1. MaxFaults \in Nat
  BY BoundsAssumption
<1> QED
  BY <1>1 DEF TypeOK, Fault

LEMMA WroteType ==
  ASSUME TypeOK, NEW record \in Records, Wrote(record)
  PROVE  file' \in Seq(FileLines) /\ faults' \in 0..MaxFaults
<1>1. file' \in Seq(FileLines)
  BY FileType, WriteType DEF Wrote
<1>2. faults' \in 0..MaxFaults
  BY FaultType DEF Wrote, TypeOK
<1> QED
  BY <1>1, <1>2

LEMMA JournalledType ==
  ASSUME TypeOK, NEW record \in Records, Journalled(record)
  PROVE  file' \in Seq(FileLines) /\ faults' \in 0..MaxFaults /\ since' \in 0..TailLines
BY WroteType, LinesType DEF Journalled

LEMMA DatedType ==
  ASSUME TypeOK, NEW f, NEW n \in Nat, Dated(f, n)
  PROVE  since' \in 0..TailLines /\ stale' \in BOOLEAN
<1>1. Cap(n) \in 0..TailLines
  BY TailAssumption DEF Cap
<1> QED
  BY <1>1, LinesType DEF Dated, Told, TypeOK

LEMMA SeenType ==
  ASSUME TypeOK, Seen
  PROVE  lowFor' \in Ages \cup {Never}
BY RecordTypes DEF TypeOK, Seen

LEMMA CallType ==
  ASSUME TypeOK, call # NoCall
  PROVE  call \in [t : Tickers, delta : Int, fills : 0..MaxFills]
BY DEF TypeOK

LEMMA OlderType ==
  ASSUME NEW age \in Ages \cup {Never}
  PROVE  /\ Older(age) \in Ages \cup {Never}
         /\ age # Never => Older(age) \in Ages /\ Older(age) # Never
         /\ Older(Never) = Never
<1>1. Grace \in Nat
  BY GraceAssumption
<1> QED
  BY <1>1 DEF Older, Ages, Never

LEMMA FileTypeIs == Seq(FileLines) =
  Seq([record : [event : {"depleted", "recovered", "other"}, age : Ages],
       readable : BOOLEAN, ended : BOOLEAN])
BY DEF FileLines, Records

LEMMA PendingType == Pending \in Records
BY RecordTypes DEF Pending

LEMMA InitType == Init => TypeOK
<1> SUFFICES ASSUME Init PROVE TypeOK
  OBVIOUS
<1>1. TailLines \in 0..TailLines /\ 0 \in 0..MaxFaults
  BY TailAssumption, BoundsAssumption
<1>2. pos \in [Tickers -> Int] /\ read \in [Tickers -> Int]
  BY QuantitiesAssumption DEF Init, Nothing
<1>3. file \in Seq(FileLines)
  BY DEF Init
<1> QED
  BY <1>1, <1>2, <1>3, FileTypeIs DEF Init, TypeOK

\* Time makes the depletion older, on every line that dates it.
LEMMA PassFile ==
  ASSUME NEW f \in Seq(FileLines), f = file, Pass
  PROVE  /\ file' \in Seq(FileLines) /\ Len(file') = Len(f)
         /\ \A i \in 1..Len(f) :
              /\ f[i].record.event = "depleted" =>
                   file'[i] = [f[i] EXCEPT !.record.age = Older(f[i].record.age)]
              /\ f[i].record.event # "depleted" => file'[i] = f[i]
<1>1. Len(f) \in Nat /\ DOMAIN f = 1..Len(f) /\ \A i \in 1..Len(f) : f[i] \in FileLines
  OBVIOUS
<1> DEFINE aged(l) == IF l.record.event = "depleted"
                      THEN [l EXCEPT !.record.age = Older(@)] ELSE l
<1>2. file' = [i \in 1..Len(f) |-> aged(f[i])]
  BY <1>1 DEF Pass
<1>3. ASSUME NEW i \in 1..Len(f)
      PROVE  aged(f[i]) \in FileLines
  <2>1. f[i] \in FileLines /\ f[i].record \in Records /\ f[i].record.age \in Ages
    BY <1>1 DEF FileLines, Records
  <2>2. Older(f[i].record.age) \in Ages
    BY <2>1, OlderType, RecordTypes
  <2> QED
    BY <2>1, <2>2 DEF FileLines, Records
<1>4. file' \in Seq(FileLines) /\ Len(file') = Len(f)
  <2> HIDE DEF aged
  <2> QED
    BY <1>1, <1>2, <1>3
<1> QED
  BY <1>2, <1>4

LEMMA NextType == TypeOK /\ [Next]_vars => TypeOK'
<1> SUFFICES ASSUME TypeOK, [Next]_vars PROVE TypeOK'
  OBVIOUS
<1> USE FileTypeIs
<1>1. Nothing \in [Tickers -> Int]
  BY DEF Nothing
<1>2. ASSUME SkipTick PROVE TypeOK'
  BY <1>2, RecordTypes, JournalledType DEF SkipTick, TypeOK, env, process
<1>3. ASSUME ReadPortfolio PROVE TypeOK'
  BY <1>3 DEF ReadPortfolio, TypeOK, env, history
<1>4. ASSUME CheckFails PROVE TypeOK'
  BY <1>4, FaultType DEF CheckFails, TypeOK, env, history
<1>5. ASSUME CheckOk PROVE TypeOK'
  <2>1. file' \in Seq(FileLines) /\ faults' \in 0..MaxFaults /\ stale' \in BOOLEAN
    <3>1. CASE depletedAt = Never
      BY <1>5, <3>1, FileType DEF CheckOk, Recovery, TypeOK
    <3>2. CASE depletedAt # Never
      BY <1>5, <3>2, RecordTypes, WroteType DEF CheckOk, Recovery, Told
    <3> QED
      BY <3>1, <3>2
  <2>2. TailLines \in 0..TailLines
    BY TailAssumption
  <2> QED
    BY <1>5, <2>1, <2>2 DEF CheckOk, TypeOK, env
<1>6. ASSUME CheckDepleted PROVE TypeOK'
  <2>0. PICK f \in {Write(file, Depleted(0))} \cup Failed(file, Depleted(0)) :
          \E g \in {Write(f, Other)} \cup Failed(f, Other) :
            /\ file' = Kept(g)
            /\ IF f = Write(file, Depleted(0)) /\ g = Write(f, Other)
               THEN UNCHANGED faults ELSE Fault
            /\ Dated(f, 2)
    BY <1>6 DEF CheckDepleted
  <2>1. PICK g \in {Write(f, Other)} \cup Failed(f, Other) :
          /\ file' = Kept(g)
          /\ faults' = faults \/ Fault
          /\ Dated(f, 2)
    BY <2>0
  <2>2. file' \in Seq(FileLines)
    BY <2>0, <2>1, FileType, RecordTypes, WriteType
  <2>3. faults' \in 0..MaxFaults
    BY <2>1, FaultType DEF TypeOK
  <2>4. since' \in 0..TailLines /\ stale' \in BOOLEAN /\ lowFor' \in Ages \cup {Never}
    BY <1>6, <2>1, DatedType, SeenType DEF CheckDepleted
  <2> QED
    BY <1>1, <1>6, <2>2, <2>3, <2>4, RecordTypes DEF CheckDepleted, TypeOK, env
<1>7. ASSUME CheckInGrace PROVE TypeOK'
  <2>1. file' \in Seq(FileLines) /\ since' \in 0..TailLines
        /\ faults' \in 0..MaxFaults /\ lowFor' \in Ages \cup {Never}
    BY <1>7, RecordTypes, JournalledType, SeenType DEF CheckInGrace
  <2> QED
    BY <1>1, <1>7, <2>1 DEF CheckInGrace, TypeOK, env
<1>8. ASSUME CheckGraceOver PROVE TypeOK'
  <2>1. lowFor' \in Ages \cup {Never}
    BY <1>8, SeenType DEF CheckGraceOver
  <2> QED
    BY <1>8, <2>1 DEF CheckGraceOver, TypeOK, env
<1>9. ASSUME NEW t \in Tickers, Close(t) PROVE TypeOK'
  <2>1. call' \in [t : Tickers, delta : Int, fills : 0..MaxFills]
    BY <1>9, BoundsAssumption DEF Close, ClosingDelta, TypeOK
  <2> QED
    BY <1>9, <2>1 DEF Close, TypeOK, env, history
<1>10. ASSUME NEW t \in Tickers, Trade(t) PROVE TypeOK'
  <2>1. pos' \in [Tickers -> Int]
    <3>1. PICK qty \in Quantities[t] : pos' = [pos EXCEPT ![t] = qty]
      BY <1>10 DEF Trade
    <3>2. qty \in Int
      BY QuantitiesAssumption
    <3> QED
      BY <3>1, <3>2 DEF TypeOK
  <2> QED
    BY <1>10, <2>1 DEF Trade, TypeOK, process, history
<1>11. ASSUME Answer PROVE TypeOK'
  <2>1. stray' \subseteq [t : Tickers, delta : Int]
    BY <1>11, CallType DEF Answer, TypeOK
  <2>2. faults' \in 0..MaxFaults
    BY <1>11, FaultType DEF Answer, TypeOK
  <2>3. call' \in [t : Tickers, delta : Int, fills : 0..MaxFills] \cup {NoCall}
    BY <1>11 DEF Answer
  <2> QED
    BY <1>11, <2>1, <2>2, <2>3 DEF Answer, TypeOK, history
<1>12. ASSUME EndClose PROVE TypeOK'
  <2>1. file' \in Seq(FileLines) /\ since' \in 0..TailLines /\ faults' \in 0..MaxFaults
    BY <1>12, RecordTypes, JournalledType DEF EndClose
  <2> QED
    BY <1>1, <1>12, <2>1 DEF EndClose, TypeOK, env
<1>13. ASSUME EndTrade PROVE TypeOK'
  <2>1. file' \in Seq(FileLines) /\ since' \in 0..TailLines /\ faults' \in 0..MaxFaults
    BY <1>13, RecordTypes, JournalledType DEF EndTrade
  <2> QED
    BY <1>1, <1>13, <2>1 DEF EndTrade, TypeOK, env
<1>14. ASSUME Crash PROVE TypeOK'
  <2>1. file' \in Seq(FileLines)
    BY <1>14, FileType, PendingType, WriteType DEF Crash, Failed
  <2>2. lowFor' \in Ages \cup {Never} /\ since' \in 0..TailLines /\ stale' \in BOOLEAN
    <3>1. Lines(1) \in 0..TailLines /\ TailLines \in 0..TailLines
      BY LinesType, TailAssumption
    <3>2. \/ UNCHANGED <<lowFor, since, stale>>
          \/ lowFor' = Never /\ since' = TailLines /\ stale' = ~Told(file', Recovered)
          \/ Seen /\ Dated(file', 1)
          \/ since' = Lines(1) /\ UNCHANGED <<lowFor, stale>>
      BY <1>14 DEF Crash, Pending, Recovered, Depleted, Other
    <3> QED
      BY <3>1, <3>2, SeenType, DatedType DEF TypeOK, Told
  <2>3. stray' \subseteq [t : Tickers, delta : Int]
    BY <1>14 DEF Crash, TypeOK, ClosingDelta
  <2>4. faults' \in 0..MaxFaults
    BY <1>14, FaultType DEF Crash
  <2> QED
    BY <1>1, <1>14, <2>1, <2>2, <2>3, <2>4 DEF Crash, TypeOK
<1>15. ASSUME Restart PROVE TypeOK'
  <2>1. Load(file) \in Ages \cup {Never}
    BY LoadType DEF TypeOK
  <2> QED
    BY <1>15, <2>1 DEF Restart, TypeOK, env, history
<1>16. ASSUME Pass PROVE TypeOK'
  <2>1. file' \in Seq(FileLines)
    BY <1>16, FileType, PassFile
  <2>2. depletedAt' \in Ages \cup {Never} /\ lowFor' \in Ages \cup {Never}
    BY <1>16, OlderType DEF Pass, TypeOK
  <2> QED
    BY <1>16, <2>1, <2>2 DEF Pass, TypeOK, env
<1>17. ASSUME BalanceChanges PROVE TypeOK'
  BY <1>17 DEF BalanceChanges, TypeOK, process, history
<1>18. ASSUME Fill PROVE TypeOK'
  <2>1. pos' \in [Tickers -> Int]
    BY <1>18, CallType DEF Fill, TypeOK
  <2>2. call' \in [t : Tickers, delta : Int, fills : 0..MaxFills] \cup {NoCall}
    BY <1>18, CallType, BoundsAssumption DEF Fill
  <2>3. faults' \in 0..MaxFaults
    BY <1>18, FaultType DEF Fill, TypeOK
  <2>4. exact' \in BOOLEAN
    BY <1>18 DEF Fill
  <2> QED
    BY <1>18, <2>1, <2>2, <2>3, <2>4 DEF Fill, TypeOK
<1>19. ASSUME FillStray PROVE TypeOK'
  <2>1. PICK order \in stray : /\ pos' = [pos EXCEPT ![order.t] = @ + order.delta]
                               /\ stray' = stray \ {order}
    BY <1>19 DEF FillStray
  <2>2. pos' \in [Tickers -> Int] /\ stray' \subseteq [t : Tickers, delta : Int]
    BY <2>1 DEF TypeOK
  <2> QED
    BY <1>19, <2>2 DEF FillStray, TypeOK, process
<1>20. ASSUME UNCHANGED vars PROVE TypeOK'
  BY <1>20 DEF TypeOK, vars, env, process, history
<1> QED
  BY <1>2, <1>3, <1>4, <1>5, <1>6, <1>7, <1>8, <1>9, <1>10, <1>11, <1>12, <1>13,
     <1>14, <1>15, <1>16, <1>17, <1>18, <1>19, <1>20 DEF Next, Check

\* Every variable keeps its type: a depletion is never dated beyond the grace
\* period, and what is still to be closed is remembered only while closing.
THEOREM TypeCorrect == Spec => []TypeOK
BY InitType, NextType, PTL DEF Spec

-------------------------------------------------------------------------------
(* Closing. *)

LEMMA ClosingInit == Init => ClosingInv
<1> SUFFICES ASSUME Init PROVE CallInv /\ ReadInv
  BY InitType DEF ClosingInv
<1> QED
  BY DEF Init, CallInv, ReadInv

\* A step that leaves the broker, the call and what has been read alone.
LEMMA ClosingKept ==
  ASSUME ClosingInv,
         UNCHANGED <<pos, call, todo, read>>,
         exact' = exact,
         phase' = phase \/ (call = NoCall /\ phase' # "checking" /\ todo = {})
  PROVE  CallInv' /\ ReadInv'
<1>1. CallInv'
  BY DEF ClosingInv, CallInv
<1>2. ReadInv'
  BY DEF ClosingInv, ReadInv
<1> QED
  BY <1>1, <1>2

\* The end of a tick: no call is under way and nothing is left to be closed.
LEMMA ClosingOver ==
  ASSUME phase' = "idle", call' = NoCall, todo' = {}
  PROVE  CallInv' /\ ReadInv'
BY DEF CallInv, ReadInv

LEMMA NotClosing ==
  ASSUME ClosingInv, phase # "closing"
  PROVE  call = NoCall /\ todo = {}
BY DEF ClosingInv, CallInv, TypeOK

LEMMA ClosingStep == ClosingInv /\ [Next]_vars => CallInv' /\ ReadInv'
<1> SUFFICES ASSUME ClosingInv, [Next]_vars PROVE CallInv' /\ ReadInv'
  OBVIOUS
<1>0. TypeOK
  BY DEF ClosingInv
<1>1. CASE SkipTick
  BY <1>1, ClosingKept DEF SkipTick, env, process
<1>2. CASE ReadPortfolio
  <2>1. call = NoCall /\ todo = {}
    BY <1>2, NotClosing DEF ReadPortfolio
  <2> QED
    BY <1>2, <2>1 DEF ReadPortfolio, env, CallInv, ReadInv
<1>3. CASE CheckFails
  BY <1>3, NotClosing, ClosingKept DEF CheckFails, env, history
<1>4. CASE CheckOk
  BY <1>4, NotClosing, ClosingKept DEF CheckOk, env
<1>5. CASE CheckDepleted
  BY <1>5, NotClosing, ClosingOver DEF CheckDepleted
<1>6. CASE CheckInGrace
  BY <1>6, NotClosing, ClosingOver DEF CheckInGrace
<1>7. CASE CheckGraceOver
  <2>1. call' = NoCall
    BY <1>7, NotClosing DEF CheckGraceOver
  <2>2. exact => read = pos
    BY <1>7 DEF CheckGraceOver, ClosingInv, ReadInv
  <2> QED
    BY <1>7, <2>1, <2>2 DEF CheckGraceOver, env, CallInv, ReadInv
<1>8. CASE \E t \in Tickers : Close(t)
  <2>1. PICK t \in Tickers : Close(t)
    BY <1>8
  <2>2. CallInv'
    BY <2>1 DEF Close, ClosingDelta, CallInv
  <2>3. ReadInv'
    BY <2>1 DEF Close, env, history, ClosingInv, ReadInv
  <2> QED
    BY <2>2, <2>3
<1>9. CASE \E t \in Tickers : Trade(t)
  <2>1. phase = "trading" /\ phase' = phase /\ UNCHANGED <<call, todo, exact>>
    BY <1>9 DEF Trade, process, history
  <2>2. call = NoCall /\ todo = {}
    BY <2>1, NotClosing
  <2> QED
    BY <2>1, <2>2 DEF CallInv, ReadInv
<1>10. CASE Answer
  <2>1. CallInv'
    BY <1>10 DEF Answer, CallInv
  <2>2. ASSUME exact', NEW t \in todo'
        PROVE  pos'[t] = read'[t]
    <3>1. exact /\ t \in todo /\ t # call.t /\ UNCHANGED <<pos, read>>
      BY <1>10, <2>2 DEF Answer, history
    <3> QED
      BY <3>1 DEF ClosingInv, ReadInv
  <2>3. phase' # "checking"
    BY <1>10 DEF Answer, ClosingInv, CallInv
  <2> QED
    BY <2>1, <2>2, <2>3 DEF ReadInv
<1>11. CASE EndClose
  <2>1. call = NoCall
    BY <1>11 DEF EndClose, ClosingInv, CallInv
  <2> QED
    BY <1>11, <2>1, ClosingOver DEF EndClose
<1>12. CASE EndTrade
  BY <1>12, NotClosing, ClosingOver DEF EndTrade
<1>13. CASE Crash
  BY <1>13, ClosingOver DEF Crash
<1>14. CASE Restart
  BY <1>14, ClosingKept DEF Restart, env, history
<1>15. CASE Pass
  BY <1>15, ClosingKept DEF Pass, env
<1>16. CASE BalanceChanges
  BY <1>16, ClosingKept DEF BalanceChanges, process, history
<1>17. CASE Fill
  <2>1. call \in [t : Tickers, delta : Int, fills : 0..MaxFills] /\ MaxFills \in Nat
    BY <1>0, <1>17, CallType, BoundsAssumption DEF Fill
  <2>2. call' = [call EXCEPT !.fills = call.fills + 1]
        /\ UNCHANGED <<phase, read, todo>>
    BY <1>17 DEF Fill
  <2>3. call'.t = call.t /\ call'.delta = call.delta /\ call'.fills = call.fills + 1
    BY <2>1, <2>2
  <2>4. phase = "closing" /\ call.t \in todo /\ call.delta = -read[call.t]
    BY <1>17 DEF Fill, ClosingInv, CallInv
  <2>5. call'.fills # 0 /\ call' # NoCall
    <3>1. call.fills \in Nat
      BY <2>1
    <3>2. call.fills + 1 # 0
      BY <3>1
    <3> QED
      BY <2>3, <3>2 DEF NoCall
  <2>6. CallInv'
    BY <2>2, <2>3, <2>4 DEF CallInv
  <2>7. ASSUME exact', NEW t \in todo', t # call'.t
        PROVE  pos'[t] = read'[t]
    <3>1. exact
      BY <1>17, <2>7 DEF Fill
    <3>2. t \in todo /\ t # call.t
      BY <2>2, <2>3, <2>7
    <3>3. t \in Tickers /\ pos \in [Tickers -> Int]
      BY <1>0, <3>2 DEF TypeOK
    <3>4. pos'[t] = pos[t]
      BY <1>17, <3>2, <3>3 DEF Fill
    <3>5. pos[t] = read[t]
      BY <3>1, <3>2 DEF ClosingInv, ReadInv
    <3> QED
      BY <2>2, <3>4, <3>5
  <2>8. ReadInv'
    BY <2>2, <2>4, <2>5, <2>7 DEF ReadInv
  <2> QED
    BY <2>6, <2>8
<1>18. CASE FillStray
  <2>1. CallInv'
    BY <1>18 DEF FillStray, process, ClosingInv, CallInv
  <2> QED
    BY <1>18, <2>1 DEF FillStray, ReadInv
<1>19. CASE UNCHANGED vars
  BY <1>19, ClosingKept DEF vars, env, process, history
<1> QED
  BY <1>1, <1>2, <1>3, <1>4, <1>5, <1>6, <1>7, <1>8, <1>9, <1>10, <1>11, <1>12,
     <1>13, <1>14, <1>15, <1>16, <1>17, <1>18, <1>19 DEF Next, Check

\* While positions are being closed only executions move them, and the first
\* one of an order moves its ticker to 0.
LEMMA ClosingMoves ==
  ASSUME ClosingInv, [Next]_vars, phase = "closing", exact', NEW t \in Tickers
  PROVE  pos'[t] = pos[t] \/ pos'[t] = 0
<1>0. TypeOK
  BY DEF ClosingInv
<1>1. CASE Fill
  <2>1. exact /\ call.fills = 0
    BY <1>1 DEF Fill
  <2>2. call.t \in todo /\ call.delta = -read[call.t] /\ call # NoCall
    BY <1>1 DEF Fill, ClosingInv, CallInv
  <2>3. call.t \in Tickers /\ pos \in [Tickers -> Int]
    BY <1>0, <2>2 DEF TypeOK
  <2>4. pos[call.t] = read[call.t]
    BY <2>1, <2>2 DEF ClosingInv, ReadInv
  <2>5. pos' = [pos EXCEPT ![call.t] = pos[call.t] + (-pos[call.t])]
    BY <1>1, <2>2, <2>4 DEF Fill
  <2>6. pos[call.t] + (-pos[call.t]) = 0
    BY <2>3
  <2> QED
    BY <2>3, <2>5, <2>6
<1>2. CASE FillStray
  BY <1>2 DEF FillStray
<1>3. CASE ~Fill /\ ~FillStray
  <2>1. UNCHANGED pos
    BY <1>3 DEF Next, Check, vars, env, history, process, SkipTick, ReadPortfolio,
       CheckFails, CheckOk, CheckDepleted, CheckInGrace, CheckGraceOver, Close, Trade,
       Answer, EndClose, EndTrade, Crash, Restart, Pass, BalanceChanges
  <2> QED
    BY <2>1
<1> QED
  BY <1>1, <1>2, <1>3

LEMMA ClosingCorrect == Spec => []ClosingInv
<1>1. ClosingInv /\ [Next]_vars => ClosingInv'
  BY NextType, ClosingStep DEF ClosingInv
<1> QED
  BY <1>1, ClosingInit, PTL DEF Spec

\* The fail-safe never makes a position larger, for any grace period and any
\* number of restarts: it sends the opposite of what it has read, and until the
\* one execution of the order that is what the broker holds.
THEOREM ReducesCorrect == Spec => ClosingReduces
<1>1. ClosingInv /\ [Next]_vars
        => [phase = "closing" /\ exact' =>
              \A t \in Tickers : pos'[t] = pos[t] \/ pos'[t] = 0]_vars
  BY ClosingMoves
<1> QED
  BY <1>1, ClosingCorrect, PTL DEF Spec, ClosingReduces

-------------------------------------------------------------------------------
(* The lines that a restart may go by. *)

LEMMA LinesBack ==
  ASSUME NEW f \in Seq(FileLines), NEW k \in 1..Len(f)
  PROVE  /\ Back(f, k) \in FileLines
         /\ Back(f, k).record \in Records
         /\ Says(Back(f, k).record) \in Ages \cup {Never}
<1>1. Len(f) - k + 1 \in 1..Len(f)
  OBVIOUS
<1>2. Back(f, k) \in FileLines
  BY <1>1 DEF Back
<1> QED
  BY <1>2 DEF FileLines, Records, Says

LEMMA DatesType ==
  ASSUME NEW f \in Seq(FileLines)
  PROVE  Dates(f) \subseteq Ages \cup {Never}
BY LinesBack DEF Dates

LEMMA DateOf ==
  ASSUME NEW f, NEW k \in 1..Len(f), Candidate(f, k)
  PROVE  Says(Back(f, k).record) \in Dates(f)
BY DEF Dates

\* The lines a restart may go by are lines it could go by before, so many lines
\* further on.
Inherits(g, f, s) ==
  \A k \in 1..Len(g) :
    Candidate(g, k) => k - s \in 1..Len(f) /\ Candidate(f, k - s) /\ Back(g, k) = Back(f, k - s)

LEMMA InheritedDates ==
  ASSUME NEW f \in Seq(FileLines), NEW g \in Seq(FileLines), NEW s \in Nat,
         Inherits(g, f, s)
  PROVE  /\ Dates(g) \subseteq Dates(f)
         /\ Agree(f) => Agree(g)
<1>1. Dates(g) \subseteq Dates(f)
  <2>1. ASSUME NEW k \in 1..Len(g), Candidate(g, k)
        PROVE  Says(Back(g, k).record) \in Dates(f)
    <3>1. k - s \in 1..Len(f) /\ Candidate(f, k - s) /\ Back(g, k) = Back(f, k - s)
      BY <2>1 DEF Inherits
    <3> QED
      BY <3>1, DateOf
  <2> QED
    BY <2>1 DEF Dates
<1>2. ASSUME Agree(f), NEW k \in 1..Len(g), NEW j \in 1..(k - 1),
             Candidate(g, j), Candidate(g, k)
      PROVE  Says(Back(g, k).record) \in {Never, Says(Back(g, j).record)}
  <2>1. j \in 1..Len(g)
    OBVIOUS
  <2>2. /\ k - s \in 1..Len(f) /\ Candidate(f, k - s) /\ Back(g, k) = Back(f, k - s)
        /\ j - s \in 1..Len(f) /\ Candidate(f, j - s) /\ Back(g, j) = Back(f, j - s)
    BY <1>2, <2>1 DEF Inherits
  <2>3. j - s \in 1..((k - s) - 1)
    BY <2>2
  <2> QED
    BY <1>2, <2>2, <2>3 DEF Agree
<1> QED
  BY <1>1, <1>2 DEF Agree

LEMMA KeptInherits ==
  ASSUME NEW f \in Seq(FileLines)
  PROVE  Inherits(Kept(f), f, 0)
<1> DEFINE g == Kept(f)
<1>1. /\ Len(f) \in Nat /\ Len(g) \in Nat /\ Len(g) <= Len(f)
      /\ \A k \in 1..Len(g) : Back(g, k) = Back(f, k)
  BY KeptLines, TailAssumption
<1> HIDE DEF g
<1>2. ASSUME NEW k \in 1..Len(g), Candidate(g, k)
      PROVE  k - 0 \in 1..Len(f) /\ Candidate(f, k - 0) /\ Back(g, k) = Back(f, k - 0)
  <2>1. k - 0 = k /\ k \in 1..Len(f) /\ \A j \in 1..(k - 1) : j \in 1..Len(g)
    BY <1>1
  <2>2. Candidate(f, k)
    BY <1>1, <1>2, <2>1 DEF Candidate
  <2> QED
    BY <1>1, <2>1, <2>2
<1> QED
  BY <1>2 DEF Inherits, g

Longer(g, f, line) ==
  /\ Len(g) = Len(f) + 1 /\ Back(g, 1) = line
  /\ \A k \in 1..Len(f) : Back(g, k + 1) = Back(f, k)

Glued(g, f) ==
  /\ Len(g) = Len(f) /\ Len(f) >= 1
  /\ ~Back(g, 1).readable /\ ~Back(f, 1).ended
  /\ \A k \in 2..Len(f) : Back(g, k) = Back(f, k)

\* A line that is added stands at the end, or is part of a line that had no
\* newline and that nothing can read any more.
LEMMA AddedLine ==
  ASSUME NEW f \in Seq(FileLines), NEW record \in Records,
         NEW readable \in BOOLEAN, NEW ended \in BOOLEAN,
         NEW g, g = AddLine(f, record, readable, ended)
  PROVE  /\ g \in Seq(FileLines) /\ Len(g) \in Nat /\ Len(f) \in Nat
         /\ Longer(g, f, Line(record, readable, ended)) \/ Glued(g, f)
<1>0. g \in Seq(FileLines)
  BY AddLineType
<1>1. CASE ~Unended(f)
  BY <1>0, <1>1, LineType, AppendLines DEF AddLine, Longer
<1>2. CASE Unended(f)
  <2> DEFINE n == Len(f)
             last == [f[n] EXCEPT !.readable = FALSE, !.ended = ended]
  <2>1. n \in Nat /\ n >= 1 /\ f[n] \in FileLines /\ ~f[n].ended
    BY <1>2 DEF Unended, Last
  <2>2. g = Append(SubSeq(f, 1, n - 1), last)
    BY <1>2 DEF AddLine, Front, Last
  <2>3. ~last.readable /\ last \in FileLines
    BY <2>1 DEF FileLines
  <2>4. Len(g) = n /\ g[n] = last /\ \A i \in 1..(n - 1) : g[i] = f[i]
    <3> DEFINE h == SubSeq(f, 1, n - 1)
    <3>0. n - 1 \in 0..Len(f) /\ (n - 1) - 1 + 1 = n - 1
      BY <2>1
    <3>1. h \in Seq(FileLines) /\ Len(h) = n - 1 /\ \A i \in 1..(n - 1) : h[i] = f[i]
      <4> HIDE DEF n
      <4> QED
        BY <3>0
    <3> HIDE DEF last, h
    <3>2. Len(Append(h, last)) = (n - 1) + 1 /\ Append(h, last)[(n - 1) + 1] = last
          /\ \A i \in 1..(n - 1) : Append(h, last)[i] = h[i]
      BY <2>3, <3>1
    <3>3. (n - 1) + 1 = n
      BY <2>1
    <3> QED
      BY <2>2, <3>1, <3>2, <3>3 DEF h
  <2>5. Back(g, 1) = last /\ Back(f, 1) = f[n]
    BY <2>1, <2>4 DEF Back
  <2>6. ASSUME NEW k \in 2..n
        PROVE  Back(g, k) = Back(f, k)
    <3>1. n - k + 1 \in 1..(n - 1)
      BY <2>1
    <3> QED
      BY <2>4, <3>1 DEF Back
  <2> QED
    BY <1>0, <2>1, <2>3, <2>4, <2>5, <2>6 DEF Glued
<1> QED
  BY <1>1, <1>2

\* Only a readable record about the balance can become one more of them.
LEMMA AddedCandidates ==
  ASSUME NEW f \in Seq(FileLines), NEW record \in Records,
         NEW readable \in BOOLEAN, NEW ended \in BOOLEAN,
         NEW g, g = AddLine(f, record, readable, ended)
  PROVE  \E s \in {0, 1} : \A k \in 1..Len(g) : Candidate(g, k) =>
           \/ s = 1 /\ k = 1 /\ readable /\ record.event # "other" /\ Back(g, 1).record = record
           \/ k - s \in 1..Len(f) /\ Candidate(f, k - s) /\ Back(g, k) = Back(f, k - s)
<1>1. Len(g) \in Nat /\ Len(f) \in Nat
  BY AddedLine
<1>2. CASE Longer(g, f, Line(record, readable, ended))
  <2>1. ASSUME NEW k \in 1..Len(g), Candidate(g, k), k # 1
        PROVE  k - 1 \in 1..Len(f) /\ Candidate(f, k - 1) /\ Back(g, k) = Back(f, k - 1)
    <3>1. k - 1 \in 1..Len(f) /\ (k - 1) + 1 = k
      BY <1>1, <1>2, <2>1 DEF Longer
    <3>2. Back(g, k) = Back(f, k - 1)
      BY <1>2, <3>1 DEF Longer
    <3>3. ASSUME NEW j \in 1..((k - 1) - 1)
          PROVE  ~(Speaks(Back(f, j)) /\ Back(f, j).ended)
      <4>1. j \in 1..Len(f) /\ j + 1 \in 1..(k - 1)
        BY <1>1, <3>1
      <4>2. Back(g, j + 1) = Back(f, j)
        BY <1>2, <4>1 DEF Longer
      <4> QED
        BY <2>1, <4>1, <4>2 DEF Candidate
    <3> QED
      BY <2>1, <3>1, <3>2, <3>3 DEF Candidate
  <2>2. ASSUME Candidate(g, 1)
        PROVE  readable /\ record.event # "other" /\ Back(g, 1).record = record
    BY <1>2, <2>2 DEF Longer, Candidate, Speaks, Line
  <2> QED
    BY <2>1, <2>2
<1>3. CASE Glued(g, f)
  <2>1. ASSUME NEW k \in 1..Len(g), Candidate(g, k)
        PROVE  k - 0 \in 1..Len(f) /\ Candidate(f, k - 0) /\ Back(g, k) = Back(f, k - 0)
    <3>1. k # 1
      BY <1>3, <2>1 DEF Glued, Candidate, Speaks
    <3>2. k - 0 = k /\ k \in 2..Len(f) /\ k \in 1..Len(f) /\ Back(g, k) = Back(f, k)
      BY <1>1, <1>3, <3>1 DEF Glued
    <3>3. ASSUME NEW j \in 1..(k - 1)
          PROVE  ~(Speaks(Back(f, j)) /\ Back(f, j).ended)
      <4>1. CASE j = 1
        BY <1>3, <4>1 DEF Glued, Speaks
      <4>2. CASE j # 1
        <5>1. j \in 2..Len(f)
          BY <1>1, <3>2, <4>2
        <5> QED
          BY <1>3, <2>1, <5>1 DEF Glued, Candidate
      <4> QED
        BY <4>1, <4>2
    <3>4. Candidate(f, k)
      BY <2>1, <3>2, <3>3 DEF Candidate
    <3> QED
      BY <3>2, <3>4
  <2> QED
    BY <2>1
<1> QED
  BY <1>2, <1>3, AddedLine

LEMMA AddedInherits ==
  ASSUME NEW f \in Seq(FileLines), NEW record \in Records,
         NEW readable \in BOOLEAN, NEW ended \in BOOLEAN,
         ~readable \/ record.event = "other"
  PROVE  \E s \in {0, 1} : Inherits(AddLine(f, record, readable, ended), f, s)
BY AddedCandidates DEF Inherits

Weaker(g, f) == Dates(g) \subseteq Dates(f) /\ (Agree(f) => Agree(g))

LEMMA KeptWeaker ==
  ASSUME NEW f \in Seq(FileLines)
  PROVE  Kept(f) \in Seq(FileLines) /\ Weaker(Kept(f), f)
<1>1. Kept(f) \in Seq(FileLines)
  BY KeptLines
<1> QED
  BY <1>1, KeptInherits, InheritedDates DEF Weaker

\* A record of something else, whatever becomes of it, tells nothing new.
LEMMA OtherWeaker ==
  ASSUME NEW f \in Seq(FileLines), NEW g \in {Write(f, Other)} \cup Failed(f, Other)
  PROVE  g \in Seq(FileLines) /\ Weaker(g, f) /\ Weaker(Kept(g), f)
<1>1. Other \in Records /\ Other.event = "other"
  BY RecordTypes DEF Other
<1>2. g \in Seq(FileLines)
  BY <1>1, WriteType
<1>3. Weaker(g, f)
  <2>1. CASE g = f
    BY <2>1 DEF Weaker
  <2>2. CASE \E readable, ended \in BOOLEAN : g = AddLine(f, Other, readable, ended)
    <3>1. PICK readable, ended \in BOOLEAN : g = AddLine(f, Other, readable, ended)
      BY <2>2
    <3>2. PICK s \in {0, 1} : Inherits(g, f, s)
      BY <1>1, <3>1, AddedInherits
    <3>3. s \in Nat
      OBVIOUS
    <3> QED
      BY <1>2, <3>2, <3>3, InheritedDates DEF Weaker
  <2> QED
    BY <2>1, <2>2 DEF Write, Failed, Torn
<1>4. Weaker(Kept(g), g)
  BY <1>2, KeptWeaker
<1> QED
  BY <1>2, <1>3, <1>4 DEF Weaker

\* Of a journal that says nothing, the start of a depletion is all that a record
\* of it, or a part of the record, can tell.
LEMMA DepletionTold ==
  ASSUME NEW f \in Seq(FileLines), Dates(f) \subseteq {Never},
         NEW g \in {Write(f, Depleted(0))} \cup Failed(f, Depleted(0))
  PROVE  g \in Seq(FileLines) /\ Dates(g) \subseteq {Never, 0} /\ Agree(g)
<1>1. Depleted(0) \in Records /\ Says(Depleted(0)) = 0
  BY RecordTypes DEF Depleted, Says
<1>2. g \in Seq(FileLines)
  BY <1>1, WriteType
<1>3. CASE g = f
  <2>1. \A k \in 1..Len(f) : Candidate(f, k) => Says(Back(f, k).record) = Never
    BY DateOf
  <2> QED
    BY <1>2, <1>3, <2>1 DEF Agree
<1>4. CASE \E readable, ended \in BOOLEAN : g = AddLine(f, Depleted(0), readable, ended)
  <2>1. PICK readable, ended \in BOOLEAN : g = AddLine(f, Depleted(0), readable, ended)
    BY <1>4
  <2>2. PICK s \in {0, 1} : \A k \in 1..Len(g) : Candidate(g, k) =>
          \/ s = 1 /\ k = 1 /\ readable /\ Depleted(0).event # "other"
             /\ Back(g, 1).record = Depleted(0)
          \/ k - s \in 1..Len(f) /\ Candidate(f, k - s) /\ Back(g, k) = Back(f, k - s)
    BY <1>1, <2>1, AddedCandidates
  <2>3. ASSUME NEW k \in 1..Len(g), Candidate(g, k)
        PROVE  Says(Back(g, k).record) = Never \/ (k = 1 /\ Says(Back(g, k).record) = 0)
    <3>1. CASE k = 1 /\ Back(g, 1).record = Depleted(0)
      BY <1>1, <3>1
    <3>2. CASE k - s \in 1..Len(f) /\ Candidate(f, k - s) /\ Back(g, k) = Back(f, k - s)
      BY <3>2, DateOf
    <3> QED
      BY <2>2, <2>3, <3>1, <3>2
  <2>4. Dates(g) \subseteq {Never, 0}
    BY <2>3 DEF Dates
  <2>5. ASSUME NEW k \in 1..Len(g), NEW j \in 1..(k - 1), Candidate(g, k)
        PROVE  Says(Back(g, k).record) = Never
    <3>1. k # 1
      BY <1>2
    <3> QED
      BY <2>3, <2>5, <3>1
  <2> QED
    BY <1>2, <2>4, <2>5 DEF Agree
<1> QED
  BY <1>3, <1>4 DEF Write, Failed, Torn

\* A record about the balance that is the journal's last line is all that counts.
LEMMA ToldLine ==
  ASSUME NEW f \in Seq(FileLines), NEW record \in Records, Told(f, record)
  PROVE  /\ Len(f) \in Nat /\ 1 \in 1..Len(f)
         /\ Back(f, 1) = Line(record, TRUE, TRUE) /\ Back(f, 1).record = record
<1>1. f # <<>> /\ f[Len(f)] = Line(record, TRUE, TRUE)
  BY DEF Told, Last
<1>2. Len(f) \in Nat /\ 1 \in 1..Len(f) /\ Len(f) - 1 + 1 = Len(f)
  BY <1>1
<1> QED
  BY <1>1, <1>2 DEF Back, Line

LEMMA ToldDates ==
  ASSUME NEW f \in Seq(FileLines), NEW record \in Records, record.event # "other",
         Told(f, record)
  PROVE  Dates(f) \subseteq {Says(record)} /\ Agree(f)
<1>1. Len(f) \in Nat /\ Back(f, 1) = Line(record, TRUE, TRUE) /\ Back(f, 1).record = record
  BY ToldLine
<1>2. Speaks(Back(f, 1)) /\ Back(f, 1).ended
  BY <1>1 DEF Speaks, Line
<1>3. ASSUME NEW k \in 1..Len(f), Candidate(f, k)
      PROVE  k = 1
  <2>1. k # 1 => 1 \in 1..(k - 1)
    BY <1>1
  <2> QED
    BY <1>2, <1>3, <2>1 DEF Candidate
<1>4. Dates(f) \subseteq {Says(record)}
  BY <1>1, <1>3 DEF Dates
<1>5. Agree(f)
  BY <1>1, <1>3 DEF Agree
<1> QED
  BY <1>4, <1>5

LEMMA KeptShort ==
  ASSUME NEW f \in Seq(FileLines), Len(f) <= TailLines
  PROVE  Kept(f) = f
<1>1. Len(f) \in Nat /\ TailLines \in Nat
  BY TailAssumption
<1> QED
  BY <1>1 DEF Kept, LastLines

LEMMA KeptIsShort ==
  ASSUME NEW f \in Seq(FileLines)
  PROVE  Len(Kept(f)) <= TailLines
<1>1. Len(f) \in Nat /\ TailLines \in Nat
  BY TailAssumption
<1> QED
  BY <1>1, KeptLines

\* What a restart reads is one of them, and the one the others agree with.
LEMMA LoadDates ==
  ASSUME NEW f \in Seq(FileLines), Len(f) <= TailLines
  PROVE  \/ Load(f) = Never /\ Dates(f) = {}
         \/ Load(f) \in Dates(f) /\ (Agree(f) => Dates(f) \subseteq {Never, Load(f)})
<1>1. Kept(f) = f
  BY KeptShort
<1>2. CASE Silent(f)
  <2>1. \A k \in 1..Len(f) : ~Candidate(f, k)
    BY <1>2 DEF Silent, Candidate
  <2> QED
    BY <1>1, <1>2, <2>1, LoadOfSilent DEF Dates
<1>3. CASE \E n \in 1..Len(f) : Decides(f, n)
  <2>1. PICK n \in 1..Len(f) : Decides(f, n)
    BY <1>3
  <2>2. Load(f) = Says(Back(f, n).record)
    BY <1>1, <2>1, LoadOfDecided
  <2>3. Candidate(f, n)
    BY <2>1 DEF Decides, Candidate
  <2>4. ASSUME Agree(f), NEW k \in 1..Len(f), Candidate(f, k)
        PROVE  Says(Back(f, k).record) \in {Never, Load(f)}
    <3>1. CASE k < n
      <4>1. k \in 1..(n - 1)
        BY <3>1
      <4> QED
        BY <2>1, <2>4, <4>1 DEF Decides, Candidate
    <3>2. CASE k = n
      BY <2>2, <3>2
    <3>3. CASE k > n
      <4>1. n \in 1..(k - 1)
        BY <3>3
      <4> QED
        BY <2>2, <2>3, <2>4, <4>1 DEF Agree
    <3> QED
      BY <3>1, <3>2, <3>3
  <2> QED
    BY <2>2, <2>3, <2>4, DateOf DEF Dates
<1> QED
  BY <1>2, <1>3, SilentOrDecided

-------------------------------------------------------------------------------
(* The line that dates the depletion. *)

LEMMA ToldDated ==
  ASSUME NEW f \in Seq(FileLines), Told(f, Depleted(0))
  PROVE  DatedBy(f, 1, 0)
<1>1. 1 \in 1..Len(f) /\ Back(f, 1) = Line(Depleted(0), TRUE, TRUE)
  BY RecordTypes, ToldLine
<1>2. 1..(1 - 1) = {}
  OBVIOUS
<1> QED
  BY <1>1, <1>2 DEF DatedBy

LEMMA DatedKept ==
  ASSUME NEW f \in Seq(FileLines), NEW n \in Nat, NEW age, DatedBy(f, n, age), n <= TailLines
  PROVE  DatedBy(Kept(f), n, age)
<1> DEFINE g == Kept(f)
<1>1. /\ Len(f) \in Nat /\ TailLines \in Nat
      /\ Len(g) = IF Len(f) > TailLines THEN TailLines ELSE Len(f)
      /\ \A k \in 1..Len(g) : Back(g, k) = Back(f, k)
  BY KeptLines, TailAssumption
<1> HIDE DEF g
<1>2. n \in 1..Len(g) /\ \A k \in 1..(n - 1) : k \in 1..Len(g)
  BY <1>1 DEF DatedBy
<1> QED
  BY <1>1, <1>2 DEF DatedBy, g

LEMMA DatedOther ==
  ASSUME NEW f \in Seq(FileLines), NEW n \in Nat, NEW age, DatedBy(f, n, age),
         NEW g \in {Write(f, Other)} \cup Failed(f, Other)
  PROVE  DatedBy(g, n, age) \/ DatedBy(g, n + 1, age)
<1>1. CASE g = f
  BY <1>1
<1>2. CASE \E readable, ended \in BOOLEAN : g = AddLine(f, Other, readable, ended)
  <2>1. PICK readable, ended \in BOOLEAN : g = AddLine(f, Other, readable, ended)
    BY <1>2
  <2>2. /\ Len(g) \in Nat /\ Len(f) \in Nat
        /\ Longer(g, f, Line(Other, readable, ended)) \/ Glued(g, f)
    BY <2>1, OtherType, AddedLine
  <2>3. CASE Longer(g, f, Line(Other, readable, ended))
    <3>0. n \in 1..Len(f) /\ Back(f, n) = Line(Depleted(age), TRUE, TRUE)
      BY DEF DatedBy
    <3>1. n + 1 \in 1..Len(g) /\ Back(g, n + 1) = Line(Depleted(age), TRUE, TRUE)
      <4>1. Len(g) = Len(f) + 1 /\ Back(g, n + 1) = Back(f, n)
        BY <2>3, <3>0 DEF Longer
      <4>2. n + 1 \in 1..Len(g)
        BY <2>2, <3>0, <4>1
      <4> QED
        BY <3>0, <4>1, <4>2
    <3>2. ASSUME NEW k \in 1..((n + 1) - 1)
          PROVE  ~Speaks(Back(g, k))
      <4>1. CASE k = 1
        BY <2>3, <4>1 DEF Longer, Speaks, Line, Other
      <4>2. CASE k # 1
        <5>1. k - 1 \in 1..(n - 1) /\ k - 1 \in 1..Len(f) /\ (k - 1) + 1 = k
          BY <2>2, <4>2 DEF DatedBy
        <5>2. Back(g, k) = Back(f, k - 1)
          BY <2>3, <5>1 DEF Longer
        <5> QED
          BY <5>1, <5>2 DEF DatedBy
      <4> QED
        BY <4>1, <4>2
    <3> QED
      BY <3>1, <3>2 DEF DatedBy
  <2>4. CASE Glued(g, f)
    <3>1. n # 1
      BY <2>4 DEF Glued, DatedBy, Line
    <3>2. n \in 1..Len(g) /\ n \in 2..Len(f) /\ Back(g, n) = Back(f, n)
      <4>1. n \in 1..Len(f) /\ n \in 2..Len(f) /\ Len(g) = Len(f)
        BY <2>2, <2>4, <3>1 DEF DatedBy, Glued
      <4> QED
        BY <2>4, <4>1 DEF Glued
    <3>3. ASSUME NEW k \in 1..(n - 1)
          PROVE  ~Speaks(Back(g, k))
      <4>1. CASE k = 1
        BY <2>4, <4>1 DEF Glued, Speaks
      <4>2. CASE k # 1
        <5>1. k \in 2..Len(f)
          BY <2>2, <3>2, <4>2
        <5> QED
          BY <2>4, <5>1 DEF Glued, DatedBy
      <4> QED
        BY <4>1, <4>2
    <3> QED
      BY <3>2, <3>3 DEF DatedBy
  <2> QED
    BY <2>2, <2>3, <2>4
<1> QED
  BY <1>1, <1>2 DEF Write, Failed, Torn

LEMMA LoadOfDated ==
  ASSUME NEW f \in Seq(FileLines), Len(f) <= TailLines,
         NEW n \in Nat, NEW age \in Ages, DatedBy(f, n, age)
  PROVE  Load(f) = age
<1>1. Kept(f) = f
  BY KeptShort
<1>2. n \in 1..Len(f) /\ Decides(f, n) /\ Says(Back(f, n).record) = age
  BY DEF DatedBy, Decides, Speaks, Says, Line, Depleted
<1> QED
  BY <1>1, <1>2, LoadOfDecided

-------------------------------------------------------------------------------
(* The age of the depletion. *)

LEMMA AgesOrder ==
  /\ Never \in Int /\ Never <= Never
  /\ \A age \in Ages : age \in Nat /\ age <= Grace /\ age >= 0 /\ Never <= age
                       /\ age # Never /\ ~(age <= Never)
BY GraceAssumption DEF Ages, Never

LEMMA OlderOrder ==
  ASSUME NEW a \in Ages \cup {Never}, NEW b \in Ages \cup {Never}, a <= b
  PROVE  Older(a) <= Older(b)
<1>1. Grace \in Nat
  BY GraceAssumption
<1> QED
  BY <1>1 DEF Older, Ages, Never

LEMMA CapOrder ==
  ASSUME NEW n \in Nat, Cap(n) < TailLines
  PROVE  Cap(n) = n /\ n < TailLines
<1>1. TailLines \in Nat
  BY TailAssumption
<1> QED
  BY <1>1 DEF Cap

LEMMA DateFacts ==
  ASSUME DateInv
  PROVE  /\ file \in Seq(FileLines) /\ Len(file) <= TailLines
         /\ Dates(file) \subseteq Ages \cup {Never}
         /\ lowFor \in Ages \cup {Never} /\ depletedAt \in Ages \cup {Never}
         /\ since \in Nat /\ since <= TailLines /\ TailLines \in Nat
<1>1. file \in Seq(FileLines)
  BY FileType DEF DateInv
<1>2. since \in 0..TailLines /\ TailLines \in Nat
  BY TailAssumption DEF DateInv, TypeOK
<1> QED
  BY <1>1, <1>2, DatesType DEF DateInv, ShortFile, TypeOK

LEMMA DateInit == Init => DateInv
<1> SUFFICES ASSUME Init PROVE ShortFile /\ NotEarlyInv /\ GraceInv
  BY InitType DEF DateInv
<1>1. file = <<>> /\ Len(file) = 0 /\ 1..Len(file) = {}
  BY DEF Init
<1>2. ShortFile
  BY <1>1, TailAssumption DEF ShortFile
<1>3. Dates(file) = {} /\ Agree(file)
  BY <1>1 DEF Dates, Agree
<1>4. depletedAt = Never /\ lowFor = Never /\ since = TailLines
  BY DEF Init
<1>5. NotEarlyInv
  BY <1>3, <1>4, AgesOrder DEF NotEarlyInv
<1>6. GraceInv
  BY <1>4 DEF GraceInv
<1> QED
  BY <1>2, <1>5, <1>6

\* Where nothing is written and the memory of the depletion is kept.
LEMMA DateKept ==
  ASSUME DateInv, UNCHANGED <<file, up, depletedAt, lowFor, since, stale>>
  PROVE  ShortFile' /\ NotEarlyInv' /\ GraceInv'
<1>1. ShortFile'
  BY DEF DateInv, ShortFile
<1>2. NotEarlyInv'
  BY DEF DateInv, NotEarlyInv
<1>3. GraceInv'
  BY DEF DateInv, GraceInv
<1> QED
  BY <1>1, <1>2, <1>3

\* Where a record of something else is written, whatever becomes of it: at the
\* end of a tick, or just before a stop.
LEMMA DateAfterOther ==
  ASSUME DateInv, NEW g \in {Write(file, Other)} \cup Failed(file, Other),
         file' = Kept(g), since' = Lines(1), UNCHANGED <<lowFor, stale>>,
         UNCHANGED <<up, depletedAt>> \/ (~up' /\ depletedAt' = Never)
  PROVE  ShortFile' /\ NotEarlyInv' /\ GraceInv'
<1>1. PICK f \in Seq(FileLines) : f = file
  BY DateFacts
<1>2. g \in Seq(FileLines) /\ Weaker(Kept(g), f)
  BY <1>1, OtherWeaker
<1>3. ShortFile'
  BY <1>2, KeptIsShort DEF ShortFile
<1>4. lowFor \in Ages \cup {Never} /\ since \in Nat /\ since <= TailLines /\ TailLines \in Nat
  BY DateFacts
<1>5. NotEarlyInv'
  <2>1. depletedAt <= lowFor => depletedAt' <= lowFor'
    BY <1>4, AgesOrder
  <2>2. Dates(file') \subseteq Dates(file) /\ (Agree(file) => Agree(file'))
    BY <1>1, <1>2 DEF Weaker
  <2> QED
    BY <2>1, <2>2 DEF DateInv, NotEarlyInv
<1>6. GraceInv'
  <2>1. ASSUME lowFor = Never
        PROVE  since' = TailLines
    <3>1. since = TailLines
      BY <2>1 DEF DateInv, GraceInv
    <3> QED
      BY <1>4, <3>1 DEF Lines, Cap
  <2>2. ASSUME lowFor # Never, since' < TailLines
        PROVE  (\E n \in 1..since' : DatedBy(file', n, lowFor)) /\ (up => depletedAt = lowFor)
    <3>1. since + 1 < TailLines /\ since' = since + 1
      BY <1>4, <2>2, CapOrder DEF Lines
    <3>2. since < TailLines
      BY <1>4, <3>1
    <3>3. /\ \E n \in 1..since : DatedBy(f, n, lowFor)
          /\ up => depletedAt = lowFor
      BY <1>1, <2>2, <3>2 DEF DateInv, GraceInv
    <3>4. PICK n \in 1..since : DatedBy(f, n, lowFor)
      BY <3>3
    <3>5. n \in Nat
      BY <1>4
    <3>6. PICK m \in {n, n + 1} : DatedBy(g, m, lowFor)
      BY <1>1, <3>4, <3>5, DatedOther
    <3>7. m \in Nat /\ m \in 1..since' /\ m <= TailLines
      BY <1>4, <3>1, <3>5
    <3>8. DatedBy(Kept(g), m, lowFor)
      BY <1>2, <3>6, <3>7, DatedKept
    <3> QED
      BY <3>3, <3>7, <3>8
  <2> QED
    BY <2>1, <2>2 DEF GraceInv
<1> QED
  BY <1>3, <1>5, <1>6

LEMMA WroteOther ==
  ASSUME Wrote(Other)
  PROVE  \E g \in {Write(file, Other)} \cup Failed(file, Other) : file' = Kept(g)
BY DEF Wrote

LEMMA DateAfterJournalled ==
  ASSUME DateInv, Journalled(Other), UNCHANGED <<up, depletedAt, lowFor, stale>>
  PROVE  ShortFile' /\ NotEarlyInv' /\ GraceInv'
BY WroteOther, DateAfterOther DEF Journalled

\* A recovery that is not told leaves the journal as it is, and stale.
LEMMA DateAfterCheckOk ==
  ASSUME DateInv, CheckOk
  PROVE  ShortFile' /\ NotEarlyInv' /\ GraceInv'
<1>1. file \in Seq(FileLines) /\ Len(file) <= TailLines
  BY DateFacts
<1>2. depletedAt' = Never /\ lowFor' = Never /\ since' = TailLines /\ up
  BY DEF CheckOk
<1>3. GraceInv'
  BY <1>2 DEF GraceInv
<1>4. CASE depletedAt = Never
  <2>1. UNCHANGED <<file, stale>>
    BY <1>4 DEF CheckOk, Recovery
  <2>2. ~stale => Dates(file) \subseteq {Never} /\ Agree(file)
    BY <1>2, <1>4 DEF DateInv, NotEarlyInv
  <2>3. ShortFile'
    BY <1>1, <2>1 DEF ShortFile
  <2>4. NotEarlyInv'
    BY <1>2, <2>1, <2>2, AgesOrder DEF NotEarlyInv
  <2> QED
    BY <1>3, <2>3, <2>4
<1>5. CASE depletedAt # Never
  <2>1. Wrote(Recovered) /\ stale' = ~Told(file', Recovered)
    BY <1>5 DEF CheckOk, Recovery
  <2>2. Recovered \in Records /\ Recovered.event # "other" /\ Says(Recovered) = Never
    BY RecordTypes DEF Recovered, Says
  <2>3. PICK g \in Seq(FileLines) : file' = Kept(g)
    <3>1. \E g \in {Write(file, Recovered)} \cup Failed(file, Recovered) : file' = Kept(g)
      BY <2>1 DEF Wrote
    <3> QED
      BY <1>1, <2>2, <3>1, WriteType
  <2>4. file' \in Seq(FileLines) /\ ShortFile'
    BY <2>3, KeptLines, KeptIsShort DEF ShortFile
  <2>5. Told(file', Recovered) => Dates(file') \subseteq {Never} /\ Agree(file')
    BY <2>2, <2>4, ToldDates
  <2>6. NotEarlyInv'
    BY <1>2, <2>1, <2>5, AgesOrder DEF NotEarlyInv
  <2> QED
    BY <1>3, <2>4, <2>6
<1> QED
  BY <1>4, <1>5

\* A process that knows of no depletion has a journal that tells of none, or of
\* the one whose record it has just written.
LEMMA StartTold ==
  ASSUME DateInv, up, depletedAt = Never,
         NEW f \in {Write(file, Depleted(0))} \cup Failed(file, Depleted(0)),
         ~(stale /\ ~Told(f, Depleted(0)))
  PROVE  f \in Seq(FileLines) /\ Dates(f) \subseteq {Never, 0} /\ Agree(f)
<1>1. file \in Seq(FileLines)
  BY DateFacts
<1>2. Depleted(0) \in Records /\ Depleted(0).event # "other" /\ Says(Depleted(0)) = 0
  BY RecordTypes DEF Depleted, Says
<1>3. f \in Seq(FileLines)
  BY <1>1, <1>2, WriteType
<1>4. CASE Told(f, Depleted(0))
  BY <1>2, <1>3, <1>4, ToldDates
<1>5. CASE ~stale
  <2>1. Dates(file) \subseteq {Never}
    BY <1>5 DEF DateInv, NotEarlyInv
  <2> QED
    BY <1>1, <2>1, DepletionTold
<1> QED
  BY <1>4, <1>5

\* Its lines count only from a record that is written.
LEMMA StartDated ==
  ASSUME DateInv, up, depletedAt = Never, Seen,
         NEW f, NEW n \in Nat, Dated(f, n), since' < TailLines
  PROVE  Told(f, Depleted(0)) /\ since' = n /\ n < TailLines /\ lowFor' = 0
<1>1. lowFor \in Ages \cup {Never} /\ since \in Nat /\ since <= TailLines /\ TailLines \in Nat
  BY DateFacts
<1>2. CASE lowFor = Never /\ Told(f, Depleted(0))
  <2>1. since' = Cap(n)
    BY <1>2 DEF Dated
  <2> QED
    BY <1>2, <2>1, CapOrder DEF Seen
<1>3. CASE ~(lowFor = Never /\ Told(f, Depleted(0)))
  <2>1. since' = Cap(since + n) /\ since + n \in Nat
    BY <1>1, <1>3 DEF Dated, Lines
  <2>2. since < TailLines
    BY <1>1, <2>1, CapOrder
  <2>3. lowFor # Never
    BY <1>1, <2>2 DEF DateInv, GraceInv
  <2>4. depletedAt = lowFor
    BY <2>2, <2>3 DEF DateInv, GraceInv
  <2> QED
    BY <2>3, <2>4
<1> QED
  BY <1>2, <1>3

LEMMA SeenAge ==
  ASSUME DateInv, Seen
  PROVE  lowFor' \in Ages /\ lowFor' # Never /\ Never <= lowFor' /\ 0 <= lowFor'
<1>1. lowFor \in Ages \cup {Never}
  BY DateFacts
<1>2. lowFor' \in Ages
  BY <1>1, RecordTypes DEF Seen
<1> QED
  BY <1>2, AgesOrder

LEMMA DateAfterCheckDepleted ==
  ASSUME DateInv, CheckDepleted
  PROVE  ShortFile' /\ NotEarlyInv' /\ GraceInv'
<1>1. up /\ up' = up /\ depletedAt = Never /\ depletedAt' = 0 /\ Seen
  BY DEF CheckDepleted
<1>2. PICK f \in {Write(file, Depleted(0))} \cup Failed(file, Depleted(0)) :
        \E g \in {Write(f, Other)} \cup Failed(f, Other) : file' = Kept(g) /\ Dated(f, 2)
  BY DEF CheckDepleted
<1>3. PICK g \in {Write(f, Other)} \cup Failed(f, Other) : file' = Kept(g) /\ Dated(f, 2)
  BY <1>2
<1>4. f \in Seq(FileLines)
  BY <1>2, DateFacts, RecordTypes, WriteType
<1>5. g \in Seq(FileLines) /\ Weaker(Kept(g), f)
  BY <1>3, <1>4, OtherWeaker
<1>6. ShortFile'
  BY <1>3, <1>5, KeptIsShort DEF ShortFile
<1>7. lowFor' \in Ages /\ lowFor' # Never /\ Never <= lowFor' /\ 0 <= lowFor'
  BY <1>1, SeenAge
<1>8. NotEarlyInv'
  <2>1. SUFFICES ASSUME ~stale' PROVE Dates(file') \subseteq {Never, 0} /\ Agree(file')
    BY <1>1, <1>7 DEF NotEarlyInv
  <2>2. ~(stale /\ ~Told(f, Depleted(0)))
    BY <1>3, <2>1 DEF Dated
  <2>3. Dates(f) \subseteq {Never, 0} /\ Agree(f)
    BY <1>1, <2>2, StartTold
  <2> QED
    BY <1>3, <1>5, <2>3 DEF Weaker
<1>9. GraceInv'
  <2>1. SUFFICES ASSUME since' < TailLines
                 PROVE  (\E n \in 1..since' : DatedBy(file', n, lowFor')) /\ depletedAt' = lowFor'
    BY <1>7 DEF GraceInv
  <2>2. Told(f, Depleted(0)) /\ since' = 2 /\ 2 < TailLines /\ lowFor' = 0
    BY <1>1, <1>3, <2>1, StartDated
  <2>3. DatedBy(f, 1, 0)
    BY <1>4, <2>2, ToldDated
  <2>4. PICK m \in {1, 1 + 1} : DatedBy(g, m, 0)
    BY <1>3, <1>4, <2>3, DatedOther
  <2>5. m \in Nat /\ m <= TailLines /\ m \in 1..2
    BY <2>2, TailAssumption
  <2>6. DatedBy(Kept(g), m, 0)
    BY <1>5, <2>4, <2>5, DatedKept
  <2> QED
    BY <1>1, <1>3, <2>2, <2>5, <2>6
<1> QED
  BY <1>6, <1>8, <1>9

\* A stop leaves the record that was about to be written, a part of it or nothing.
LEMMA DateAfterCrash ==
  ASSUME DateInv, Crash
  PROVE  ShortFile' /\ NotEarlyInv' /\ GraceInv'
<1>1. file \in Seq(FileLines) /\ Len(file) <= TailLines /\ lowFor \in Ages \cup {Never}
  BY DateFacts
<1>2. up /\ ~up' /\ depletedAt' = Never
  BY DEF Crash
<1>3. CASE UNCHANGED <<file, lowFor, since, stale>>
  <2>1. ShortFile'
    BY <1>1, <1>3 DEF ShortFile
  <2>2. NotEarlyInv'
    BY <1>1, <1>2, <1>3, AgesOrder DEF DateInv, NotEarlyInv
  <2>3. GraceInv'
    BY <1>2, <1>3 DEF DateInv, GraceInv
  <2> QED
    BY <2>1, <2>2, <2>3
<1>4. CASE /\ \E f \in {Write(file, Pending)} \cup Torn(file, Pending) : file' = Kept(f)
           /\ CASE Pending = Recovered ->
                     /\ lowFor' = Never /\ since' = TailLines
                     /\ stale' = ~Told(file', Recovered)
                [] Pending = Depleted(0) -> Seen /\ Dated(file', 1)
                [] OTHER -> since' = Lines(1) /\ UNCHANGED <<lowFor, stale>>
  <2>0. Recovered # Depleted(0) /\ Other # Depleted(0) /\ Other # Recovered
    BY DEF Recovered, Depleted, Other
  <2>1. PICK f \in {Write(file, Pending)} \cup Failed(file, Pending) : file' = Kept(f)
    BY <1>4 DEF Failed
  <2>2. f \in Seq(FileLines)
    BY <1>1, <2>1, PendingType, WriteType
  <2>3. file' \in Seq(FileLines) /\ ShortFile'
    BY <2>1, <2>2, KeptLines, KeptIsShort DEF ShortFile
  <2>4. CASE Pending = Recovered
    <3>1. lowFor' = Never /\ since' = TailLines /\ stale' = ~Told(file', Recovered)
      BY <1>4, <2>0, <2>4
    <3>2. Recovered \in Records /\ Recovered.event # "other" /\ Says(Recovered) = Never
      BY RecordTypes DEF Recovered, Says
    <3>3. Told(file', Recovered) => Dates(file') \subseteq {Never} /\ Agree(file')
      BY <2>3, <3>2, ToldDates
    <3>4. NotEarlyInv'
      BY <1>2, <3>1, <3>3, AgesOrder DEF NotEarlyInv
    <3>5. GraceInv'
      BY <3>1 DEF GraceInv
    <3> QED
      BY <2>3, <3>4, <3>5
  <2>5. CASE Pending = Depleted(0)
    <3>1. Seen /\ Dated(file', 1)
      BY <1>4, <2>0, <2>5
    <3>2. depletedAt = Never
      BY <2>0, <2>5 DEF Pending
    <3>3. lowFor' \in Ages /\ lowFor' # Never /\ Never <= lowFor' /\ 0 <= lowFor'
      BY <3>1, SeenAge
    <3>4. NotEarlyInv'
      <4>1. SUFFICES ASSUME ~stale' PROVE Dates(file') \subseteq {Never, 0} /\ Agree(file')
        BY <1>2, <3>3 DEF NotEarlyInv
      <4>2. CASE Told(file', Depleted(0))
        <5>1. Depleted(0) \in Records /\ Depleted(0).event # "other" /\ Says(Depleted(0)) = 0
          BY RecordTypes DEF Depleted, Says
        <5> QED
          BY <2>3, <4>2, <5>1, ToldDates
      <4>3. CASE ~stale
        <5>1. Dates(f) \subseteq {Never, 0} /\ Agree(f)
          BY <1>2, <2>1, <2>5, <3>2, <4>3, StartTold
        <5> QED
          BY <2>1, <2>2, <5>1, KeptWeaker DEF Weaker
      <4> QED
        BY <3>1, <4>1, <4>2, <4>3 DEF Dated
    <3>5. GraceInv'
      <4>1. SUFFICES ASSUME since' < TailLines
                     PROVE  \E n \in 1..since' : DatedBy(file', n, lowFor')
        BY <1>2, <3>3 DEF GraceInv
      <4>2. Told(file', Depleted(0)) /\ since' = 1 /\ lowFor' = 0
        BY <1>2, <3>1, <3>2, <4>1, StartDated
      <4>3. DatedBy(file', 1, 0)
        BY <2>3, <4>2, ToldDated
      <4>4. 1 \in 1..1
        OBVIOUS
      <4> QED
        BY <4>2, <4>3, <4>4
    <3> QED
      BY <2>3, <3>4, <3>5
  <2>6. CASE Pending = Other
    <3>1. since' = Lines(1) /\ UNCHANGED <<lowFor, stale>>
      BY <1>4, <2>0, <2>6
    <3> QED
      BY <1>2, <2>1, <2>6, <3>1, DateAfterOther
  <2> QED
    BY <2>4, <2>5, <2>6 DEF Pending
<1> QED
  BY <1>3, <1>4 DEF Crash

\* A restart takes what the others agree with.
LEMMA DateAfterRestart ==
  ASSUME DateInv, Restart
  PROVE  ShortFile' /\ NotEarlyInv' /\ GraceInv'
<1>1. /\ file \in Seq(FileLines) /\ Len(file) <= TailLines
      /\ lowFor \in Ages \cup {Never} /\ since \in Nat
  BY DateFacts
<1>2. UNCHANGED <<file, lowFor, since, stale>> /\ depletedAt' = Load(file)
  BY DEF Restart, history
<1>3. ShortFile'
  BY <1>1, <1>2 DEF ShortFile
<1>4. NotEarlyInv'
  <2>1. SUFFICES ASSUME ~stale
                 PROVE  /\ Load(file) <= lowFor
                        /\ Dates(file) \subseteq {Never, Load(file)}
    BY <1>2 DEF DateInv, NotEarlyInv
  <2>2. (\A d \in Dates(file) : d <= lowFor) /\ Agree(file)
    BY <2>1 DEF DateInv, NotEarlyInv
  <2>3. CASE Load(file) = Never /\ Dates(file) = {}
    BY <1>1, <2>3, AgesOrder
  <2>4. CASE Load(file) \in Dates(file) /\ (Agree(file) => Dates(file) \subseteq {Never, Load(file)})
    BY <2>2, <2>4
  <2> QED
    BY <1>1, <2>3, <2>4, LoadDates
<1>5. ASSUME lowFor # Never, since < TailLines
      PROVE  (\E n \in 1..since : DatedBy(file, n, lowFor)) /\ Load(file) = lowFor
  <2>1. PICK n \in 1..since : DatedBy(file, n, lowFor)
    BY <1>5 DEF DateInv, GraceInv
  <2>2. n \in Nat
    BY <1>1
  <2> QED
    BY <1>1, <1>5, <2>1, <2>2, LoadOfDated
<1>6. GraceInv'
  BY <1>2, <1>5 DEF DateInv, GraceInv
<1> QED
  BY <1>3, <1>4, <1>6

\* Time does not change what a line speaks of; it makes the date older.
LEMMA PassBack ==
  ASSUME NEW f \in Seq(FileLines), NEW g \in Seq(FileLines), f = file, g = file', Pass,
         NEW k \in 1..Len(f)
  PROVE  /\ Len(g) = Len(f)
         /\ Back(g, k).readable = Back(f, k).readable
         /\ Back(g, k).ended = Back(f, k).ended
         /\ Back(g, k).record.event = Back(f, k).record.event
         /\ Back(f, k).record.event = "depleted" =>
              Back(g, k).record = Depleted(Older(Back(f, k).record.age))
         /\ Back(f, k).record.event # "depleted" => Back(g, k) = Back(f, k)
<1>1. Len(g) = Len(f) /\ Len(f) - k + 1 \in 1..Len(f)
  BY PassFile
<1> DEFINE i == Len(f) - k + 1
<1>2. i \in 1..Len(f) /\ Back(f, k) = f[i] /\ Back(g, k) = g[i] /\ f[i] \in FileLines
  BY <1>1 DEF Back
<1> HIDE DEF i
<1>3. CASE f[i].record.event = "depleted"
  <2>1. g[i] = [f[i] EXCEPT !.record.age = Older(f[i].record.age)]
    BY <1>2, <1>3, PassFile
  <2>2. f[i].record \in Records
    BY <1>2 DEF FileLines
  <2>3. g[i].record = [f[i].record EXCEPT !.age = Older(f[i].record.age)]
        /\ g[i].readable = f[i].readable /\ g[i].ended = f[i].ended
    BY <1>2, <2>1 DEF FileLines
  <2>4. g[i].record = Depleted(Older(f[i].record.age))
    BY <1>3, <2>2, <2>3 DEF Records, Depleted
  <2>5. g[i].record.event = "depleted"
    BY <2>4 DEF Depleted
  <2> QED
    BY <1>1, <1>2, <1>3, <2>3, <2>4, <2>5
<1>4. CASE f[i].record.event # "depleted"
  BY <1>1, <1>2, <1>4, PassFile
<1> QED
  BY <1>3, <1>4

LEMMA DatesAfterPass ==
  ASSUME NEW f \in Seq(FileLines), NEW g \in Seq(FileLines), f = file, g = file', Pass
  PROVE  /\ \A d \in Dates(g) : \E e \in Dates(f) : d = Older(e)
         /\ Agree(f) => Agree(g)
<1>1. Len(g) = Len(f) /\ Len(f) \in Nat
  BY PassFile
<1>2. ASSUME NEW k \in 1..Len(f)
      PROVE  /\ Speaks(Back(g, k)) <=> Speaks(Back(f, k))
             /\ Back(g, k).ended = Back(f, k).ended
  BY PassBack DEF Speaks
<1>3. ASSUME NEW k \in 1..Len(f)
      PROVE  Candidate(g, k) <=> Candidate(f, k)
  <2>1. \A j \in 1..(k - 1) : j \in 1..Len(f)
    BY <1>1
  <2> QED
    BY <1>1, <1>2, <2>1 DEF Candidate
<1>4. ASSUME NEW k \in 1..Len(f), Candidate(f, k)
      PROVE  Says(Back(g, k).record) = Older(Says(Back(f, k).record))
  <2>1. Back(f, k).record.event \in {"depleted", "recovered"}
    BY <1>4, LinesBack DEF Candidate, Speaks, Records
  <2>2. CASE Back(f, k).record.event = "depleted"
    <3>1. Back(g, k).record = Depleted(Older(Back(f, k).record.age))
      BY <2>2, PassBack
    <3> QED
      BY <2>2, <3>1 DEF Says, Depleted
  <2>3. CASE Back(f, k).record.event = "recovered"
    <3>1. Back(g, k) = Back(f, k)
      BY <2>3, PassBack
    <3> QED
      BY <2>3, <3>1, OlderType DEF Says
  <2> QED
    BY <2>1, <2>2, <2>3
<1>5. ASSUME NEW d \in Dates(g)
      PROVE  \E e \in Dates(f) : d = Older(e)
  <2>1. PICK k \in 1..Len(g) : Candidate(g, k) /\ d = Says(Back(g, k).record)
    BY <1>5 DEF Dates
  <2>2. k \in 1..Len(f) /\ Candidate(f, k)
    BY <1>1, <1>3, <2>1
  <2> QED
    BY <1>4, <2>1, <2>2, DateOf
<1>6. ASSUME Agree(f), NEW k \in 1..Len(g), NEW j \in 1..(k - 1),
             Candidate(g, j), Candidate(g, k)
      PROVE  Says(Back(g, k).record) \in {Never, Says(Back(g, j).record)}
  <2>1. k \in 1..Len(f) /\ j \in 1..Len(f)
    BY <1>1
  <2>2. Candidate(f, k) /\ Candidate(f, j)
    BY <1>3, <1>6, <2>1
  <2>3. Says(Back(f, k).record) \in {Never, Says(Back(f, j).record)}
    BY <1>6, <2>1, <2>2 DEF Agree
  <2>4. Older(Never) = Never
    BY OlderType
  <2> QED
    BY <1>4, <2>1, <2>2, <2>3, <2>4
<1> QED
  BY <1>5, <1>6 DEF Agree

LEMMA DateAfterPass ==
  ASSUME DateInv, Pass
  PROVE  ShortFile' /\ NotEarlyInv' /\ GraceInv'
<1>1. PICK f \in Seq(FileLines) : f = file
  BY DateFacts
<1>2. PICK g \in Seq(FileLines) : g = file'
  BY <1>1, PassFile
<1>3. Len(g) = Len(f) /\ Len(f) <= TailLines /\ Len(f) \in Nat
  BY <1>1, <1>2, PassFile, DateFacts
<1>4. depletedAt' = Older(depletedAt) /\ lowFor' = Older(lowFor)
      /\ UNCHANGED <<up, since, stale>>
  BY DEF Pass
<1>5. depletedAt \in Ages \cup {Never} /\ lowFor \in Ages \cup {Never}
      /\ Dates(f) \subseteq Ages \cup {Never} /\ since \in Nat
  BY <1>1, DateFacts
<1>6. ShortFile'
  BY <1>2, <1>3 DEF ShortFile
<1>7. (\A d \in Dates(g) : \E e \in Dates(f) : d = Older(e)) /\ (Agree(f) => Agree(g))
  BY <1>1, <1>2, DatesAfterPass
<1>8. NotEarlyInv'
  <2>1. SUFFICES ASSUME ~stale
                 PROVE  /\ Older(depletedAt) <= Older(lowFor)
                        /\ \A d \in Dates(g) : d <= Older(lowFor)
                        /\ up => Dates(g) \subseteq {Never, Older(depletedAt)}
                        /\ Agree(g)
    BY <1>2, <1>4 DEF NotEarlyInv
  <2>2. /\ depletedAt <= lowFor
        /\ \A d \in Dates(f) : d <= lowFor
        /\ up => Dates(f) \subseteq {Never, depletedAt}
        /\ Agree(f)
    BY <1>1, <2>1 DEF DateInv, NotEarlyInv
  <2>3. Older(depletedAt) <= Older(lowFor)
    BY <1>5, <2>2, OlderOrder
  <2>4. \A d \in Dates(f) : Older(d) <= Older(lowFor)
    BY <1>5, <2>2, OlderOrder
  <2>5. up => \A d \in Dates(f) : Older(d) \in {Never, Older(depletedAt)}
    BY <2>2, OlderType
  <2> QED
    BY <1>7, <2>2, <2>3, <2>4, <2>5
<1>9. ASSUME lowFor' # Never, since < TailLines
      PROVE  (\E n \in 1..since : DatedBy(g, n, Older(lowFor))) /\ (up => depletedAt = lowFor)
  <2>1. lowFor # Never /\ lowFor \in Ages
    BY <1>4, <1>5, <1>9, OlderType
  <2>2. (\E n \in 1..since : DatedBy(f, n, lowFor)) /\ (up => depletedAt = lowFor)
    BY <1>1, <1>9, <2>1 DEF DateInv, GraceInv
  <2>3. PICK n \in 1..since : DatedBy(f, n, lowFor)
    BY <2>2
  <2>4. n \in 1..Len(f) /\ Back(f, n) = Line(Depleted(lowFor), TRUE, TRUE)
    BY <2>3 DEF DatedBy
  <2>5. Back(f, n).record.event = "depleted" /\ Back(f, n).record.age = lowFor
        /\ Back(f, n).readable = TRUE /\ Back(f, n).ended = TRUE
    BY <2>4 DEF Line, Depleted
  <2>6. Back(g, n).record = Depleted(Older(lowFor))
        /\ Back(g, n).readable = TRUE /\ Back(g, n).ended = TRUE
    BY <1>1, <1>2, <2>4, <2>5, PassBack
  <2>7. Back(g, n) = Line(Depleted(Older(lowFor)), TRUE, TRUE)
    BY <1>3, <2>4, <2>6, LinesBack DEF FileLines, Line
  <2>8. ASSUME NEW k \in 1..(n - 1)
        PROVE  ~Speaks(Back(g, k))
    <3>1. k \in 1..Len(f)
      BY <1>3, <2>4
    <3> QED
      BY <1>1, <1>2, <2>3, <3>1, PassBack DEF DatedBy, Speaks
  <2>9. DatedBy(g, n, Older(lowFor))
    BY <1>3, <2>4, <2>7, <2>8 DEF DatedBy
  <2> QED
    BY <2>2, <2>9
<1>10. lowFor' = Never => since = TailLines
  <2>1. lowFor' = Never => lowFor = Never
    BY <1>4, <1>5, OlderType
  <2> QED
    BY <2>1 DEF DateInv, GraceInv
<1>11. GraceInv'
  BY <1>2, <1>4, <1>9, <1>10 DEF GraceInv
<1> QED
  BY <1>6, <1>8, <1>11

\* A check that goes by a date the checks have not seen, after a recovery that
\* was not told.
LEMMA DateAfterSeen ==
  ASSUME DateInv, Seen, lowFor = Never, depletedAt \in Ages,
         stale' = stale, since' = since \/ since' = Lines(1), ShortFile'
  PROVE  ShortFile' /\ NotEarlyInv' /\ GraceInv'
<1>1. stale
  <2>1. ~(depletedAt <= lowFor)
    BY AgesOrder
  <2> QED
    BY <2>1 DEF DateInv, NotEarlyInv, TypeOK
<1>2. since = TailLines /\ TailLines \in Nat
  BY DateFacts DEF DateInv, GraceInv
<1>3. since' = TailLines
  BY <1>2 DEF Lines, Cap
<1>4. GraceInv'
  BY <1>2, <1>3 DEF GraceInv
<1> QED
  BY <1>1, <1>4 DEF NotEarlyInv

LEMMA DateStep == DateInv /\ [Next]_vars => ShortFile' /\ NotEarlyInv' /\ GraceInv'
<1> SUFFICES ASSUME DateInv, [Next]_vars
             PROVE  ShortFile' /\ NotEarlyInv' /\ GraceInv'
  OBVIOUS
<1>1. Grace \in Nat /\ Grace \in Ages /\ 0..(Grace - 1) \subseteq Ages
  BY GraceAssumption DEF Ages
<1>2. CASE SkipTick
  BY <1>2, DateAfterJournalled DEF SkipTick, process
<1>3. CASE CheckOk
  BY <1>3, DateAfterCheckOk
<1>4. CASE CheckDepleted
  BY <1>4, DateAfterCheckDepleted
<1>5. CASE CheckInGrace
  <2>1. /\ Journalled(Other) /\ Seen /\ depletedAt \in Ages
        /\ UNCHANGED <<up, depletedAt, stale>> /\ since' = Lines(1)
    BY <1>1, <1>5 DEF CheckInGrace, Journalled
  <2>2. CASE lowFor = Never
    <3>1. ShortFile'
      <4>1. PICK g \in {Write(file, Other)} \cup Failed(file, Other) : file' = Kept(g)
        BY <2>1, WroteOther DEF Journalled
      <4> QED
        BY <4>1, DateFacts, RecordTypes, WriteType, KeptIsShort DEF ShortFile
    <3> QED
      BY <2>1, <2>2, <3>1, DateAfterSeen
  <2>3. CASE lowFor # Never
    BY <2>1, <2>3, DateAfterJournalled DEF Seen
  <2> QED
    BY <2>2, <2>3
<1>6. CASE CheckGraceOver
  <2>1. Seen /\ depletedAt \in Ages /\ UNCHANGED <<file, up, depletedAt, since, stale>>
    BY <1>1, <1>6 DEF CheckGraceOver
  <2>2. CASE lowFor = Never
    <3>1. ShortFile'
      BY <2>1 DEF DateInv, ShortFile
    <3> QED
      BY <2>1, <2>2, <3>1, DateAfterSeen
  <2>3. CASE lowFor # Never
    BY <2>1, <2>3, DateKept DEF Seen
  <2> QED
    BY <2>2, <2>3
<1>7. CASE EndClose
  BY <1>7, DateAfterJournalled DEF EndClose
<1>8. CASE EndTrade
  BY <1>8, DateAfterJournalled DEF EndTrade
<1>9. CASE Crash
  BY <1>9, DateAfterCrash
<1>10. CASE Restart
  BY <1>10, DateAfterRestart
<1>11. CASE Pass
  BY <1>11, DateAfterPass
<1>12. CASE ReadPortfolio \/ CheckFails \/ (\E t \in Tickers : Close(t) \/ Trade(t))
            \/ Answer \/ BalanceChanges \/ Fill \/ FillStray \/ UNCHANGED vars
  <2>1. UNCHANGED <<file, up, depletedAt, lowFor, since, stale>>
    BY <1>12 DEF ReadPortfolio, CheckFails, Close, Trade, Answer, BalanceChanges, Fill,
       FillStray, vars, env, process, history
  <2> QED
    BY <2>1, DateKept
<1> QED
  BY <1>2, <1>3, <1>4, <1>5, <1>6, <1>7, <1>8, <1>9, <1>10, <1>11, <1>12
  DEF Next, Check

LEMMA DateCorrect == Spec => []DateInv
<1>1. DateInv /\ [Next]_vars => DateInv'
  BY NextType, DateStep DEF DateInv
<1> QED
  BY <1>1, DateInit, PTL DEF Spec

LEMMA ClosesInTime ==
  ASSUME DateInv, [Next]_vars, phase # "closing", phase' = "closing"
  PROVE  lowFor' = Grace \/ stale
<1>1. CheckGraceOver
  BY DEF Next, Check, vars, env, process, SkipTick, ReadPortfolio, CheckFails, CheckOk,
     CheckDepleted, CheckInGrace, Close, Trade, Answer, EndClose, EndTrade, Crash,
     Restart, Pass, BalanceChanges, Fill, FillStray
<1>2. depletedAt = Grace /\ Grace \in Ages /\ Grace \in Nat /\ Seen
  BY <1>1, GraceAssumption DEF CheckGraceOver, Ages
<1>3. SUFFICES ASSUME ~stale PROVE lowFor' = Grace
  BY DEF DateInv, TypeOK
<1>4. Grace <= lowFor /\ lowFor \in Ages \cup {Never}
  BY <1>2, <1>3, DateFacts DEF DateInv, NotEarlyInv
<1>5. lowFor \in Ages /\ lowFor # Never
  BY <1>2, <1>4, AgesOrder
<1>6. lowFor \in Nat /\ lowFor <= Grace
  BY <1>5, AgesOrder
<1> QED
  BY <1>2, <1>4, <1>5, <1>6 DEF Seen

\* No position is closed before the account has been empty for the whole grace
\* period, whatever became of the journal's writes and whatever the process was
\* in the middle of when it stopped, unless the record of the last recovery is
\* missing: memory and every line a restart may go by date the depletion no
\* further back than the first check that saw it.
THEOREM NotEarlyCorrect == Spec => CloseNotEarly
<1>1. DateInv /\ [Next]_vars
        => [phase # "closing" /\ phase' = "closing" => lowFor' = Grace \/ stale]_vars
  BY ClosesInTime
<1> QED
  BY <1>1, DateCorrect, PTL DEF Spec, CloseNotEarly

LEMMA ClosesAtLast ==
  ASSUME DateInv, [Next]_vars,
         phase = "checking", phase' # "checking", lowFor = Grace, up',
         lowFor' = Grace, since < TailLines, faults' = faults
  PROVE  phase' = "closing"
<1>1. Grace \in Nat /\ Grace # Never /\ ~(Grace \in 0..(Grace - 1))
  BY GraceAssumption DEF Never
<1>2. faults \in Nat /\ faults + 1 # faults
  <2>1. faults \in Nat
    BY BoundsAssumption DEF DateInv, TypeOK
  <2> QED
    BY <2>1
<1>3. ~Fault
  BY <1>2 DEF Fault
<1>4. up => depletedAt = Grace
  BY <1>1 DEF DateInv, GraceInv
<1>5. ~CheckFails /\ ~Crash
  BY <1>3 DEF CheckFails, Crash
<1>6. ~CheckOk
  BY <1>1 DEF CheckOk
<1>7. ~CheckDepleted /\ ~CheckInGrace
  BY <1>1, <1>4 DEF CheckDepleted, CheckInGrace
<1>8. CASE CheckGraceOver
  BY <1>8 DEF CheckGraceOver
<1>9. CASE ~CheckGraceOver
  BY <1>5, <1>6, <1>7, <1>9 DEF Next, Check, vars, env, process, SkipTick,
     ReadPortfolio, Close, Trade, Answer, EndClose, EndTrade, Restart, Pass,
     BalanceChanges, Fill, FillStray
<1> QED
  BY <1>8, <1>9

\* A restart does not give the account a new grace period, for any length of it
\* and of the tail that is read and whatever becomes of the records after that of
\* the depletion: it is the last one about the balance that can be read, and has
\* the age of the first check that saw it.
THEOREM GraceCorrect == Spec => GraceSurvivesRestart
<1>1. DateInv /\ [Next]_vars
        => [phase = "checking" /\ phase' # "checking" /\ lowFor = Grace /\ up'
              /\ lowFor' = Grace /\ since < TailLines /\ faults' = faults
              => phase' = "closing"]_vars
  BY ClosesAtLast
<1> QED
  BY <1>1, DateCorrect, PTL DEF Spec, GraceSurvivesRestart
===============================================================================
