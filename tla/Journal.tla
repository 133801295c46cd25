------------------------------- MODULE Journal -------------------------------
(***************************************************************************)
(* JsonlJournal over the life of its file: one process after another       *)
(* appends records, and any of them may stop inside a write.  NAV history, *)
(* turnover, profit ladder and the balance fail-safe are read back from    *)
(* one such file, the lessons of past trades from another.  Who writes is  *)
(* left to the module that extends this one.                               *)
(***************************************************************************)
EXTENDS JournalFile, Naturals

CONSTANTS
  Plain,      \* records of plain text
  Separated,  \* records with Unicode line separators in their text
  Scrap,      \* JSON that is no record, such as 5 or null
  MaxPieces,  \* bound: lines of such a text between two separators
  TailLines,  \* n of tail(n)
  MaxWrites, MaxCrashes   \* bounds

ASSUME TailAssumption == TailLines \in Nat
ASSUME RecordsAssumption ==
  Plain \cap Separated = {} /\ Scrap \notin Plain \cup Separated
ASSUME BoundsAssumption ==
  MaxWrites \in Nat /\ MaxCrashes \in Nat /\ MaxPieces \in Nat

VARIABLES
  file,
  offered,   \* history: the records given to write, in order
  fate,      \* history: how much of each of them reached the disk
  ends,      \* history: how many lines the file had after each of them
  crashes

journal == <<file, offered, fate, ends, crashes>>

Records == Plain \cup Separated

Empty ==
  /\ file = <<>>
  /\ offered = <<>> /\ fate = <<>> /\ ends = <<>>
  /\ crashes = 0

\* The lines a text has between its separators.
Pieces(record) ==
  BoundedSeq({Line(record, FALSE, TRUE), Line(Scrap, TRUE, TRUE)}, MaxPieces)

Offer(record, how) ==
  /\ Len(offered) < MaxWrites
  /\ offered' = Append(offered, record)
  /\ fate' = Append(fate, how)
  /\ ends' = Append(ends, Len(file'))

WriteRecord(record) ==
  /\ \/ record \in Plain /\ file' = Write(file, record)
     \/ record \in Separated
          /\ \E middle \in Pieces(record) : file' = WriteSplit(file, record, middle)
  /\ Offer(record, "written")
  /\ UNCHANGED crashes

\* What a write leaves that does not get to its end.
Leaves(record) ==
  \/ record \in Plain /\ file' \in Torn(file, record)
  \/ record \in Separated
       /\ \E middle \in Pieces(record) : file' \in TornSplit(file, record, middle, Scrap)

\* open, write or the flush at close raises: a warning is logged and nothing
\* else.  A disk that is full may have taken a part of the line.
WriteFails(record) ==
  /\ \/ UNCHANGED file /\ Offer(record, "failed")
     \/ Leaves(record) /\ Offer(record, "cut")
  /\ UNCHANGED crashes

\* The process stops inside write; the next one appends to what is left.
CrashInWrite(record) ==
  /\ crashes < MaxCrashes
  /\ Leaves(record)
  /\ Offer(record, "cut")
  /\ crashes' = crashes + 1

\* The process stops outside of write.
CrashElsewhere ==
  /\ crashes < MaxCrashes
  /\ crashes' = crashes + 1
  /\ UNCHANGED <<file, offered, fate, ends>>

-------------------------------------------------------------------------------
(* Properties. *)

Increasing(f) == \A i, j \in DOMAIN f : i < j => f[i] < f[j]

\* The last thing that reached the file before the i-th record was cut off.
AfterCut(i) ==
  \E j \in 1..(i - 1) :
    fate[j] = "cut" /\ \A k \in (j + 1)..(i - 1) : fate[k] = "failed"

Intact(i) == fate[i] = "written" /\ offered[i] \in Plain /\ ~AfterCut(i)

\* Its line is among those that tail looks at.
Recent(i) == Len(file) - ends[i] < TailLines

\* Damage stays local: a recent record of plain text is returned by tail, in its
\* place among the others, unless its own write failed or it is the first to
\* follow one that was cut off, by a stop or by a full disk.
IntactIsReturned ==
  LET lines == LastLines(file, TailLines)
      due == {i \in DOMAIN offered : Intact(i) /\ Recent(i)}
  IN  \E place \in [due -> Parsed(lines)] :
        /\ Increasing(place)
        /\ \A i \in due : lines[place[i]].record = offered[i]

\* journal.py:31: tail reads records and skips the lines that are none.
OnlyRecords ==
  LET lines == LastLines(file, TailLines)
  IN  \A i \in Parsed(lines) : lines[i].record \in Range(offered)
===============================================================================
