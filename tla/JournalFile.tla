----------------------------- MODULE JournalFile -----------------------------
(***************************************************************************)
(* The JSONL file behind JsonlJournal.  A line is what json.loads makes of *)
(* it, whether it makes anything of it, and whether its newline has been   *)
(* written: only the last line can be without, after a write that was cut  *)
(* off.                                                                    *)
(***************************************************************************)
EXTENDS SequencesExt

Line(record, readable, ended) ==
  [record |-> record, readable |-> readable, ended |-> ended]

Unended(file) == file # <<>> /\ ~Last(file).ended

\* What a write adds.  After a line without its newline the two records make
\* one line, which is no JSON.
AddLine(file, record, readable, ended) ==
  IF Unended(file)
  THEN Append(Front(file), [Last(file) EXCEPT !.readable = FALSE, !.ended = ended])
  ELSE Append(file, Line(record, readable, ended))

\* write(event, **fields).
Write(file, record) == AddLine(file, record, TRUE, TRUE)

\* ensure_ascii=False leaves U+0085, U+2028 and U+2029 in a text as they are,
\* and splitlines() in tail takes each of them for the end of a line: a first
\* piece that ends and a last one that begins inside a string, which are no JSON,
\* and between two separators whatever the text has there.
WriteSplit(file, record, middle) ==
  AddLine(AddLine(file, record, FALSE, TRUE) \o middle, record, FALSE, TRUE)

\* A write is cut off: part of the line is on disk, or all of it but its newline.
Torn(file, record) == {AddLine(file, record, whole, FALSE) : whole \in BOOLEAN}

\* Of a text with separators, a part of its first piece, or that piece and some
\* more, the last of them in full or in part.
TornSplit(file, record, middle, scrap) ==
  LET left == AddLine(file, record, FALSE, TRUE) \o middle
  IN  {AddLine(file, record, FALSE, FALSE), left,
       AddLine(left, record, FALSE, FALSE), AddLine(left, scrap, TRUE, FALSE)}

\* Variant: one line too few.
LastLinesShort(file, n) ==
  IF Len(file) > n - 1 THEN SubSeq(file, Len(file) - n + 2, Len(file)) ELSE file

\* The lines tail(n) looks at.
LastLines(file, n) ==
  IF Len(file) > n THEN SubSeq(file, Len(file) - n + 1, Len(file)) ELSE file

\* The lines whose records tail returns, in their order; the others are skipped.
Parsed(lines) == {i \in DOMAIN lines : lines[i].readable}
===============================================================================
