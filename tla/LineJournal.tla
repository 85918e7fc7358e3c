---------------------------- MODULE LineJournal ----------------------------
(***************************************************************************)
(* The append-only journal of src/src/source/journal.rs and of             *)
(* src/src/format/tqf/conversion.rs: one entry per line, each append       *)
(* synced.  A line that was cut off has no newline, so the next append     *)
(* lands on the same line.                                                 *)
(***************************************************************************)
EXTENDS Naturals, Sequences, SequencesExt

CONSTANT NoFile    \* a file that does not exist

Garbage == [event |-> "Garbage"]    \* a line that does not parse

(* A journal created and not yet written to.                               *)
EmptyJournal == [lines |-> <<>>, ended |-> TRUE]

(* A line added to the lines before it: on a line of its own only if the   *)
(* last one was ended.                                                     *)
AddLine(lines, ended, e) ==
  IF ended THEN Append(lines, e) ELSE Append(Front(lines), Garbage)

(* append: the entry and its newline.                                      *)
Appended(j, e) == [lines |-> AddLine(j.lines, j.ended, e), ended |-> TRUE]

(* What an append cut off can leave: a piece of the entry, or all of it    *)
(* but the newline.                                                        *)
CutOff(j, e) ==
  {[lines |-> AddLine(j.lines, j.ended, x), ended |-> FALSE] : x \in {e, Garbage}}

(* read: a malformed last line is dropped, any other one is an error, and  *)
(* so is a journal whose first entry is not the header.                    *)
Entries(j) ==
  IF j.lines # <<>> /\ Last(j.lines) = Garbage THEN Front(j.lines) ELSE j.lines
NoJournal(j) == j = NoFile \/ (j # NoFile /\ j.lines = <<>>)
Readable(j) ==
  /\ \A i \in 1..Len(Entries(j)) : Entries(j)[i] # Garbage
  /\ Entries(j) # <<>> /\ Head(Entries(j)).event = "Header"

(* The lines of one kind, in order: SelectSeq, with its recursion in view, *)
(* so that facts about it can be proved.                                   *)
Select(lines, event) ==
  LET found[n \in 0..Len(lines)] ==
        IF n = 0 THEN <<>>
        ELSE IF lines[n].event = event THEN Append(found[n - 1], lines[n])
        ELSE found[n - 1]
  IN  found[Len(lines)]
EntriesOf(j, event) ==
  IF NoJournal(j) \/ ~Readable(j) THEN <<>> ELSE Select(Entries(j), event)
=============================================================================
