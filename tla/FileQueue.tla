------------------------------ MODULE FileQueue ------------------------------
(***************************************************************************)
(* The queues of the asynchronous server, FileQueue.cpp: a text file with  *)
(* an entry per line, and a counter size_ in the object.  An entry is      *)
(* removed by copying the others to "temp.txt", deleting the file and      *)
(* renaming temp.txt to it; all queues use the same temp.txt.  Nothing     *)
(* here locks anything, so what other threads can see is cut into steps:   *)
(* copy, remove, rename, and the reading and writing of the counter.       *)
(*                                                                         *)
(* Copying the few lines of a queue is one step, as is appending a line.   *)
(***************************************************************************)
EXTENDS Naturals, Sequences, SequencesExt

CONSTANTS Missing,      \* the content of a file that does not exist
          EmptyLine     \* the empty string, which pop returns for no entry

VARIABLES file,         \* by queue: the lines of its file
          temp,         \* the lines of temp.txt
          size          \* by queue: size_

Content(q) == IF file[q] = Missing THEN <<>> ELSE file[q]

\* The constructor counts the lines of the file, if there is one.
CountLines(q) == Len(Content(q))

\* std::ios::app, which creates the file when it is not there.
AppendLine(q, entry) ==
    file' = [file EXCEPT ![q] = Append(Content(q), entry)]

\* findPosition(entry) # -1
Find(q, entry) == Contains(Content(q), entry)

\* What pop returns.
FirstLine(q) == IF Content(q) = <<>> THEN EmptyLine ELSE Head(Content(q))

\* Mutant: the first line is copied too.
CopyAll(q) == temp' = Content(q)

\* The beginning of removeFirstLine, when there is a line.
CopyAllButFirst(q) == temp' = Tail(Content(q))

\* The beginning of removeElement, when the entry is there, up to the copy.
CopyAllBut(q, entry) == temp' = RemoveFirst(Content(q), entry)

\* removeElement of an entry that is not there deletes the copy it has made;
\* without a file it makes none.
CopyNothing(q) == temp' = IF file[q] = Missing THEN temp ELSE Missing

RemoveFile(q) == file' = [file EXCEPT ![q] = Missing]

\* rename fails when somebody else has renamed temp.txt already.
RenameTemp(q) ==
    IF temp = Missing
    THEN UNCHANGED <<file, temp>>
    ELSE /\ file' = [file EXCEPT ![q] = temp]
         /\ temp' = Missing
=============================================================================
