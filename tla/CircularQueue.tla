---------------------------- MODULE CircularQueue ----------------------------
(***************************************************************************)
(* The ring buffer of threadpool/multiserver.c: the queue of accepted      *)
(* sockets between the accept loop and the worker threads.                 *)
(*                                                                         *)
(* A queue is the C struct as a record: the slots, the indices of its      *)
(* first and last element (-1 when there is none) and its length.  The C   *)
(* functions that change the struct are operators from the old record to   *)
(* the new one.  Contents reads a queue as the sequence it stands for.     *)
(***************************************************************************)
EXTENDS Integers, Sequences

CONSTANTS MaxSize,   \* max_size, the number of slots
          Junk       \* what an unwritten slot of the malloc'ed array holds

ASSUME MaxSizeAssumption == MaxSize \in Nat \ {0}

Slots == 0 .. MaxSize - 1

initializeQueue ==
    [data |-> [i \in Slots |-> Junk], front |-> -1, rear |-> -1, size |-> 0]

isEmpty(q) == q.size = 0
isFull(q)  == q.size = MaxSize

\* Mutant: the last element in place of the first.
poppedLast(q) == IF isEmpty(q) THEN Junk ELSE q.data[q.rear]

\* The element pop returns; -1 (here Junk) when there is none.
popped(q) == IF isEmpty(q) THEN Junk ELSE q.data[q.front]

\* Mutant: the isFull test is forgotten.
pushWhenFull(q, value) ==
    LET last == IF isEmpty(q) THEN 0 ELSE (q.rear + 1) % MaxSize
    IN  [data |-> [q.data EXCEPT ![last] = value],
         front |-> IF isEmpty(q) THEN 0 ELSE q.front,
         rear |-> last, size |-> q.size + 1]

push(q, value) ==
    IF isFull(q)
    THEN q
    ELSE LET last == IF isEmpty(q) THEN 0 ELSE (q.rear + 1) % MaxSize
         IN  [data  |-> [q.data EXCEPT ![last] = value],
              front |-> IF isEmpty(q) THEN 0 ELSE q.front,
              rear  |-> last,
              size  |-> q.size + 1]

\* Mutants: the indices of an emptied queue are not reset; front does not
\* wrap round.
popWithoutReset(q) ==
    IF isEmpty(q)
    THEN q
    ELSE [q EXCEPT !.front = (q.front + 1) % MaxSize, !.size = q.size - 1]

popWithoutWrap(q) ==
    IF isEmpty(q)
    THEN q
    ELSE LET single == q.front = q.rear
         IN  [data |-> q.data,
              front |-> IF single THEN -1 ELSE q.front + 1,
              rear |-> IF single THEN -1 ELSE q.rear, size |-> q.size - 1]

pop(q) ==
    IF isEmpty(q)
    THEN q
    ELSE LET single == q.front = q.rear
         IN  [data  |-> q.data,
              front |-> IF single THEN -1 ELSE (q.front + 1) % MaxSize,
              rear  |-> IF single THEN -1 ELSE q.rear,
              size  |-> q.size - 1]

-----------------------------------------------------------------------------
QueueType(V) ==
    [data: [Slots -> V], front: Slots \cup {-1}, rear: Slots \cup {-1},
     size: 0 .. MaxSize]

(***************************************************************************)
(* The struct is consistent: the indices are -1 exactly when the queue is  *)
(* empty, and otherwise rear is size - 1 slots after front.  pop relies on *)
(* it: it takes front = rear to mean "one element", which would also be    *)
(* true of a full queue whose rear had run over its front.                 *)
(***************************************************************************)
WellFormed(q) ==
    \/ q.size = 0 /\ q.front = -1 /\ q.rear = -1
    \/ /\ q.size > 0
       /\ q.front \in Slots
       /\ q.rear = (q.front + q.size - 1) % MaxSize

\* The queue as the sequence of its elements, first to last.
Contents(q) ==
    [i \in 1 .. q.size |-> q.data[(q.front + i - 1) % MaxSize]]
=============================================================================
