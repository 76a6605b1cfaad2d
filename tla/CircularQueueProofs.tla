------------------------- MODULE CircularQueueProofs -------------------------
(***************************************************************************)
(* What push and pop of the circular queue do to the sequence it stands    *)
(* for, for every number of slots.                                         *)
(***************************************************************************)
EXTENDS CircularQueue, TLAPS

\* The integer facts about % that wrapping round the slots needs.
LEMMA SlotArith ==
    ASSUME NEW f \in Slots, NEW i \in 1 .. MaxSize
    PROVE  /\ (f + i - 1) % MaxSize =
                  IF f + i - 1 < MaxSize THEN f + i - 1 ELSE f + i - 1 - MaxSize
           /\ (f + i - 1) % MaxSize \in Slots
BY MaxSizeAssumption DEF Slots

LEMMA NextSlot ==
    ASSUME NEW x \in Slots
    PROVE  /\ (x + 1) % MaxSize = IF x + 1 = MaxSize THEN 0 ELSE x + 1
           /\ (x + 1) % MaxSize \in Slots
BY MaxSizeAssumption DEF Slots

\* In a consistent queue with an element, the slot of the i-th element and
\* the last slot are in range, and the arithmetic wraps round at most once.
LEMMA SlotOf ==
    ASSUME NEW V, NEW q \in QueueType(V), WellFormed(q), ~isEmpty(q)
    PROVE  /\ q.front \in Slots /\ q.rear \in Slots /\ q.size \in 1 .. MaxSize
           /\ q.data \in [Slots -> V]
           /\ q.rear = IF q.front + q.size - 1 < MaxSize
                       THEN q.front + q.size - 1
                       ELSE q.front + q.size - 1 - MaxSize
           /\ \A i \in 1 .. MaxSize :
                 /\ (q.front + i - 1) % MaxSize =
                        IF q.front + i - 1 < MaxSize
                        THEN q.front + i - 1 ELSE q.front + i - 1 - MaxSize
                 /\ (q.front + i - 1) % MaxSize \in Slots
<1>1. /\ q.size \in 0 .. MaxSize /\ q.size # 0
      /\ q.data \in [Slots -> V]
      /\ q.front \in Slots
      /\ q.rear = (q.front + q.size - 1) % MaxSize
  BY DEF QueueType, WellFormed, isEmpty
<1>2. ASSUME NEW i \in 1 .. MaxSize
      PROVE  /\ (q.front + i - 1) % MaxSize =
                    IF q.front + i - 1 < MaxSize
                    THEN q.front + i - 1 ELSE q.front + i - 1 - MaxSize
             /\ (q.front + i - 1) % MaxSize \in Slots
  BY <1>1, SlotArith
<1>3. q.size \in 1 .. MaxSize
  BY <1>1, MaxSizeAssumption
<1>4. q.rear \in Slots
  BY <1>1, <1>2, <1>3
<1> QED
  BY <1>1, <1>2, <1>3, <1>4

\* A new queue is consistent and empty.
LEMMA InitialQueue ==
    ASSUME NEW V, Junk \in V
    PROVE  /\ initializeQueue \in QueueType(V)
           /\ WellFormed(initializeQueue)
           /\ Contents(initializeQueue) = <<>>
BY MaxSizeAssumption DEF initializeQueue, QueueType, WellFormed, Contents, Slots

\* push keeps the struct's type and its consistency, in every case.
LEMMA PushWellFormed ==
    ASSUME NEW V, NEW q \in QueueType(V), WellFormed(q), NEW v \in V
    PROVE  push(q, v) \in QueueType(V) /\ WellFormed(push(q, v))
<1>1. CASE isFull(q)
  BY <1>1 DEF push
<1>2. CASE ~isFull(q)
  <2>1. q.size \in 0 .. MaxSize - 1
    BY <1>2, MaxSizeAssumption DEF QueueType, isFull
  <2>2. CASE isEmpty(q)
    BY <1>2, <2>1, <2>2, MaxSizeAssumption
       DEF push, QueueType, WellFormed, Slots, isEmpty
  <2>3. CASE ~isEmpty(q)
    <3>1. /\ q.front \in Slots /\ q.rear \in Slots
          /\ q.data \in [Slots -> V]
          /\ q.size \in 1 .. MaxSize - 1
      BY <2>1, <2>3, SlotOf DEF isEmpty
    <3>2. (q.rear + 1) % MaxSize = (q.front + (q.size + 1) - 1) % MaxSize
      <4>1. q.rear = IF q.front + q.size - 1 < MaxSize
                     THEN q.front + q.size - 1
                     ELSE q.front + q.size - 1 - MaxSize
        BY <2>3, SlotOf
      <4>2. (q.rear + 1) % MaxSize = IF q.rear + 1 = MaxSize THEN 0 ELSE q.rear + 1
        BY <3>1, NextSlot
      <4>3. /\ q.size + 1 \in 1 .. MaxSize
            /\ q.front \in 0 .. MaxSize - 1 /\ q.size \in 1 .. MaxSize - 1
        BY <3>1, MaxSizeAssumption DEF Slots
      <4>4. (q.front + (q.size + 1) - 1) % MaxSize =
                IF q.front + (q.size + 1) - 1 < MaxSize
                THEN q.front + (q.size + 1) - 1
                ELSE q.front + (q.size + 1) - 1 - MaxSize
        BY <3>1, <4>3, SlotArith
      <4> QED
        BY <4>1, <4>2, <4>3, <4>4, MaxSizeAssumption
    <3>3. push(q, v) = [data  |-> [q.data EXCEPT ![(q.rear + 1) % MaxSize] = v],
                        front |-> q.front,
                        rear  |-> (q.rear + 1) % MaxSize,
                        size  |-> q.size + 1]
      BY <1>2, <2>3 DEF push
    <3>4. (q.rear + 1) % MaxSize \in Slots
      BY <3>1, NextSlot
    <3>5. q.size + 1 \in 0 .. MaxSize /\ q.size + 1 > 0
      BY <3>1, MaxSizeAssumption
    <3>6. push(q, v) \in QueueType(V)
      BY <3>1, <3>3, <3>4, <3>5 DEF QueueType
    <3>7. WellFormed(push(q, v))
      BY <3>1, <3>2, <3>3, <3>5 DEF WellFormed
    <3> QED
      BY <3>6, <3>7
  <2> QED
    BY <2>2, <2>3
<1> QED
  BY <1>1, <1>2

\* pop keeps the struct's type and its consistency.  The test front = rear
\* tells a queue of one element from a full one only because the struct is
\* consistent.
LEMMA PopWellFormed ==
    ASSUME NEW V, NEW q \in QueueType(V), WellFormed(q)
    PROVE  pop(q) \in QueueType(V) /\ WellFormed(pop(q))
<1>1. CASE isEmpty(q)
  BY <1>1 DEF pop
<1>2. CASE ~isEmpty(q)
  <2>1. /\ q.front \in Slots /\ q.rear \in Slots /\ q.size \in 1 .. MaxSize
        /\ q.data \in [Slots -> V]
    BY <1>2, SlotOf
  <2>2. q.front = q.rear <=> q.size = 1
    <3>1. q.rear = IF q.front + q.size - 1 < MaxSize
                   THEN q.front + q.size - 1
                   ELSE q.front + q.size - 1 - MaxSize
      BY <1>2, SlotOf
    <3>2. q.front \in 0 .. MaxSize - 1 /\ q.size \in 1 .. MaxSize
      BY <2>1 DEF Slots
    <3> QED
      BY <3>1, <3>2, MaxSizeAssumption
  <2>3. CASE q.size = 1
    BY <1>2, <2>2, <2>3, MaxSizeAssumption DEF pop, QueueType, WellFormed, Slots
  <2>4. CASE q.size # 1
    <3>1. pop(q) = [data |-> q.data, front |-> (q.front + 1) % MaxSize,
                    rear |-> q.rear, size |-> q.size - 1]
      BY <1>2, <2>2, <2>4 DEF pop
    <3>2. (q.front + 1) % MaxSize \in Slots
      BY <2>1, NextSlot
    <3>3. q.rear = (((q.front + 1) % MaxSize) + (q.size - 1) - 1) % MaxSize
      <4> DEFINE f == (q.front + 1) % MaxSize
                 n == q.size - 1
      <4>1. q.rear = IF q.front + q.size - 1 < MaxSize
                     THEN q.front + q.size - 1
                     ELSE q.front + q.size - 1 - MaxSize
        BY <1>2, SlotOf
      <4>2. f = IF q.front + 1 = MaxSize THEN 0 ELSE q.front + 1
        BY <2>1, NextSlot
      <4>3. q.front \in 0 .. MaxSize - 1 /\ n \in 1 .. MaxSize /\ q.size = n + 1
        BY <2>1, <2>4, MaxSizeAssumption DEF Slots
      <4>4. (f + n - 1) % MaxSize =
                IF f + n - 1 < MaxSize THEN f + n - 1 ELSE f + n - 1 - MaxSize
        BY <3>2, <4>3, SlotArith
      <4> HIDE DEF f, n
      <4>5. q.rear = (f + n - 1) % MaxSize
        BY <4>1, <4>2, <4>3, <4>4, MaxSizeAssumption
      <4> QED
        BY <4>5 DEF f, n
    <3>4. q.size - 1 \in 0 .. MaxSize /\ q.size - 1 > 0
      BY <2>1, <2>4, MaxSizeAssumption
    <3>5. pop(q) \in QueueType(V)
      BY <2>1, <3>1, <3>2, <3>4 DEF QueueType
    <3>6. WellFormed(pop(q))
      BY <3>1, <3>2, <3>3, <3>4 DEF WellFormed
    <3> QED
      BY <3>5, <3>6
  <2> QED
    BY <2>3, <2>4
<1> QED
  BY <1>1, <1>2

\* A queue's contents are a sequence of its size.
LEMMA ContentsType ==
    ASSUME NEW V, NEW q \in QueueType(V), WellFormed(q)
    PROVE  /\ Contents(q) \in Seq(V) /\ Len(Contents(q)) = q.size
           /\ \A i \in 1 .. q.size :
                Contents(q)[i] = q.data[(q.front + i - 1) % MaxSize]
<1>1. q.size \in Nat /\ q.size <= MaxSize
  BY MaxSizeAssumption DEF QueueType
<1>2. ASSUME NEW i \in 1 .. q.size
      PROVE  q.data[(q.front + i - 1) % MaxSize] \in V
  <2>1. ~isEmpty(q) /\ i \in 1 .. MaxSize
    BY <1>1, MaxSizeAssumption DEF isEmpty
  <2> QED
    BY <2>1, SlotOf
<1>3. Contents(q) \in [1 .. q.size -> V]
  BY <1>1, <1>2 DEF Contents
<1>4. \A i \in 1 .. q.size :
        Contents(q)[i] = q.data[(q.front + i - 1) % MaxSize]
  BY DEF Contents
<1> QED
  BY <1>1, <1>3, <1>4

\* push on a queue with room appends the value to its contents.
LEMMA PushAppends ==
    ASSUME NEW V, NEW q \in QueueType(V), WellFormed(q), NEW v \in V, ~isFull(q)
    PROVE  Contents(push(q, v)) = Append(Contents(q), v)
<1> DEFINE p == push(q, v)
<1>1. q.size \in 0 .. MaxSize - 1 /\ q.data \in [Slots -> V]
  BY MaxSizeAssumption DEF QueueType, isFull
<1>2. p \in QueueType(V) /\ WellFormed(p)
  BY PushWellFormed
<1>3. /\ Contents(q) \in Seq(V) /\ Len(Contents(q)) = q.size
      /\ \A i \in 1 .. q.size :
            Contents(q)[i] = q.data[(q.front + i - 1) % MaxSize]
  BY ContentsType
<1>4. /\ Contents(p) \in Seq(V) /\ Len(Contents(p)) = p.size
      /\ \A i \in 1 .. p.size :
            Contents(p)[i] = p.data[(p.front + i - 1) % MaxSize]
  BY <1>2, ContentsType
<1>5. p.size = q.size + 1
  BY DEF push
<1>6. CASE isEmpty(q)
  <2>1. q.size = 0 /\ p.size = 1 /\ p.front = 0
        /\ p.data = [q.data EXCEPT ![0] = v]
    BY <1>6 DEF push, isEmpty
  <2>2. 0 % MaxSize = 0 /\ 0 \in Slots
    BY MaxSizeAssumption DEF Slots
  <2>3. Contents(p)[1] = v
    BY <1>1, <1>4, <2>1, <2>2
  <2>4. Contents(q) = <<>>
    BY <1>3, <2>1
  <2> HIDE DEF p
  <2>5. Contents(p) = <<v>>
    BY <1>4, <2>1, <2>3
  <2> QED
    BY <2>4, <2>5 DEF p
<1>7. CASE ~isEmpty(q)
  <2> DEFINE last == (q.rear + 1) % MaxSize
  <2>1. p.front = q.front /\ p.data = [q.data EXCEPT ![last] = v]
    BY <1>7 DEF push
  <2>2. last = (q.front + (q.size + 1) - 1) % MaxSize
    <3>1. WellFormed(p) /\ ~isEmpty(p) /\ p.front = q.front /\ p.rear = last
      BY <1>1, <1>2, <1>5, <1>7 DEF isEmpty, push
    <3> HIDE DEF p, last
    <3> QED
      BY <1>5, <3>1 DEF WellFormed, isEmpty
  <2>3. last \in Slots
    <3>1. q.rear \in Slots
      BY <1>7, SlotOf
    <3> QED
      BY <3>1, NextSlot
  <2>4. ASSUME NEW i \in 1 .. q.size
        PROVE  (q.front + i - 1) % MaxSize \in Slots \ {last}
    <3>1. i \in 1 .. MaxSize /\ q.size + 1 \in 1 .. MaxSize /\ i < q.size + 1
      BY <1>1, MaxSizeAssumption
    <3> QED
      <4>1. q.front \in Slots
        BY <1>7, SlotOf
      <4>2. q.front \in 0 .. MaxSize - 1
        BY <4>1 DEF Slots
      <4>3. (q.front + i - 1) % MaxSize =
               IF q.front + i - 1 < MaxSize
               THEN q.front + i - 1 ELSE q.front + i - 1 - MaxSize
        BY <3>1, <4>1, SlotArith
      <4>4. last = IF q.front + (q.size + 1) - 1 < MaxSize
                   THEN q.front + (q.size + 1) - 1
                   ELSE q.front + (q.size + 1) - 1 - MaxSize
        BY <2>2, <3>1, <4>1, SlotArith
      <4>5. (q.front + i - 1) % MaxSize \in Slots
        BY <3>1, <4>1, SlotArith
      <4> HIDE DEF last
      <4> QED
        BY <3>1, <4>2, <4>3, <4>4, <4>5, MaxSizeAssumption
  <2>5. ASSUME NEW i \in 1 .. q.size
        PROVE  Contents(p)[i] = Contents(q)[i]
    <3>1. i \in 1 .. p.size
      BY <1>1, <1>5, MaxSizeAssumption
    <3> HIDE DEF p
    <3> QED
      BY <1>1, <1>3, <1>4, <2>1, <2>4, <3>1
  <2>6. Contents(p)[q.size + 1] = v
    <3>1. q.size + 1 \in 1 .. p.size
      BY <1>1, <1>5, MaxSizeAssumption
    <3> HIDE DEF p
    <3> QED
      BY <1>1, <1>4, <2>1, <2>2, <2>3, <3>1
  <2> HIDE DEF p
  <2>7. Contents(p) \in Seq(V) /\ Len(Contents(p)) = Len(Contents(q)) + 1
    BY <1>3, <1>4, <1>5
  <2>8. \A i \in 1 .. Len(Contents(q)) : Contents(p)[i] = Contents(q)[i]
    BY <1>3, <2>5
  <2>9. Contents(p)[Len(Contents(q)) + 1] = v
    BY <1>3, <2>6
  <2> QED
    BY <1>3, <2>7, <2>8, <2>9 DEF p
<1> QED
  BY <1>6, <1>7

\* pop on a queue that is not empty returns the head of its contents and
\* leaves the tail.
LEMMA PopTakesHead ==
    ASSUME NEW V, NEW q \in QueueType(V), WellFormed(q), ~isEmpty(q)
    PROVE  /\ Contents(q) # <<>>
           /\ popped(q) = Head(Contents(q))
           /\ Contents(pop(q)) = Tail(Contents(q))
<1> DEFINE p == pop(q)
<1>1. /\ q.front \in Slots /\ q.rear \in Slots /\ q.size \in 1 .. MaxSize
      /\ q.data \in [Slots -> V]
  BY SlotOf
<1>2. p \in QueueType(V) /\ WellFormed(p)
  BY PopWellFormed
<1>3. /\ Contents(q) \in Seq(V) /\ Len(Contents(q)) = q.size
      /\ \A i \in 1 .. q.size :
            Contents(q)[i] = q.data[(q.front + i - 1) % MaxSize]
  BY ContentsType
<1>4. /\ Contents(p) \in Seq(V) /\ Len(Contents(p)) = p.size
      /\ \A i \in 1 .. p.size :
            Contents(p)[i] = p.data[(p.front + i - 1) % MaxSize]
  BY <1>2, ContentsType
<1>5. popped(q) = Contents(q)[1]
  <2>1. (q.front + 1 - 1) % MaxSize = q.front /\ 1 \in 1 .. q.size
    <3>1. q.front \in 0 .. MaxSize - 1 /\ 1 \in 1 .. MaxSize
      BY <1>1, MaxSizeAssumption DEF Slots
    <3>2. (q.front + 1 - 1) % MaxSize = IF q.front + 1 - 1 < MaxSize
             THEN q.front + 1 - 1 ELSE q.front + 1 - 1 - MaxSize
      BY <1>1, <3>1, SlotArith
    <3>3. 1 \in 1 .. q.size
      BY <1>1
    <3> QED
      BY MaxSizeAssumption, <3>1, <3>2, <3>3
  <2> QED
    BY <1>3, <2>1 DEF popped
<1>6. p.size = q.size - 1 /\ p.data = q.data
  BY DEF pop
<1>7. ASSUME NEW i \in 1 .. q.size - 1
      PROVE  Contents(p)[i] = Contents(q)[i + 1]
  <2>1. /\ i \in 1 .. p.size /\ i + 1 \in 1 .. q.size
        /\ i \in 1 .. MaxSize /\ i + 1 \in 1 .. MaxSize
    BY <1>1, <1>6, MaxSizeAssumption
  <2>2. q.front # q.rear
    <3>1. q.rear = IF q.front + q.size - 1 < MaxSize
                   THEN q.front + q.size - 1
                   ELSE q.front + q.size - 1 - MaxSize
      BY SlotOf
    <3>2. q.front \in 0 .. MaxSize - 1 /\ q.size \in 2 .. MaxSize
      BY <1>1, <1>7, MaxSizeAssumption DEF Slots
    <3> QED
      BY <3>1, <3>2, MaxSizeAssumption
  <2>3. p.front = (q.front + 1) % MaxSize
    BY <2>2 DEF pop
  <2>4. (p.front + i - 1) % MaxSize = (q.front + (i + 1) - 1) % MaxSize
    <3> DEFINE f == p.front
    <3>1. f = IF q.front + 1 = MaxSize THEN 0 ELSE q.front + 1
      BY <1>1, <2>3, NextSlot
    <3>2. q.front \in 0 .. MaxSize - 1 /\ f \in Slots
      BY <1>1, <2>3, NextSlot DEF Slots
    <3>3. (f + i - 1) % MaxSize =
              IF f + i - 1 < MaxSize THEN f + i - 1 ELSE f + i - 1 - MaxSize
      BY <2>1, <3>2, SlotArith
    <3>4. (q.front + (i + 1) - 1) % MaxSize =
              IF q.front + (i + 1) - 1 < MaxSize
              THEN q.front + (i + 1) - 1 ELSE q.front + (i + 1) - 1 - MaxSize
      BY <1>1, <2>1, SlotArith
    <3> HIDE DEF f
    <3>5. (f + i - 1) % MaxSize = (q.front + (i + 1) - 1) % MaxSize
      BY <2>1, <3>1, <3>2, <3>3, <3>4, MaxSizeAssumption
    <3> QED
      BY <3>5 DEF f
  <2> HIDE DEF p
  <2> QED
    BY <1>3, <1>4, <1>6, <2>1, <2>4
<1> HIDE DEF p
<1>8. Contents(q) # <<>> /\ Contents(p) = Tail(Contents(q))
  BY <1>1, <1>3, <1>4, <1>6, <1>7, MaxSizeAssumption
<1> QED
  BY <1>1, <1>3, <1>5, <1>8 DEF p
=============================================================================
