-------------------------- MODULE ThreadPoolProofs --------------------------
(***************************************************************************)
(* Theorems about ThreadPool, for any number of workers and connections,   *)
(* any programs, and with spurious wakeups unless a theorem says otherwise.*)
(***************************************************************************)
EXTENDS ThreadPool, CircularQueueProofs, FiniteSetTheorems

USE DEF server, files, net, MainWoken, WorkerWoken

-----------------------------------------------------------------------------
(* Types and ownership of descriptors, proved together: that a worker's    *)
(* socket is a descriptor is part of both.                                 *)

TypeInv == TypeOK /\ QueueWellFormed
PoolInv == TypeInv /\ Ownership

\* The queue read as a sequence, and what its readers need of it.
LEMMA QueueIsSeq ==
    TypeInv => /\ Queue \in Seq(Fds \cup {NoFd})
               /\ Len(Queue) = threadPool.size
BY ContentsType DEF TypeInv, TypeOK, QueueWellFormed, Queue

\* The first element of the queue, and what the tail still contains.
LEMMA HeadAndTail ==
    ASSUME NEW V, NEW s \in Seq(V), s # <<>>
    PROVE  /\ 1 \in 1 .. Len(s) /\ Head(s) = s[1]
           /\ Tail(s) \in Seq(V) /\ Len(Tail(s)) = Len(s) - 1
           /\ \A i \in 1 .. Len(Tail(s)) : Tail(s)[i] = s[i + 1] /\ i + 1 \in 1 .. Len(s)
OBVIOUS

LEMMA PoolInit == Init => PoolInv
<1> SUFFICES ASSUME Init PROVE PoolInv
  OBVIOUS
<1> USE ThreadPoolAssumption DEF Init
<1>1. /\ threadPool \in QueueType(Fds \cup {NoFd}) /\ QueueWellFormed
      /\ Queue = <<>>
  BY InitialQueue DEF QueueWellFormed, Queue
<1>2. TypeInv
  BY <1>1 DEF TypeInv, TypeOK, Threads, MainLabels, WorkerLabels, Reports, NoReport
<1>3. Ownership
  BY <1>1 DEF Ownership, SocketOwnedOnce, Queued, Held, HeldOrQueued, Threads
<1> QED
  BY <1>2, <1>3 DEF PoolInv

LEMMA TypeStep == PoolInv /\ [Next]_vars => TypeInv'
<1> SUFFICES ASSUME PoolInv, [Next]_vars PROVE TypeInv'
  OBVIOUS
<1> USE ThreadPoolAssumption DEF PoolInv, TypeInv, TypeOK, QueueWellFormed, Threads
<1>a. ASSUME NEW w \in Workers, pc[w] \notin {"take", "idle"}
      PROVE  client_socket[w] \in Fds
  BY <1>a DEF Ownership
<1>1. ASSUME NEW c \in Conns, Connect(c) PROVE TypeInv'
  BY <1>1 DEF Connect
<1>2. ASSUME NEW c \in Conns, Send(c) PROVE TypeInv'
  BY <1>2 DEF Send
<1>3. ASSUME NEW c \in Conns, Leave(c) PROVE TypeInv'
  BY <1>3 DEF Leave
<1>4. CASE Terminate
  BY <1>4 DEF Terminate
<1>5. CASE Accept
  BY <1>5 DEF Accept, MainLabels
<1>6. CASE PushAndSignal /\ newsockfd \in Fds \cup {NoFd}
  <2>1. threadPool' \in QueueType(Fds \cup {NoFd}) /\ WellFormed(threadPool')
    BY <1>6, PushWellFormed DEF PushAndSignal
  <2>2. /\ pc' \in [Threads -> MainLabels \cup WorkerLabels]
        /\ pc'[Main] \in MainLabels /\ \A w \in Workers : pc'[w] \in WorkerLabels
    BY <1>6 DEF PushAndSignal, MainLabels, WorkerLabels
  <2> QED
    BY <1>6, <2>1, <2>2 DEF PushAndSignal
<1>7. CASE WaitForSpace
  BY <1>7 DEF WaitForSpace, MainLabels
<1>8. ASSUME NEW w \in Workers, Take(w) PROVE TypeInv'
  <2>1. threadPool' \in QueueType(Fds \cup {NoFd}) /\ WellFormed(threadPool')
    BY <1>8, PopWellFormed DEF Take
  <2>2. popped(threadPool) \in Fds \cup {NoFd}
    BY <1>8, SlotOf DEF Take, popped
  <2>3. /\ pc' \in [Threads -> MainLabels \cup WorkerLabels]
        /\ pc'[Main] \in MainLabels /\ \A v \in Workers : pc'[v] \in WorkerLabels
    BY <1>8 DEF Take, MainLabels, WorkerLabels
  <2> QED
    BY <1>8, <2>1, <2>2, <2>3 DEF Take
<1>9. ASSUME NEW w \in Workers, WaitForItem(w) PROVE TypeInv'
  BY <1>9 DEF WaitForItem, Goto, WorkerLabels
<1>10. ASSUME NEW w \in Workers, Receive(w) PROVE TypeInv'
  BY <1>10 DEF Receive, Goto, WorkerLabels, FileName
<1>11. ASSUME NEW w \in Workers, Compile(w) PROVE TypeInv'
  <2>1. client_socket[w] \in Fds
    BY <1>11, <1>a DEF Compile
  <2>2. code[client_socket[w]] \in Conns \cup {None}
    BY <2>1
  <2>3. [of |-> code[client_socket[w]], verdict |-> "COMPILE ERROR"] \in Reports
    BY <2>2 DEF Reports, Verdicts
  <2>5. exe' \in [Fds -> Conns \cup {None}] /\ report' \in [Fds -> Reports]
    <3>1. CASE Compiles(code[FileName(Socket(w))])
      BY <1>11, <2>2, <3>1 DEF Compile, FileName, Socket
    <3>2. CASE ~Compiles(code[FileName(Socket(w))])
      <4>1. /\ exe' = exe
            /\ report' = [report EXCEPT ![client_socket[w]] =
                  [of |-> code[client_socket[w]], verdict |-> "COMPILE ERROR"]]
        BY <1>11, <3>2 DEF Compile, FileName, Socket
      <4> QED
        BY <2>3, <4>1
    <3> QED
      BY <3>1, <3>2
  <2>4. /\ pc' \in [Threads -> MainLabels \cup WorkerLabels]
        /\ pc'[Main] \in MainLabels /\ \A v \in Workers : pc'[v] \in WorkerLabels
    BY ZenonT(30), <1>11 DEF Compile, Goto, WorkerLabels
  <2> QED
    BY <1>11, <2>4, <2>5 DEF Compile
<1>12. ASSUME NEW w \in Workers, Run(w) PROVE TypeInv'
  <2>1. client_socket[w] \in Fds
    BY <1>12, <1>a DEF Run
  <2>2. exe[client_socket[w]] \in Conns \cup {None}
    BY <2>1
  <2>3. [of |-> exe[client_socket[w]], verdict |-> "RUNTIME ERROR"] \in Reports
    BY <2>2 DEF Reports, Verdicts
  <2>5. report' \in [Fds -> Reports]
    BY <1>12, <2>1, <2>2, <2>3 DEF Run, FileName, Socket, Goto
  <2>4. /\ pc' \in [Threads -> MainLabels \cup WorkerLabels]
        /\ pc'[Main] \in MainLabels /\ \A v \in Workers : pc'[v] \in WorkerLabels
    BY <1>12 DEF Run, Goto, WorkerLabels
  <2> QED
    BY <1>12, <2>4, <2>5 DEF Run
<1>13. ASSUME NEW w \in Workers, Compare(w) PROVE TypeInv'
  BY <1>13 DEF Compare, Goto, WorkerLabels, FileName, Socket, Reports, Verdicts
<1>14. ASSUME NEW w \in Workers, Reply(w) PROVE TypeInv'
  <2>1. client_socket[w] \in Fds
    BY <1>14, <1>a DEF Reply
  <2> QED
    BY <1>14, <2>1 DEF Reply, Goto, WorkerLabels, FileName, Socket, Details, Reports
<1>15. ASSUME NEW w \in Workers, ReplyMore(w) PROVE TypeInv'
  BY <1>15 DEF ReplyMore, Goto, WorkerLabels
<1>16. ASSUME NEW w \in Workers, Close(w) PROVE TypeInv'
  BY <1>16 DEF Close, Goto, WorkerLabels
<1>17. ASSUME NEW t \in Threads, SpuriousWakeup(t) PROVE TypeInv'
  BY <1>17 DEF SpuriousWakeup, Goto, WorkerLabels, MainLabels
<1>18. CASE UNCHANGED vars
  BY <1>18 DEF vars
<1> QED
  BY <1>1, <1>2, <1>3, <1>4, <1>5, <1>6, <1>7, <1>8, <1>9, <1>10, <1>11, <1>12,
     <1>13, <1>14, <1>15, <1>16, <1>17, <1>18
  DEF Next, MainStep, WorkerStep, AcceptError, Insert, InsertAfterWait, ReplyToReset

LEMMA OwnershipStep == PoolInv /\ [Next]_vars => Ownership'
<1> SUFFICES ASSUME PoolInv, [Next]_vars PROVE Ownership'
  OBVIOUS
<1> USE ThreadPoolAssumption
<1> USE DEF PoolInv, Ownership, SocketOwnedOnce, Queued, Held, HeldOrQueued, Threads
<1>a. Queue \in Seq(Fds \cup {NoFd}) /\ TypeOK /\ Main \notin Workers
  BY QueueIsSeq DEF TypeInv
\* Steps that touch neither the queue nor the descriptors, and move no
\* thread into or out of a section that holds one.
<1>1. CASE /\ UNCHANGED <<threadPool, newsockfd, client_socket>>
           /\ up' => up /\ peer' = peer
           /\ pc[Main] = "accept" <=> pc'[Main] = "accept"
           /\ \A w \in Workers : pc[w] \in {"take", "idle"} <=> pc'[w] \in {"take", "idle"}
  <2>1. Queue' = Queue
    BY <1>1 DEF Queue
  <2> QED
    BY <1>1, <2>1
\* Accept: the descriptor is free, so neither held nor queued.
<1>2. CASE Accept
  <2>1. Queue' = Queue /\ client_socket' = client_socket
    BY <1>2 DEF Accept, Queue
  <2>2. PICK fd \in Fds : /\ peer[fd] = None
                          /\ peer' = [peer EXCEPT ![fd] = Head(backlog)]
                          /\ newsockfd' = fd
    BY <1>2 DEF Accept
  <2>3. ~HeldOrQueued(fd)
    BY <1>2, <2>2 DEF Accept
  <2>4. Head(backlog) # None
    BY <1>2, <1>a DEF Accept, TypeOK
  <2>5. SocketOwnedOnce' /\ (NoFd \notin Queued)'
    BY <2>1, <2>2, <2>3
  <2>6. pc'[Main] = "insert" /\ \A w \in Workers : pc'[w] = pc[w]
    BY <1>2, <1>a DEF Accept, TypeOK
  <2>7. \A g \in Fds : HeldOrQueued(g)' => g = fd \/ HeldOrQueued(g)
    BY <2>1, <2>2
  <2>8. \A g \in Fds : HeldOrQueued(g)' => peer'[g] # None
    BY <1>2, <1>a, <2>2, <2>4, <2>7 DEF Accept, TypeOK
  <2> QED
    BY <2>1, <2>2, <2>5, <2>6, <2>8
\* Push: main's descriptor becomes the last of the queue (or is dropped, when
\* the wait for space returned for no reason).
<1>3. CASE PushAndSignal /\ pc[Main] # "accept"
  <2>1. newsockfd \in Fds
    BY <1>3, <1>a DEF TypeOK
  <2>2. newsockfd' = NoFd /\ client_socket' = client_socket /\ peer' = peer /\ up' = up
    BY <1>3 DEF PushAndSignal
  <2>3. /\ pc'[Main] = "accept"
        /\ \A w \in Workers : pc[w] \in {"take", "idle"} <=> pc'[w] \in {"take", "idle"}
    BY SMTT(30), <1>3, <1>a DEF PushAndSignal, TypeOK
  <2>4. CASE isFull(threadPool)
    <3>1. Queue' = Queue
      BY <1>3, <2>4 DEF PushAndSignal, push, Queue
    <3> QED
      BY <2>1, <2>2, <2>3, <3>1
  <2>5. CASE ~isFull(threadPool)
    <3>1. Queue' = Append(Queue, newsockfd)
      BY <1>3, <2>1, <2>5, PushAppends
         DEF PushAndSignal, Queue, TypeInv, TypeOK, QueueWellFormed
    <3>2. /\ Len(Queue') = Len(Queue) + 1
          /\ \A i \in 1 .. Len(Queue) : Queue'[i] = Queue[i]
          /\ Queue'[Len(Queue) + 1] = newsockfd
      BY <1>a, <2>1, <3>1
    <3>3. Queued' = Queued \cup {newsockfd}
      BY <1>a, <3>2
    <3>4. SocketOwnedOnce'
      BY <1>a, <2>1, <2>2, <3>2, <3>3
    <3>5. \A fd \in Fds : HeldOrQueued(fd)' => HeldOrQueued(fd)
      BY <2>1, <2>2, <3>3
    <3> QED
      BY <2>1, <2>2, <2>3, <3>3, <3>4, <3>5
  <2> QED
    BY <2>4, <2>5
\* Pop: the first of the queue becomes the worker's.
<1>4. ASSUME NEW w \in Workers, Take(w) PROVE Ownership'
  <2>1. /\ Queue # <<>> /\ client_socket' = [client_socket EXCEPT ![w] = Head(Queue)]
        /\ Queue' = Tail(Queue)
    BY <1>4, PopTakesHead DEF Take, Queue, TypeInv, TypeOK, QueueWellFormed
  <2>2. newsockfd' = newsockfd /\ peer' = peer /\ up' = up
    BY <1>4 DEF Take
  <2>3. /\ pc[w] = "take" /\ pc'[w] = "receive"
        /\ pc[Main] = "accept" <=> pc'[Main] = "accept"
        /\ \A v \in Workers \ {w} : pc'[v] = pc[v]
    BY <1>4, <1>a DEF Take, TypeOK
  <2>4. /\ 1 \in 1 .. Len(Queue) /\ Head(Queue) = Queue[1]
        /\ Len(Tail(Queue)) = Len(Queue) - 1
        /\ \A i \in 1 .. Len(Tail(Queue)) :
              Tail(Queue)[i] = Queue[i + 1] /\ i + 1 \in 1 .. Len(Queue)
    BY <1>a, <2>1, HeadAndTail
  <2>5. Head(Queue) \in Queued /\ Head(Queue) \in Fds
    BY <1>a, <2>4
  <2>6. Queued' \subseteq Queued \ {Head(Queue)}
    BY <1>a, <2>1, <2>4
  <2>7. \A i, j \in 1 .. Len(Queue') : Queue'[i] = Queue'[j] => i = j
    BY <1>a, <2>1, <2>4
  <2>8. \A v \in Workers : client_socket'[v] =
              IF v = w THEN Head(Queue) ELSE client_socket[v]
    BY <1>a, <2>1 DEF TypeOK
  <2>9. SocketOwnedOnce'
    <3>1. \A t \in Threads : Held(t)' \notin Queued'
      BY <2>2, <2>5, <2>6, <2>8
    <3>2. \A t, u \in Threads : Held(t)' = Held(u)' /\ Held(t)' # NoFd => t = u
      BY <2>2, <2>5, <2>8
    <3> QED
      BY <2>7, <3>1, <3>2
  <2>10. \A fd \in Fds : HeldOrQueued(fd)' => HeldOrQueued(fd)
    BY <2>2, <2>5, <2>6, <2>8
  <2> QED
    BY SMTT(30), <2>2, <2>3, <2>5, <2>6, <2>8, <2>9, <2>10
\* Close: the worker gives up the descriptor it closes.
<1>5. ASSUME NEW w \in Workers, Close(w) PROVE Ownership'
  <2>1. /\ Queue' = Queue /\ newsockfd' = newsockfd /\ up' = up
        /\ peer' = [peer EXCEPT ![client_socket[w]] = None]
    BY <1>5 DEF Close, Queue, Socket
  <2>2. \A v \in Workers : client_socket'[v] = IF v = w THEN NoFd ELSE client_socket[v]
    BY <1>5, <1>a DEF Close, TypeOK
  <2>3. /\ pc[w] = "close" /\ pc'[w] = "take" /\ pc'[Main] = pc[Main]
        /\ \A v \in Workers \ {w} : pc'[v] = pc[v]
    BY <1>5, <1>a DEF Close, Goto, TypeOK
  <2>4. SocketOwnedOnce'
    BY <2>1, <2>2
  <2>5. \A fd \in Fds : HeldOrQueued(fd)' => HeldOrQueued(fd) /\ fd # client_socket[w]
    BY <2>1, <2>2, <2>3
  <2>6. \A fd \in Fds : fd # client_socket[w] => peer'[fd] = peer[fd]
    BY <1>a, <2>1 DEF TypeOK
  <2>7. up => \A fd \in Fds : HeldOrQueued(fd) => peer[fd] # None
    OBVIOUS
  <2>8. up' => \A fd \in Fds : HeldOrQueued(fd)' => peer'[fd] # None
    <3> HIDE DEF PoolInv, Ownership, HeldOrQueued
    <3> QED
      BY <2>1, <2>5, <2>6, <2>7
  <2> QED
    BY <2>1, <2>2, <2>3, <2>4, <2>8
<1>6. ASSUME NEW c \in Conns, Connect(c) \/ Send(c) \/ Leave(c) PROVE Ownership'
  BY <1>1, <1>6 DEF Connect, Send, Leave
<1>7. CASE Terminate
  BY <1>1, <1>7 DEF Terminate
<1>8. CASE WaitForSpace
  BY <1>1, <1>8, <1>a DEF WaitForSpace, TypeOK
<1>9. ASSUME NEW w \in Workers,
             \/ WaitForItem(w) \/ Receive(w) \/ Compile(w) \/ Run(w)
             \/ Compare(w) \/ Reply(w) \/ ReplyMore(w)
      PROVE  Ownership'
  <2>1. CASE WaitForItem(w)
    BY <1>1, <1>a, <2>1 DEF WaitForItem, Goto, TypeOK
  <2>2. CASE Receive(w)
    BY <1>1, <1>a, <2>2 DEF Receive, Goto, TypeOK
  <2>3. CASE Compile(w)
    BY ZenonT(30), <1>1, <1>a, <2>3 DEF Compile, Goto, TypeOK
  <2>4. CASE Run(w)
    BY ZenonT(30), <1>1, <1>a, <2>4 DEF Run, Goto, TypeOK
  <2>5. CASE Compare(w)
    BY <1>1, <1>a, <2>5 DEF Compare, Goto, TypeOK
  <2>6. CASE Reply(w)
    BY <1>1, <1>a, <2>6 DEF Reply, Goto, TypeOK
  <2>7. CASE ReplyMore(w)
    BY <1>1, <1>a, <2>7 DEF ReplyMore, Goto, TypeOK
  <2> QED
    BY <1>9, <2>1, <2>2, <2>3, <2>4, <2>5, <2>6, <2>7
<1>10. ASSUME NEW t \in Threads, SpuriousWakeup(t) PROVE Ownership'
  BY <1>1, <1>10, <1>a DEF SpuriousWakeup, Goto, TypeOK
<1>11. CASE UNCHANGED vars
  BY <1>1, <1>11 DEF vars
<1> QED
  BY <1>2, <1>3, <1>4, <1>5, <1>6, <1>7, <1>8, <1>9, <1>10, <1>11
  DEF Next, MainStep, WorkerStep, AcceptError, Insert, InsertAfterWait, ReplyToReset

LEMMA PoolInvariant == Spec => []PoolInv
<1>1. PoolInv /\ [Next]_vars => PoolInv'
  BY TypeStep, OwnershipStep DEF PoolInv
<1> QED
  BY PoolInit, <1>1, PTL DEF Spec

\* Every variable keeps its type; that a worker's socket is a descriptor takes
\* the ownership of descriptors.
THEOREM TypeCorrect == Spec => []TypeOK
<1>1. PoolInv => TypeOK
  BY DEF PoolInv, TypeInv
<1> QED
  BY PoolInvariant, <1>1, PTL

\* The circular queue's indices and size agree, whatever the pushes of main
\* and the pops of the workers.
THEOREM QueueStaysWellFormed == Spec => []QueueWellFormed
<1>1. PoolInv => QueueWellFormed
  BY DEF PoolInv, TypeInv
<1> QED
  BY PoolInvariant, <1>1, PTL

\* No two threads ever hold the same descriptor, and none holds one that is
\* still queued: two gradings never share a file or a socket.
THEOREM SocketsAreOwnedOnce == Spec => []SocketOwnedOnce
<1>1. PoolInv => SocketOwnedOnce
  BY DEF PoolInv, Ownership
<1> QED
  BY PoolInvariant, <1>1, PTL

-----------------------------------------------------------------------------
(* What a step does to the queue.                                          *)

LEMMA QueueSteps ==
    ASSUME PoolInv, [Next]_vars
    PROVE  \/ threadPool' = threadPool
           \/ /\ PushAndSignal /\ pc[Main] # "accept"
              /\ newsockfd \in Fds
              /\ isFull(threadPool) \/ Queue' = Append(Queue, newsockfd)
           \/ \E w \in Workers : Take(w) /\ Queue # <<>> /\ Queue' = Tail(Queue)
<1> USE ThreadPoolAssumption
<1>1. CASE PushAndSignal /\ pc[Main] # "accept"
  <2>1. newsockfd \in Fds
    BY <1>1 DEF PoolInv, TypeInv, TypeOK, Ownership
  <2>2. CASE ~isFull(threadPool)
    <3>1. Queue' = Append(Queue, newsockfd)
      BY <1>1, <2>1, <2>2, PushAppends
         DEF PushAndSignal, Queue, PoolInv, TypeInv, TypeOK, QueueWellFormed
    <3> QED
      BY <1>1, <2>1, <3>1
  <2> QED
    BY <1>1, <2>1, <2>2
<1>2. ASSUME NEW w \in Workers, Take(w)
      PROVE  Queue # <<>> /\ Queue' = Tail(Queue)
  BY <1>2, PopTakesHead DEF Take, Queue, PoolInv, TypeInv, TypeOK, QueueWellFormed
<1>3. \/ threadPool' = threadPool
      \/ PushAndSignal /\ pc[Main] # "accept"
      \/ \E w \in Workers : Take(w)
  <2>1. ASSUME NEW w \in Workers, WorkerStep(w), ~Take(w)
        PROVE  threadPool' = threadPool
    BY <2>1 DEF WorkerStep, WaitForItem, Receive, Compile, Run, Compare, Reply,
                ReplyMore, ReplyToReset, Close, Terminate
  <2>2. ASSUME MainStep
        PROVE  threadPool' = threadPool \/ (PushAndSignal /\ pc[Main] # "accept")
    <3>1. CASE Accept
      BY <3>1 DEF Accept
    <3>2. CASE AcceptError
      BY <3>2 DEF AcceptError, Terminate
    <3>3. CASE WaitForSpace
      BY <3>3 DEF WaitForSpace
    <3>4. CASE Insert \/ InsertAfterWait
      BY <3>4 DEF Insert, InsertAfterWait
    <3> QED
      BY <2>2, <3>1, <3>2, <3>3, <3>4 DEF MainStep
  <2>3. ASSUME NEW t \in Threads, SpuriousWakeup(t) PROVE threadPool' = threadPool
    BY <2>3 DEF SpuriousWakeup
  <2>4. ASSUME NEW c \in Conns, Connect(c) \/ Send(c) \/ Leave(c)
        PROVE  threadPool' = threadPool
    BY <2>4 DEF Connect, Send, Leave
  <2>5. CASE UNCHANGED vars
    BY <2>5 DEF vars
  <2> QED
    BY <2>1, <2>2, <2>3, <2>4, <2>5 DEF Next
<1> QED
  BY <1>1, <1>2, <1>3

\* The circular queue, read as a sequence, behaves as a bounded FIFO queue of
\* as many descriptors as there are workers: push and pop at its two ends
\* wrap round the slots without losing, doubling or reordering any.
THEOREM CircularQueueIsFifo == Spec => QueueIsFifo
<1>1. Init => Queue = <<>>
  BY InitialQueue, ThreadPoolAssumption DEF Init, Queue
<1>2. PoolInv /\ [Next]_vars => [Fifo!FifoNext]_Queue
  <2> SUFFICES ASSUME PoolInv, [Next]_vars PROVE [Fifo!FifoNext]_Queue
    OBVIOUS
  <2>1. CASE threadPool' = threadPool
    BY <2>1 DEF Queue
  <2>2. CASE PushAndSignal /\ isFull(threadPool)
    BY <2>2 DEF PushAndSignal, push, Queue
  <2>3. CASE newsockfd \in Fds /\ Queue' = Append(Queue, newsockfd) /\ ~isFull(threadPool)
    <3>1. Len(Queue) < MaxSize
      BY <2>3, QueueIsSeq, MaxSizeAssumption
         DEF PoolInv, TypeInv, TypeOK, QueueType, isFull
    <3> QED
      BY <2>3, <3>1 DEF Fifo!FifoNext, Fifo!Put
  <2>4. CASE Queue # <<>> /\ Queue' = Tail(Queue)
    BY <2>4 DEF Fifo!FifoNext, Fifo!Get
  <2> QED
    BY <2>1, <2>2, <2>3, <2>4, QueueSteps
<1> QED
  BY <1>1, <1>2, PoolInvariant, PTL DEF Spec, QueueIsFifo, Fifo!FifoSpec, Fifo!FifoInit

-----------------------------------------------------------------------------
(* Without spurious wakeups no accepted socket is lost.                    *)

SpaceInv == OpenSocketsAreOwned /\ WakeupMeansSpace

LEMMA WakeupStep ==
    ASSUME ~SpuriousWakeups, PoolInv, WakeupMeansSpace, [Next]_vars
    PROVE  WakeupMeansSpace'
<1> USE ThreadPoolAssumption DEF WakeupMeansSpace
<1>a. /\ pc \in [Threads -> MainLabels \cup WorkerLabels] /\ Main \in Threads
      /\ threadPool.size \in 0 .. MaxSize
  BY DEF PoolInv, TypeInv, TypeOK, QueueType, Threads
<1>1. ASSUME NEW w \in Workers, Take(w) PROVE WakeupMeansSpace'
  <2>1. threadPool'.size = threadPool.size - 1
    BY <1>1 DEF Take, pop
  <2> QED
    BY <1>a, <2>1, MaxSizeAssumption DEF isFull
<1>2. CASE PushAndSignal
  BY <1>2, <1>a DEF PushAndSignal
<1>3. CASE threadPool' = threadPool /\ pc'[Main] \in {pc[Main], "insert", "full"}
  BY <1>3
<1>4. CASE Accept \/ WaitForSpace \/ Terminate
  BY <1>3, <1>4, <1>a DEF Accept, WaitForSpace, Terminate
<1>5. ASSUME NEW w \in Workers,
             \/ WaitForItem(w) \/ Receive(w) \/ Compile(w) \/ Run(w) \/ Compare(w)
             \/ Reply(w) \/ ReplyMore(w) \/ Close(w)
      PROVE  WakeupMeansSpace'
  BY <1>3, <1>5, <1>a DEF Threads, WaitForItem, Receive, Compile, Run, Compare,
                          Reply, ReplyMore, Close, Goto
<1>6. ASSUME NEW c \in Conns, Connect(c) \/ Send(c) \/ Leave(c)
      PROVE  WakeupMeansSpace'
  BY <1>3, <1>6 DEF Connect, Send, Leave
<1>7. CASE UNCHANGED vars
  BY <1>3, <1>7 DEF vars
<1> QED
  BY <1>1, <1>2, <1>4, <1>5, <1>6, <1>7
  DEF Next, MainStep, WorkerStep, AcceptError, Insert, InsertAfterWait,
      ReplyToReset, SpuriousWakeup

LEMMA OpenSocketsStep ==
    ASSUME PoolInv, SpaceInv, [Next]_vars
    PROVE  OpenSocketsAreOwned'
<1> USE ThreadPoolAssumption DEF SpaceInv, OpenSocketsAreOwned, HeldOrQueued, Held, Threads
<1>a. Ownership' /\ Ownership /\ TypeOK /\ Queue \in Seq(Fds \cup {NoFd})
  BY OwnershipStep, QueueIsSeq DEF PoolInv, TypeInv
\* Ownership' is one direction; the other one remains.
<1> SUFFICES ASSUME up', NEW fd \in Fds, peer'[fd] # None
             PROVE  HeldOrQueued(fd)'
  BY <1>a DEF Ownership
<1>1. CASE /\ UNCHANGED <<threadPool, newsockfd, client_socket>>
           /\ (up' => up) /\ peer' = peer
  BY <1>1 DEF Queued, Queue
<1>2. CASE Accept
  BY <1>2, <1>a DEF Accept, Queued, Queue, TypeOK, Ownership
<1>3. CASE PushAndSignal /\ ~isFull(threadPool) /\ up
  <2>1. HeldOrQueued(fd)
    BY <1>3 DEF PushAndSignal
  <2>2. CASE fd = newsockfd
    <3>1. Queue' = Append(Queue, fd)
      BY <1>3, <2>2, PushAppends
         DEF PushAndSignal, Queue, PoolInv, TypeInv, TypeOK, QueueWellFormed
    <3> QED
      BY <1>a, <3>1 DEF Queued
  <2>3. CASE fd # newsockfd
    <3>1. Queue' = Append(Queue, newsockfd)
      BY <1>3, PushAppends
         DEF PushAndSignal, Queue, PoolInv, TypeInv, TypeOK, QueueWellFormed
    <3>2. Queued \subseteq Queued'
      BY <1>a, <3>1 DEF Queued, TypeOK
    <3> QED
      BY <1>3, <2>1, <2>3, <3>2 DEF PushAndSignal
  <2> QED
    BY <2>2, <2>3
<1>4. ASSUME NEW w \in Workers, Take(w) PROVE HeldOrQueued(fd)'
  <2>1. /\ Queue # <<>> /\ client_socket' = [client_socket EXCEPT ![w] = Head(Queue)]
        /\ Queue' = Tail(Queue) /\ newsockfd' = newsockfd
    BY <1>4, PopTakesHead DEF Take, Queue, PoolInv, TypeInv, TypeOK, QueueWellFormed
  <2>2. HeldOrQueued(fd)
    BY <1>4 DEF Take
  <2>3. client_socket[w] = NoFd
    BY <1>4, <1>a DEF Ownership, Take
  <2>4. client_socket' \in [Workers -> Fds \cup {NoFd}]
    BY <1>a, <2>1 DEF TypeOK
  <2>5. CASE fd \in Queued
    <3>1. PICK i \in 1 .. Len(Queue) : fd = Queue[i]
      BY <2>5 DEF Queued
    <3>2. CASE i = 1
      BY <1>a, <2>1, <3>1, <3>2, HeadAndTail DEF TypeOK
    <3>3. CASE i # 1
      <4>1. /\ i - 1 \in 1 .. Len(Tail(Queue))
            /\ Tail(Queue)[i - 1] = Queue[i]
        BY <1>a, <2>1, <3>1, <3>3
      <4> QED
        BY <2>1, <3>1, <4>1 DEF Queued
    <3> QED
      BY <3>2, <3>3
  <2>6. CASE \E t \in Threads : Held(t) = fd
    BY <1>a, <2>1, <2>3, <2>6 DEF TypeOK
  <2> QED
    BY <2>2, <2>5, <2>6
<1>5. ASSUME NEW w \in Workers, Close(w) PROVE HeldOrQueued(fd)'
  <2>1. HeldOrQueued(fd) /\ fd # client_socket[w]
    BY <1>5, <1>a DEF Close, Socket, TypeOK
  <2> QED
    BY <1>5, <1>a, <2>1 DEF Close, Queued, Queue, TypeOK
<1>6. ASSUME NEW c \in Conns, Connect(c) \/ Send(c) \/ Leave(c)
      PROVE  HeldOrQueued(fd)'
  BY <1>1, <1>6 DEF Connect, Send, Leave
<1>7. CASE Terminate
  BY <1>7 DEF Terminate
<1>8. CASE WaitForSpace
  BY <1>1, <1>8 DEF WaitForSpace
<1>9. ASSUME NEW w \in Workers,
             \/ WaitForItem(w) \/ Receive(w) \/ Compile(w) \/ Run(w)
             \/ Compare(w) \/ Reply(w) \/ ReplyMore(w)
      PROVE  HeldOrQueued(fd)'
  BY <1>1, <1>9 DEF WaitForItem, Receive, Compile, Run, Compare, Reply, ReplyMore
<1>10. ASSUME NEW t \in Threads, SpuriousWakeup(t) PROVE HeldOrQueued(fd)'
  BY <1>1, <1>10 DEF SpuriousWakeup
<1>11. CASE UNCHANGED vars
  BY <1>1, <1>11 DEF vars
<1> QED
  BY <1>2, <1>3, <1>4, <1>5, <1>6, <1>7, <1>8, <1>9, <1>10, <1>11
  DEF Next, MainStep, WorkerStep, AcceptError, Insert, InsertAfterWait,
      ReplyToReset, WakeupMeansSpace

\* If pthread_cond_wait returns only when signalled, main's push after a wait
\* always finds room, and every accepted socket is queued or held by a thread
\* until it is closed.
THEOREM NoSocketIsForgotten ==
    ASSUME ~SpuriousWakeups
    PROVE  Spec => [](OpenSocketsAreOwned /\ WakeupMeansSpace)
<1>1. Init => SpaceInv
  <2> SUFFICES ASSUME Init PROVE SpaceInv
    OBVIOUS
  <2>1. Ownership /\ pc[Main] = "accept" /\ \A fd \in Fds : peer[fd] = None
    BY PoolInit, ThreadPoolAssumption DEF PoolInv, Init, Threads
  <2> QED
    BY <2>1 DEF SpaceInv, OpenSocketsAreOwned, WakeupMeansSpace, Ownership
<1>2. PoolInv /\ SpaceInv /\ [Next]_vars => SpaceInv'
  BY WakeupStep, OpenSocketsStep DEF SpaceInv
<1> QED
  BY <1>1, <1>2, PoolInvariant, PTL DEF Spec, SpaceInv

-----------------------------------------------------------------------------
(* The signals: neither main nor the workers sleep over work, with         *)
(* spurious wakeups too, since these only take threads out of a wait.      *)

\* The workers on their way to the queue.
Coming == {w \in Workers : pc[w] = "take"}
Sleeping == {w \in Workers : pc[w] = "idle"}

\* What the proofs need of the types.
LEMMA SignalTypes ==
    ASSUME TypeInv
    PROVE  /\ pc \in [Threads -> MainLabels \cup WorkerLabels]
           /\ Main \in Threads /\ Main \notin Workers /\ Workers \subseteq Threads
           /\ threadPool.size \in 0 .. MaxSize /\ MaxSize \in Nat
           /\ IsFiniteSet(Coming) /\ Cardinality(Coming) \in Nat
<1>1. Coming \subseteq Workers
  BY DEF Coming
<1>2. IsFiniteSet(Coming) /\ Cardinality(Coming) \in Nat
  BY <1>1, FS_Subset, FS_CardinalityType, ThreadPoolAssumption
<1> QED
  BY <1>2, ThreadPoolAssumption, MaxSizeAssumption
  DEF TypeInv, TypeOK, QueueType, Threads

\* A step that cannot disturb either: the queue stays as it is, main does not
\* start to wait, and no worker falls asleep or leaves the way to the queue.
Quiet ==
    /\ up' => up
    /\ threadPool' = threadPool
    /\ pc'[Main] = "full" => pc[Main] = "full"
    /\ Sleeping' \subseteq Sleeping /\ Coming \subseteq Coming'

LEMMA StepsOfSignals ==
    ASSUME TypeInv, [Next]_vars
    PROVE  \/ Quiet \/ ~up'
           \/ WaitForSpace \/ PushAndSignal
           \/ \E w \in Workers : Take(w) \/ WaitForItem(w)
<1> USE DEF Quiet, Coming, Sleeping
<1>a. /\ pc \in [Threads -> MainLabels \cup WorkerLabels]
      /\ Main \in Threads /\ Main \notin Workers /\ Workers \subseteq Threads
  BY SignalTypes
<1>1. ASSUME NEW w \in Workers,
             \/ Receive(w) \/ Compile(w) \/ Run(w) \/ Compare(w)
             \/ Reply(w) \/ ReplyMore(w) \/ Close(w)
      PROVE  Quiet
  <2>1. /\ threadPool' = threadPool /\ up' = up
        /\ pc[w] \notin {"take", "idle"}
        /\ \E l : l # "idle" /\ pc' = [pc EXCEPT ![w] = l]
    <3>1. CASE Receive(w)
      BY <3>1 DEF Receive, Goto
    <3>2. CASE Compile(w)
      BY <3>2 DEF Compile, Goto
    <3>3. CASE Run(w)
      BY <3>3 DEF Run, Goto
    <3>4. CASE Compare(w)
      BY <3>4 DEF Compare, Goto
    <3>5. CASE Reply(w)
      BY <3>5 DEF Reply, Goto
    <3>6. CASE ReplyMore(w)
      BY <3>6 DEF ReplyMore, Goto
    <3>7. CASE Close(w)
      BY <3>7 DEF Close, Goto
    <3> QED
      BY <1>1, <3>1, <3>2, <3>3, <3>4, <3>5, <3>6, <3>7
  <2> QED
    BY <1>a, <2>1
<1>2. ASSUME NEW t \in Threads, SpuriousWakeup(t) PROVE Quiet
  BY <1>2, <1>a DEF SpuriousWakeup, Goto
<1>3. CASE Accept
  BY <1>3, <1>a DEF Accept
<1>4. ASSUME NEW c \in Conns, Connect(c) \/ Send(c) \/ Leave(c) PROVE Quiet
  BY <1>4 DEF Connect, Send, Leave
<1>5. CASE UNCHANGED vars
  BY <1>5 DEF vars
<1> QED
  BY <1>1, <1>2, <1>3, <1>4, <1>5
  DEF Next, MainStep, WorkerStep, Terminate, AcceptError, Insert, InsertAfterWait,
      ReplyToReset

LEMMA SpaceSignalStep ==
    ASSUME TypeInv, NoLostSpaceSignal, [Next]_vars
    PROVE  NoLostSpaceSignal'
<1> USE DEF NoLostSpaceSignal
<1>a. pc \in [Threads -> MainLabels \cup WorkerLabels] /\ Main \in Threads
      /\ Main \notin Workers
  BY SignalTypes
<1>1. CASE Quiet \/ ~up'
  BY <1>1 DEF Quiet
<1>2. CASE WaitForSpace
  BY <1>2 DEF WaitForSpace
\* main is back at accept after a push.
<1>3. CASE PushAndSignal
  BY <1>3, <1>a DEF PushAndSignal
\* The signal after a pop leaves main awake.
<1>4. ASSUME NEW w \in Workers, Take(w) PROVE pc'[Main] # "full"
  BY <1>4, <1>a DEF Take
<1>5. ASSUME NEW w \in Workers, WaitForItem(w) PROVE NoLostSpaceSignal'
  BY <1>5, <1>a DEF WaitForItem, Goto
<1> QED
  BY <1>1, <1>2, <1>3, <1>4, <1>5, StepsOfSignals

LEMMA ItemSignalStep ==
    ASSUME TypeInv, NoLostItemSignal, [Next]_vars
    PROVE  NoLostItemSignal'
<1> DEFINE Enough == Cardinality(Coming) >= threadPool.size
<1>a. /\ pc \in [Threads -> MainLabels \cup WorkerLabels]
      /\ Main \in Threads /\ Main \notin Workers /\ Workers \subseteq Threads
      /\ threadPool.size \in 0 .. MaxSize /\ MaxSize \in Nat
      /\ IsFiniteSet(Coming) /\ Cardinality(Coming) \in Nat
  BY SignalTypes
<1>b. IsFiniteSet(Coming') /\ Cardinality(Coming') \in Nat
  <2>1. Coming' \subseteq Workers
    BY DEF Coming
  <2> QED
    BY <2>1, FS_Subset, FS_CardinalityType, ThreadPoolAssumption
<1>c. up /\ Sleeping # {} => Enough
  BY DEF NoLostItemSignal, Coming, Sleeping
<1> SUFFICES ASSUME up', Sleeping' # {} PROVE Enough'
  BY DEF NoLostItemSignal, Coming, Sleeping
<1>1. CASE Quiet
  <2>1. Cardinality(Coming) <= Cardinality(Coming')
    BY <1>1, <1>b, FS_Subset DEF Quiet
  <2> QED
    BY <1>1, <1>a, <1>b, <1>c, <2>1 DEF Quiet
<1>2. CASE WaitForSpace
  <2>1. Coming' = Coming /\ Sleeping' = Sleeping
    BY <1>2, <1>a DEF WaitForSpace, Coming, Sleeping
  <2> QED
    BY <1>2, <1>c, <2>1 DEF WaitForSpace
\* One element more, and a sleeper more on its way to it.
<1>3. CASE PushAndSignal
  <2>1. Sleeping # {}
    BY <1>3, <1>a DEF PushAndSignal, Sleeping
  <2>2. PICK w \in Sleeping : pc' = [pc EXCEPT ![Main] = "accept", ![w] = "take"]
    BY <1>3, <2>1 DEF PushAndSignal, Sleeping
  <2>3. Coming' = Coming \cup {w} /\ w \notin Coming
    BY <1>a, <2>2 DEF Coming, Sleeping
  <2>4. Cardinality(Coming') = Cardinality(Coming) + 1
    BY <1>a, <2>3, FS_AddElement
  <2>5. threadPool'.size \in {threadPool.size, threadPool.size + 1}
    BY <1>3 DEF PushAndSignal, push
  <2>6. up
    BY <1>3 DEF PushAndSignal
  <2> QED
    BY <1>a, <1>c, <2>1, <2>4, <2>5, <2>6
\* One element less, and one worker less on its way.
<1>4. ASSUME NEW w \in Workers, Take(w) PROVE Enough'
  <2>1. up /\ w \in Coming /\ threadPool'.size = threadPool.size - 1
    BY <1>4 DEF Take, pop, Coming
  <2>2. Coming' = Coming \ {w} /\ Sleeping' = Sleeping
    BY <1>4, <1>a DEF Take, Coming, Sleeping
  <2>3. Cardinality(Coming') = Cardinality(Coming) - 1
    BY <1>a, <2>1, <2>2, FS_RemoveElement
  <2> QED
    BY <1>a, <1>c, <2>1, <2>2, <2>3
\* A worker goes to sleep only in front of an empty queue.
<1>5. ASSUME NEW w \in Workers, WaitForItem(w) PROVE Enough'
  BY <1>5, <1>b DEF WaitForItem, isEmpty
<1> QED
  BY <1>1, <1>2, <1>3, <1>4, <1>5, StepsOfSignals

\* main sleeps only while the queue is full: pthread_cond_signal(&sp_avail)
\* comes with every pop, under the mutex, so it cannot fall between main's
\* test and its wait.
THEOREM NoSpaceSignalIsLost == Spec => []NoLostSpaceSignal
<1>1. Init => NoLostSpaceSignal
  BY ThreadPoolAssumption DEF Init, NoLostSpaceSignal, Threads
<1>2. PoolInv /\ NoLostSpaceSignal /\ [Next]_vars => NoLostSpaceSignal'
  BY SpaceSignalStep DEF PoolInv
<1> QED
  BY <1>1, <1>2, PoolInvariant, PTL DEF Spec

\* While any worker sleeps, as many are on their way to the queue as there
\* are sockets in it: one signal for each push is enough, though every push
\* wakes one worker at most and a worker may find the queue emptied by
\* another before it gets the mutex.
THEOREM NoItemSignalIsLost == Spec => []NoLostItemSignal
<1>1. Init => NoLostItemSignal
  BY ThreadPoolAssumption DEF Init, NoLostItemSignal, Threads
<1>2. PoolInv /\ NoLostItemSignal /\ [Next]_vars => NoLostItemSignal'
  BY ItemSignalStep DEF PoolInv
<1> QED
  BY <1>1, <1>2, PoolInvariant, PTL DEF Spec

-----------------------------------------------------------------------------
(* Every client gets the verdict its own program deserves, and so the pool *)
(* implements the abstract grading service, when submissions fit in one    *)
(* read and expected_output.txt is there.                                  *)

Gradable == Large = {} /\ ExpectedPresent

LEMMA GradingInit == Init => Grading
BY ThreadPoolAssumption DEF Init, Grading, GradingOf, VerdictForTheRightClient, Threads

\* A worker in the middle of a grading holds an open socket, which no other
\* worker holds: the files named after it are its own.
LEMMA OwnFiles ==
    ASSUME PoolInv, up, NEW w \in Workers, pc[w] \notin {"take", "idle"}
    PROVE  /\ client_socket[w] \in Fds
           /\ peer[client_socket[w]] \in Conns
           /\ \A v \in Workers \ {w} : client_socket[v] # client_socket[w]
           /\ newsockfd # client_socket[w]
<1> USE ThreadPoolAssumption
<1>1. client_socket[w] \in Fds
  BY DEF PoolInv, TypeInv, TypeOK, Ownership
<1>2. HeldOrQueued(client_socket[w])
  BY <1>1 DEF HeldOrQueued, Held, Threads
<1>3. peer[client_socket[w]] \in Conns
  BY <1>1, <1>2 DEF PoolInv, TypeInv, TypeOK, Ownership
<1>4. /\ \A v \in Workers \ {w} : client_socket[v] # client_socket[w]
      /\ newsockfd # client_socket[w]
  BY <1>1 DEF PoolInv, Ownership, SocketOwnedOnce, Held, Threads
<1> QED
  BY <1>1, <1>3, <1>4

\* The grading of a worker is not disturbed by a step that leaves its place,
\* its descriptor and its files alone and does not open its connection anew.
LEMMA Undisturbed ==
    ASSUME NEW w \in Workers, GradingOf(w, peer[Socket(w)]),
           pc'[w] = pc[w], client_socket'[w] = client_socket[w],
           pc[w] \notin {"take", "idle"} =>
              LET f == client_socket[w]
                  c == peer[f]
              IN  /\ code'[f] = code[f] /\ exe'[f] = exe[f] /\ report'[f] = report[f]
                  /\ peer'[f] = c
                  /\ client[c] # "open" => client'[c] # "open"
    PROVE  GradingOf(w, peer[Socket(w)])'
BY DEF GradingOf, FileName, Socket

LEMMA GradingStep ==
    ASSUME Gradable, PoolInv, Grading, [Next]_vars
    PROVE  Grading'
<1> USE ThreadPoolAssumption
<1>a. TypeOK /\ Ownership /\ TypeInv
  BY DEF PoolInv, TypeInv
<1>b. PoolInv'
  BY TypeStep, OwnershipStep DEF PoolInv
\* A step of worker w that writes only files named after its descriptor, and
\* changes no connection.
<1>1. ASSUME NEW w \in Workers, up, pc[w] \notin {"take", "idle"},
             UNCHANGED <<client_socket, peer, backlog, client, up>>,
             \A v \in Workers \ {w} : pc'[v] = pc[v],
             \A f \in Fds \ {client_socket[w]} :
                code'[f] = code[f] /\ exe'[f] = exe[f] /\ report'[f] = report[f],
             GradingOf(w, peer[Socket(w)])',
             VerdictForTheRightClient'
      PROVE  Grading'
  <2>1. ASSUME NEW v \in Workers \ {w}
        PROVE  GradingOf(v, peer[Socket(v)])'
    <3>1. pc[v] \notin {"take", "idle"} =>
             client_socket[v] \in Fds \ {client_socket[w]}
      BY <1>1, OwnFiles
    <3>2. GradingOf(v, peer[Socket(v)])
      BY <1>1 DEF Grading, Socket
    <3> QED
      BY <1>1, <3>1, <3>2, Undisturbed
  <2> QED
    BY <1>1, <2>1 DEF Grading, Socket
\* A step that changes no file and no descriptor and grades nothing.
<1>2. ASSUME UNCHANGED <<code, exe, report, client_socket, peer, backlog,
                         client, up, answer>>,
             \A v \in Workers :
                pc'[v] = pc[v] \/ pc'[v] \in {"take", "idle", "reply more", "close"}
      PROVE  Grading'
  BY <1>2 DEF Grading, GradingOf, VerdictForTheRightClient, Socket, FileName
<1>3. ASSUME NEW c \in Conns, Connect(c) PROVE Grading'
  <2>1. /\ client[c] = "new" /\ client' = [client EXCEPT ![c] = "open"]
        /\ backlog' = Append(backlog, c) /\ up
        /\ UNCHANGED <<pc, client_socket, peer, code, exe, report, answer, up>>
    BY <1>3 DEF Connect
  <2>2. ASSUME NEW v \in Workers
        PROVE  GradingOf(v, peer[Socket(v)])'
    <3>1. pc[v] \notin {"take", "idle"} => client'[peer[client_socket[v]]]
                                         = client[peer[client_socket[v]]]
      BY <1>a, <2>1, OwnFiles DEF Grading, TypeOK
    <3>2. GradingOf(v, peer[Socket(v)])
      BY <2>1 DEF Grading, Socket
    <3> QED
      BY <2>1, <3>1, <3>2, Undisturbed
  <2>3. \A i \in 1 .. Len(backlog') : client'[backlog'[i]] # "new"
    BY <1>a, <2>1 DEF Grading, TypeOK
  <2>4. \A fd \in Fds : peer'[fd] # None => client'[peer'[fd]] # "new"
    BY <1>a, <2>1 DEF Grading, TypeOK
  <2> QED
    BY <2>1, <2>2, <2>3, <2>4 DEF Grading, VerdictForTheRightClient, Socket
<1>4. ASSUME NEW c \in Conns, Send(c) PROVE Grading'
  BY <1>2, <1>4 DEF Send
<1>5. ASSUME NEW c \in Conns, Leave(c) PROVE Grading'
  <2>1. /\ client' = [client EXCEPT ![c] = "gone"]
        /\ UNCHANGED <<pc, client_socket, peer, code, exe, report, answer, up, backlog>>
    BY <1>5 DEF Leave
  <2>2. \A d \in Conns : /\ client[d] # "open" => client'[d] # "open"
                         /\ client[d] # "new" => client'[d] # "new"
    BY <1>a, <2>1 DEF TypeOK
  <2>3. ASSUME NEW v \in Workers, up
        PROVE  GradingOf(v, peer[Socket(v)])'
    <3>1. pc[v] \notin {"take", "idle"} => peer[client_socket[v]] \in Conns
      BY <2>3, OwnFiles
    <3>2. GradingOf(v, peer[Socket(v)])
      BY <2>3 DEF Grading, Socket
    <3> QED
      BY <2>1, <2>2, <3>1, <3>2, Undisturbed
  <2>4. \A i \in 1 .. Len(backlog') : client'[backlog'[i]] # "new"
    BY <1>a, <2>1, <2>2 DEF Grading, TypeOK
  <2>5. \A fd \in Fds : peer'[fd] # None => client'[peer'[fd]] # "new"
    BY <1>a, <2>1, <2>2 DEF Grading, TypeOK
  <2> QED
    BY <2>1, <2>3, <2>4, <2>5 DEF Grading, VerdictForTheRightClient, Socket
<1>6. CASE Terminate
  <2>1. /\ ~up' /\ backlog' = backlog /\ answer' = answer
        /\ peer' = [fd \in Fds |-> None]
        /\ client' = [c \in Conns |->
                        IF client[c] = "open" THEN "closed" ELSE client[c]]
    BY <1>6 DEF Terminate
  <2>2. \A i \in 1 .. Len(backlog') : client'[backlog'[i]] # "new"
    BY <1>a, <2>1 DEF Grading, TypeOK
  <2> QED
    BY <2>1, <2>2 DEF Grading, VerdictForTheRightClient
<1>7. CASE Accept
  <2>1. /\ UNCHANGED <<client_socket, code, exe, report, client, answer, up>>
        /\ backlog # <<>> /\ backlog' = Tail(backlog) /\ up
        /\ pc' = [pc EXCEPT ![Main] = "insert"]
    BY <1>7 DEF Accept
  <2>2. PICK fd \in Fds : /\ peer[fd] = None
                          /\ peer' = [peer EXCEPT ![fd] = Head(backlog)]
    BY <1>7 DEF Accept
  <2>3. ASSUME NEW v \in Workers
        PROVE  GradingOf(v, peer[Socket(v)])'
    <3>1. pc'[v] = pc[v]
      BY <1>a, <2>1 DEF TypeOK, Threads
    <3>2. CASE pc[v] \in {"take", "idle"}
      BY <3>1, <3>2 DEF GradingOf
    <3>3. CASE pc[v] \notin {"take", "idle"}
      <4>1. peer'[client_socket[v]] = peer[client_socket[v]]
        BY <1>a, <2>1, <2>2, <3>3, OwnFiles DEF TypeOK
      <4>2. GradingOf(v, peer[Socket(v)])
        BY <2>1 DEF Grading, Socket
      <4> QED
        BY <2>1, <3>1, <4>1, <4>2, Undisturbed
    <3> QED
      BY <3>2, <3>3
  <2>4. /\ \A i \in 1 .. Len(backlog') : client'[backlog'[i]] # "new"
        /\ client'[Head(backlog)] # "new"
    BY <1>a, <2>1, HeadAndTail DEF Grading, TypeOK
  <2>5. \A g \in Fds : peer'[g] # None => client'[peer'[g]] # "new"
    BY <1>a, <2>1, <2>2, <2>4 DEF Grading, TypeOK
  <2> QED
    BY <2>1, <2>3, <2>4, <2>5 DEF Grading, VerdictForTheRightClient
<1>8. CASE PushAndSignal
  <2>1. \A v \in Workers : pc'[v] = pc[v] \/ pc'[v] = "take"
    BY <1>8, <1>a DEF PushAndSignal, TypeOK, Threads
  <2> QED
    BY <1>2, <1>8, <2>1 DEF PushAndSignal
<1>9. CASE WaitForSpace
  <2>1. \A v \in Workers : pc'[v] = pc[v]
    BY <1>9, <1>a DEF WaitForSpace, TypeOK, Threads
  <2> QED
    BY <1>2, <1>9, <2>1 DEF WaitForSpace
<1>10. ASSUME NEW w \in Workers, Take(w) PROVE Grading'
  <2>1. /\ UNCHANGED <<peer, code, exe, report, client, answer, backlog, up>> /\ up
        /\ \A v \in Workers \ {w} : /\ client_socket'[v] = client_socket[v]
                                    /\ pc'[v] = pc[v]
        /\ pc'[w] = "receive"
    BY <1>10, <1>a DEF Take, TypeOK, Threads
  <2>2. ASSUME NEW v \in Workers PROVE GradingOf(v, peer[Socket(v)])'
    <3>1. CASE v = w
      BY <2>1, <3>1 DEF GradingOf
    <3>2. CASE v # w
      <4>1. GradingOf(v, peer[Socket(v)])
        BY <2>1 DEF Grading, Socket
      <4> QED
        BY <2>1, <3>2, <4>1, Undisturbed
    <3> QED
      BY <3>1, <3>2
  <2> QED
    BY <2>1, <2>2 DEF Grading, VerdictForTheRightClient, Socket
<1>11. ASSUME NEW w \in Workers, WaitForItem(w) PROVE Grading'
  BY <1>2, <1>11, <1>a DEF WaitForItem, Goto, TypeOK, Threads
<1> DEFINE f(w) == client_socket[w]
           c(w) == peer[client_socket[w]]
<1>12. ASSUME NEW w \in Workers, pc[w] \in WorkerLabels \ {"take", "idle"}, up
       PROVE  /\ f(w) \in Fds /\ c(w) \in Conns
              /\ GradingOf(w, peer[Socket(w)])
  BY <1>12, OwnFiles DEF Grading, Socket
<1>13. ASSUME NEW w \in Workers, Receive(w) PROVE Grading'
  <2>1. /\ pc[w] = "receive" /\ up
        /\ UNCHANGED <<client_socket, peer, backlog, client, up, exe, report, answer>>
        /\ c(w) \in sent \/ client[c(w)] # "open"
        /\ code' = [code EXCEPT ![f(w)] = IF c(w) \in sent \ Large THEN c(w) ELSE None]
        /\ pc' = [pc EXCEPT ![w] = "compile"]
    BY <1>13 DEF Receive, Socket, FileName, Goto
  <2>2. \A v \in Workers \ {w} : pc'[v] = pc[v]
    BY <1>a, <2>1 DEF TypeOK, Threads
  <2>3. f(w) \in Fds /\ pc'[w] = "compile" /\ Large = {}
    BY <1>12, <1>a, <2>1 DEF TypeOK, Threads, WorkerLabels, Gradable
  <2>4. code'[f(w)] = c(w) \/ (code'[f(w)] = None /\ client[c(w)] # "open")
    BY <1>a, <2>1, <2>3 DEF TypeOK
  <2>5. GradingOf(w, peer[Socket(w)])'
    BY <2>1, <2>3, <2>4 DEF GradingOf, Socket, FileName
  <2>6. \A g \in Fds \ {f(w)} : code'[g] = code[g]
    BY <1>a, <2>1 DEF TypeOK
  <2>7. VerdictForTheRightClient'
    BY <2>1 DEF Grading, VerdictForTheRightClient
  <2> QED
    BY <1>1, <2>1, <2>2, <2>5, <2>6, <2>7
<1>14. ASSUME NEW w \in Workers, Compile(w) PROVE Grading'
  <2>1. /\ pc[w] = "compile" /\ up
        /\ UNCHANGED <<client_socket, peer, backlog, client, up, code, answer>>
    BY <1>14 DEF Compile
  <2>2. /\ f(w) \in Fds /\ c(w) \in Conns
        /\ code[f(w)] = c(w) \/ (code[f(w)] = None /\ client[c(w)] # "open")
    BY <1>12, <2>1 DEF GradingOf, Socket, FileName, WorkerLabels
  <2>3. VerdictForTheRightClient'
    BY <2>1 DEF Grading, VerdictForTheRightClient
  <2>4. CASE Compiles(code[f(w)])
    <3>1. /\ exe' = [exe EXCEPT ![f(w)] = code[f(w)]] /\ report' = report
          /\ pc' = [pc EXCEPT ![w] = "run"]
      BY <1>14, <2>4 DEF Compile, Socket, FileName, Goto
    <3>2. /\ pc'[w] = "run" /\ \A v \in Workers \ {w} : pc'[v] = pc[v]
          /\ exe'[f(w)] = c(w) /\ \A g \in Fds \ {f(w)} : exe'[g] = exe[g]
      BY <1>a, <2>2, <2>4, <3>1 DEF TypeOK, Threads, Compiles
    <3>3. GradingOf(w, peer[Socket(w)])'
      BY <2>1, <2>2, <2>4, <3>2 DEF GradingOf, Socket, FileName, Compiles
    <3> QED
      BY <1>1, <2>1, <2>3, <3>1, <3>2, <3>3
  <2>5. CASE ~Compiles(code[f(w)])
    <3>1. /\ report' = [report EXCEPT ![f(w)] =
                  [of |-> code[f(w)], verdict |-> "COMPILE ERROR"]]
          /\ exe' = exe /\ pc' = [pc EXCEPT ![w] = "reply"]
      BY <1>14, <2>5 DEF Compile, Socket, FileName, Goto
    <3>2. /\ pc'[w] = "reply" /\ \A v \in Workers \ {w} : pc'[v] = pc[v]
          /\ report'[f(w)] = [of |-> code[f(w)], verdict |-> "COMPILE ERROR"]
          /\ \A g \in Fds \ {f(w)} : report'[g] = report[g]
      BY <1>a, <2>2, <3>1 DEF TypeOK, Threads
    <3>3. code[f(w)] = c(w) => VerdictOf(c(w)) = "COMPILE ERROR"
      BY <2>2, <2>5 DEF Compiles, VerdictOf
    <3>4. GradingOf(w, peer[Socket(w)])'
      <4>1. \/ report'[f(w)] = [of |-> c(w), verdict |-> VerdictOf(c(w))]
            \/ report'[f(w)].of = None /\ client[c(w)] # "open"
        <5>1. CASE code[f(w)] = c(w)
          BY <3>2, <3>3, <5>1
        <5>2. CASE code[f(w)] = None /\ client[c(w)] # "open"
          <6>1. [of |-> code[f(w)], verdict |-> "COMPILE ERROR"].of = code[f(w)]
            OBVIOUS
          <6>2. report'[f(w)].of = code[f(w)]
            BY <3>2, <6>1, Zenon
          <6> QED
            BY <5>2, <6>2
        <5> QED
          BY <2>2, <5>1, <5>2
      <4> QED
        BY <2>1, <3>2, <4>1 DEF GradingOf, Socket, FileName
    <3> QED
      BY <1>1, <2>1, <2>3, <3>1, <3>2, <3>4
  <2> QED
    BY <2>4, <2>5
<1>15. ASSUME NEW w \in Workers, Run(w) PROVE Grading'
  <2>1. /\ pc[w] = "run" /\ up
        /\ UNCHANGED <<client_socket, peer, backlog, client, up, code, exe, answer>>
        /\ ProgramOf(exe[f(w)]) # "looping"
    BY <1>15 DEF Run, Socket, FileName
  <2>2. f(w) \in Fds /\ c(w) \in Conns /\ exe[f(w)] = c(w) /\ Compiles(c(w))
    BY <1>12, <2>1 DEF GradingOf, Socket, FileName, WorkerLabels
  <2>3. VerdictForTheRightClient'
    BY <2>1 DEF Grading, VerdictForTheRightClient
  <2>4. CASE ProgramOf(c(w)) \in {"failing", "silent"}
    <3>1. /\ report' = [report EXCEPT ![f(w)] =
                  [of |-> exe[f(w)], verdict |-> "RUNTIME ERROR"]]
          /\ pc' = [pc EXCEPT ![w] = "reply"]
      BY <1>15, <2>2, <2>4 DEF Run, Socket, FileName, Goto
    <3>2. /\ pc'[w] = "reply" /\ \A v \in Workers \ {w} : pc'[v] = pc[v]
          /\ report'[f(w)] = [of |-> c(w), verdict |-> "RUNTIME ERROR"]
          /\ \A g \in Fds \ {f(w)} : report'[g] = report[g]
      BY <1>a, <2>2, <3>1 DEF TypeOK, Threads
    <3>3. VerdictOf(c(w)) = "RUNTIME ERROR"
      BY <2>4 DEF VerdictOf
    <3>4. GradingOf(w, peer[Socket(w)])'
      BY <2>1, <2>2, <3>2, <3>3 DEF GradingOf, Socket, FileName
    <3> QED
      BY <1>1, <2>1, <2>3, <3>1, <3>2, <3>4
  <2>5. CASE ProgramOf(c(w)) \notin {"failing", "silent"}
    <3>1. report' = report /\ pc' = [pc EXCEPT ![w] = "compare"]
      BY <1>15, <2>2, <2>5 DEF Run, Socket, FileName, Goto
    <3>2. pc'[w] = "compare" /\ \A v \in Workers \ {w} : pc'[v] = pc[v]
      BY <1>a, <3>1 DEF TypeOK, Threads
    <3>3. ProgramOf(c(w)) \in {"wrong", "right"}
      BY <2>1, <2>2, <2>5 DEF Compiles, Programs
    <3>4. GradingOf(w, peer[Socket(w)])'
      BY <2>1, <2>2, <3>2, <3>3 DEF GradingOf, Socket, FileName
    <3> QED
      BY <1>1, <2>1, <2>3, <3>1, <3>2, <3>4
  <2> QED
    BY <2>4, <2>5
<1>16. ASSUME NEW w \in Workers, Compare(w) PROVE Grading'
  <2>1. /\ pc[w] = "compare" /\ up
        /\ UNCHANGED <<client_socket, peer, backlog, client, up, code, exe, answer>>
        /\ pc' = [pc EXCEPT ![w] = "reply"]
        /\ report' = [report EXCEPT ![f(w)] =
              [of |-> exe[f(w)],
               verdict |-> IF ExpectedPresent /\ ProgramOf(exe[f(w)]) = "wrong"
                           THEN "FAIL" ELSE "PASS"]]
    BY <1>16 DEF Compare, Socket, FileName, Goto
  <2>2. /\ f(w) \in Fds /\ c(w) \in Conns /\ exe[f(w)] = c(w)
        /\ ProgramOf(c(w)) \in {"wrong", "right"}
    BY <1>12, <2>1 DEF GradingOf, Socket, FileName, WorkerLabels
  <2>3. /\ pc'[w] = "reply" /\ \A v \in Workers \ {w} : pc'[v] = pc[v]
        /\ report'[f(w)] = [of |-> c(w), verdict |-> VerdictOf(c(w))]
        /\ \A g \in Fds \ {f(w)} : report'[g] = report[g]
    BY <1>a, <2>1, <2>2 DEF TypeOK, Threads, VerdictOf, Gradable
  <2>4. GradingOf(w, peer[Socket(w)])'
    BY <2>1, <2>2, <2>3 DEF GradingOf, Socket, FileName
  <2>5. VerdictForTheRightClient'
    BY <2>1 DEF Grading, VerdictForTheRightClient
  <2> QED
    BY <1>1, <2>1, <2>3, <2>4, <2>5
<1>17. ASSUME NEW w \in Workers, Reply(w) PROVE Grading'
  <2>1. /\ pc[w] = "reply" /\ up
        /\ UNCHANGED <<client_socket, peer, backlog, client, up, code, exe, report>>
        /\ \E l \in {"reply more", "close"} : pc' = [pc EXCEPT ![w] = l]
        /\ \/ answer' = answer
           \/ /\ client[c(w)] = "open"
              /\ answer' = [answer EXCEPT ![c(w)] = report[f(w)].verdict]
    BY <1>17 DEF Reply, Socket, FileName, Goto, Details
  <2>2. /\ f(w) \in Fds /\ c(w) \in Conns
        /\ client[c(w)] = "open" => report[f(w)].verdict = VerdictOf(c(w))
    <3>1. /\ f(w) \in Fds /\ c(w) \in Conns
          /\ GradingOf(w, peer[Socket(w)])
      BY <1>12, <2>1 DEF WorkerLabels
    <3>2. \/ report[f(w)] = [of |-> c(w), verdict |-> VerdictOf(c(w))]
          \/ client[c(w)] # "open"
      BY <2>1, <3>1 DEF GradingOf, Socket, FileName
    <3> QED
      BY <3>1, <3>2
  <2>3. VerdictForTheRightClient'
    BY <1>a, <2>1, <2>2 DEF Grading, VerdictForTheRightClient, TypeOK
  <2>4. /\ pc'[w] \in {"reply more", "close"}
        /\ \A v \in Workers \ {w} : pc'[v] = pc[v]
    BY <1>a, <2>1 DEF TypeOK, Threads
  <2>5. GradingOf(w, peer[Socket(w)])'
    BY <2>4 DEF GradingOf
  <2> QED
    BY <1>1, <2>1, <2>3, <2>4, <2>5
<1>18. ASSUME NEW w \in Workers, ReplyMore(w) PROVE Grading'
  BY <1>2, <1>18, <1>a DEF ReplyMore, Goto, TypeOK, Threads
<1>19. ASSUME NEW w \in Workers, Close(w) PROVE Grading'
  <2>1. /\ pc[w] = "close" /\ up /\ pc'[w] = "take"
        /\ UNCHANGED <<backlog, up, code, exe, report, answer>>
        /\ peer' = [peer EXCEPT ![f(w)] = None]
        /\ client' = [client EXCEPT ![c(w)] = IF @ = "open" THEN "closed" ELSE @]
        /\ \A v \in Workers \ {w} : pc'[v] = pc[v] /\ client_socket'[v] = client_socket[v]
    BY <1>19, <1>a DEF Close, Goto, Socket, TypeOK, Threads
  <2>2. f(w) \in Fds /\ c(w) \in Conns
    BY <1>12, <2>1 DEF WorkerLabels
  <2>3. \A d \in Conns : /\ client[d] # "open" => client'[d] # "open"
                         /\ client[d] # "new" => client'[d] # "new"
    BY <1>a, <2>1 DEF TypeOK
  <2>4. ASSUME NEW v \in Workers PROVE GradingOf(v, peer[Socket(v)])'
    <3>1. CASE pc'[v] \in {"take", "idle"}
      BY <3>1 DEF GradingOf
    <3>2. CASE pc'[v] \notin {"take", "idle"}
      <4>1. /\ v # w /\ client_socket[v] \in Fds \ {f(w)}
            /\ peer[client_socket[v]] \in Conns
        BY <2>1, <2>2, <3>2, OwnFiles
      <4>2. peer'[client_socket'[v]] = peer[client_socket[v]]
        BY <1>a, <2>1, <4>1 DEF TypeOK
      <4>3. GradingOf(v, peer[Socket(v)])
        BY <2>1 DEF Grading, Socket
      <4> QED
        BY <2>1, <2>3, <4>1, <4>2, <4>3, Undisturbed
    <3> QED
      BY <3>1, <3>2
  <2>5. \A i \in 1 .. Len(backlog') : client'[backlog'[i]] # "new"
    BY <1>a, <2>1, <2>3 DEF Grading, TypeOK
  <2>6. \A g \in Fds : peer'[g] # None => client'[peer'[g]] # "new"
    BY <1>a, <2>1, <2>3 DEF Grading, TypeOK
  <2> QED
    BY <2>1, <2>4, <2>5, <2>6 DEF Grading, VerdictForTheRightClient, Socket
<1>20. ASSUME NEW t \in Threads, SpuriousWakeup(t) PROVE Grading'
  <2>1. \A v \in Workers : pc'[v] = pc[v] \/ pc'[v] = "take"
    BY <1>20, <1>a DEF SpuriousWakeup, Goto, TypeOK, Threads
  <2> QED
    BY <1>2, <1>20, <2>1 DEF SpuriousWakeup
<1>21. CASE UNCHANGED vars
  BY <1>2, <1>21 DEF vars
<1> QED
  BY <1>3, <1>4, <1>5, <1>6, <1>7, <1>8, <1>9, <1>10, <1>11, <1>13, <1>14, <1>15,
     <1>16, <1>17, <1>18, <1>19, <1>20, <1>21
  DEF Next, MainStep, WorkerStep, AcceptError, Insert, InsertAfterWait, ReplyToReset

\* Every verdict a client reads is the one its own program deserves, however
\* many gradings run at once.
THEOREM VerdictsAreDeserved ==
    ASSUME Gradable
    PROVE  Spec => []VerdictForTheRightClient
<1>1. PoolInv /\ Grading /\ [Next]_vars => Grading'
  BY GradingStep
<1>2. Grading => VerdictForTheRightClient
  BY DEF Grading
<1> QED
  BY GradingInit, <1>1, <1>2, PoolInvariant, PTL DEF Spec

\* The thread pool is a grading service: with its queue, threads, files and
\* descriptors hidden, clients submit, get the verdict of their own program
\* at most once, or give up.
THEOREM PoolImplementsService ==
    ASSUME Gradable
    PROVE  Spec => ImplementsService
<1> DEFINE waiting == {c \in Conns : client[c] = "open" /\ answer[c] = NoAnswer}
<1> USE ThreadPoolAssumption
<1>1. Init => Service!ServiceInit
  BY DEF Init, Service!ServiceInit
<1>2. PoolInv /\ Grading /\ [Next]_vars => [Service!ServiceNext]_Service!serviceVars
  <2> SUFFICES ASSUME PoolInv, Grading, [Next]_vars
               PROVE  [Service!ServiceNext]_Service!serviceVars
    OBVIOUS
  <2>a. TypeOK /\ \A c \in Conns : answer[c] \in {NoAnswer, VerdictOf(c)}
                                   /\ VerdictOf(c) # NoAnswer
    BY DEF PoolInv, TypeInv, Grading, VerdictForTheRightClient, VerdictOf, Verdicts, Programs
  <2>b. Grading'
    BY GradingStep
  \* Clients that wait no more, and none that waits anew.
  <2>1. CASE /\ answer' = answer
             /\ \A c \in Conns : client'[c] = "open" => client[c] = "open"
    <3>1. waiting' \subseteq waiting
      BY <2>1
    <3>2. waiting \ waiting' \in SUBSET waiting /\ waiting' = waiting \ (waiting \ waiting')
      BY <3>1
    <3> QED
      BY <2>1, <3>2 DEF Service!ServiceNext, Service!GiveUp
  <2>2. ASSUME NEW c \in Conns, Connect(c)
        PROVE  [Service!ServiceNext]_Service!serviceVars
    <3>1. answer' = answer /\ client[c] = "new" /\ client' = [client EXCEPT ![c] = "open"]
      BY <2>2 DEF Connect
    <3>2. CASE answer[c] = NoAnswer
      <4>1. c \notin waiting /\ waiting' = waiting \cup {c}
        BY <2>a, <3>1, <3>2 DEF TypeOK
      <4> QED
        BY <3>1, <3>2, <4>1 DEF Service!ServiceNext, Service!Submit
    <3>3. CASE answer[c] # NoAnswer
      <4>1. waiting' = waiting
        BY <2>a, <3>1, <3>3 DEF TypeOK
      <4> QED
        BY <3>1, <4>1 DEF Service!serviceVars
    <3> QED
      BY <3>2, <3>3
  <2>3. ASSUME NEW w \in Workers, Reply(w)
        PROVE  [Service!ServiceNext]_Service!serviceVars
    <3> DEFINE c == peer[Socket(w)]
    <3>1. c \in Conns
      BY <2>3, OwnFiles DEF Reply, Socket
    <3>2. client' = client /\
             (answer' = answer \/ \E v \in Verdicts \cup {NoAnswer} :
                      client[c] = "open" /\ answer' = [answer EXCEPT ![c] = v])
      <4>1. Details(w).verdict \in Verdicts \cup {NoAnswer}
        BY <2>3, OwnFiles, <2>a DEF Reply, Details, FileName, Socket, TypeOK, Reports
      <4> QED
        BY <2>3, <4>1 DEF Reply, Details
    <3>3. CASE answer' = answer
      BY <2>1, <3>2, <3>3
    <3>4. CASE answer' # answer
      <4>1. PICK v \in Verdicts \cup {NoAnswer} :
                   client[c] = "open" /\ answer' = [answer EXCEPT ![c] = v]
        BY <3>2, <3>4
      <4>2. v = VerdictOf(c) /\ answer[c] = NoAnswer
        <5>1. answer'[c] = v /\ answer'[c] # answer[c]
          BY <2>a, <3>1, <3>4, <4>1 DEF TypeOK
        <5>2. answer'[c] \in {NoAnswer, VerdictOf(c)}
          BY <2>b, <3>1 DEF Grading, VerdictForTheRightClient
        <5>3. Details(w).verdict = VerdictOf(c)
          <6>1. GradingOf(w, c) /\ pc[w] = "reply"
            BY <2>3 DEF Grading, Reply
          <6> QED
            BY <6>1, <4>1 DEF GradingOf, Details
        <5>4. answer' = [answer EXCEPT ![c] = VerdictOf(c)]
          BY <2>3, <3>4, <5>3 DEF Reply
        <5> QED
          BY <2>a, <3>1, <5>1, <5>4 DEF TypeOK
      <4>3. c \in waiting /\ waiting' = waiting \ {c}
        BY <2>a, <3>1, <3>2, <4>1, <4>2 DEF TypeOK
      <4> QED
        BY <3>1, <4>1, <4>2, <4>3 DEF Service!ServiceNext, Service!Answer
    <3> QED
      BY <3>3, <3>4
  <2>4. CASE UNCHANGED <<client, answer>>
    BY <2>1, <2>4
  <2>5. ASSUME NEW c \in Conns, Send(c) \/ Leave(c)
        PROVE  [Service!ServiceNext]_Service!serviceVars
    BY <2>1, <2>5, <2>a DEF Send, Leave, TypeOK
  <2>6. CASE Terminate
    BY <2>1, <2>6 DEF Terminate
  <2>7. ASSUME NEW w \in Workers, Close(w)
        PROVE  [Service!ServiceNext]_Service!serviceVars
    BY <2>1, <2>7, <2>a DEF Close, TypeOK
  <2>8. ASSUME NEW w \in Workers,
               \/ Take(w) \/ WaitForItem(w) \/ Receive(w) \/ Compile(w)
               \/ Run(w) \/ Compare(w) \/ ReplyMore(w)
        PROVE  UNCHANGED <<client, answer>>
    BY <2>8 DEF Take, WaitForItem, Receive, Compile, Run, Compare, ReplyMore
  <2>9. ASSUME Accept \/ WaitForSpace \/ PushAndSignal
               \/ (\E t \in Threads : SpuriousWakeup(t)) \/ UNCHANGED vars
        PROVE  UNCHANGED <<client, answer>>
    BY <2>9 DEF Accept, WaitForSpace, PushAndSignal, SpuriousWakeup, vars
  <2> QED
    BY <2>2, <2>3, <2>4, <2>5, <2>6, <2>7, <2>8, <2>9
    DEF Next, MainStep, WorkerStep, AcceptError, Insert, InsertAfterWait, ReplyToReset
<1>3. PoolInv /\ Grading /\ [Next]_vars => Grading'
  BY GradingStep
<1> QED
  BY GradingInit, <1>1, <1>2, <1>3, PoolInvariant, PTL
  DEF Spec, ImplementsService, Service!ServiceSpec

-----------------------------------------------------------------------------
(* Whose files a worker reads, whatever clients send or leave unsent.      *)

\* At each step of a grading, the file it goes on with is about the program
\* of the worker's own connection, or there is none.
Traced(w) ==
    LET f == client_socket[w]
        c == peer[f]
    IN  /\ pc[w] = "compile" => code[f] \in {c, None}
        /\ pc[w] \in {"run", "compare"} => exe[f] = c
        /\ pc[w] = "reply" => report[f].of \in {c, None}

Traces == up => \A w \in Workers : Traced(w)

LEMMA TracesInit == Init => Traces
BY ThreadPoolAssumption DEF Init, Traces, Traced, Threads

\* A worker is not disturbed by a step of others that leaves its files and
\* its connection alone.
LEMMA TracedKeeps ==
    ASSUME NEW w \in Workers, Traced(w),
           pc'[w] = pc[w] \/ pc'[w] \in {"take", "idle", "receive", "reply more", "close"},
           pc'[w] \in {"compile", "run", "compare", "reply"} =>
              LET f == client_socket[w]
              IN  /\ client_socket'[w] = f /\ peer'[f] = peer[f]
                  /\ code'[f] = code[f] /\ exe'[f] = exe[f] /\ report'[f] = report[f]
    PROVE  Traced(w)'
BY DEF Traced

LEMMA TracesStep == PoolInv /\ Traces /\ [Next]_vars => Traces'
<1> SUFFICES ASSUME PoolInv, Traces, [Next]_vars PROVE Traces'
  OBVIOUS
<1> USE ThreadPoolAssumption
<1>a. TypeOK /\ Main \notin Workers /\ pc \in [Threads -> MainLabels \cup WorkerLabels]
  BY DEF PoolInv, TypeInv, TypeOK
<1>w. \A w \in Workers : w \in Threads /\ (up => Traced(w))
  BY DEF Threads, Traces
\* A step of worker w on the files named after its own descriptor.
<1>1. ASSUME NEW w \in Workers, up, pc[w] \notin {"take", "idle"},
             UNCHANGED <<client_socket, peer>>,
             \A v \in Workers \ {w} : pc'[v] = pc[v],
             \A f \in Fds \ {client_socket[w]} :
                code'[f] = code[f] /\ exe'[f] = exe[f] /\ report'[f] = report[f],
             Traced(w)'
      PROVE  Traces'
  <2>1. ASSUME NEW v \in Workers \ {w} PROVE Traced(v)'
    <3>1. pc[v] \notin {"take", "idle"} => client_socket[v] \in Fds \ {client_socket[w]}
      BY <1>1, OwnFiles
    <3> QED
      BY <1>1, <1>w, <3>1, TracedKeeps
  <2> QED
    BY <1>1, <2>1 DEF Traces
\* A step that changes no file and no descriptor of a grading.
<1>2. ASSUME UNCHANGED <<code, exe, report, client_socket, peer>>, up' => up,
             \A v \in Workers : pc'[v] = pc[v]
                                \/ pc'[v] \in {"take", "idle", "reply more", "close"}
      PROVE  Traces'
  BY <1>2, <1>w, TracedKeeps DEF Traces
<1>3. ASSUME NEW c \in Conns, Connect(c) \/ Send(c) \/ Leave(c) PROVE Traces'
  BY <1>2, <1>3 DEF Connect, Send, Leave
<1>4. CASE Terminate
  BY <1>4 DEF Terminate, Traces
<1>5. CASE Accept
  <2>1. /\ UNCHANGED <<client_socket, code, exe, report, up>> /\ up
        /\ pc' = [pc EXCEPT ![Main] = "insert"]
    BY <1>5 DEF Accept
  <2>2. PICK fd \in Fds : /\ peer[fd] = None
                          /\ peer' = [peer EXCEPT ![fd] = Head(backlog)]
    BY <1>5 DEF Accept
  <2>3. ASSUME NEW v \in Workers PROVE Traced(v)'
    <3>1. pc'[v] = pc[v]
      BY <1>a, <2>1
    <3>2. pc[v] \notin {"take", "idle"} => peer'[client_socket[v]] = peer[client_socket[v]]
      BY <1>a, <2>1, <2>2, OwnFiles DEF TypeOK
    <3> QED
      BY <1>w, <2>1, <3>1, <3>2, TracedKeeps
  <2> QED
    BY <2>3 DEF Traces
<1>6. CASE PushAndSignal
  <2>1. \A v \in Workers : pc'[v] = pc[v] \/ pc'[v] = "take"
    BY <1>6, <1>a DEF PushAndSignal, Threads
  <2> QED
    BY <1>2, <1>6, <2>1 DEF PushAndSignal
<1>7. CASE WaitForSpace
  BY <1>2, <1>7, <1>a DEF WaitForSpace, Threads
<1>8. ASSUME NEW w \in Workers, Take(w) PROVE Traces'
  <2>1. /\ UNCHANGED <<peer, code, exe, report, up>> /\ up
        /\ \A v \in Workers \ {w} : /\ client_socket'[v] = client_socket[v]
                                    /\ pc'[v] = pc[v]
        /\ pc'[w] = "receive"
    BY <1>8, <1>a DEF Take, TypeOK, Threads
  <2>2. \A v \in Workers : Traced(v)'
    BY <1>w, <2>1, TracedKeeps
  <2> QED
    BY <2>2 DEF Traces
<1>9. ASSUME NEW w \in Workers, WaitForItem(w) \/ ReplyMore(w) PROVE Traces'
  BY <1>2, <1>9, <1>a DEF WaitForItem, ReplyMore, Goto, Threads
<1>10. ASSUME NEW w \in Workers, Reply(w) PROVE Traces'
  <2>1. \E l \in {"reply more", "close"} : pc' = [pc EXCEPT ![w] = l]
    BY <1>10 DEF Reply, Goto
  <2>2. UNCHANGED <<code, exe, report, client_socket, peer, up>>
    BY <1>10 DEF Reply
  <2> QED
    BY <1>2, <1>a, <2>1, <2>2 DEF Threads
<1>11. ASSUME NEW w \in Workers, Close(w) PROVE Traces'
  <2>1. /\ UNCHANGED <<code, exe, report, up>> /\ up
        /\ pc[w] = "close" /\ pc'[w] = "take"
        /\ peer' = [peer EXCEPT ![client_socket[w]] = None]
        /\ \A v \in Workers \ {w} : pc'[v] = pc[v] /\ client_socket'[v] = client_socket[v]
    BY <1>11, <1>a DEF Close, Goto, Socket, TypeOK, Threads
  <2>2. ASSUME NEW v \in Workers \ {w}, pc[v] \notin {"take", "idle"}
        PROVE  peer'[client_socket[v]] = peer[client_socket[v]]
    BY <1>a, <2>1, <2>2, OwnFiles DEF TypeOK
  <2>3. \A v \in Workers : Traced(v)'
    BY <1>w, <2>1, <2>2, TracedKeeps
  <2> QED
    BY <2>3 DEF Traces
<1> DEFINE f(w) == client_socket[w]
           c(w) == peer[client_socket[w]]
<1>12. ASSUME NEW w \in Workers, up, pc[w] \notin {"take", "idle"}
       PROVE  f(w) \in Fds /\ c(w) \in Conns
  BY <1>12, OwnFiles
<1>13. ASSUME NEW w \in Workers, Receive(w) PROVE Traces'
  <2>1. /\ pc[w] = "receive" /\ up
        /\ UNCHANGED <<client_socket, peer, exe, report>>
        /\ \E s \in {c(w), None} : code' = [code EXCEPT ![f(w)] = s]
        /\ pc' = [pc EXCEPT ![w] = "compile"]
    BY <1>13 DEF Receive, Socket, FileName, Goto
  <2>2. f(w) \in Fds
    BY <1>12, <2>1
  <2>3. /\ pc'[w] = "compile" /\ \A v \in Workers \ {w} : pc'[v] = pc[v]
        /\ code'[f(w)] \in {c(w), None} /\ \A g \in Fds \ {f(w)} : code'[g] = code[g]
    BY <1>a, <2>1, <2>2 DEF TypeOK, Threads
  <2>4. Traced(w)'
    BY <2>1, <2>3 DEF Traced
  <2> QED
    BY <1>1, <2>1, <2>3, <2>4
<1>14. ASSUME NEW w \in Workers, Compile(w) PROVE Traces'
  <2>1. pc[w] = "compile" /\ up /\ UNCHANGED <<client_socket, peer, code>>
    BY <1>14 DEF Compile
  <2>2. f(w) \in Fds /\ c(w) \in Conns /\ code[f(w)] \in {c(w), None}
    BY <1>12, <1>w, <2>1 DEF Traced
  <2>3. CASE Compiles(code[f(w)])
    <3>1. /\ exe' = [exe EXCEPT ![f(w)] = code[f(w)]] /\ report' = report
          /\ pc' = [pc EXCEPT ![w] = "run"]
      BY <1>14, <2>3 DEF Compile, Socket, FileName, Goto
    <3>2. /\ pc'[w] = "run" /\ \A v \in Workers \ {w} : pc'[v] = pc[v]
          /\ exe'[f(w)] = c(w) /\ \A g \in Fds \ {f(w)} : exe'[g] = exe[g]
      BY <1>a, <2>2, <2>3, <3>1 DEF TypeOK, Threads, Compiles
    <3>3. Traced(w)'
      BY <2>1, <3>2 DEF Traced
    <3> QED
      BY <1>1, <2>1, <3>1, <3>2, <3>3
  <2>4. CASE ~Compiles(code[f(w)])
    <3>1. /\ report' = [report EXCEPT ![f(w)] =
                  [of |-> code[f(w)], verdict |-> "COMPILE ERROR"]]
          /\ exe' = exe /\ pc' = [pc EXCEPT ![w] = "reply"]
      BY <1>14, <2>4 DEF Compile, Socket, FileName, Goto
    <3>2. /\ pc'[w] = "reply" /\ \A v \in Workers \ {w} : pc'[v] = pc[v]
          /\ report'[f(w)] = [of |-> code[f(w)], verdict |-> "COMPILE ERROR"]
          /\ \A g \in Fds \ {f(w)} : report'[g] = report[g]
      BY <1>a, <2>2, <3>1 DEF TypeOK, Threads
    <3>3. report'[f(w)].of = code[f(w)]
      <4>1. [of |-> code[f(w)], verdict |-> "COMPILE ERROR"].of = code[f(w)]
        OBVIOUS
      <4> QED
        BY <3>2, <4>1, Zenon
    <3>4. Traced(w)'
      BY <2>1, <2>2, <3>2, <3>3 DEF Traced
    <3> QED
      BY <1>1, <2>1, <3>1, <3>2, <3>4
  <2> QED
    BY <2>3, <2>4
\* Run and Compare report on the executable, or leave it for Compare.
<1>15. ASSUME NEW w \in Workers, Run(w) \/ Compare(w) PROVE Traces'
  <2>1. /\ pc[w] \in {"run", "compare"} /\ up
        /\ UNCHANGED <<client_socket, peer, code, exe>>
    BY <1>15 DEF Run, Compare
  <2>2. f(w) \in Fds /\ exe[f(w)] = c(w)
    BY <1>12, <1>w, <2>1 DEF Traced
  <2>3. \/ /\ report' = report /\ pc' = [pc EXCEPT ![w] = "compare"]
        \/ /\ \E v \in Verdicts : report' = [report EXCEPT ![f(w)] = [of |-> exe[f(w)], verdict |-> v]]
           /\ pc' = [pc EXCEPT ![w] = "reply"]
    BY <1>15 DEF Run, Compare, Socket, FileName, Goto, Verdicts
  <2>4. /\ \A v \in Workers \ {w} : pc'[v] = pc[v]
        /\ \A g \in Fds \ {f(w)} : report'[g] = report[g]
        /\ pc'[w] = "compare" \/ (pc'[w] = "reply" /\ report'[f(w)].of = exe[f(w)])
    BY <1>a, <2>2, <2>3 DEF TypeOK, Threads
  <2>5. Traced(w)'
    BY <2>1, <2>2, <2>4 DEF Traced
  <2> QED
    BY <1>1, <2>1, <2>4, <2>5
<1>16. ASSUME NEW t \in Threads, SpuriousWakeup(t) PROVE Traces'
  <2>1. \A v \in Workers : pc'[v] = pc[v] \/ pc'[v] = "take"
    BY <1>16, <1>a DEF SpuriousWakeup, Goto, Threads
  <2> QED
    BY <1>2, <1>16, <2>1 DEF SpuriousWakeup
<1>17. CASE UNCHANGED vars
  BY <1>2, <1>17 DEF vars
<1> QED
  BY <1>3, <1>4, <1>5, <1>6, <1>7, <1>8, <1>9, <1>10, <1>11, <1>13, <1>14, <1>15, <1>16, <1>17
  DEF Next, MainStep, WorkerStep, AcceptError, Insert, InsertAfterWait, ReplyToReset

\* The files on disk outlive their gradings and descriptors are used again,
\* but what a worker is about to send is about the program that came over its
\* own connection, or about an empty file: with clients that leave, sources
\* that are cut off and no expected output too.
THEOREM ReportsAreOfTheClient == Spec => []ReportIsOfTheClient
<1>1. PoolInv /\ Traces /\ [Next]_vars => Traces'
  BY TracesStep
<1>2. Traces => ReportIsOfTheClient
  BY DEF Traces, Traced, ReportIsOfTheClient, Details, FileName, Socket
<1> QED
  BY TracesInit, <1>1, <1>2, PoolInvariant, PTL DEF Spec
=============================================================================
