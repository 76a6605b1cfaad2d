-------------------------- MODULE TailqPoolProofs --------------------------
(***************************************************************************)
(* The mutex of the TAILQ server does what its comment says, for any       *)
(* numbers of graders, clients and descriptors, as long as no grader held  *)
(* it when it was initialised.                                             *)
(***************************************************************************)
EXTENDS TailqPool, FiniteSetTheorems, TLAPS

Critical == {"test", "wait", "lost", "take"}
Serving  == {"receive", "progress", "grade", "details", "close"}

\* Between Lock and the release a grader has the mutex; only the
\* initialisation can take it away.
Locked == ~raced => \A g \in Graders : pc[g] \in Critical => queueLock = g

\* What a grader has tested of the queue stays true until it takes from it.
Found == ~raced => \A g \in Graders : pc[g] = "take" => head # <<>>

\* The mutex is initialised once.
Starting == main \in {"create", "mutex"} => ~raced

\* Graders are created in turn.
Created == \A g \in Graders : g > thrNum => pc[g] = "none"

\* Each connection is accepted once, and each open one is in one place.
New      == \A c \in Clients : at[c] = "new" => c \notin open
InHands  == main \in Clients => main \in open
InQueue  == /\ \A i \in DOMAIN head : head[i] \in open /\ head[i] # main
            /\ \A i, j \in DOMAIN head : head[i] = head[j] => i = j
WithOne  == /\ \A g \in Graders : pc[g] \in Serving =>
                  /\ newsockfd[g] \in open /\ newsockfd[g] # main
                  /\ \A i \in DOMAIN head : head[i] # newsockfd[g]
            /\ \A g, h \in Graders :
                  pc[g] \in Serving /\ pc[h] \in Serving /\ newsockfd[g] = newsockfd[h]
                     => g = h
            /\ \A g \in Graders : pc[g] \in Serving \cup {"done"} \/ newsockfd[g] = Nobody
Somewhere == \A c \in open : \/ main = c
                             \/ \E i \in DOMAIN head : head[i] = c
                             \/ \E g \in Graders : pc[g] \in Serving /\ newsockfd[g] = c

Places == New /\ InHands /\ InQueue /\ WithOne /\ Somewhere

Safe == Locked /\ Found /\ Starting

IInv == TypeOK /\ Safe /\ Created /\ Places
-----------------------------------------------------------------------------
(* Type correctness.                                                       *)

\* A grader goes from a label to a label.
LEMMA GotoLabel ==
    ASSUME NEW g \in Graders, NEW label \in Labels, pc \in [Graders -> Labels],
           Goto(g, label)
    PROVE  pc' \in [Graders -> Labels]
BY DEF Goto

\* Wherever a signal sends graders, from where they wait.
LEMMA SignalWakes ==
    ASSUME TypeOK, Signal
    PROVE  /\ pc' \in [Graders -> Labels]
           /\ \A g \in Graders :
                 pc'[g] = pc[g] \/ {pc[g], pc'[g]} \subseteq {"asleep", "forgotten", "lock"}
<1>1. CASE At("asleep") = {}
  BY <1>1 DEF Signal, TypeOK
<1>2. CASE At("asleep") # {}
  <2>1. PICK r \in At("asleep") :
           \/ Goto(r, "lock")
           \/ \E f \in At("forgotten") :
                 pc' = [pc EXCEPT ![r] = "forgotten", ![f] = "lock"]
    BY <1>2 DEF Signal
  <2>2. r \in Graders /\ pc[r] = "asleep"
    BY DEF At
  <2>3. CASE Goto(r, "lock")
    BY <2>2, <2>3 DEF Goto, TypeOK, Labels
  <2>4. ASSUME NEW f \in At("forgotten"),
               pc' = [pc EXCEPT ![r] = "forgotten", ![f] = "lock"]
        PROVE  /\ pc' \in [Graders -> Labels]
               /\ \A g \in Graders :
                     pc'[g] = pc[g] \/ {pc[g], pc'[g]} \subseteq {"asleep", "forgotten", "lock"}
    BY <2>2, <2>4 DEF At, TypeOK, Labels
  <2> QED
    BY <2>1, <2>3, <2>4
<1> QED
  BY <1>1, <1>2

\* Whom the initialisation of the condition variable forgets.
LEMMA CondForgets ==
    ASSUME pc \in [Graders -> Labels], InitCond
    PROVE  /\ pc' \in [Graders -> Labels]
           /\ \A g \in Graders :
                 \/ pc'[g] = pc[g]
                 \/ pc[g] = "asleep" /\ pc'[g] = "forgotten"
                 \/ pc[g] = "wait" /\ pc'[g] = "lost"
<1>0. PICK lost \in SUBSET At("wait") :
        pc' = [g \in Graders |-> CASE pc[g] = "asleep" -> "forgotten"
                                 [] g \in lost         -> "lost"
                                 [] OTHER              -> pc[g]]
  BY DEF InitCond
<1>1. ASSUME NEW g \in Graders
      PROVE  \/ pc'[g] = pc[g]
             \/ pc[g] = "asleep" /\ pc'[g] = "forgotten"
             \/ pc[g] = "wait" /\ pc'[g] = "lost"
  BY <1>0 DEF At
<1>2. {"forgotten", "lost"} \subseteq Labels
  BY DEF Labels
<1>3. \A g \in Graders : pc'[g] \in Labels
  BY <1>1, <1>2
<1>4. pc' = [g \in Graders |-> pc'[g]]
  BY <1>0
<1>5. pc' \in [Graders -> Labels]
  BY <1>3, <1>4
<1> QED
  BY <1>1, <1>5

LEMMA TypeOfMain ==
    ASSUME TypeOK, MainStep \/ MainFails \/ \E c \in Clients : Accept(c)
    PROVE  TypeOK'
<1> USE DEF clients, graders
<1>1. CASE Create
  <2>1. CASE thrNum < nthreads
    <3>1. thrNum \in 0 .. nthreads /\ nthreads \in Nat /\ thrNum' = thrNum + 1
      BY <1>1, <2>1, TailqPoolAssumption DEF Create, TypeOK
    <3>2. thrNum' \in 0 .. nthreads
      BY <2>1, <3>1
    <3> QED
      BY <1>1, <2>1, <3>2 DEF Create, Goto, TypeOK, Labels
  <2>2. CASE ~(thrNum < nthreads)
    BY <1>1, <2>2 DEF Create, TypeOK
  <2> QED
    BY <2>1, <2>2
<1>2. CASE InitMutex
  <2>1. PICK stuck \in SUBSET (IF raced' THEN At("lock") ELSE {}) :
           pc' = [g \in Graders |-> IF g \in stuck THEN "stuck" ELSE pc[g]]
    BY <1>2 DEF InitMutex, TypeOK
  <2>2. raced' \in BOOLEAN
    BY <1>2 DEF InitMutex, TypeOK
  <2> QED
    BY <1>2, <2>1, <2>2 DEF InitMutex, TypeOK, Labels
<1>3. CASE InitCond
  BY <1>3, CondForgets DEF InitCond, TypeOK
<1>4. CASE Insert
  <2>1. head' \in Seq(Clients) /\ main' = "accept"
    <3>1. main \in Clients /\ head \in Seq(Clients)
      BY <1>4 DEF Insert, TypeOK
    <3>2. Append(head, main) \in Seq(Clients)
      BY <3>1
    <3> QED
      BY <1>4, <3>2 DEF Insert
  <2>2. unsignalled' \subseteq Clients
    <3>1. main \in Clients /\ unsignalled \subseteq Clients
      BY <1>4 DEF Insert, TypeOK
    <3>2. unsignalled' = unsignalled \/ unsignalled' = unsignalled \cup {main}
      BY <1>4 DEF Insert, Signal, TypeOK
    <3> QED
      BY <3>1, <3>2
  <2>3. pc' \in [Graders -> Labels]
    BY <1>4, SignalWakes DEF Insert, TypeOK
  <2> QED
    BY <1>4, <2>1, <2>2, <2>3 DEF Insert, TypeOK
<1>5. CASE MainFails
  BY <1>5 DEF MainFails, CreateFails, AcceptFails, Terminate, TypeOK
<1>6. ASSUME NEW c \in Clients, Accept(c) PROVE TypeOK'
  BY <1>6 DEF Accept, TypeOK
<1> QED
  BY <1>1, <1>2, <1>3, <1>4, <1>5, <1>6 DEF MainStep

LEMMA TypeOfGrader ==
    ASSUME TypeOK, WithOne, NEW g \in Graders,
           GraderStep(g) \/ Fault(g) \/ Unstick(g) \/ WakeSpuriously(g)
    PROVE  TypeOK'
<1> USE DEF clients, graders
<1>1. pc \in [Graders -> Labels] /\ g \in Graders
  BY DEF TypeOK
<1>2. /\ "lock" \in Labels /\ "test" \in Labels /\ "asleep" \in Labels
      /\ "wait" \in Labels /\ "take" \in Labels /\ "receive" \in Labels
      /\ "progress" \in Labels /\ "grade" \in Labels /\ "details" \in Labels
      /\ "close" \in Labels /\ "done" \in Labels /\ "forgotten" \in Labels
  BY DEF Labels
<1>3. CASE Lock(g)
  BY <1>1, <1>2, <1>3, GotoLabel DEF Lock, TypeOK
<1>4. CASE Wait(g)
  BY <1>1, <1>2, <1>4, GotoLabel DEF Wait, TypeOK
<1>5. CASE Unstick(g) \/ WakeSpuriously(g)
  BY <1>1, <1>2, <1>5, GotoLabel DEF Unstick, WakeSpuriously, TypeOK
<1>6. CASE Test(g)
  <2>1. pc' \in [Graders -> Labels]
    BY <1>1, <1>2, <1>6, GotoLabel DEF Test
  <2> QED
    BY <1>6, <2>1 DEF Test, TypeOK
<1>7. CASE Take(g)
  <2>1. Head(head) \in Clients /\ Tail(head) \in Seq(Clients)
    <3>1. head \in Seq(Clients) /\ head # <<>>
      BY <1>7 DEF Take, TypeOK
    <3> QED
      BY <3>1
  <2>2. head' \in Seq(Clients) /\ newsockfd' \in [Graders -> Clients \cup {Nobody}]
    BY <1>7, <2>1 DEF Take, TypeOK
  <2>3. served' \in [Clients -> SUBSET Graders]
    <3>1. served \in [Clients -> SUBSET Graders]
      BY DEF TypeOK
    <3>2. served' = [served EXCEPT ![Head(head)] = @ \cup {g}]
      BY <1>7 DEF Take
    <3> QED
      BY <2>1, <3>1, <3>2
  <2>4. pc' \in [Graders -> Labels] /\ queueLock' = Free
    BY <1>1, <1>2, <1>7, GotoLabel DEF Take
  <2> QED
    BY <1>7, <2>2, <2>3, <2>4 DEF Take, TypeOK
<1>8. CASE Receive(g)
  <2>1. open' \subseteq Clients
    BY <1>8 DEF Receive, Closes, TypeOK
  <2>2. pc' \in [Graders -> Labels]
    BY <1>1, <1>2, <1>8, GotoLabel DEF Receive, Closes
  <2>3. result' \in [Graders -> Endings \cup {"source", "junk"}]
    BY <1>8 DEF Receive, TypeOK
  <2>4. /\ UNCHANGED <<up, main, thrNum, queueLock, head, newsockfd, n, clients,
                       raced, unsignalled, served>>
    BY <1>8 DEF Receive
  <2> QED
    BY <2>1, <2>2, <2>3, <2>4 DEF TypeOK
<1>9. CASE SendProgress(g)
  <2>1. n' \in [Graders -> BOOLEAN]
    BY <1>9 DEF SendProgress, TypeOK
  <2>2. pc' \in [Graders -> Labels]
    BY <1>1, <1>2, <1>9, GotoLabel DEF SendProgress
  <2> QED
    BY <1>9, <2>1, <2>2 DEF SendProgress, TypeOK
<1>10. CASE Grade(g)
  <2>1. newsockfd[g] \in Clients
    BY <1>10 DEF Grade, WithOne, Serving, TypeOK
  <2>2. EndingOf(newsockfd[g]) \in Endings /\ "compiler error" \in Endings
    BY <2>1, TailqPoolAssumption DEF Endings
  <2>3. result' \in [Graders -> Endings \cup {"source", "junk"}]
    BY <1>10, <2>2 DEF Grade, TypeOK
  <2>4. pc' \in [Graders -> Labels]
    BY <1>1, <1>2, <1>10, GotoLabel DEF Grade
  <2> QED
    BY <1>10, <2>3, <2>4 DEF Grade, TypeOK
<1>11. CASE SendDetails(g)
  BY <1>1, <1>2, <1>11, GotoLabel DEF SendDetails, TypeOK
<1>12. CASE Close(g)
  <2>1. open' \subseteq Clients
    BY <1>12 DEF Close, Closes, TypeOK
  <2>2. pc' \in [Graders -> Labels]
    BY <1>1, <1>2, <1>12, GotoLabel DEF Close, Closes
  <2> QED
    BY <1>12, <2>1, <2>2 DEF Close, TypeOK
<1>13. CASE TakeNothing(g) \/ Fault(g) \/ ExitOnError(g)
  BY <1>13 DEF TakeNothing, Fault, ExitOnError, Terminate, TypeOK
<1> QED
  BY <1>3, <1>4, <1>5, <1>6, <1>7, <1>8, <1>9, <1>10, <1>11, <1>12, <1>13
  DEF GraderStep
-----------------------------------------------------------------------------
(* The mutex.                                                              *)

\* Main has no hand in the section: nobody enters it through what main does.
LEMMA SafeInMain ==
    ASSUME TypeOK, Safe, MainStep \/ MainFails \/ \E c \in Clients : Accept(c)
    PROVE  Safe'
<1> USE DEF Safe
<1>1. CASE Create
  <2>1. pc \in [Graders -> Labels] /\ UNCHANGED <<queueLock, head, raced>>
    BY <1>1 DEF Create, TypeOK
  <2>2. \A k \in Graders : pc'[k] = pc[k] \/ pc'[k] = "lock"
    BY <1>1, <2>1 DEF Create, Goto
  <2>3. Starting'
    BY <1>1 DEF Create, Starting
  <2> QED
    BY <2>1, <2>2, <2>3 DEF Locked, Found, Critical
<1>2. CASE InitMutex
  <2>1. ~raced /\ main' = "cond"
    BY <1>2 DEF InitMutex, Starting
  <2>2. ASSUME ~raced' PROVE pc' = pc /\ queueLock = Free /\ queueLock' = Free
    BY <1>2, <2>2 DEF InitMutex, TypeOK
  <2>3. head' = head
    BY <1>2 DEF InitMutex
  <2> QED
    BY <2>1, <2>2, <2>3 DEF Locked, Found, Starting
<1>3. CASE InitCond
  <2>1. /\ \A k \in Graders : \/ pc'[k] = pc[k] \/ pc'[k] = "forgotten"
                              \/ pc[k] = "wait" /\ pc'[k] = "lost"
        /\ UNCHANGED <<queueLock, head, raced>> /\ main' = "accept"
    BY <1>3, CondForgets DEF InitCond, TypeOK
  <2> QED
    BY <2>1 DEF Locked, Found, Starting, Critical
<1>4. CASE Insert
  <2>1. /\ head' = Append(head, main) /\ head' # <<>>
        /\ UNCHANGED <<queueLock, raced>> /\ main' = "accept"
    <3>1. main \in Clients /\ head \in Seq(Clients) /\ head' = Append(head, main)
      BY <1>4 DEF Insert, TypeOK
    <3>2. Append(head, main) # <<>>
      BY <3>1
    <3> QED
      BY <1>4, <3>1, <3>2 DEF Insert
  <2>2. \A k \in Graders : pc'[k] = pc[k] \/ pc'[k] \in {"asleep", "forgotten", "lock"}
    BY <1>4, SignalWakes DEF Insert
  <2> QED
    BY <2>1, <2>2 DEF Locked, Found, Starting, Critical
<1>5. CASE MainFails
  BY <1>5 DEF MainFails, CreateFails, AcceptFails, Terminate, graders, Locked, Found, Starting
<1>6. ASSUME NEW c \in Clients, Accept(c) PROVE Safe'
  <2>1. main' = c /\ c \notin {"create", "mutex"}
    BY <1>6, TailqPoolAssumption DEF Accept
  <2> QED
    BY <1>6, <2>1 DEF Accept, graders, Locked, Found, Starting
<1> QED
  BY <1>1, <1>2, <1>3, <1>4, <1>5, <1>6 DEF MainStep

LEMMA SafeInGrader ==
    ASSUME TypeOK, Safe, NEW g \in Graders,
           GraderStep(g) \/ Fault(g) \/ Unstick(g) \/ WakeSpuriously(g)
    PROVE  Safe'
<1> USE DEF Safe
<1>1. pc \in [Graders -> Labels] /\ g # Free
  BY TailqPoolAssumption DEF TypeOK
<1>2. Starting'
  <2>1. UNCHANGED <<main, raced>>
    BY DEF GraderStep, Lock, Test, Wait, Take, TakeNothing, Receive, SendProgress,
           Grade, SendDetails, Close, ExitOnError, Fault, Unstick, WakeSpuriously,
           Terminate
  <2> QED
    BY <2>1 DEF Starting
\* Only Lock enters the section.
<1>3. CASE Lock(g)
  <2>1. /\ queueLock = Free /\ queueLock' = g
        /\ pc' = [pc EXCEPT ![g] = "test"] /\ UNCHANGED <<head, raced>>
    BY <1>3 DEF Lock, Goto
  <2>2. ~raced => \A k \in Graders : pc[k] \notin Critical
    BY <2>1, TailqPoolAssumption DEF Locked
  <2> QED
    BY <1>1, <1>2, <2>1, <2>2 DEF Locked, Found, Critical
<1>4. CASE Test(g)
  BY <1>1, <1>2, <1>4 DEF Test, Goto, Locked, Found, Critical
\* Who leaves it was alone in it.
<1>5. CASE Wait(g)
  <2>1. /\ pc[g] \in {"wait", "lost"}
        /\ pc' = [pc EXCEPT ![g] = IF pc[g] = "wait" THEN "asleep" ELSE "forgotten"]
        /\ UNCHANGED <<head, raced>>
    BY <1>5 DEF Wait, Goto
  <2>2. ~raced => \A k \in Graders \ {g} : pc[k] \notin Critical
    BY <2>1 DEF Locked, Critical
  <2> QED
    BY <1>1, <1>2, <2>1, <2>2 DEF Locked, Found, Critical
<1>6. CASE Take(g)
  <2>1. /\ pc[g] = "take" /\ pc' = [pc EXCEPT ![g] = "receive"] /\ raced' = raced
    BY <1>6 DEF Take, Goto
  <2>2. ~raced => \A k \in Graders \ {g} : pc[k] \notin Critical
    BY <2>1 DEF Locked, Critical
  <2> QED
    BY <1>1, <1>2, <2>1, <2>2 DEF Locked, Found, Critical
<1>7. CASE Receive(g) \/ SendProgress(g) \/ Grade(g) \/ SendDetails(g) \/ Close(g)
           \/ Unstick(g) \/ WakeSpuriously(g)
  <2>1. /\ \/ Goto(g, "progress") \/ Goto(g, "done") \/ Goto(g, "grade")
           \/ Goto(g, "details") \/ Goto(g, "close") \/ Goto(g, "lock")
        /\ UNCHANGED <<queueLock, head, raced>>
    BY <1>7 DEF Receive, SendProgress, Grade, SendDetails, Close, Closes, Unstick,
                WakeSpuriously
  <2>2. \A k \in Graders : pc'[k] = pc[k] \/ pc'[k] \notin Critical
    BY <1>1, <2>1 DEF Goto, Critical
  <2> QED
    BY <1>2, <2>1, <2>2 DEF Locked, Found, Critical
<1>8. CASE TakeNothing(g) \/ Fault(g) \/ ExitOnError(g)
  BY <1>2, <1>8 DEF TakeNothing, Fault, ExitOnError, Terminate, graders, Locked, Found
<1> QED
  BY <1>3, <1>4, <1>5, <1>6, <1>7, <1>8 DEF GraderStep
-----------------------------------------------------------------------------
(* The threads of the pool.                                                *)

LEMMA CreatedStays ==
    ASSUME TypeOK, Created, [Next]_vars
    PROVE  Created'
<1>1. pc \in [Graders -> Labels] /\ thrNum \in Nat
  <2>1. nthreads \in Nat /\ thrNum \in 0 .. nthreads
    BY TailqPoolAssumption DEF TypeOK
  <2>2. thrNum \in Nat
    BY <2>1
  <2> QED
    BY <2>2 DEF TypeOK
<1>2. CASE Create
  <2>1. CASE thrNum < nthreads
    <3>1. thrNum' = thrNum + 1 /\ pc' = [pc EXCEPT ![thrNum + 1] = "lock"]
      BY <1>2, <2>1 DEF Create, Goto
    <3> QED
      BY <1>1, <3>1 DEF Created, Graders
  <2>2. CASE ~(thrNum < nthreads)
    BY <1>2, <2>2 DEF Create, Created
  <2> QED
    BY <2>1, <2>2
<1>3. CASE InitMutex \/ InitCond \/ Insert
  <2>1. \A k \in Graders : pc[k] = "none" => pc'[k] = "none"
    <3>1. CASE InitMutex
      BY <1>1, <3>1 DEF InitMutex, At
    <3>2. CASE InitCond
      BY <1>1, <3>2, CondForgets
    <3>3. CASE Insert
      BY <3>3, SignalWakes DEF Insert
    <3> QED
      BY <1>3, <3>1, <3>2, <3>3
  <2>2. thrNum' = thrNum
    BY <1>3 DEF InitMutex, InitCond, Insert
  <2> QED
    BY <2>1, <2>2 DEF Created
<1>4. CASE MainFails \/ UNCHANGED vars
  BY <1>4 DEF MainFails, CreateFails, AcceptFails, Terminate, graders, vars, Created
<1>5. ASSUME NEW c \in Clients, Accept(c) \/ Send(c) \/ Leave(c) PROVE Created'
  BY <1>5 DEF Accept, Send, Leave, server, graders, Created
<1>6. ASSUME NEW g \in Graders,
             GraderStep(g) \/ Fault(g) \/ Unstick(g) \/ WakeSpuriously(g)
      PROVE  Created'
  <2>1. CASE TakeNothing(g) \/ Fault(g) \/ ExitOnError(g)
    BY <2>1 DEF TakeNothing, Fault, ExitOnError, Terminate, graders, Created
  <2>2. CASE Lock(g) \/ Test(g) \/ Wait(g) \/ Take(g) \/ Receive(g) \/ SendProgress(g)
             \/ Grade(g) \/ SendDetails(g) \/ Close(g) \/ Unstick(g) \/ WakeSpuriously(g)
    <3>1. pc[g] # "none" /\ \E label : Goto(g, label)
      BY <2>2 DEF Lock, Test, Wait, Take, Receive, SendProgress, Grade, SendDetails,
                  Close, Closes, Unstick, WakeSpuriously
    <3>2. thrNum' = thrNum
      BY <2>2 DEF Lock, Test, Wait, Take, Receive, SendProgress, Grade, SendDetails,
                  Close, Unstick, WakeSpuriously
    <3> QED
      BY <1>1, <3>1, <3>2 DEF Goto, Created
  <2> QED
    BY <1>6, <2>1, <2>2 DEF GraderStep
<1> QED
  BY <1>2, <1>3, <1>4, <1>5, <1>6 DEF Next, MainStep
-----------------------------------------------------------------------------
(* One place for each connection.                                          *)

\* A step that moves no connection, and at most takes it that one has left.
LEMMA PlacesStay ==
    ASSUME Places, UNCHANGED <<head, open, newsockfd>>,
           main' = main \/ {main, main'} \cap Clients = {},
           \A i \in DOMAIN head : head[i] # main', \A c \in open : c \in Clients,
           \A g \in Graders : /\ pc'[g] \in Serving <=> pc[g] \in Serving
                              /\ pc[g] = "done" => pc'[g] = "done",
           \A c \in Clients : at'[c] = "new" => at[c] = "new"
    PROVE  Places'
<1> USE DEF Places
<1>1. New' /\ InHands' /\ InQueue'
  BY DEF New, InHands, InQueue
<1>2. \A g \in Graders : pc'[g] \in Serving => newsockfd[g] # main'
  BY DEF WithOne
<1>3. WithOne'
  BY <1>2 DEF WithOne
<1>4. Somewhere'
  BY DEF Somewhere
<1> QED
  BY <1>1, <1>3, <1>4

\* A grader that is done with its connection closes it.
LEMMA PlacesClose ==
    ASSUME TypeOK, Places, NEW g \in Graders, pc[g] \in Serving, Closes(g, "done"),
           UNCHANGED <<head, newsockfd, main, at>>
    PROVE  Places'
<1> USE DEF Places
<1>1. /\ open' = open \ {newsockfd[g]} /\ pc' = [pc EXCEPT ![g] = "done"]
      /\ pc \in [Graders -> Labels]
  BY DEF Closes, Goto, TypeOK
<1>2. \A h \in Graders : pc'[h] \in Serving <=> pc[h] \in Serving /\ h # g
  BY <1>1 DEF Serving
<1>3. New' /\ InHands' /\ InQueue'
  BY <1>1 DEF New, InHands, InQueue, WithOne
<1>4. WithOne'
  BY <1>1, <1>2 DEF WithOne
<1>5. Somewhere'
  BY <1>1, <1>2 DEF Somewhere
<1> QED
  BY <1>3, <1>4, <1>5

LEMMA PlacesInMain ==
    ASSUME TypeOK, Created, Places,
           MainStep \/ MainFails \/ \E c \in Clients : Accept(c)
    PROVE  Places'
<1>1. /\ pc \in [Graders -> Labels] /\ open \subseteq Clients /\ head \in Seq(Clients)
      /\ thrNum \in Nat
      /\ \A i \in DOMAIN head : head[i] \in Clients
      /\ {"create", "mutex", "cond", "accept"} \cap Clients = {}
  <2>1. nthreads \in Nat /\ {"create", "mutex", "cond", "accept"} \cap Clients = {}
    BY TailqPoolAssumption
  <2>2. thrNum \in 0 .. nthreads /\ head \in Seq(Clients)
    BY DEF TypeOK
  <2>3. thrNum \in Nat /\ \A i \in DOMAIN head : head[i] \in Clients
    BY <2>1, <2>2
  <2> QED
    BY <2>1, <2>3 DEF TypeOK
<1>2. CASE Create
  <2>1. /\ UNCHANGED <<head, open, newsockfd, at>>
        /\ main \notin Clients /\ main' \notin Clients
    BY <1>1, <1>2 DEF Create, clients
  <2>2. \A g \in Graders : pc'[g] = pc[g] \/ (pc[g] = "none" /\ pc'[g] = "lock")
    <3>1. CASE thrNum < nthreads
      <4>1. pc' = [pc EXCEPT ![thrNum + 1] = "lock"]
        BY <1>2, <3>1 DEF Create, Goto
      <4>2. thrNum + 1 \in Graders => pc[thrNum + 1] = "none"
        BY <1>1 DEF Created
      <4>3. PICK x : x = thrNum + 1
        OBVIOUS
      <4> QED
        BY <1>1, <4>1, <4>2, <4>3
    <3>2. CASE ~(thrNum < nthreads)
      <4>1. pc' = pc
        BY <1>2, <3>2 DEF Create
      <4> QED
        BY <4>1
    <3> QED
      BY <3>1, <3>2
  <2> QED
    BY <1>1, <2>1, <2>2, PlacesStay DEF Serving
<1>3. CASE InitMutex \/ InitCond
  <2>1. /\ UNCHANGED <<head, open, newsockfd, at>>
        /\ main \notin Clients /\ main' \notin Clients
    BY <1>1, <1>3 DEF InitMutex, InitCond, clients
  <2>2. \A g \in Graders : \/ pc'[g] = pc[g]
                           \/ pc[g] = "lock" /\ pc'[g] = "stuck"
                           \/ pc[g] = "asleep" /\ pc'[g] = "forgotten"
                           \/ pc[g] = "wait" /\ pc'[g] = "lost"
    BY <1>1, <1>3, CondForgets DEF InitMutex, At
  <2> QED
    BY <1>1, <2>1, <2>2, PlacesStay DEF Serving
\* The connection goes from main's hands to the end of the queue.
<1>4. CASE Insert
  <2> USE DEF Places
  <2>1. /\ main \in Clients /\ head' = Append(head, main) /\ main' = "accept"
        /\ UNCHANGED <<open, newsockfd, at>>
    BY <1>4 DEF Insert, clients
  <2>2. /\ DOMAIN head' = (1 .. Len(head)) \cup {Len(head) + 1}
        /\ \A i \in DOMAIN head : i \in DOMAIN head' /\ head'[i] = head[i]
        /\ \A i \in DOMAIN head' : i = Len(head) + 1 \/ i \in DOMAIN head
        /\ Len(head) + 1 \in DOMAIN head' /\ head'[Len(head) + 1] = main
    BY <1>1, <2>1
  <2>3. \A g \in Graders : /\ pc'[g] \in Serving <=> pc[g] \in Serving
                           /\ pc[g] = "done" => pc'[g] = "done"
    BY <1>4, SignalWakes DEF Insert, Serving
  <2>4. New' /\ InHands'
    BY <1>1, <2>1 DEF New, InHands
  <2>5. InQueue'
    <3>1. \A i \in DOMAIN head' : head'[i] \in open /\ head'[i] # main'
      BY <1>1, <2>1, <2>2 DEF InHands, InQueue
    <3>2. \A i, j \in DOMAIN head' : head'[i] = head'[j] => i = j
      BY <2>1, <2>2 DEF InQueue
    <3> QED
      BY <2>1, <3>1, <3>2 DEF InQueue
  <2>6. WithOne'
    <3>1. \A g \in Graders : pc[g] \in Serving =>
             /\ newsockfd[g] # main' /\ \A i \in DOMAIN head' : head'[i] # newsockfd[g]
      BY <1>1, <2>1, <2>2 DEF WithOne
    <3> QED
      BY <2>1, <2>3, <3>1 DEF WithOne
  <2>7. Somewhere'
    BY <2>1, <2>2, <2>3 DEF Somewhere
  <2> QED
    BY <2>4, <2>5, <2>6, <2>7
<1>5. CASE MainFails
  BY <1>5 DEF MainFails, CreateFails, AcceptFails, Terminate, clients, graders, Places, New, InHands, InQueue,
              WithOne, Somewhere
\* What is accepted is nowhere yet.
<1>6. ASSUME NEW c \in Clients, Accept(c) PROVE Places'
  <2> USE DEF Places
  <2>1. /\ main = "accept" /\ at[c] = "new" /\ at' = [at EXCEPT ![c] = "connected"]
        /\ open' = open \cup {c} /\ main' = c
        /\ UNCHANGED <<head, pc, newsockfd>>
    BY <1>6 DEF Accept, graders
  <2>2. c \notin open /\ at \in [Clients -> {"new", "connected", "waiting", "left",
                                            "sent and left"}]
    BY <2>1 DEF New, TypeOK
  <2>3. New' /\ InHands'
    BY <2>1, <2>2 DEF New, InHands
  <2>4. InQueue'
    BY <2>1, <2>2 DEF InQueue
  <2>5. WithOne'
    BY <2>1, <2>2 DEF WithOne
  <2>6. Somewhere'
    BY <1>1, <2>1, <2>2 DEF Somewhere
  <2> QED
    BY <2>3, <2>4, <2>5, <2>6
<1> QED
  BY <1>2, <1>3, <1>4, <1>5, <1>6 DEF MainStep
LEMMA PlacesInGrader ==
    ASSUME TypeOK, Places, NEW g \in Graders,
           GraderStep(g) \/ Fault(g) \/ Unstick(g) \/ WakeSpuriously(g)
    PROVE  Places'
<1>1. /\ pc \in [Graders -> Labels] /\ open \subseteq Clients /\ head \in Seq(Clients)
      /\ newsockfd \in [Graders -> Clients \cup {Nobody}]
  BY DEF TypeOK
<1>2. CASE Lock(g) \/ Test(g) \/ Wait(g) \/ Unstick(g) \/ WakeSpuriously(g)
  <2>1. UNCHANGED <<head, open, newsockfd, main, at>>
    BY <1>2 DEF Lock, Test, Wait, Unstick, WakeSpuriously, clients
  <2>2. \A k \in Graders : \/ pc'[k] = pc[k]
                           \/ /\ pc[k] \notin Serving \cup {"done"}
                              /\ pc'[k] \notin Serving
    BY <1>1, <1>2 DEF Lock, Test, Wait, Unstick, WakeSpuriously, Goto, Serving
  <2> QED
    BY <1>1, <2>1, <2>2, PlacesStay DEF Places, InQueue
\* The connection goes from the head of the queue to the grader.
<1>3. CASE Take(g)
  <2> USE DEF Places
  <2> DEFINE c == Head(head)
  <2>1. /\ pc[g] = "take" /\ pc' = [pc EXCEPT ![g] = "receive"] /\ head # <<>>
        /\ newsockfd' = [newsockfd EXCEPT ![g] = c] /\ head' = Tail(head)
        /\ UNCHANGED <<open, main, at>>
    BY <1>3 DEF Take, Goto, clients
  <2>2. /\ 1 \in DOMAIN head /\ head[1] = c
        /\ \A i \in DOMAIN head' : /\ i + 1 \in DOMAIN head /\ i + 1 # 1
                                   /\ head'[i] = head[i + 1]
        /\ \A i \in DOMAIN head : i = 1 \/ \E j \in DOMAIN head' : head'[j] = head[i]
    <3>1. /\ 1 \in DOMAIN head /\ head[1] = c
          /\ \A i \in DOMAIN head' : /\ i + 1 \in DOMAIN head /\ i + 1 # 1
                                     /\ head'[i] = head[i + 1]
      BY <1>1, <2>1
    <3>2. ASSUME NEW i \in DOMAIN head, i # 1
          PROVE  \E j \in DOMAIN head' : head'[j] = head[i]
      <4>1. i - 1 \in DOMAIN head' /\ head'[i - 1] = head[i]
        BY <1>1, <2>1, <3>2
      <4> QED
        BY <4>1
    <3> QED
      BY <3>1, <3>2
  <2> HIDE DEF c
  <2>3. /\ \A k \in Graders : pc'[k] \in Serving <=> pc[k] \in Serving \/ k = g
        /\ pc[g] \notin Serving
        /\ \A k \in Graders \ {g} : newsockfd'[k] = newsockfd[k]
        /\ newsockfd'[g] = c
    BY <1>1, <2>1 DEF Serving
  <2>4. New' /\ InHands'
    BY <2>1 DEF New, InHands
  <2>5. InQueue'
    <3>1. \A i \in DOMAIN head' : head'[i] \in open /\ head'[i] # main
      BY <2>2 DEF InQueue
    <3>2. ASSUME NEW i \in DOMAIN head', NEW j \in DOMAIN head', head'[i] = head'[j]
          PROVE  i = j
      <4>1. i + 1 = j + 1 /\ i \in Nat /\ j \in Nat
        <5>1. head' \in Seq(Clients)
          BY <1>1, <2>1
        <5> QED
          BY <2>2, <3>2, <5>1 DEF InQueue
      <4> QED
        BY <4>1
    <3> QED
      BY <2>1, <3>1, <3>2 DEF InQueue
  <2>6. c \in open /\ c # main /\ \A i \in DOMAIN head' : head'[i] # c
    <3>1. c \in open /\ c # main
      BY <2>2 DEF InQueue
    <3>2. \A i \in DOMAIN head' : head'[i] # c
      BY <2>2 DEF InQueue
    <3> QED
      BY <3>1, <3>2
  <2>7. WithOne'
    <3>1. \A k \in Graders : pc'[k] \in Serving =>
             /\ newsockfd'[k] \in open /\ newsockfd'[k] # main
             /\ \A i \in DOMAIN head' : head'[i] # newsockfd'[k]
      BY <2>2, <2>3, <2>6 DEF WithOne
    <3>2. \A k, h \in Graders :
             pc'[k] \in Serving /\ pc'[h] \in Serving /\ newsockfd'[k] = newsockfd'[h]
                => k = h
      BY <2>2, <2>3 DEF WithOne
    <3>3. \A k \in Graders : pc'[k] \in Serving \cup {"done"} \/ newsockfd'[k] = Nobody
      BY <1>1, <2>1, <2>3 DEF WithOne
    <3> QED
      BY <2>1, <3>1, <3>2, <3>3 DEF WithOne
  <2>8. Somewhere'
    <3>1. ASSUME NEW d \in open
          PROVE  \/ main = d
                 \/ \E i \in DOMAIN head' : head'[i] = d
                 \/ \E k \in Graders : pc'[k] \in Serving /\ newsockfd'[k] = d
      <4>1. CASE d = c
        BY <2>3, <4>1
      <4>2. CASE \E i \in DOMAIN head : head[i] = d /\ d # c
        BY <2>2, <4>2
      <4>3. CASE \E k \in Graders : pc[k] \in Serving /\ newsockfd[k] = d
        BY <2>3, <4>3
      <4> QED
        BY <4>1, <4>2, <4>3 DEF Somewhere
    <3> QED
      BY <2>1, <3>1 DEF Somewhere
  <2> QED
    BY <2>4, <2>5, <2>7, <2>8
<1>4. CASE Receive(g)
  <2>1. pc[g] = "receive" /\ UNCHANGED <<head, newsockfd, main, at>>
    BY <1>4 DEF Receive, clients
  <2>2. CASE Goto(g, "progress") /\ open' = open
    <3>1. \A k \in Graders : pc'[k] = pc[k] \/ (pc[k] \in Serving /\ pc'[k] \in Serving)
      BY <1>1, <2>1, <2>2 DEF Goto, Serving
    <3> QED
      BY <1>1, <2>1, <2>2, <3>1, PlacesStay DEF Places, InQueue, Serving
  <2>3. CASE Closes(g, "done")
    BY <2>1, <2>3, PlacesClose DEF Serving
  <2> QED
    BY <1>4, <2>2, <2>3 DEF Receive
<1>5. CASE SendProgress(g) \/ Grade(g) \/ SendDetails(g)
  <2>1. UNCHANGED <<head, open, newsockfd, main, at>>
    BY <1>5 DEF SendProgress, Grade, SendDetails, clients
  <2>2. \A k \in Graders : pc'[k] = pc[k] \/ (pc[k] \in Serving /\ pc'[k] \in Serving)
    BY <1>1, <1>5 DEF SendProgress, Grade, SendDetails, Goto, Serving
  <2> QED
    BY <1>1, <2>1, <2>2, PlacesStay DEF Places, InQueue, Serving
<1>6. CASE Close(g)
  BY <1>6, PlacesClose DEF Close, Serving, clients
<1>7. CASE TakeNothing(g) \/ Fault(g) \/ ExitOnError(g)
  BY <1>7 DEF TakeNothing, Fault, ExitOnError, Terminate, clients, graders, Places, New,
              InHands, InQueue, WithOne, Somewhere
<1> QED
  BY <1>2, <1>3, <1>4, <1>5, <1>6, <1>7 DEF GraderStep

-----------------------------------------------------------------------------
(* The invariant, and what it says.                                        *)

LEMMA StepOfClient ==
    ASSUME IInv, NEW c \in Clients, Send(c) \/ Leave(c)
    PROVE  IInv'
<1> DEFINE Ats == {"new", "connected", "waiting", "left", "sent and left"}
           Peers == {"open", "gone", "reset"}
<1>0. at \in [Clients -> Ats] /\ peer \in [Clients -> Peers]
  BY DEF IInv, TypeOK
<1>1. UNCHANGED server /\ \A d \in Clients : at'[d] = "new" => at[d] = "new"
  BY <1>0 DEF Send, Leave
<1>2. at' \in [Clients -> Ats] /\ peer' \in [Clients -> Peers]
  BY <1>0 DEF Send, Leave
<1>3. TypeOK'
  BY <1>1, <1>2 DEF IInv, TypeOK, server, graders
<1>4. Safe' /\ Created'
  BY <1>1 DEF IInv, Safe, Locked, Found, Starting, Created, server, graders
<1>5. Places'
  BY <1>1 DEF IInv, Places, New, InHands, InQueue, WithOne, Somewhere, server, graders
<1> QED
  BY <1>3, <1>4, <1>5 DEF IInv

LEMMA Step == IInv /\ [Next]_vars => IInv'
<1> SUFFICES ASSUME IInv, [Next]_vars PROVE IInv'
  OBVIOUS
<1>1. TypeOK /\ Safe /\ Created /\ Places /\ WithOne
  BY DEF IInv, Places
<1>2. Created'
  BY <1>1, CreatedStays
<1>3. CASE MainStep \/ MainFails \/ \E c \in Clients : Accept(c)
  BY <1>1, <1>2, <1>3, TypeOfMain, SafeInMain, PlacesInMain DEF IInv
<1>4. ASSUME NEW g \in Graders,
             GraderStep(g) \/ Fault(g) \/ Unstick(g) \/ WakeSpuriously(g)
      PROVE  IInv'
  BY <1>1, <1>2, <1>4, TypeOfGrader, SafeInGrader, PlacesInGrader DEF IInv
<1>5. ASSUME NEW c \in Clients, Send(c) \/ Leave(c) PROVE IInv'
  BY <1>5, StepOfClient
<1>6. CASE UNCHANGED vars
  <2>1. TypeOK'
    BY <1>1, <1>6 DEF vars, TypeOK
  <2>2. Safe' /\ Created'
    BY <1>1, <1>6 DEF vars, Safe, Locked, Found, Starting, Created
  <2>3. Places'
    BY <1>1, <1>6 DEF vars, Places, New, InHands, InQueue, WithOne, Somewhere
  <2> QED
    BY <2>1, <2>2, <2>3 DEF IInv
<1> QED
  BY <1>3, <1>4, <1>5, <1>6 DEF Next

LEMMA Start == Init => IInv
<1> SUFFICES ASSUME Init PROVE IInv
  OBVIOUS
<1>1. TypeOK
  <2>1. nthreads \in Nat /\ 0 \in 0 .. nthreads
    BY TailqPoolAssumption
  <2>2. /\ up \in BOOLEAN /\ main \in {"create", "mutex", "cond", "accept"} \cup Clients
        /\ thrNum \in 0 .. nthreads /\ queueLock \in Graders \cup {Free, Main}
        /\ head \in Seq(Clients) /\ open \subseteq Clients
        /\ raced \in BOOLEAN /\ unsignalled \subseteq Clients
    <3>1. up \in BOOLEAN /\ main \in {"create"} /\ queueLock = Free /\ raced \in BOOLEAN
      BY DEF Init
    <3>2. open \subseteq Clients /\ unsignalled \subseteq Clients
      BY DEF Init
    <3>3. thrNum \in 0 .. nthreads
      BY <2>1 DEF Init
    <3>4. <<>> \in Seq(Clients)
      OBVIOUS
    <3>5. head \in Seq(Clients)
      BY <3>4 DEF Init
    <3> QED
      BY <3>1, <3>2, <3>3, <3>5
  <2>3. /\ newsockfd \in [Graders -> Clients \cup {Nobody}]
        /\ pc \in [Graders -> Labels] /\ n \in [Graders -> BOOLEAN]
        /\ result \in [Graders -> Endings \cup {"source", "junk"}]
    BY DEF Init, Labels
  <2>4. /\ at \in [Clients -> {"new", "connected", "waiting", "left", "sent and left"}]
        /\ peer \in [Clients -> {"open", "gone", "reset"}]
        /\ served \in [Clients -> SUBSET Graders]
    BY DEF Init
  <2> QED
    BY <2>2, <2>3, <2>4 DEF TypeOK
<1>2. Safe /\ Created
  BY DEF Init, Safe, Locked, Found, Starting, Created, Critical
<1>3. Places
  BY TailqPoolAssumption DEF Init, Places, New, InHands, InQueue, WithOne, Somewhere,
                             Serving
<1> QED
  BY <1>1, <1>2, <1>3 DEF IInv

\* All variables keep their types, whatever the clients, the initialisation
\* and the wakeups do; in particular no grader serves what is no connection.
THEOREM TailqTypeCorrect == Spec => []TypeOK
<1>1. IInv => TypeOK
  BY DEF IInv
<1> QED
  BY Start, Step, <1>1, PTL DEF Spec

\* A set of which all elements are equal.
LEMMA AtMostOne ==
    ASSUME NEW S, \A x, y \in S : x = y
    PROVE  IsFiniteSet(S) /\ Cardinality(S) <= 1 /\ (S # {} => Cardinality(S) = 1)
<1>1. CASE S = {}
  BY <1>1, FS_EmptySet
<1>2. CASE S # {}
  <2>1. PICK x \in S : S = {x}
    BY <1>2
  <2> QED
    BY <1>2, <2>1, FS_Singleton
<1> QED
  BY <1>1, <1>2

\* client.c:42, "Mutex for ensuring access to request queue is safe": it does,
\* for any numbers of graders, of clients and of descriptors, unless it was
\* initialised while a grader held it.
THEOREM TailqIsSafe == Spec => []QueueIsSafe
<1>1. IInv => QueueIsSafe
  <2> SUFFICES ASSUME IInv, up, ~raced
               PROVE  /\ Cardinality({g \in Graders : pc[g] \in {"test", "wait", "lost", "take"}}) <= 1
                      /\ At("take") # {} => head # <<>>
                      /\ \A i, j \in DOMAIN head : i # j => head[i] # head[j]
                      /\ \A c \in open :
                            Cardinality({g \in Graders : newsockfd[g] = c /\ pc[g] # "done"})
                            + Cardinality({i \in DOMAIN head : head[i] = c})
                            + (IF main = c THEN 1 ELSE 0) = 1
    BY DEF QueueIsSafe
  <2> USE DEF IInv, Places
  <2>1. Cardinality({g \in Graders : pc[g] \in {"test", "wait", "lost", "take"}}) <= 1
    <3> DEFINE S == {g \in Graders : pc[g] \in {"test", "wait", "lost", "take"}}
    <3>1. \A g, h \in S : g = h
      BY DEF Safe, Locked, Critical
    <3> HIDE DEF S
    <3>2. Cardinality(S) <= 1
      BY <3>1, AtMostOne
    <3> QED
      BY <3>2 DEF S
  <2>2. At("take") # {} => head # <<>>
    BY DEF Safe, Found, At
  <2>3. \A i, j \in DOMAIN head : i # j => head[i] # head[j]
    BY DEF InQueue
  <2>4. ASSUME NEW c \in open
        PROVE  Cardinality({g \in Graders : newsockfd[g] = c /\ pc[g] # "done"})
               + Cardinality({i \in DOMAIN head : head[i] = c})
               + (IF main = c THEN 1 ELSE 0) = 1
    <3> DEFINE G == {g \in Graders : newsockfd[g] = c /\ pc[g] # "done"}
               I == {i \in DOMAIN head : head[i] = c}
    <3>1. c \in Clients /\ c # Nobody
      BY TailqPoolAssumption DEF TypeOK
    <3>2. \A g \in Graders : g \in G <=> pc[g] \in Serving /\ newsockfd[g] = c
      BY <3>1 DEF WithOne, Serving
    <3>3. /\ \A g, h \in G : g = h
          /\ \A i, j \in I : i = j
      BY <3>2 DEF WithOne, InQueue
    <3>4. G # {} => I = {} /\ main # c
      BY <3>2 DEF WithOne
    <3>5. I # {} => main # c
      BY DEF InQueue
    <3>6. G # {} \/ I # {} \/ main = c
      BY <3>2 DEF Somewhere
    <3> HIDE DEF G, I
    <3>7. /\ Cardinality(G) = IF G = {} THEN 0 ELSE 1
          /\ Cardinality(I) = IF I = {} THEN 0 ELSE 1
      BY <3>3, AtMostOne, FS_EmptySet
    <3>8. Cardinality(G) + Cardinality(I) + (IF main = c THEN 1 ELSE 0) = 1
      BY <3>4, <3>5, <3>6, <3>7
    <3> QED
      BY <3>8 DEF G, I
  <2> QED
    BY <2>1, <2>2, <2>3, <2>4
<1> QED
  BY Start, Step, <1>1, PTL DEF Spec
=============================================================================
