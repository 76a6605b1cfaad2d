----------------------------- MODULE TailqPool -----------------------------
(***************************************************************************)
(* The earlier thread-pool server, kept as threadpool/client.c: graders    *)
(* wait for the queue to be non-empty, each takes one connection, grades   *)
(* and ends; main inserts what it accepts and signals if the queue was     *)
(* empty.                                                                  *)
(*                                                                         *)
(* main creates the graders before it initialises the mutex and the        *)
(* condition variable they use.  Zeroed memory works as both, until the    *)
(* initialisation finds them in use.  It releases the mutex whoever holds  *)
(* it, and threads that wait for the mutex may not be woken again; and it  *)
(* forgets the threads that wait on the condition variable: they sleep on, *)
(* and can at most catch a signal meant for one that came later.           *)
(***************************************************************************)
EXTENDS Naturals, Sequences, FiniteSets

CONSTANTS
    nthreads,       \* graders are numbered from 1
    Clients,
    EndingOf(_),    \* how the grading of each client's program ends
    DetailsOf(_),   \* the endings for which a grader's file of details exists
    Killable,       \* clients that may leave
    Free, Main,     \* holders of the mutex that are not graders
    Nobody,
    MaxFds          \* descriptors for connections and the graders' files

Graders == 1 .. nthreads
Endings == {"compiler error", "runtime error", "ran"}

ASSUME TailqPoolAssumption ==
    /\ nthreads \in Nat /\ MaxFds \in Nat
    /\ IsFiniteSet(Clients) /\ Killable \subseteq Clients /\ Nobody \notin Clients
    /\ Clients \cap {"create", "mutex", "cond", "accept"} = {}
    /\ \A c \in Clients : EndingOf(c) \in Endings
    /\ \A g \in Graders : DetailsOf(g) \subseteq Endings
    /\ Free # Main /\ {Free, Main} \cap Graders = {}

VARIABLES
    up,             \* the process runs
    main,           \* where main is
    thrNum,         \* graders created
    queueLock,      \* who holds the mutex
    head,           \* the queue of connections
    open,           \* connections that are open; the last ones if it ended
    newsockfd,      \* by grader: the connection it serves
    pc,             \* by grader: where it is; "asleep" is in pthread_cond_wait
    n,              \* by grader: the send of the progress message succeeded
    result,         \* by grader: how the grading ended; before it, whether
                    \* what was received is a source or junk
    at,             \* each client: where it is
    peer,           \* by connection: the client's end
    raced,          \* the mutex was initialised while held
    unsignalled,    \* connections inserted without a signal
    served          \* by connection: the graders that took it

graders == <<newsockfd, pc, n, result>>
clients == <<at, peer>>
vars    == <<up, main, thrNum, queueLock, head, open, newsockfd, pc, n, result,
             at, peer, raced, unsignalled, served>>

Init ==
    /\ up = TRUE /\ main = "create" /\ thrNum = 0
    /\ queueLock = Free /\ head = <<>> /\ open = {}
    /\ newsockfd = [g \in Graders |-> Nobody]
    /\ pc = [g \in Graders |-> "none"]
    /\ n = [g \in Graders |-> TRUE]
    /\ result = [g \in Graders |-> "source"]
    /\ at = [c \in Clients |-> "new"]
    /\ peer = [c \in Clients |-> "open"]
    /\ raced = FALSE /\ unsignalled = {}
    /\ served = [c \in Clients |-> {}]

Goto(g, label) == pc' = [pc EXCEPT ![g] = label]
At(label) == {g \in Graders : pc[g] = label}

\* A signal wakes a thread that waits, if there is one; a forgotten one may
\* wake in its place.
Signal ==
    IF At("asleep") = {} THEN UNCHANGED pc
    ELSE \E r \in At("asleep") :
            \/ Goto(r, "lock")
            \/ \E f \in At("forgotten") :
                  pc' = [pc EXCEPT ![r] = "forgotten", ![f] = "lock"]

\* exit(1), a signal, or memory that is not there.
Terminate ==
    /\ up' = FALSE
    /\ UNCHANGED <<main, thrNum, queueLock, head, open, graders, raced,
                   unsignalled, served>>
-----------------------------------------------------------------------------
(* main.                                                                   *)

\* Mutant: one grader too many.
CreateOneMore ==
    /\ up /\ main = "create"
    /\ IF thrNum <= nthreads
       THEN thrNum' = thrNum + 1 /\ Goto(thrNum + 1, "lock") /\ UNCHANGED main
       ELSE main' = "mutex" /\ UNCHANGED <<thrNum, pc>>
    /\ UNCHANGED <<up, queueLock, head, open, newsockfd, n, result, clients,
                   raced, unsignalled, served>>

\* The thread pool.
Create ==
    /\ up /\ main = "create"
    /\ IF thrNum < nthreads
       THEN thrNum' = thrNum + 1 /\ Goto(thrNum + 1, "lock") /\ UNCHANGED main
       ELSE main' = "mutex" /\ UNCHANGED <<thrNum, pc>>
    /\ UNCHANGED <<up, queueLock, head, open, newsockfd, n, result, clients,
                   raced, unsignalled, served>>

\* TAILQ_INIT, of a queue that nothing has been put on yet, and
\* pthread_mutex_init.
InitMutex ==
    /\ up /\ main = "mutex"
    /\ main' = "cond"
    /\ queueLock' = Free
    /\ raced' = (queueLock # Free)
    /\ \E stuck \in SUBSET (IF raced' THEN At("lock") ELSE {}) :
          pc' = [g \in Graders |-> IF g \in stuck THEN "stuck" ELSE pc[g]]
    /\ UNCHANGED <<up, thrNum, head, open, newsockfd, n, result, clients,
                   unsignalled, served>>

\* pthread_cond_init.  A grader in pthread_cond_wait that still has the mutex
\* is lost too, if it has registered.
InitCond ==
    /\ up /\ main = "cond"
    /\ main' = "accept"
    /\ \E lost \in SUBSET At("wait") :
          pc' = [g \in Graders |-> CASE pc[g] = "asleep" -> "forgotten"
                                   [] g \in lost         -> "lost"
                                   [] OTHER              -> pc[g]]
    /\ UNCHANGED <<up, thrNum, queueLock, head, open, newsockfd, n, result,
                   clients, raced, unsignalled, served>>

\* assert(rc == 0).
CreateFails ==
    /\ up /\ main = "create" /\ thrNum < nthreads
    /\ Terminate /\ UNCHANGED clients

\* The descriptors of connections, and of files that graders have opened or
\* are about to.
Held == Cardinality(open) + Cardinality(At("receive") \cup At("details"))

Accept(c) ==
    /\ up /\ main = "accept" /\ Cardinality(open) < MaxFds
    /\ at[c] = "new"
    /\ at' = [at EXCEPT ![c] = "connected"]
    /\ open' = open \cup {c}
    /\ main' = c
    /\ UNCHANGED <<up, thrNum, queueLock, head, graders, peer, raced,
                   unsignalled, served>>

AcceptFails ==
    /\ up /\ main = "accept" /\ Held >= MaxFds
    /\ Terminate /\ UNCHANGED clients

\* Mutant: nobody is signalled.
NeverSignal ==
    /\ up /\ main \in Clients /\ queueLock = Free
    /\ head' = Append(head, main)
    /\ main' = "accept"
    /\ UNCHANGED <<up, thrNum, queueLock, open, graders, clients, raced,
                   unsignalled, served>>

\* The insertion at the tail, and a signal if the queue was empty.
Insert ==
    /\ up /\ main \in Clients /\ queueLock = Free
    /\ head' = Append(head, main)
    /\ IF head = <<>> THEN Signal /\ UNCHANGED unsignalled
       ELSE UNCHANGED pc /\ unsignalled' = unsignalled \cup {main}
    /\ main' = "accept"
    /\ UNCHANGED <<up, thrNum, queueLock, open, newsockfd, n, result, clients,
                   raced, served>>
-----------------------------------------------------------------------------
(* A grader.                                                               *)

Lock(g) ==
    /\ up /\ pc[g] = "lock" /\ queueLock = Free
    /\ queueLock' = g
    /\ Goto(g, "test")
    /\ UNCHANGED <<up, main, thrNum, head, open, newsockfd, n, result, clients,
                   raced, unsignalled, served>>

\* The mutex's own waiters may yet be woken by a later unlock.
Unstick(g) ==
    /\ up /\ pc[g] = "stuck"
    /\ Goto(g, "lock")
    /\ UNCHANGED <<up, main, thrNum, queueLock, head, open, newsockfd, n, result,
                   clients, raced, unsignalled, served>>

\* The condition of the while loop.
Test(g) ==
    /\ up /\ pc[g] = "test"
    /\ Goto(g, IF head = <<>> THEN "wait" ELSE "take")
    /\ UNCHANGED <<up, main, thrNum, queueLock, head, open, newsockfd, n, result,
                   clients, raced, unsignalled, served>>

\* pthread_cond_wait releases the mutex, whoever has it by now.
Wait(g) ==
    /\ up /\ pc[g] \in {"wait", "lost"}
    /\ queueLock' = Free
    /\ Goto(g, IF pc[g] = "wait" THEN "asleep" ELSE "forgotten")
    /\ UNCHANGED <<up, main, thrNum, head, open, newsockfd, n, result, clients,
                   raced, unsignalled, served>>

WakeSpuriously(g) ==
    /\ up /\ pc[g] \in {"asleep", "forgotten"}
    /\ Goto(g, "lock")
    /\ UNCHANGED <<up, main, thrNum, queueLock, head, open, newsockfd, n, result,
                   clients, raced, unsignalled, served>>

\* Mutant: the entry is read and left in the queue.
TakeAndLeave(g) ==
    /\ up /\ pc[g] = "take" /\ head # <<>>
    /\ newsockfd' = [newsockfd EXCEPT ![g] = Head(head)]
    /\ served' = [served EXCEPT ![Head(head)] = @ \cup {g}]
    /\ queueLock' = Free
    /\ Goto(g, "receive")
    /\ UNCHANGED <<up, main, thrNum, head, open, n, result, clients, raced, unsignalled>>

\* TAILQ_FIRST, TAILQ_REMOVE, the unlock.
Take(g) ==
    /\ up /\ pc[g] = "take" /\ head # <<>>
    /\ newsockfd' = [newsockfd EXCEPT ![g] = Head(head)]
    /\ served' = [served EXCEPT ![Head(head)] = @ \cup {g}]
    /\ head' = Tail(head)
    /\ queueLock' = Free
    /\ Goto(g, "receive")
    /\ UNCHANGED <<up, main, thrNum, open, n, result, clients, raced, unsignalled>>

\* Another grader has taken it: there is no first entry.
TakeNothing(g) ==
    /\ up /\ pc[g] = "take" /\ head = <<>>
    /\ Terminate /\ UNCHANGED clients

Closes(g, label) ==
    /\ open' = open \ {newsockfd[g]}
    /\ Goto(g, label)

\* recv_file: the source; or no descriptor for it, or the end of the
\* connection, and the grader closes and returns; or an error taken for a
\* length, with memory for a source.
Receive(g) ==
    LET c == newsockfd[g] IN
    /\ up /\ pc[g] = "receive"
    /\ \/ /\ at[c] \in {"waiting", "sent and left"} /\ Cardinality(open) < MaxFds
          /\ Goto(g, "progress") /\ UNCHANGED <<open, result>>
       \/ (peer[c] # "open" \/ Held > MaxFds) /\ Closes(g, "done") /\ UNCHANGED result
       \/ /\ peer[c] = "reset" /\ Cardinality(open) < MaxFds /\ result' = [result EXCEPT ![g] = "junk"]
          /\ Goto(g, "progress") /\ UNCHANGED open
    /\ UNCHANGED <<up, main, thrNum, queueLock, head, newsockfd, n, clients, raced,
                   unsignalled, served>>

\* "I got your code file for grading".
SendProgress(g) ==
    /\ up /\ pc[g] = "progress"
    /\ \/ UNCHANGED n
       \/ peer[newsockfd[g]] # "open" /\ n' = [n EXCEPT ![g] = FALSE]
    /\ Goto(g, "grade")
    /\ UNCHANGED <<up, main, thrNum, queueLock, head, open, newsockfd, result,
                   clients, raced, unsignalled, served>>

\* g++ and the program, in files named after the thread.
Grade(g) ==
    /\ up /\ pc[g] = "grade"
    /\ result' = [result EXCEPT ![g] =
                    IF @ = "junk" THEN "compiler error" ELSE EndingOf(newsockfd[g])]
    /\ Goto(g, "details")
    /\ UNCHANGED <<up, main, thrNum, queueLock, head, open, newsockfd, n,
                   clients, raced, unsignalled, served>>

\* The details, from a file named after the grader's number, which this
\* program does not write.  After a failed send the file is closed and read on.
SendDetails(g) ==
    /\ up /\ pc[g] = "details" /\ result[g] \in DetailsOf(g)
    /\ Cardinality(open) < MaxFds
    /\ Goto(g, "close")
    /\ UNCHANGED <<up, main, thrNum, queueLock, head, open, newsockfd, n, result,
                   clients, raced, unsignalled, served>>

\* feof of a file that could not be opened, or was closed; or SIGPIPE.
Fault(g) ==
    /\ up
    /\ \/ pc[g] = "details" /\ result[g] \notin DetailsOf(g)
       \/ pc[g] = "details" /\ (peer[newsockfd[g]] # "open" \/ Held > MaxFds)
       \/ pc[g] = "progress" /\ peer[newsockfd[g]] # "open"
       \/ pc[g] = "receive" /\ peer[newsockfd[g]] = "reset"
    /\ Terminate /\ UNCHANGED clients

\* The close, and the end of the thread; or error(), if n says so.
Close(g) ==
    /\ up /\ pc[g] = "close" /\ n[g]
    /\ Closes(g, "done")
    /\ UNCHANGED <<up, main, thrNum, queueLock, head, newsockfd, n, result,
                   clients, raced, unsignalled, served>>

ExitOnError(g) ==
    /\ up /\ pc[g] = "close" /\ ~n[g]
    /\ Terminate /\ UNCHANGED clients
-----------------------------------------------------------------------------
(* The clients: when connected, send the source, wait for the end.         *)

server == <<up, main, thrNum, queueLock, head, open, graders, raced, unsignalled, served>>

Send(c) ==
    /\ at[c] = "connected" /\ at' = [at EXCEPT ![c] = "waiting"]
    /\ UNCHANGED <<server, peer>>

Leave(c) ==
    /\ c \in Killable /\ at[c] \in {"connected", "waiting"} /\ c \in open
    /\ at' = [at EXCEPT ![c] = IF @ = "waiting" THEN "sent and left" ELSE "left"]
    /\ \E how \in {"gone", "reset"} : peer' = [peer EXCEPT ![c] = how]
    /\ UNCHANGED server

MainStep == Create \/ InitMutex \/ InitCond \/ Insert
MainFails == CreateFails \/ AcceptFails

GraderStep(g) ==
    \/ Lock(g) \/ Test(g) \/ Wait(g) \/ Take(g) \/ TakeNothing(g) \/ Receive(g)
    \/ SendProgress(g) \/ Grade(g) \/ SendDetails(g) \/ Close(g) \/ ExitOnError(g)

Next ==
    \/ MainStep \/ MainFails
    \/ \E g \in Graders : GraderStep(g) \/ Fault(g) \/ Unstick(g) \/ WakeSpuriously(g)
    \/ \E c \in Clients : Accept(c) \/ Send(c) \/ Leave(c)

Spec == Init /\ [][Next]_vars

\* Threads that can run do, and get the mutex in the end; nobody has to
\* connect, to send or to leave.
FairSpec ==
    /\ Spec
    /\ SF_vars(MainStep)
    /\ \A g \in Graders : SF_vars(GraderStep(g))
-----------------------------------------------------------------------------
Left == {c \in Clients : at[c] \in {"left", "sent and left"}}
Idle == {g \in Graders : pc[g] \in {"none", "lock", "stuck", "test", "wait", "lost",
                                   "asleep", "forgotten", "take"}}

Labels == {"none", "lock", "stuck", "test", "wait", "lost", "asleep", "forgotten", "take",
           "receive", "progress", "grade", "details", "close", "done"}

TypeOK ==
    /\ up \in BOOLEAN /\ main \in {"create", "mutex", "cond", "accept"} \cup Clients
    /\ thrNum \in 0 .. nthreads /\ queueLock \in Graders \cup {Free, Main}
    /\ head \in Seq(Clients) /\ open \subseteq Clients
    /\ newsockfd \in [Graders -> Clients \cup {Nobody}]
    /\ pc \in [Graders -> Labels]
    /\ n \in [Graders -> BOOLEAN] /\ result \in [Graders -> Endings \cup {"source", "junk"}]
    /\ at \in [Clients -> {"new", "connected", "waiting", "left",
                        "sent and left"}]
    /\ peer \in [Clients -> {"open", "gone", "reset"}]
    /\ raced \in BOOLEAN /\ unsignalled \subseteq Clients
    /\ served \in [Clients -> SUBSET Graders]

\* client.c:42, "Mutex for ensuring access to request queue is safe".  It does,
\* unless it was initialised while a grader held it: no two graders are in
\* the section, none finds the queue empty that it has tested, and every open
\* connection is in the queue once, or with one grader, or in main's hands.
QueueIsSafe ==
    up /\ ~raced =>
        /\ Cardinality({g \in Graders : pc[g] \in {"test", "wait", "lost", "take"}}) <= 1
        /\ At("take") # {} => head # <<>>
        /\ \A i, j \in DOMAIN head : i # j => head[i] # head[j]
        /\ \A c \in open :
              Cardinality({g \in Graders : newsockfd[g] = c /\ pc[g] # "done"})
              + Cardinality({i \in DOMAIN head : head[i] = c})
              + (IF main = c THEN 1 ELSE 0) = 1

\* What can end the server: a file of details that is not there, a client that
\* has left, or the last descriptor.
CanEnd == \/ \E g \in Graders : pc[g] = "details" /\ result[g] \notin DetailsOf(g)
          \/ Left # {}
          \/ Held >= MaxFds

\* client.c:197, "if not wait until there's one in it".  A connection that was
\* inserted with a signal is served, as long as there are graders (each serves
\* one and ends), unless the server ends for one of those causes, the mutex was
\* initialised under a grader, or the condition variable under one that sleeps.
SignalledIsServed ==
    \A c \in Clients :
        (\E i \in DOMAIN head : head[i] = c) ~>
            \/ served[c] # {} \/ c \in unsignalled
            \/ ~up /\ CanEnd
            \/ raced \/ At("forgotten") # {} \/ Idle = {}
=============================================================================
