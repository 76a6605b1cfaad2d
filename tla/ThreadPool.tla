----------------------------- MODULE ThreadPool -----------------------------
(***************************************************************************)
(* The thread-pool grading server, threadpool/multiserver.c (version       *)
(* 3/server.c is the same program without comments).                       *)
(*                                                                         *)
(* The main thread accepts connections and puts their descriptors in a     *)
(* circular queue; as many worker threads as the queue has slots take      *)
(* them out and grade: receive the source into a file named after the      *)
(* descriptor, compile it, run it, compare its output, send the report,    *)
(* close.  One mutex guards the queue, so each critical section is one     *)
(* action; pthread_cond_wait splits a section in two, and a thread waiting *)
(* on a condition variable is one whose pc says so.                        *)
(*                                                                         *)
(* A connection carries one submission.  The network, the descriptor table *)
(* and the clients are the environment: a client connects, sends its file  *)
(* and may be gone (timed out, exited) at any moment.                      *)
(***************************************************************************)
EXTENDS CircularQueue, FiniteSets

CONSTANTS
    Workers, Main,    \* the threads
    Conns,            \* connections, each with the program sent over it
    Fds, NoFd,        \* descriptors the process can have for sockets; there is
                      \* always one more for the file a worker opens
    None,             \* no connection / an empty or incomplete file
    NoAnswer,
    ProgramOf(_),     \* what becomes of a program when it is graded
    Impatient,        \* connections whose client may leave early
    Large,            \* programs longer than the 5000 bytes of one read
    ExpectedPresent,  \* expected_output.txt is in the server's directory
    SpuriousWakeups   \* pthread_cond_wait may return without a signal

Programs == {"uncompilable",  \* gcc fails, less than 5000 bytes of messages
             "verbose",       \* gcc fails with more than one buffer of them
             "failing",       \* exits with an error and a message on stderr
             "silent",        \* the same, or a signal, with nothing on stderr
             "looping",       \* never ends
             "wrong", "right"}

Verdicts == {"COMPILE ERROR", "RUNTIME ERROR", "FAIL", "PASS"}

ASSUME ThreadPoolAssumption ==
    /\ IsFiniteSet(Workers) /\ Cardinality(Workers) = MaxSize
    /\ Junk = NoFd /\ NoFd \notin Fds
    /\ Main \notin Workers
    /\ None \notin Conns /\ NoAnswer \notin Verdicts
    /\ \A c \in Conns : ProgramOf(c) \in Programs
    /\ Large \subseteq Conns /\ Impatient \subseteq Conns
    /\ ExpectedPresent \in BOOLEAN /\ SpuriousWakeups \in BOOLEAN

\* The verdict a submission deserves (a looping program deserves none).
VerdictOf(c) ==
    CASE ProgramOf(c) \in {"uncompilable", "verbose"}          -> "COMPILE ERROR"
      [] ProgramOf(c) \in {"failing", "silent", "looping"}     -> "RUNTIME ERROR"
      [] ProgramOf(c) = "wrong"                                -> "FAIL"
      [] ProgramOf(c) = "right"                                -> "PASS"

VARIABLES
    threadPool,       \* the circular queue of descriptors
    pc,               \* where each thread is
    newsockfd,        \* main's accepted descriptor, between accept and push
    client_socket,    \* each worker's descriptor
    up,               \* the process is running
    peer,             \* descriptor table: the connection a descriptor is for
    code, exe,        \* by file name: whose source, whose executable
    report,           \* by file name: the details file about to be sent
    backlog,          \* connections not yet accepted, in order
    client,           \* each connection: "new", "open", "gone", "closed"
    sent,             \* connections whose client has sent the source
    answer            \* the verdict each client has got

server == <<threadPool, pc, newsockfd, client_socket, up>>
files  == <<code, exe, report>>
net    == <<backlog, client, sent, answer>>
vars   == <<threadPool, pc, newsockfd, client_socket, up, peer,
            code, exe, report, backlog, client, sent, answer>>

Threads == Workers \cup {Main}
NoReport == [of |-> None, verdict |-> NoAnswer]

Init ==
    /\ threadPool = initializeQueue
    /\ pc = [t \in Threads |-> IF t = Main THEN "accept" ELSE "take"]
    /\ newsockfd = NoFd
    /\ client_socket = [w \in Workers |-> NoFd]
    /\ up = TRUE
    /\ peer = [fd \in Fds |-> None]
    /\ code = [fd \in Fds |-> None]
    /\ exe = [fd \in Fds |-> None]
    /\ report = [fd \in Fds |-> NoReport]
    /\ backlog = <<>>
    /\ client = [c \in Conns |-> "new"]
    /\ sent = {}
    /\ answer = [c \in Conns |-> NoAnswer]

-----------------------------------------------------------------------------
(* The clients.                                                            *)

Connect(c) ==
    /\ up /\ client[c] = "new"
    /\ client' = [client EXCEPT ![c] = "open"]
    /\ backlog' = Append(backlog, c)
    /\ UNCHANGED <<server, peer, files, sent, answer>>

Send(c) ==
    /\ client[c] = "open" /\ c \notin sent
    /\ sent' = sent \cup {c}
    /\ UNCHANGED <<server, peer, files, backlog, client, answer>>

\* The client's read times out and its process ends, or it is killed.
Leave(c) ==
    /\ c \in Impatient /\ client[c] = "open"
    /\ client' = [client EXCEPT ![c] = "gone"]
    /\ UNCHANGED <<server, peer, files, backlog, sent, answer>>

-----------------------------------------------------------------------------
(* The process ends: exit(1) in error(), or SIGPIPE.  The kernel closes    *)
(* its sockets.                                                            *)
Terminate ==
    /\ up' = FALSE
    /\ peer' = [fd \in Fds |-> None]
    /\ client' = [c \in Conns |-> IF client[c] = "open" THEN "closed" ELSE client[c]]
    /\ UNCHANGED <<threadPool, pc, newsockfd, client_socket, files,
                   backlog, sent, answer>>

-----------------------------------------------------------------------------
(* The main thread.                                                        *)

\* The descriptor accept returns is one that is free: descriptors that
\* workers hold for files for a moment can be skipped, so not always the
\* lowest.
Accept ==
    /\ up /\ pc[Main] = "accept" /\ backlog # <<>>
    /\ \E fd \in Fds :
        /\ peer[fd] = None
        /\ peer' = [peer EXCEPT ![fd] = Head(backlog)]
        /\ newsockfd' = fd
    /\ backlog' = Tail(backlog)
    /\ pc' = [pc EXCEPT ![Main] = "insert"]
    /\ UNCHANGED <<threadPool, client_socket, up, files, client, sent, answer>>

\* No descriptor is left: accept fails and error() ends the process.
AcceptError ==
    /\ up /\ pc[Main] = "accept" /\ backlog # <<>>
    /\ \A fd \in Fds : peer[fd] # None
    /\ Terminate

\* pthread_cond_signal(&it_avail) wakes a waiting worker when there is one.
WokenIfWasEmpty ==                    \* mutant: signal only the first item
    isEmpty(threadPool) /\ \E w \in Workers : pc[w] = "idle"
WorkerWoken == \E w \in Workers : pc[w] = "idle"

\* push, then the signal.
PushAndSignal ==
    /\ threadPool' = push(threadPool, newsockfd)
    /\ newsockfd' = NoFd
    /\ IF WorkerWoken
       THEN \E w \in Workers :
               /\ pc[w] = "idle"
               /\ pc' = [pc EXCEPT ![Main] = "accept", ![w] = "take"]
       ELSE pc' = [pc EXCEPT ![Main] = "accept"]
    /\ UNCHANGED <<client_socket, up, peer, files, net>>

\* The section from pthread_mutex_lock, with room in the queue.
Insert ==
    /\ up /\ pc[Main] = "insert"
    /\ ~isFull(threadPool)
    /\ PushAndSignal

\* The same section without room: pthread_cond_wait(&sp_avail, &lock).
WaitForSpace ==
    /\ up /\ pc[Main] = "insert"
    /\ isFull(threadPool)
    /\ pc' = [pc EXCEPT ![Main] = "full"]
    /\ UNCHANGED <<threadPool, newsockfd, client_socket, up, peer, files, net>>

\* The wait has returned; the code pushes without testing isFull again.
InsertAfterWait ==
    /\ up /\ pc[Main] = "awoken"
    /\ PushAndSignal

-----------------------------------------------------------------------------
(* A worker.                                                               *)

Socket(w) == client_socket[w]
\* The number in received_code%d.c, compiler_error%d.txt and the others.
OneFileName(fd) == CHOOSE f \in Fds : TRUE   \* mutant: fixed file names
FileName(fd) == fd

Goto(w, label) == pc' = [pc EXCEPT ![w] = label]

\* pthread_cond_signal(&sp_avail) wakes main when it waits.
NoMainWoken == pc[Main]               \* mutant: the signal is forgotten
MainWoken == IF pc[Main] = "full" THEN "awoken" ELSE pc[Main]

\* The section from pthread_mutex_lock, with something in the queue: pop,
\* then the signal.
Take(w) ==
    /\ up /\ pc[w] = "take"
    /\ ~isEmpty(threadPool)
    /\ client_socket' = [client_socket EXCEPT ![w] = popped(threadPool)]
    /\ threadPool' = pop(threadPool)
    /\ pc' = [pc EXCEPT ![w] = "receive",
                        ![Main] = MainWoken]
    /\ UNCHANGED <<newsockfd, up, peer, files, net>>

\* The same section with an empty queue: pthread_cond_wait(&it_avail, &lock).
WaitForItem(w) ==
    /\ up /\ pc[w] = "take"
    /\ isEmpty(threadPool)
    /\ Goto(w, "idle")
    /\ UNCHANGED <<threadPool, newsockfd, client_socket, up, peer, files, net>>

\* Mutant: received_code%d.c is opened without O_TRUNC.
ReceiveWithoutTrunc(w) ==
    LET c == peer[Socket(w)]
    IN  /\ up /\ pc[w] = "receive"
        /\ c \in sent \/ client[c] # "open"
        /\ code' = IF c \in sent \ Large
                   THEN [code EXCEPT ![FileName(Socket(w))] = c] ELSE code
        /\ Goto(w, "compile")
        /\ UNCHANGED <<threadPool, newsockfd, client_socket, up, peer,
                       exe, report, net>>

\* open, one read of up to 5000 bytes, write, close.  The read blocks until
\* the client has sent or gone; what is then missing stays missing.
Receive(w) ==
    LET c == peer[Socket(w)]
    IN  /\ up /\ pc[w] = "receive"
        /\ c \in sent \/ client[c] # "open"
        /\ code' = [code EXCEPT ![FileName(Socket(w))] =
                        IF c \in sent \ Large THEN c ELSE None]
        /\ Goto(w, "compile")
        /\ UNCHANGED <<threadPool, newsockfd, client_socket, up, peer,
                       exe, report, net>>

\* gcc on received_code%d.c.  A file that is empty or cut off does not compile.
Compiles(c) == c # None /\ ProgramOf(c) \notin {"uncompilable", "verbose"}

Compile(w) ==
    LET f == FileName(Socket(w))
    IN  /\ up /\ pc[w] = "compile"
        /\ IF Compiles(code[f])
           THEN /\ exe' = [exe EXCEPT ![f] = code[f]]
                /\ Goto(w, "run")
                /\ UNCHANGED report
           ELSE /\ report' = [report EXCEPT ![f] =
                                [of |-> code[f], verdict |-> "COMPILE ERROR"]]
                /\ Goto(w, "reply")
                /\ UNCHANGED exe
        /\ UNCHANGED <<threadPool, newsockfd, client_socket, up, peer, code, net>>

\* system("./received_code%d ..."), which returns when the program ends.
Run(w) ==
    LET f == FileName(Socket(w))
    IN  /\ up /\ pc[w] = "run"
        /\ ProgramOf(exe[f]) # "looping"
        /\ IF ProgramOf(exe[f]) \in {"failing", "silent"}
           THEN /\ report' = [report EXCEPT ![f] =
                                [of |-> exe[f], verdict |-> "RUNTIME ERROR"]]
                /\ Goto(w, "reply")
           ELSE /\ Goto(w, "compare")
                /\ UNCHANGED report
        /\ UNCHANGED <<threadPool, newsockfd, client_socket, up, peer,
                       code, exe, net>>

\* echo >>, diff, and the verdict from the size of diff_out%d.txt alone: it
\* is empty when the outputs agree, and also when diff had nothing to
\* compare with.
Compare(w) ==
    LET f == FileName(Socket(w))
    IN  /\ up /\ pc[w] = "compare"
        /\ report' = [report EXCEPT ![f] =
              [of |-> exe[f],
               verdict |-> IF ExpectedPresent /\ ProgramOf(exe[f]) = "wrong"
                           THEN "FAIL" ELSE "PASS"]]
        /\ Goto(w, "reply")
        /\ UNCHANGED <<threadPool, newsockfd, client_socket, up, peer,
                       code, exe, net>>

Details(w) == report[FileName(Socket(w))]

\* One write of the report to the socket.  Nothing is written when
\* runtime_error%d.txt is empty; a client that is gone gets nothing.
Reply(w) ==
    LET c == peer[Socket(w)]
        r == Details(w)
        kind == IF r.of = None THEN "uncompilable" ELSE ProgramOf(r.of)
    IN  /\ up /\ pc[w] = "reply"
        /\ answer' = IF client[c] = "open" /\ kind # "silent"
                     THEN [answer EXCEPT ![c] = r.verdict]
                     ELSE answer
        /\ Goto(w, IF kind = "verbose" THEN "reply more" ELSE "close")
        /\ UNCHANGED <<threadPool, newsockfd, client_socket, up, peer, files,
                       backlog, client, sent>>

\* The writes after the first.
ReplyMore(w) ==
    /\ up /\ pc[w] = "reply more"
    /\ Goto(w, "close")
    /\ UNCHANGED <<threadPool, newsockfd, client_socket, up, peer, files, net>>

\* When the peer has gone, a later write can find the connection reset:
\* SIGPIPE, which the program does not handle.
ReplyToReset(w) ==
    /\ up /\ pc[w] = "reply more"
    /\ client[peer[Socket(w)]] = "gone"
    /\ Terminate

\* Mutant: close is forgotten.
CloseForgotten(w) ==
    /\ up /\ pc[w] = "close"
    /\ client_socket' = [client_socket EXCEPT ![w] = NoFd]
    /\ Goto(w, "take")
    /\ UNCHANGED <<threadPool, newsockfd, up, peer, files, net>>

\* Mutant: the worker ends after one request (there is no loop around it).
CloseAndReturn(w) ==
    LET c == peer[Socket(w)]
    IN  /\ up /\ pc[w] = "close"
        /\ peer' = [peer EXCEPT ![Socket(w)] = None]
        /\ client_socket' = [client_socket EXCEPT ![w] = NoFd]
        /\ client' = [client EXCEPT ![c] = IF @ = "open" THEN "closed" ELSE @]
        /\ Goto(w, "returned")
        /\ UNCHANGED <<threadPool, newsockfd, up, files, backlog, sent, answer>>

\* close(client_socket), and back to the top of while(1).
Close(w) ==
    LET c == peer[Socket(w)]
    IN  /\ up /\ pc[w] = "close"
        /\ peer' = [peer EXCEPT ![Socket(w)] = None]
        /\ client_socket' = [client_socket EXCEPT ![w] = NoFd]
        /\ client' = [client EXCEPT ![c] = IF @ = "open" THEN "closed" ELSE @]
        /\ Goto(w, "take")
        /\ UNCHANGED <<threadPool, newsockfd, up, files, backlog, sent, answer>>

-----------------------------------------------------------------------------
\* pthread_cond_wait returns although nobody signalled, as POSIX lets it.
SpuriousWakeup(t) ==
    /\ up /\ SpuriousWakeups
    /\ \/ t = Main /\ pc[t] = "full" /\ Goto(t, "awoken")
       \/ t \in Workers /\ pc[t] = "idle" /\ Goto(t, "take")
    /\ UNCHANGED <<threadPool, newsockfd, client_socket, up, peer, files, net>>

MainStep == Accept \/ AcceptError \/ Insert \/ WaitForSpace \/ InsertAfterWait

WorkerStep(w) ==
    \/ Take(w) \/ WaitForItem(w)
    \/ Receive(w) \/ Compile(w) \/ Run(w) \/ Compare(w)
    \/ Reply(w) \/ ReplyMore(w) \/ ReplyToReset(w) \/ Close(w)

Next ==
    \/ MainStep
    \/ \E w \in Workers : WorkerStep(w)
    \/ \E t \in Threads : SpuriousWakeup(t)
    \/ \E c \in Conns : Connect(c) \/ Send(c) \/ Leave(c)

Spec == Init /\ [][Next]_vars

\* The operating system runs every thread that can run, and a client that
\* has connected goes on to send its file (or leaves).
Fairness ==
    /\ WF_vars(MainStep)
    /\ \A w \in Workers : WF_vars(WorkerStep(w))
    /\ \A c \in Conns : WF_vars(Send(c))

FairSpec == Spec /\ Fairness
-----------------------------------------------------------------------------
MainLabels == {"accept", "insert", "full", "awoken"}
WorkerLabels == {"take", "idle", "receive", "compile", "run", "compare",
                 "reply", "reply more", "close"}
Reports == [of: Conns \cup {None}, verdict: Verdicts \cup {NoAnswer}]

\* Every variable holds a value of its type.
TypeOK ==
    /\ threadPool \in QueueType(Fds \cup {NoFd})
    /\ pc \in [Threads -> MainLabels \cup WorkerLabels]
    /\ pc[Main] \in MainLabels /\ \A w \in Workers : pc[w] \in WorkerLabels
    /\ newsockfd \in Fds \cup {NoFd}
    /\ client_socket \in [Workers -> Fds \cup {NoFd}]
    /\ up \in BOOLEAN
    /\ peer \in [Fds -> Conns \cup {None}]
    /\ code \in [Fds -> Conns \cup {None}]
    /\ exe \in [Fds -> Conns \cup {None}]
    /\ report \in [Fds -> Reports]
    /\ backlog \in Seq(Conns)
    /\ client \in [Conns -> {"new", "open", "gone", "closed"}]
    /\ sent \in SUBSET Conns
    /\ answer \in [Conns -> Verdicts \cup {NoAnswer}]

\* front, rear and size of the circular queue agree, after every push and pop
\* of main and the workers.
QueueWellFormed == WellFormed(threadPool)

Held(t) == IF t = Main THEN newsockfd ELSE client_socket[t]
Queue == Contents(threadPool)
Queued == {Queue[i] : i \in 1 .. Len(Queue)}

\* A descriptor is in one place: one thread's variable or one place in the
\* queue.  Since every file of a grading is named after the descriptor, this
\* is what keeps two workers from writing each other's received_code%d.c and
\* from closing each other's sockets.
SocketOwnedOnce ==
    /\ \A i, j \in 1 .. Len(Queue) : Queue[i] = Queue[j] => i = j
    /\ \A t \in Threads : Held(t) \notin Queued
    /\ \A t, u \in Threads : Held(t) = Held(u) /\ Held(t) # NoFd => t = u

\* The inductive invariant behind SocketOwnedOnce: also, a thread holds a
\* descriptor exactly from accept to push and from pop to close, and what is
\* held or queued is open, so that accept returns none of it.
HeldOrQueued(fd) == fd \in Queued \/ \E t \in Threads : Held(t) = fd

Ownership ==
    /\ SocketOwnedOnce
    /\ NoFd \notin Queued
    /\ pc[Main] = "accept" <=> newsockfd = NoFd
    /\ \A w \in Workers : pc[w] \in {"take", "idle"} <=> client_socket[w] = NoFd
    /\ up => \A fd \in Fds : HeldOrQueued(fd) => peer[fd] # None

\* While the server runs, an accepted socket that is not yet closed is in the
\* queue or in some thread's hands: none is forgotten, which would leave its
\* client waiting for ever and its descriptor taken.  Nor does a thread or the
\* queue keep a descriptor that is closed, which accept could hand out again.
OpenSocketsAreOwned ==
    up => \A fd \in Fds : peer[fd] # None <=> HeldOrQueued(fd)

\* What a worker is about to send is about the program its client sent (or
\* about an empty file): never what another grading left in the files.
ReportIsOfTheClient ==
    up => \A w \in Workers :
            pc[w] = "reply" => Details(w).of \in {peer[Socket(w)], None}

\* The verdict a client reads is the one its own program deserves.
VerdictForTheRightClient ==
    \A c \in Conns : answer[c] \in {NoAnswer, VerdictOf(c)}

\* The inductive invariant behind it: the files named after a worker's
\* descriptor are about the connection of that descriptor at every step of
\* the grading.
GradingOf(w, c) ==
    LET f == FileName(Socket(w))
    IN  /\ pc[w] = "compile" => \/ code[f] = c
                                \/ code[f] = None /\ client[c] # "open"
        /\ pc[w] = "run" => exe[f] = c /\ Compiles(c)
        /\ pc[w] = "compare" => exe[f] = c /\ ProgramOf(c) \in {"wrong", "right"}
        /\ pc[w] = "reply" => \/ report[f] = [of |-> c, verdict |-> VerdictOf(c)]
                              \/ report[f].of = None /\ client[c] # "open"

Grading ==
    /\ up => \A w \in Workers : GradingOf(w, peer[Socket(w)])
    /\ \A i \in 1 .. Len(backlog) : client[backlog[i]] # "new"
    /\ \A fd \in Fds : peer[fd] # None => client[peer[fd]] # "new"
    /\ VerdictForTheRightClient

\* When main comes back from waiting for space there is space: the push that
\* follows, with no second isFull test, does not drop the socket.
WakeupMeansSpace == pc[Main] = "awoken" => ~isFull(threadPool)

\* Main sleeps only while the queue is full: the signal of the pop that makes
\* room is not lost.
NoLostSpaceSignal == up /\ pc[Main] = "full" => isFull(threadPool)

\* When workers sleep, so many others are on their way to the queue that
\* every queued socket will be taken: the signals of push are not lost.
NoLostItemSignal ==
    up /\ (\E w \in Workers : pc[w] = "idle") =>
        Cardinality({w \in Workers : pc[w] = "take"}) >= threadPool.size

\* The circular queue is a FIFO queue of max_size descriptors.
Fifo == INSTANCE BoundedFifo WITH
            waiting <- Queue, Elements <- Fds, Capacity <- MaxSize
QueueIsFifo == Fifo!FifoSpec

\* The server with its queue, threads and files implements the abstract
\* grading service.
Service == INSTANCE GradingService WITH
            Submissions <- Conns, Verdict <- VerdictOf,
            waitingFor <- {c \in Conns : client[c] = "open" /\ answer[c] = NoAnswer}
ImplementsService == Service!ServiceSpec

\* A client that connects gets its verdict, unless it leaves.
EveryClientIsAnswered ==
    \A c \in Conns :
        client[c] = "open" ~> answer[c] = VerdictOf(c) \/ client[c] = "gone"

\* readme:25, "these threads continuously servers the requests infinite
\* times": every worker comes back to the queue for the next request.
WorkersServeForever == \A w \in Workers : []<>(pc[w] \in {"take", "idle"})
=============================================================================
