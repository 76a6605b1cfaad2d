-------------------------- MODULE ThreadPerRequest --------------------------
(***************************************************************************)
(* The server that creates a thread for every request, version 2/server.c. *)
(*                                                                         *)
(* The main thread accepts a connection, starts a thread with the address  *)
(* of its own variable newsockfd as the argument, sleeps for a second and  *)
(* then closes the descriptor, whatever the thread is doing with it.  The  *)
(* thread grades into files named after the descriptor and closes it too.  *)
(*                                                                         *)
(* Time is modelled by what the second is long enough for: starting a      *)
(* thread and receiving a source always, compiling and running it unless   *)
(* the connection is in Slow.  A client sends its source as it connects.   *)
(* The thread of a connection bears the connection's name.                 *)
(***************************************************************************)
EXTENDS Naturals, Sequences, FiniteSets

CONSTANTS
    Conns,           \* connections, each with the program sent over it
    Fds, NoFd,       \* descriptors the process can have
    None,            \* no connection / an empty file
    SourceFile,      \* what a descriptor is for that creat has returned
    NoAnswer,
    ProgramOf(_),    \* what becomes of a program when it is graded
    Slow,            \* programs whose grading can last more than a second
    Impatient,       \* connections whose client may leave early
    CreateMayFail    \* pthread_create can fail

Programs == {"uncompilable", "failing", "wrong", "right"}

Verdicts == {"COMPILER ERROR", "RUNTIME ERROR", "Wrong output", "PASSED"}

ASSUME ThreadPerRequestAssumption ==
    /\ NoFd \notin Fds
    /\ None \notin Conns /\ SourceFile \notin Conns \cup {None}
    /\ NoAnswer \notin Verdicts
    /\ \A c \in Conns : ProgramOf(c) \in Programs
    /\ Slow \subseteq Conns /\ Impatient \subseteq Conns
    /\ CreateMayFail \in BOOLEAN

\* The verdict a submission deserves.
VerdictOf(c) == CASE ProgramOf(c) = "uncompilable" -> "COMPILER ERROR"
                  [] ProgramOf(c) = "failing"      -> "RUNTIME ERROR"
                  [] ProgramOf(c) = "wrong"        -> "Wrong output"
                  [] ProgramOf(c) = "right"        -> "PASSED"

VARIABLES
    main,               \* where the main thread is: "accept" or "sleep"
    newsockfd,          \* main's variable, which new threads read
    pc,                 \* where the thread of each connection is
    fd, result,         \* each thread's descriptor and verdict
    up,                 \* the process is running
    peer,               \* descriptor table
    code, exe, output,  \* by file name: whose src%d.c, exe%d and op%d.txt
    backlog,            \* connections not yet accepted, in order
    client,             \* each connection: "new", "open", "gone", "closed"
    unread,             \* connections whose source has not been received
    answer              \* the verdict each client has got

threads == <<pc, fd, result>>
files   == <<code, exe, output>>
net     == <<backlog, client, unread, answer>>
vars    == <<main, newsockfd, pc, fd, result, up, peer, code, exe, output,
             backlog, client, unread, answer>>

Init ==
    /\ main = "accept" /\ newsockfd = NoFd
    /\ pc = [c \in Conns |-> "none"]
    /\ fd = [c \in Conns |-> NoFd]
    /\ result = [c \in Conns |-> NoAnswer]
    /\ up = TRUE
    /\ peer = [d \in Fds |-> None]
    /\ code = [d \in Fds \cup {NoFd} |-> None]
    /\ exe = [d \in Fds \cup {NoFd} |-> None]
    /\ output = [d \in Fds \cup {NoFd} |-> None]
    /\ backlog = <<>>
    /\ client = [c \in Conns |-> "new"]
    /\ unread = {}
    /\ answer = [c \in Conns |-> NoAnswer]

-----------------------------------------------------------------------------
(* The clients.                                                            *)

Connect(c) ==
    /\ up /\ client[c] = "new"
    /\ client' = [client EXCEPT ![c] = "open"]
    /\ backlog' = Append(backlog, c)
    /\ unread' = unread \cup {c}
    /\ UNCHANGED <<main, newsockfd, threads, up, peer, files, answer>>

\* The client is gone before it has sent anything.
ConnectOnly(c) ==
    /\ up /\ client[c] = "new" /\ c \in Impatient
    /\ client' = [client EXCEPT ![c] = "gone"]
    /\ backlog' = Append(backlog, c)
    /\ UNCHANGED <<main, newsockfd, threads, up, peer, files, unread, answer>>

\* The client's recv times out, or it is killed.
Leave(c) ==
    /\ client[c] = "open" /\ c \in Impatient
    /\ client' = [client EXCEPT ![c] = "gone"]
    /\ UNCHANGED <<main, newsockfd, threads, up, peer, files,
                   backlog, unread, answer>>

-----------------------------------------------------------------------------
(* Descriptors are the process's, not a thread's.                          *)

Free == {d \in Fds : peer[d] = None}
Opened(d) == IF d \in Fds THEN peer[d] ELSE None

\* close(d).  When d is a socket its client reads end of file.
Close(d, table) ==
    /\ peer' = [e \in Fds |-> IF e = d THEN None ELSE table[e]]
    /\ client' = [c \in Conns |-> IF client[c] = "open" /\ Opened(d) = c
                                  THEN "closed" ELSE client[c]]

\* exit(1), a signal or a crash in any thread ends the process.
Terminate ==
    /\ up' = FALSE
    /\ peer' = [d \in Fds |-> None]
    /\ client' = [c \in Conns |-> IF client[c] = "open" THEN "closed" ELSE client[c]]
    /\ UNCHANGED <<main, newsockfd, threads, files, backlog, unread, answer>>

-----------------------------------------------------------------------------
(* The main thread.                                                        *)

\* accept and pthread_create, which only touches the new thread.
Accept ==
    /\ up /\ main = "accept" /\ backlog # <<>>
    /\ \E d \in Free : /\ newsockfd' = d
                       /\ peer' = [peer EXCEPT ![d] = Head(backlog)]
    /\ backlog' = Tail(backlog)
    /\ main' = "sleep"
    /\ \/ pc' = [pc EXCEPT ![Head(backlog)] = "start"]
       \/ CreateMayFail /\ UNCHANGED pc
    /\ UNCHANGED <<fd, result, up, files, client, unread, answer>>

\* The connection was aborted while it waited: perror and continue.
AcceptError ==
    /\ up /\ main = "accept" /\ backlog # <<>>
    /\ client[Head(backlog)] = "gone"
    /\ newsockfd' = NoFd
    /\ backlog' = Tail(backlog)
    /\ UNCHANGED <<main, threads, up, peer, files, client, unread, answer>>

\* What the second is long enough for.
NoSleep == TRUE                       \* mutant: main does not sleep
SleepIsOver ==
    /\ \A c \in Conns : pc[c] \notin {"start", "receive"}
    /\ \A c \in Conns \ Slow : pc[c] \in {"none", "done"}

\* Mutant: main leaves the descriptor to the thread.
SleepOnly ==
    /\ up /\ main = "sleep" /\ SleepIsOver
    /\ main' = "accept"
    /\ UNCHANGED <<newsockfd, threads, up, peer, files, net>>

\* close(newsockfd) after sleep(1).
CloseAfterSleep ==
    /\ up /\ main = "sleep" /\ SleepIsOver
    /\ Close(newsockfd, peer)
    /\ main' = "accept"
    /\ UNCHANGED <<newsockfd, threads, up, files, backlog, unread, answer>>

-----------------------------------------------------------------------------
(* The thread of connection t.                                             *)

FileName(t) == fd[t]
Goto(t, label) == pc' = [pc EXCEPT ![t] = label]

\* int newsockfd = *(int *)fd.
PickUp(t) ==
    /\ up /\ pc[t] = "start"
    /\ fd' = [fd EXCEPT ![t] = newsockfd]
    /\ Goto(t, "receive")
    /\ UNCHANGED <<main, newsockfd, result, up, peer, files, net>>

\* creat, whose descriptor nobody ever closes, and recv_file, which for a
\* moment needs one more.  A failing recv is taken for data: bytes_read is
\* unsigned and only 0 is seen as an error.
Receive(t) ==
    LET c == Opened(fd[t])
    IN  /\ up /\ pc[t] = "receive"
        /\ Cardinality(Free) >= 2
        /\ c \in unread \/ c \notin Conns
        /\ \E d \in Free : peer' = [peer EXCEPT ![d] = SourceFile]
        /\ code' = [code EXCEPT ![FileName(t)] = IF c \in unread THEN c ELSE None]
        /\ unread' = unread \ {c}
        /\ Goto(t, "compile")
        /\ UNCHANGED <<main, newsockfd, fd, result, up, exe, output,
                       backlog, client, answer>>

\* recv_file returns -1, at end of file or because fopen has no descriptor
\* left: the thread closes the socket and exits.
ReceiveFails(t) ==
    LET c == Opened(fd[t])
    IN  /\ up /\ pc[t] = "receive"
        /\ \/ Cardinality(Free) < 2
           \/ c \in Conns \ unread /\ client[c] # "open"
        /\ IF Free = {}
           THEN Close(fd[t], peer)
           ELSE \E d \in Free : Close(fd[t], [peer EXCEPT ![d] = SourceFile])
        /\ code' = IF Free = {} THEN code ELSE [code EXCEPT ![FileName(t)] = None]
        /\ Goto(t, "done")
        /\ UNCHANGED <<main, newsockfd, fd, result, up, exe, output,
                       backlog, unread, answer>>

\* Mutant: the verdict is not kept.
ReplyWithNothing(t, verdict) ==
    /\ UNCHANGED result
    /\ Goto(t, "reply")

ReplyWith(t, verdict) ==
    /\ result' = [result EXCEPT ![t] = verdict]
    /\ Goto(t, "reply")

Compile(t) ==
    LET c == code[FileName(t)]
    IN  /\ up /\ pc[t] = "compile"
        /\ IF c # None /\ ProgramOf(c) # "uncompilable"
           THEN /\ exe' = [exe EXCEPT ![FileName(t)] = c]
                /\ Goto(t, "run")
                /\ UNCHANGED result
           ELSE /\ ReplyWith(t, "COMPILER ERROR")
                /\ UNCHANGED exe
        /\ UNCHANGED <<main, newsockfd, fd, up, peer, code, output, net>>

Run(t) ==
    LET c == exe[FileName(t)]
    IN  /\ up /\ pc[t] = "run"
        /\ output' = [output EXCEPT ![FileName(t)] = c]
        /\ IF ProgramOf(c) = "failing"
           THEN ReplyWith(t, "RUNTIME ERROR")
           ELSE Goto(t, "compare") /\ UNCHANGED result
        /\ UNCHANGED <<main, newsockfd, fd, up, peer, code, exe, net>>

\* Mutant: diff's exit status is ignored.
CompareIgnored(t) ==
    /\ up /\ pc[t] = "compare"
    /\ ReplyWith(t, "PASSED")
    /\ UNCHANGED <<main, newsockfd, fd, up, peer, files, net>>

\* diff, whose exit status is the verdict.
Compare(t) ==
    /\ up /\ pc[t] = "compare"
    /\ ReplyWith(t, IF ProgramOf(output[FileName(t)]) = "right"
                    THEN "PASSED" ELSE "Wrong output")
    /\ UNCHANGED <<main, newsockfd, fd, up, peer, files, net>>

\* Two of the verdicts are followed by the text of err%d.txt.
HasDetails(t) == result[t] \in {"COMPILER ERROR", "RUNTIME ERROR"}

\* The first send, on what the descriptor is for by now.  Only after RUNTIME
\* ERROR is a failing one noticed, and then error() ends the process.
Reply(t) ==
    LET c == Opened(fd[t])
    IN  /\ up /\ pc[t] = "reply"
        /\ IF c \notin Conns /\ result[t] = "RUNTIME ERROR"
           THEN Terminate
           ELSE /\ answer' = IF c \in Conns /\ client[c] = "open"
                                             /\ answer[c] = NoAnswer
                             THEN [answer EXCEPT ![c] = result[t]] ELSE answer
                /\ Goto(t, IF HasDetails(t) THEN "details" ELSE "close")
                /\ UNCHANGED <<main, newsockfd, fd, result, up, peer, files,
                               backlog, client, unread>>

\* err%d.txt, read and sent.
ReplyDetails(t) ==
    /\ up /\ pc[t] = "details"
    /\ Free # {}
    /\ Goto(t, "close")
    /\ UNCHANGED <<main, newsockfd, fd, result, up, peer, files, net>>

\* The second send to a client that is gone can raise SIGPIPE; without a
\* descriptor for err%d.txt fopen returns NULL, which fread then uses.
ReplyDetailsFatal(t) ==
    LET c == Opened(fd[t])
    IN  /\ up /\ pc[t] = "details"
        /\ Free = {} \/ (c \in Conns /\ client[c] = "gone")
        /\ Terminate

\* close(newsockfd) and pthread_exit.
CloseAndExit(t) ==
    /\ up /\ pc[t] = "close"
    /\ Close(fd[t], peer)
    /\ Goto(t, "done")
    /\ UNCHANGED <<main, newsockfd, fd, result, up, files, backlog, unread, answer>>

-----------------------------------------------------------------------------
MainStep == Accept \/ AcceptError \/ CloseAfterSleep

ThreadStep(t) ==
    \/ PickUp(t) \/ Receive(t) \/ ReceiveFails(t) \/ Compile(t) \/ Run(t)
    \/ Compare(t) \/ Reply(t) \/ ReplyDetails(t) \/ ReplyDetailsFatal(t)
    \/ CloseAndExit(t)

Next ==
    \/ MainStep
    \/ \E t \in Conns : ThreadStep(t)
    \/ \E c \in Conns : Connect(c) \/ ConnectOnly(c) \/ Leave(c)

Spec == Init /\ [][Next]_vars
-----------------------------------------------------------------------------
Labels == {"none", "start", "receive", "compile", "run", "compare",
           "reply", "details", "close", "done"}

\* Every variable holds a value of its type, and a thread about to reply has
\* a verdict.
TypeOK ==
    /\ main \in {"accept", "sleep"}
    /\ newsockfd \in Fds \cup {NoFd}
    /\ pc \in [Conns -> Labels]
    /\ fd \in [Conns -> Fds \cup {NoFd}]
    /\ result \in [Conns -> Verdicts \cup {NoAnswer}]
    /\ \A t \in Conns : pc[t] \in {"reply", "details"} => result[t] \in Verdicts
    /\ up \in BOOLEAN
    /\ peer \in [Fds -> Conns \cup {None, SourceFile}]
    /\ code \in [Fds \cup {NoFd} -> Conns \cup {None}]
    /\ exe \in [Fds \cup {NoFd} -> Conns \cup {None}]
    /\ output \in [Fds \cup {NoFd} -> Conns \cup {None}]
    /\ backlog \in Seq(Conns)
    /\ client \in [Conns -> {"new", "open", "gone", "closed"}]
    /\ unread \in SUBSET Conns
    /\ answer \in [Conns -> Verdicts \cup {NoAnswer}]

\* A thread that grades still has its own client's connection on its
\* descriptor: main has neither overwritten newsockfd before the thread read
\* it, nor closed the socket under it and accepted another connection there.
SocketIsMine ==
    up => \A t \in Conns :
            pc[t] \in Labels \ {"none", "start", "done"} => Opened(fd[t]) = t

\* Descriptors come back: when main accepts, the only sockets that are open
\* are those of threads at work.  So however many source files have been left
\* open, accept itself always finds a free descriptor.
SocketsComeBack ==
    up /\ main = "accept" =>
        /\ \A d \in Fds : peer[d] \in Conns => pc[peer[d]] \notin {"none", "done"}
        /\ Free # {}

\* readme:1, "grading the code send by client": the verdict a client reads is
\* the one its own program deserves.
VerdictForTheRightClient ==
    \A c \in Conns : answer[c] \in {NoAnswer, VerdictOf(c)}

\* The server implements the abstract grading service.
Service == INSTANCE GradingService WITH
            Submissions <- Conns, Verdict <- VerdictOf,
            waitingFor <- {c \in Conns : client[c] = "open" /\ answer[c] = NoAnswer}
ImplementsService == Service!ServiceSpec
=============================================================================
