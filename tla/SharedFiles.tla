---------------------------- MODULE SharedFiles ----------------------------
(***************************************************************************)
(* The draft of the thread-per-request server that grades every request in *)
(* the same files, version8/server.c, with the clients of its load test,   *)
(* version8/client.c, which receive with a timeout and count successes and *)
(* errors.                                                                 *)
(*                                                                         *)
(* As in version 2, main accepts, starts a thread, sleeps for a second and *)
(* closes the descriptor; the second is long enough to start a thread and  *)
(* to receive a source that has been sent, and to grade it unless it is in *)
(* Slow.  The thread of a connection bears the connection's name.          *)
(***************************************************************************)
EXTENDS Naturals, Sequences, FiniteSets, FiniteSetsExt

CONSTANTS
    Clients,
    LoopNum(_),     \* the requests each client makes
    ProgramOf(_),   \* what becomes of its program when it is graded
    Slow,           \* clients whose program can take more than a second
    Impatient,      \* clients whose recv may time out
    BUFFER_SIZE,    \* bytes of the details, and most bytes of one recv
    Fds,            \* descriptors of the process: numbers, enough for one grading
    CreateMayFail,  \* pthread_create can fail
    NoAnswer, None

Programs == {"uncompilable", "failing", "wrong", "right"}
Verdicts == {"COMPILER ERROR", "RUNTIME ERROR", "Wrong output", "PASSED"}

\* A connection is a client's, for one of its requests.
Conns == UNION {{c} \X (1 .. LoopNum(c)) : c \in Clients}

ASSUME SharedFilesAssumption ==
    /\ IsFiniteSet(Clients) /\ Slow \cup Impatient \subseteq Clients
    /\ \A c \in Clients : LoopNum(c) \in Nat \ {0} /\ ProgramOf(c) \in Programs
    /\ Fds \subseteq Nat /\ IsFiniteSet(Fds) /\ Cardinality(Fds) > 1 /\ BUFFER_SIZE \in Nat \ {0}
    /\ CreateMayFail \in BOOLEAN /\ NoAnswer \notin Verdicts
    /\ None \notin Clients \cup Conns

VerdictOf(c) == CASE ProgramOf(c) = "uncompilable" -> "COMPILER ERROR"
                  [] ProgramOf(c) = "failing"      -> "RUNTIME ERROR"
                  [] ProgramOf(c) = "wrong"        -> "Wrong output"
                  [] ProgramOf(c) = "right"        -> "PASSED"

Owner(k) == k[1]
OpenFile == <<None, 0>>     \* what a descriptor is for that fopen has returned
NoConn == <<None, 1>>

VARIABLES
    up,             \* the server runs
    main,           \* "accept" or "sleep"
    newsockfd,      \* main's variable
    accepted,       \* the connection it was accepted for
    table,          \* the descriptor table
    backlog,        \* connections not yet accepted, in order
    pc,             \* where the thread of each connection is
    fd, fp,         \* each thread's two descriptors
    result,         \* and its verdict
    file_c, exe, out,   \* file.c, file and out.txt: whose they are
    at, round,      \* each client: where it is, and in which request
    sent,           \* connections over which the source has been sent
    avail,          \* by connection: bytes of replies not yet received
    errno,          \* connections reset by the server, not yet reported
    dead,           \* connections reset by the client
    success,        \* rounds counted as successes
    Error,          \* by round: how often it was counted as an error
    answers,        \* by connection: the verdicts sent on it
    late,           \* rounds whose thread main did not wait for
    timedOut,       \* rounds whose client closed the connection on a timeout
    unserved,       \* connections for which no thread was created
    overlapped      \* connections accepted while a thread ran, and that thread's

threads == <<pc, fd, fp, result>>
files   == <<file_c, exe, out>>
counts  == <<success, Error, timedOut>>
client  == <<at, round, sent, counts>>
net     == <<avail, errno, dead>>
notes   == <<late, unserved, overlapped>>
vars    == <<up, main, newsockfd, accepted, table, backlog, threads, files,
             client, net, answers, notes>>

Init ==
    /\ up = TRUE /\ main = "accept" /\ newsockfd = 0 /\ accepted = NoConn
    /\ table = [d \in Fds |-> NoConn] /\ backlog = <<>>
    /\ pc = [k \in Conns |-> "none"]
    /\ fd = [k \in Conns |-> 0] /\ fp = [k \in Conns |-> 0]
    /\ result = [k \in Conns |-> NoAnswer]
    /\ file_c = None /\ exe = None /\ out = None
    /\ at = [c \in Clients |-> "connect"] /\ round = [c \in Clients |-> 1]
    /\ sent = {} /\ avail = [k \in Conns |-> 0] /\ errno = {} /\ dead = {}
    /\ success = {} /\ Error = [k \in Conns |-> 0]
    /\ answers = [k \in Conns |-> {}]
    /\ late = {} /\ timedOut = {} /\ unserved = {} /\ overlapped = {}
-----------------------------------------------------------------------------
(* A client, version8/client.c.                                            *)

Conn(c) == <<c, round[c]>>
ClientAt(c, label) == at' = [at EXCEPT ![c] = label]

\* The client has closed its end of a connection, or has ended.
Gone(k) == k[2] < round[Owner(k)] \/ at[Owner(k)] = "end"

\* The server has closed its end, or has ended.
Closed(k) == ~up \/ /\ \A d \in Fds : table[d] # k
                    /\ \A i \in DOMAIN backlog : backlog[i] # k

\* Mutant: the loop counter is tested before it is decreased.
StepOnLate(c) ==
    IF round[c] > LoopNum(c)
    THEN ClientAt(c, "end") /\ UNCHANGED round
    ELSE ClientAt(c, "connect") /\ round' = [round EXCEPT ![c] = @ + 1]

StepOn(c) ==
    IF round[c] = LoopNum(c)
    THEN ClientAt(c, "end") /\ UNCHANGED round
    ELSE ClientAt(c, "connect") /\ round' = [round EXCEPT ![c] = @ + 1]

\* close, which resets the connection if there is more to receive, and the
\* loop head.
NextRound(c) ==
    /\ dead' = IF avail[Conn(c)] = 0 THEN dead ELSE dead \cup {Conn(c)}
    /\ StepOn(c)


CountError(k, n) == Error' = [Error EXCEPT ![k] = @ + n]

Connect(c) ==
    /\ at[c] = "connect"
    /\ IF up
       THEN /\ backlog' = Append(backlog, Conn(c))
            /\ ClientAt(c, "send") /\ UNCHANGED <<round, Error, dead>>
       ELSE CountError(Conn(c), 1) /\ NextRound(c) /\ UNCHANGED backlog
    /\ UNCHANGED <<up, main, newsockfd, accepted, table, threads, files, sent,
                   success, timedOut, avail, errno, answers, notes>>

\* send_file, of a source that fits in a chunk.
SendFile(c) ==
    /\ at[c] = "send" /\ ~Closed(Conn(c))
    /\ sent' = sent \cup {Conn(c)}
    /\ ClientAt(c, "receive")
    /\ UNCHANGED <<up, main, newsockfd, accepted, table, backlog, threads, files,
                   round, counts, net, answers, notes>>

\* The server has gone.  The size cannot be sent, and nothing is counted; or
\* the chunk cannot, is counted as an error, and the recv from the socket that
\* is closed by now as another; or both can, and a reset comes back; or
\* SIGPIPE ends the client.
SendFails(c) ==
    /\ at[c] = "send" /\ Closed(Conn(c))
    /\ \/ \E n \in {0, 2} : CountError(Conn(c), n) /\ NextRound(c) /\ UNCHANGED errno
       \/ /\ errno' = errno \cup {Conn(c)}
          /\ ClientAt(c, "receive") /\ UNCHANGED <<round, Error, dead>>
       \/ ClientAt(c, "end") /\ UNCHANGED <<round, Error, errno, dead>>
    /\ UNCHANGED <<up, main, newsockfd, accepted, table, backlog, threads, files,
                   sent, success, timedOut, avail, answers, notes>>

\* What a recv may do: return some bytes; 0 at the end; or -1, for a reset or
\* for the timeout.
SomeBytes(k) ==
    /\ \E n \in 1 .. BUFFER_SIZE : n <= avail[k] /\ avail' = [avail EXCEPT ![k] = @ - n]
    /\ UNCHANGED errno
EndOfFile(k) == /\ Closed(k) /\ avail[k] = 0 /\ k \notin errno
                /\ UNCHANGED <<avail, errno>>
WasReset(k)  == /\ k \in errno /\ errno' = errno \ {k}
                /\ avail' = [avail EXCEPT ![k] = 0]
TimesOut(k)  == /\ Owner(k) \in Impatient /\ ~Closed(k) /\ avail[k] = 0
                /\ UNCHANGED <<avail, errno>>

\* The first recv; what it returns is not looked at.
Receive(c) ==
    /\ at[c] = "receive"
    /\ SomeBytes(Conn(c)) \/ EndOfFile(Conn(c)) \/ WasReset(Conn(c)) \/ TimesOut(Conn(c))
    /\ ClientAt(c, "again")
    /\ UNCHANGED <<up, main, newsockfd, accepted, table, backlog, threads, files,
                   round, sent, counts, dead, answers, notes>>

\* Mutant: -1 is tested in the size_t that is there for it.
CountAnything(c) ==
    /\ at[c] = "again"
    /\ SomeBytes(Conn(c)) \/ EndOfFile(Conn(c)) \/ WasReset(Conn(c)) \/ TimesOut(Conn(c))
    /\ success' = success \cup {Conn(c)}
    /\ ClientAt(c, "sleep")
    /\ UNCHANGED <<up, main, newsockfd, accepted, table, backlog, threads, files,
                   round, sent, Error, timedOut, dead, answers, notes>>

\* The second recv.  n >= 0 is a success, the end of the connection too.
ReceiveAgain(c) ==
    /\ at[c] = "again"
    /\ SomeBytes(Conn(c)) \/ EndOfFile(Conn(c))
    /\ success' = success \cup {Conn(c)}
    /\ ClientAt(c, "sleep")
    /\ UNCHANGED <<up, main, newsockfd, accepted, table, backlog, threads, files,
                   round, sent, Error, timedOut, dead, answers, notes>>

ReceiveFails(c) ==
    /\ at[c] = "again"
    /\ \/ WasReset(Conn(c)) /\ UNCHANGED timedOut
       \/ TimesOut(Conn(c)) /\ timedOut' = timedOut \cup {Conn(c)}
    /\ CountError(Conn(c), 1)
    /\ NextRound(c)
    /\ UNCHANGED <<up, main, newsockfd, accepted, table, backlog, threads, files,
                   sent, success, answers, notes>>

SleepAndClose(c) ==
    /\ at[c] = "sleep"
    /\ NextRound(c)
    /\ UNCHANGED <<up, main, newsockfd, accepted, table, backlog, threads, files,
                   sent, counts, avail, errno, answers, notes>>
-----------------------------------------------------------------------------
(* The server, version8/server.c.                                          *)

FreeFds == {d \in Fds : table[d] = NoConn}
Running == {k \in Conns : pc[k] \notin {"none", "done"}}
Goto(k, label) == pc' = [pc EXCEPT ![k] = label]

\* Connections the server closes without having read all that was sent are
\* reset: those it has read nothing from, and perhaps those whose source has
\* left a last byte.
Resets(closed) ==
    LET K      == {k \in closed \cap sent : ~Gone(k)}
        unread == {k \in K : pc[k] \in {"none", "start", "receive"}}
    IN \E leftover \in SUBSET (K \ unread) : errno' = errno \cup unread \cup leftover

\* close(d), of whatever d is for.
Close(d) ==
    /\ table' = [table EXCEPT ![d] = NoConn]
    /\ Resets({table[d]})

\* exit(1), or SIGPIPE.
Terminate ==
    /\ up' = FALSE
    /\ Resets({k \in Conns : ~Closed(k)})
    /\ UNCHANGED <<main, newsockfd, accepted, table, backlog, threads, files,
                   client, avail, dead, answers, notes>>

\* accept, and pthread_create.  A new thread copies newsockfd.
Accept ==
    /\ up /\ main = "accept" /\ backlog # <<>> /\ FreeFds # {}
    /\ LET k == Head(backlog)  d == Min(FreeFds) IN
       /\ accepted' = k /\ newsockfd' = d
       /\ table' = [table EXCEPT ![d] = k]
       /\ \/ /\ Goto(k, "start") /\ fd' = [fd EXCEPT ![k] = d]
             /\ UNCHANGED unserved
          \/ /\ CreateMayFail
             /\ unserved' = unserved \cup {k}
             /\ UNCHANGED <<pc, fd>>
       /\ overlapped' = IF Running = {} THEN overlapped
                        ELSE overlapped \cup Running \cup {k}
    /\ backlog' = Tail(backlog) /\ main' = "sleep"
    /\ UNCHANGED <<up, fp, result, files, client, net, answers, late>>

\* Mutant: main closes at once.
NoSleep == pc[accepted] \notin {"start", "receive"}

\* The second is over.
SleepIsOver ==
    /\ accepted \in sent \/ Gone(accepted)
    /\ pc[accepted] \notin {"start", "receive"}
    /\ pc[accepted] \in {"none", "done"} \/ Owner(accepted) \in Slow

CloseAfterSleep ==
    /\ up /\ main = "sleep" /\ SleepIsOver
    /\ Close(newsockfd)
    /\ late' = IF pc[accepted] \in {"none", "done"} THEN late ELSE late \cup {accepted}
    /\ main' = "accept"
    /\ UNCHANGED <<up, newsockfd, accepted, backlog, threads, files, client,
                   avail, dead, answers, unserved, overlapped>>

\* fopen takes the lowest descriptor; that of file.c empties the file, unless
\* there is no descriptor: then the thread closes its connection and ends.
Opens(k) ==
    /\ FreeFds # {}
    /\ fp' = [fp EXCEPT ![k] = Min(FreeFds)]
    /\ table' = [table EXCEPT ![Min(FreeFds)] = OpenFile]

OpenSource(k) ==
    /\ up /\ pc[k] = "start"
    /\ \/ /\ Opens(k)
          /\ file_c' = None
          /\ Goto(k, "receive") /\ UNCHANGED errno
       \/ /\ FreeFds = {}
          /\ Close(fd[k])
          /\ Goto(k, "done") /\ UNCHANGED <<fp, file_c>>
    /\ UNCHANGED <<up, main, newsockfd, accepted, backlog, fd, result, exe, out,
                   client, avail, dead, answers, notes>>

\* What is written to file.c gets there with fclose, if no other thread has
\* closed the descriptor, for its connection's.
Writable(k) ==
    table[fp[k]] = OpenFile /\ \A l \in Running \ {k} : pc[l] = "details" => fp[l] # fp[k]

\* The rest of recv_file.  If another thread has closed the connection's
\* descriptor, recv's -1 is taken for a length, and file.c gets what was in
\* memory, or the server a signal.
ReceiveFile(k) ==
    /\ up /\ pc[k] = "receive"
    /\ \/ /\ \/ /\ table[fd[k]] = k /\ k \in sent
                /\ file_c' = IF Writable(k) THEN k ELSE None
             \/ table[fd[k]] # k /\ file_c' = None
          /\ Close(fp[k])
          /\ Goto(k, "compile")
          /\ UNCHANGED <<up, main, newsockfd, accepted, backlog, fd, fp, result,
                         exe, out, client, avail, dead, answers, notes>>
       \/ table[fd[k]] # k /\ Terminate

Answer(k, verdict) ==
    /\ result' = [result EXCEPT ![k] = verdict]
    /\ Goto(k, "reply")

Program(k) == ProgramOf(Owner(k))

\* Mutant: the status of gcc is ignored.
CompileAnyway(k) ==
    /\ up /\ pc[k] = "compile"
    /\ exe' = IF file_c # None /\ Program(file_c) # "uncompilable" THEN file_c ELSE exe
    /\ Goto(k, "run") /\ UNCHANGED result
    /\ UNCHANGED <<up, main, newsockfd, accepted, table, backlog, fd, fp, file_c,
                   out, client, net, answers, notes>>

Compile(k) ==
    /\ up /\ pc[k] = "compile"
    /\ IF file_c = None \/ Program(file_c) = "uncompilable"
       THEN Answer(k, "COMPILER ERROR") /\ UNCHANGED exe
       ELSE exe' = file_c /\ Goto(k, "run") /\ UNCHANGED result
    /\ UNCHANGED <<up, main, newsockfd, accepted, table, backlog, fd, fp, file_c,
                   out, client, net, answers, notes>>

Run(k) ==
    /\ up /\ pc[k] = "run"
    /\ IF exe = None \/ Program(exe) = "failing"
       THEN out' = None /\ Answer(k, "RUNTIME ERROR")
       ELSE out' = exe /\ Goto(k, "compare") /\ UNCHANGED result
    /\ UNCHANGED <<up, main, newsockfd, accepted, table, backlog, fd, fp, file_c,
                   exe, client, net, answers, notes>>

\* diff.
Compare(k) ==
    /\ up /\ pc[k] = "compare"
    /\ Answer(k, IF out # None /\ Program(out) = "right" THEN "PASSED" ELSE "Wrong output")
    /\ UNCHANGED <<up, main, newsockfd, accepted, table, backlog, fd, fp, files,
                   client, net, answers, notes>>

\* send, to whatever the descriptor is for by now.  The first send to a client
\* that has gone is answered with a reset, the next may fail.
SendTo(d, bytes) ==
    /\ table[d] \in Conns
    /\ IF Gone(table[d])
       THEN dead' = dead \cup {table[d]} /\ UNCHANGED avail
       ELSE avail' = [avail EXCEPT ![table[d]] = @ + bytes] /\ UNCHANGED dead
SendMayFail(d) == table[d] \in dead \/ table[d] \notin Conns

\* The verdict; error() if it cannot be sent.
Reply(k) ==
    /\ up /\ pc[k] = "reply"
    /\ \/ /\ SendTo(fd[k], 1)
          /\ answers' = [answers EXCEPT ![table[fd[k]]] = @ \cup {result[k]}]
          /\ Goto(k, "open")
          /\ UNCHANGED <<up, main, newsockfd, accepted, table, backlog, fd, fp,
                         result, files, client, errno, notes>>
       \/ SendMayFail(fd[k]) /\ Terminate

\* The details are opened on main's socket's descriptor if main has just closed
\* it; fread ends the server if they could not be opened.
OpenDetails(k) ==
    /\ up /\ pc[k] = "open"
    /\ \/ /\ Opens(k)
          /\ Goto(k, "details")
          /\ UNCHANGED <<up, main, newsockfd, accepted, backlog, fd, result,
                         files, client, net, answers, notes>>
       \/ FreeFds = {} /\ Terminate

\* The details, whether they can be sent or not unless that raises SIGPIPE,
\* and fclose.
ReplyDetails(k) ==
    /\ up /\ pc[k] = "details"
    /\ \/ /\ \/ SendTo(fd[k], BUFFER_SIZE)
             \/ SendMayFail(fd[k]) /\ UNCHANGED <<avail, dead>>
          /\ Close(fp[k])
          /\ Goto(k, "close")
          /\ UNCHANGED <<up, main, newsockfd, accepted, backlog, fd, fp, result,
                         files, client, answers, notes>>
       \/ /\ table[fd[k]] \in dead
          /\ Terminate

CloseAndExit(k) ==
    /\ up /\ pc[k] = "close"
    /\ Close(fd[k])
    /\ Goto(k, "done")
    /\ UNCHANGED <<up, main, newsockfd, accepted, backlog, fd, fp, result, files,
                   client, avail, dead, answers, notes>>
-----------------------------------------------------------------------------
ClientStep(c) == Connect(c) \/ SendFile(c) \/ SendFails(c) \/ Receive(c)
                 \/ ReceiveAgain(c) \/ ReceiveFails(c) \/ SleepAndClose(c)

ThreadStep(k) == OpenSource(k) \/ ReceiveFile(k) \/ Compile(k) \/ Run(k) \/ Compare(k)
                 \/ Reply(k) \/ OpenDetails(k) \/ ReplyDetails(k) \/ CloseAndExit(k)

Next ==
    \/ Accept \/ CloseAfterSleep
    \/ \E k \in Conns : ThreadStep(k)
    \/ \E c \in Clients : ClientStep(c)

Spec == Init /\ [][Next]_vars
-----------------------------------------------------------------------------
Contents == Conns \cup {NoConn, OpenFile}

Labels == {"none", "start", "receive", "compile", "run", "compare", "reply", "open",
           "details", "close", "done"}
Places == {"connect", "send", "receive", "again", "sleep", "end"}

TypeOK ==
    /\ up \in BOOLEAN /\ main \in {"accept", "sleep"}
    /\ newsockfd \in Fds \cup {0} /\ accepted \in Conns \cup {NoConn}
    /\ table \in [Fds -> Contents] /\ backlog \in Seq(Conns)
    /\ pc \in [Conns -> Labels]
    /\ fd \in [Conns -> Fds \cup {0}] /\ fp \in [Conns -> Fds \cup {0}]
    /\ result \in [Conns -> Verdicts \cup {NoAnswer}]
    /\ {file_c, exe, out} \subseteq Conns \cup {None}
    /\ at \in [Clients -> Places]
    /\ round \in [Clients -> Nat] /\ \A c \in Clients : round[c] \in 1 .. LoopNum(c)
    /\ avail \in [Conns -> Nat] /\ Error \in [Conns -> 0 .. 2]
    /\ answers \in [Conns -> SUBSET Verdicts]
    /\ success \cup timedOut \cup errno \cup dead \cup sent \subseteq Conns
    /\ late \cup unserved \cup overlapped \subseteq Conns

\* All requests are graded in file.c, file and out.txt, on descriptors that
\* main closes under their threads and accept returns again.  All the same a
\* connection only ever gets the verdict its program deserves, unless it was
\* accepted while another was graded, or another was while it was graded, which
\* takes a grading longer than the second.
VerdictUnlessOverlapped ==
    \A k \in Conns \ overlapped : answers[k] \subseteq {VerdictOf(Owner(k))}

\* A verdict that cannot be sent ends the server.  As long as no grading takes
\* longer than the second and no client's timeout makes it close early, that
\* does not happen, and neither does the lack of a descriptor for the details.
EndsOnlyFor == ~up => timedOut # {} \/ \E k \in late : Owner(k) \in Slow

\* What the load test reports as its result: while the server runs and no
\* gradings overlap, each round is counted once, as a success or as an error;
\* and a success was sent its verdict, unless the server closed the connection
\* under a grading or had no thread for it, which the client cannot tell from
\* an answer.
CountsAreRight ==
    up /\ overlapped = {} =>
        \A k \in Conns :
            /\ Gone(k) => (IF k \in success THEN 1 ELSE 0) + Error[k] = 1
            /\ k \in success => answers[k] # {} \/ k \in late \cup unserved
=============================================================================
