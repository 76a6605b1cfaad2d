---------------------------- MODULE SingleServer ----------------------------
(***************************************************************************)
(* The single-threaded server, version7/server.c, with the clients of its  *)
(* load test, version7/client.c.  A client connects, sends its source with *)
(* send_file, receives twice, counts a success, and does it again; the     *)
(* server takes one connection after the other, receives into file.c,      *)
(* grades, sends a verdict and BUFFER_SIZE bytes of details, and closes.   *)
(*                                                                         *)
(* Connections carry bytes: what is sent with one send may be received in  *)
(* pieces, and what is sent with two may be received with one.  A client   *)
(* can be killed; its connection then ends, or is reset.                   *)
(*                                                                         *)
(* The byte that send_file adds to a chunk is a NUL, and recv_file writes  *)
(* it into file.c.  At the end of a source it changes nothing; in the      *)
(* middle it may, by where it falls, change nothing, keep the source from  *)
(* compiling, or change a literal and with it what the program prints.     *)
(***************************************************************************)
EXTENDS FileTransfer, Sequences, FiniteSets

CONSTANTS
    Clients,
    LoopNum(_),     \* the requests each client makes
    SizeOf(_),      \* the size of the source of each client
    ProgramOf(_),   \* what becomes of its program when it is graded
    Killable,       \* clients that may be killed
    NoAnswer, Nobody,
    MaxFds          \* descriptors the server has for sockets and files

Programs == {"uncompilable", "failing", "wrong", "right"}
Verdicts == {"COMPILER ERROR", "RUNTIME ERROR", "Wrong output", "PASSED"}

ASSUME SingleServerAssumption ==
    /\ IsFiniteSet(Clients) /\ Killable \subseteq Clients /\ Nobody \notin Clients
    /\ MaxFds \in Nat
    /\ \A c \in Clients : LoopNum(c) \in Nat \ {0} /\ SizeOf(c) \in Nat /\ ProgramOf(c) \in Programs
    /\ \A c \in Clients : StreamLength(SizeOf(c)) <= SIZE_MAX
    /\ NoAnswer \notin Verdicts

Verdict(p) == CASE p = "uncompilable" -> "COMPILER ERROR"
                [] p = "failing"      -> "RUNTIME ERROR"
                [] p = "wrong"        -> "Wrong output"
                [] p = "right"        -> "PASSED"

VerdictOf(c) == Verdict(ProgramOf(c))

\* A connection is a client's, for one of its requests.
Conns == UNION {{c} \X (1 .. LoopNum(c)) : c \in Clients}
NoConn == <<Nobody, 0>>

\* The bytes of the two sends of a reply.  The verdict, at most 15 bytes and
\* the first that the server sends on the connection, travels in one segment
\* and is a unit.
VerdictLength == 1
DetailsLength == BUFFER_SIZE

VARIABLES
    up,             \* the server runs
    pc,             \* where it is
    newsockfd,      \* the connection it works on
    total,          \* total_bytes_read
    file,           \* file.c: whose, and the bytes received of it, or junk
    exe,            \* the program "file": whose it is, and what it is as
                    \* it was compiled
    result,         \* the verdict
    open,           \* the connections whose descriptors the server has open
    backlog,        \* connections not yet accepted, in order
    at, round,      \* each client: where it is, and in which request
    left, sent,     \* by connection: bytes of the file not read yet by
                    \* send_file, and bytes it has sent
    link,           \* by connection: the client's end
    avail,          \* by connection: bytes of the reply not yet received
    counted,        \* the requests that have been counted as successes
    answer          \* by connection: the verdict that has been sent

server  == <<pc, newsockfd, total, file, exe, result>>
client  == <<at, round, left, counted>>
vars    == <<up, pc, newsockfd, total, file, exe, result, open, backlog,
             at, round, left, sent, link, avail, counted, answer>>

NoFile == [of |-> Nobody, bytes |-> 0, junk |-> FALSE]
NoProgram == [of |-> Nobody, as |-> "failing"]

Init ==
    /\ up = TRUE /\ pc = "accept" /\ newsockfd = NoConn /\ total = 0
    /\ file = NoFile /\ exe = NoProgram /\ result = NoAnswer
    /\ open = {} /\ backlog = <<>>
    /\ at = [c \in Clients |-> "connect"]
    /\ round = [c \in Clients |-> 1]
    /\ left = [c \in Clients |-> 0]
    /\ sent = [k \in Conns |-> 0]
    /\ link = [k \in Conns |-> "none"]
    /\ avail = [k \in Conns |-> 0]
    /\ counted = {}
    /\ answer = [k \in Conns |-> NoAnswer]

-----------------------------------------------------------------------------
(* A client, version7/client.c.                                            *)

Conn(c) == <<c, round[c]>>
ClientAt(c, label) == at' = [at EXCEPT ![c] = label]

\* The server's end of a connection is there, or will be.
Served(k) == up /\ (k \in open \/ \E i \in DOMAIN backlog : backlog[i] = k)

\* connect, and the size.  Without a server the client ends.
Connect(c) ==
    /\ at[c] = "connect"
    /\ IF up
       THEN /\ backlog' = Append(backlog, Conn(c))
            /\ link' = [link EXCEPT ![Conn(c)] = "open"]
            /\ left' = [left EXCEPT ![c] = SizeOf(c)]
            /\ ClientAt(c, "send")
       ELSE ClientAt(c, "end") /\ UNCHANGED <<backlog, link, left>>
    /\ UNCHANGED <<up, server, open, round, sent, avail, counted, answer>>

\* One turn of send_file's loop: what fread has read, and a byte more.
SendChunk(c) ==
    /\ at[c] = "send" /\ Served(Conn(c))
    /\ sent' = [sent EXCEPT ![Conn(c)] = @ + Chunk(left[c]) + 1]
    /\ left' = [left EXCEPT ![c] = @ - Chunk(left[c])]
    /\ ClientAt(c, IF AtEnd(left[c]) THEN "receive" ELSE "send")
    /\ UNCHANGED <<up, server, open, backlog, round, link, avail, counted, answer>>

\* Mutant: the loop counter is tested before the request it counts.
OneRoundMore(c) ==
    /\ link' = [link EXCEPT ![Conn(c)] = "gone"]
    /\ avail' = [avail EXCEPT ![Conn(c)] = 0]
    /\ IF round[c] > LoopNum(c)
       THEN ClientAt(c, "end") /\ UNCHANGED round
       ELSE ClientAt(c, "connect") /\ round' = [round EXCEPT ![c] = @ + 1]

\* The loop head, after close(sockfd).
NextRound(c) ==
    /\ link' = [link EXCEPT ![Conn(c)] = "gone"]
    /\ avail' = [avail EXCEPT ![Conn(c)] = 0]
    /\ IF round[c] = LoopNum(c)
       THEN ClientAt(c, "end") /\ UNCHANGED round
       ELSE ClientAt(c, "connect") /\ round' = [round EXCEPT ![c] = @ + 1]

\* The server has gone.  A send may still succeed, or return -1, and then the
\* request is given up, or end the client with a SIGPIPE.
SendFails(c) ==
    /\ at[c] = "send" /\ ~Served(Conn(c))
    /\ \/ ClientAt(c, "receive") /\ UNCHANGED <<link, round, avail>>
       \/ NextRound(c)
       \/ /\ ClientAt(c, "end") /\ UNCHANGED <<round, avail>>
          /\ link' = [link EXCEPT ![Conn(c)] = "gone"]
    /\ UNCHANGED <<up, server, open, backlog, left, sent, counted, answer>>

\* A recv of at most BUFFER_SIZE bytes.  Once the server has closed the
\* connection it may return 0 or -1, and if the server had not read all that
\* was sent the reply may go with it; the client looks at none of this.
Take(c) ==
    \/ \E n \in Pieces(avail[Conn(c)]) :
           avail' = [avail EXCEPT ![Conn(c)] = @ - n]
    \/ ~Served(Conn(c)) /\ avail' = [avail EXCEPT ![Conn(c)] = 0]

Receive(c) ==
    /\ at[c] = "receive"
    /\ Take(c)
    /\ ClientAt(c, "receive again")
    /\ UNCHANGED <<up, server, open, backlog, round, left, sent, link, counted, answer>>

ReceiveAgain(c) ==
    /\ at[c] = "receive again"
    /\ Take(c)
    /\ counted' = counted \cup {Conn(c)}
    /\ ClientAt(c, "sleep")
    /\ UNCHANGED <<up, server, open, backlog, round, left, sent, link, answer>>

SleepAndClose(c) ==
    /\ at[c] = "sleep"
    /\ NextRound(c)
    /\ UNCHANGED <<up, server, open, backlog, left, sent, counted, answer>>

\* The client process is killed; the kernel closes or resets its connection.
Kill(c) ==
    /\ c \in Killable /\ at[c] \notin {"connect", "end", "killed"}
    /\ \E how \in {"gone", "reset"} : link' = [link EXCEPT ![Conn(c)] = how]
    /\ ClientAt(c, "killed")
    /\ UNCHANGED <<up, server, open, backlog, round, left, sent, avail, counted, answer>>

-----------------------------------------------------------------------------
(* The server.                                                             *)

Owner == newsockfd[1]
Goto(label) == pc' = label

\* exit(1) or SIGPIPE.
Terminate ==
    /\ up' = FALSE /\ open' = {} /\ backlog' = <<>>
    /\ UNCHANGED <<server, client, sent, link, avail, answer>>

\* Mutant: the connection is forgotten instead of closed.
Forget == open' = open

Close == open' = open \ {newsockfd}

\* accept and fopen(file_path, "wb"), which empties file.c.
Accept ==
    /\ up /\ pc = "accept" /\ backlog # <<>> /\ Cardinality(open) + 1 < MaxFds
    /\ newsockfd' = Head(backlog) /\ backlog' = Tail(backlog)
    /\ open' = open \cup {Head(backlog)}
    /\ total' = 0
    /\ file' = [of |-> Head(backlog)[1], bytes |-> 0, junk |-> FALSE]
    /\ Goto("receive")
    /\ UNCHANGED <<up, exe, result, client, sent, link, avail, answer>>

\* There is a descriptor for the socket and none for file.c: close, continue.
OpenFails ==
    /\ up /\ pc = "accept" /\ backlog # <<>> /\ Cardinality(open) + 1 = MaxFds
    /\ backlog' = Tail(backlog)
    /\ newsockfd' = Head(backlog)
    /\ UNCHANGED <<up, pc, total, file, exe, result, open, client, sent, link,
                   avail, answer>>

\* One recv of recv_file.
ReceiveData ==
    /\ up /\ pc = "receive"
    /\ \E n \in Pieces(sent[newsockfd] - total) :
          /\ total' = total + n
          /\ file' = [file EXCEPT !.bytes = @ + n]
    /\ Goto(IF Complete(total', SizeOf(Owner)) THEN "compile" ELSE "receive")
    /\ UNCHANGED <<up, newsockfd, exe, result, open, backlog, client, sent,
                   link, avail, answer>>

\* Mutant: the end of the connection is tested on the sum, as in version 4.
ReceiveNothing ==
    /\ up /\ pc = "receive" /\ sent[newsockfd] = total /\ link[newsockfd] = "gone"
    /\ IF total = 0 THEN Close /\ Goto("accept") ELSE UNCHANGED <<open, pc>>
    /\ UNCHANGED <<up, newsockfd, total, file, exe, result, backlog, client,
                   sent, link, avail, answer>>

\* recv returns 0: close, continue.
ReceiveEnd ==
    /\ up /\ pc = "receive" /\ sent[newsockfd] = total /\ link[newsockfd] = "gone"
    /\ Close
    /\ Goto("accept")
    /\ UNCHANGED <<up, newsockfd, total, file, exe, result, backlog, client,
                   sent, link, avail, answer>>

\* recv returns -1, which bytes_read, a size_t, cannot tell from a length:
\* fwrite takes whatever is in memory, up to where that ends the process, and
\* the sum may pass for complete.  What was on its way is dropped; after the
\* error the connection reads as ended.
ReceiveError ==
    /\ up /\ pc = "receive" /\ link[newsockfd] = "reset"
    /\ \/ /\ total' = AddError(total)
          /\ file' = [file EXCEPT !.junk = TRUE]
          /\ link' = [link EXCEPT ![newsockfd] = "gone"]
          /\ sent' = [sent EXCEPT ![newsockfd] = total']
          /\ Goto(IF Complete(total', SizeOf(Owner)) THEN "compile" ELSE "receive")
          /\ UNCHANGED <<up, newsockfd, exe, result, open, backlog, client,
                         avail, answer>>
       \/ Terminate

\* What file.c holds has all the bytes of the client's source.
Whole == ~file.junk /\ Arrived(file.bytes, SizeOf(file.of)) = SizeOf(file.of)

\* What file.c may turn out to be.  Memory in the place of a source does not
\* compile.  A whole source of at most a chunk is what its client sent, with
\* a NUL behind it at most; a longer one has NULs in its middle or lacks its
\* last bytes, and can be anything.
GradedAs ==
    IF file.junk THEN {"uncompilable"}
    ELSE IF Whole /\ SizeOf(file.of) < BUFFER_SIZE THEN {ProgramOf(file.of)}
    ELSE Programs

\* Mutant: the exit status of gcc is ignored.
CompileAnyway ==
    /\ up /\ pc = "compile"
    /\ \E p \in GradedAs :
          exe' = IF p # "uncompilable" THEN [of |-> file.of, as |-> p] ELSE exe
    /\ Goto("run") /\ UNCHANGED result
    /\ UNCHANGED <<up, newsockfd, total, file, open, backlog, client, sent,
                   link, avail, answer>>

\* gcc.
Compile ==
    /\ up /\ pc = "compile"
    /\ \E p \in GradedAs :
          IF p # "uncompilable"
          THEN /\ exe' = [of |-> file.of, as |-> p]
               /\ Goto("run") /\ UNCHANGED result
          ELSE /\ result' = "COMPILER ERROR"
               /\ Goto("reply") /\ UNCHANGED exe
    /\ UNCHANGED <<up, newsockfd, total, file, open, backlog, client, sent,
                   link, avail, answer>>

\* Running "file", and diff.
Run ==
    /\ up /\ pc = "run"
    /\ result' = Verdict(exe.as)
    /\ Goto("reply")
    /\ UNCHANGED <<up, newsockfd, total, file, exe, open, backlog, client, sent,
                   link, avail, answer>>

\* The first send; error() if it fails, which it may when the client is gone.
Reply ==
    /\ up /\ pc = "reply"
    /\ \/ /\ avail' = [avail EXCEPT ![newsockfd] = @ + VerdictLength]
          /\ answer' = [answer EXCEPT ![newsockfd] = result]
          /\ Goto("details")
          /\ UNCHANGED <<up, newsockfd, total, file, exe, result, open, backlog,
                         client, sent, link>>
       \/ link[newsockfd] # "open" /\ Terminate

\* The second send, of BUFFER_SIZE bytes whatever the file had.
ReplyDetails ==
    /\ up /\ pc = "details"
    /\ avail' = [avail EXCEPT ![newsockfd] = @ + DetailsLength]
    /\ Goto("close")
    /\ UNCHANGED <<up, newsockfd, total, file, exe, result, open, backlog,
                   client, sent, link, answer>>

\* It fails: the server goes on to the next connection and forgets to close
\* this one.  Or the signal ends it.
ReplyDetailsFails ==
    /\ up /\ pc = "details" /\ link[newsockfd] # "open"
    /\ \/ /\ Goto("accept")
          /\ UNCHANGED <<up, newsockfd, total, file, exe, result, open, backlog,
                         client, sent, link, avail, answer>>
       \/ Terminate

\* sleep(1) and close.
CloseConnection ==
    /\ up /\ pc = "close"
    /\ Close
    /\ Goto("accept")
    /\ UNCHANGED <<up, newsockfd, total, file, exe, result, backlog, client,
                   sent, link, avail, answer>>
-----------------------------------------------------------------------------
ServerStep == Accept \/ OpenFails \/ ReceiveData \/ ReceiveEnd \/ ReceiveError
              \/ Compile \/ Run \/ Reply \/ ReplyDetails \/ ReplyDetailsFails
              \/ CloseConnection

ClientStep(c) == Connect(c) \/ SendChunk(c) \/ SendFails(c) \/ Receive(c)
                 \/ ReceiveAgain(c) \/ SleepAndClose(c)

Next == ServerStep \/ \E c \in Clients : ClientStep(c) \/ Kill(c)

Spec == Init /\ [][Next]_vars

\* Processes that can run do; nobody has to kill a client.
FairSpec == Spec /\ WF_vars(ServerStep) /\ \A c \in Clients : WF_vars(ClientStep(c))
-----------------------------------------------------------------------------
Killed == {c \in Clients : at[c] = "killed"}

TypeOK ==
    /\ up \in BOOLEAN
    /\ pc \in {"accept", "receive", "compile", "run", "reply", "details", "close"}
    /\ newsockfd \in Conns \cup {NoConn} /\ total \in Nat
    /\ file \in [of : Clients \cup {Nobody}, bytes : Nat, junk : BOOLEAN]
    /\ exe \in [of : Clients \cup {Nobody}, as : Programs] /\ result \in Verdicts \cup {NoAnswer}
    /\ open \subseteq Conns /\ backlog \in Seq(Conns)
    /\ at \in [Clients -> {"connect", "send", "receive", "receive again", "sleep",
                           "end", "killed"}]
    /\ round \in [Clients -> Nat] /\ left \in [Clients -> Nat]
    /\ \A c \in Clients : round[c] \in 1 .. LoopNum(c)
    /\ sent \in [Conns -> Nat] /\ avail \in [Conns -> Nat]
    /\ link \in [Conns -> {"none", "open", "gone", "reset"}]
    /\ counted \subseteq Conns /\ answer \in [Conns -> Verdicts \cup {NoAnswer}]

\* The extra byte of each chunk counts towards the size, and recv returns what
\* there is.  Whatever the pieces, what is graded is the source of the client
\* whose turn it is, all of it if it fits in a chunk, and otherwise it lacks at
\* most a byte for each full chunk; unless the connection was reset.
GradedIsSent ==
    pc \in {"compile", "run", "reply"} /\ ~file.junk =>
        LET n == SizeOf(Owner) IN
        /\ file.of = Owner
        /\ n < BUFFER_SIZE => Whole
        /\ n - Arrived(file.bytes, n) <= n \div BUFFER_SIZE

\* file.c and the program are the same files for all requests.  What is run for
\* a client was compiled for it, from its own source.  The verdict sent on a
\* connection is that of the client's own program where the source fits in a
\* chunk, or a compiler error where its sender has gone; of a longer source,
\* which is graded with NULs in it, nothing can be said.  As long as no client
\* leaves, a success that a client counts, whatever recv returned, had its
\* verdict sent.
VerdictIsDeserved ==
    /\ pc = "run" => exe.of = Owner
    /\ \A k \in Conns :
          /\ answer[k] # NoAnswer =>
                \/ answer[k] = VerdictOf(k[1])
                \/ SizeOf(k[1]) >= BUFFER_SIZE
                \/ answer[k] = "COMPILER ERROR" /\ k[1] \in Killed
          /\ k \in counted /\ Killed = {} => answer[k] # NoAnswer

\* A client that leaves in the middle can end the server or leave it with a
\* descriptor it never closes, at most one for each that left; nothing else
\* does.
OneLeakPerLeaver ==
    LET leaked == IF pc = "accept" THEN open ELSE open \ {newsockfd} IN
    /\ Cardinality(leaked) <= Cardinality(Killed)
    /\ ~up => Killed # {}

\* The server blocks on one client at a time and the clients on the server.
\* Every client comes to its end, those behind one that left in the middle of
\* its upload too.
EveryClientEnds == \A c \in Clients : <>(at[c] \in {"end", "killed"})
=============================================================================
