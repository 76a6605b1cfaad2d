----------------------------- MODULE AsyncFront -----------------------------
(***************************************************************************)
(* The connections of the asynchronous server: the accept loop of          *)
(* version 4/server.cpp, what new_request and status_check receive, send   *)
(* and close, and the client, version 4/client.cpp, which submits a file   *)
(* and asks for its result on the same connection, or asks about an        *)
(* earlier request on one of its own.                                      *)
(*                                                                         *)
(* A connection has the name of its client, and so has the thread that     *)
(* main creates for it; the request a thread puts into the queue has the   *)
(* name of the thread.  But a thread is not given its connection: it reads *)
(* main's variable when it starts, and main may have accepted another      *)
(* connection by then.  From there on it uses a number, and the number of  *)
(* a connection that was closed may be another's.  The actions of a thread *)
(* t have the connection c that its number stands for as a parameter.      *)
(*                                                                         *)
(* The workers and their queues, which AsyncServer models, are here only   *)
(* the stage a request is at.                                              *)
(***************************************************************************)
EXTENDS Sequences, Naturals, FiniteSets

CONSTANTS
    Submitters,     \* clients with typeOfRequest 0
    Askers,         \* clients with typeOfRequest 1
    Killable,       \* clients that may be killed
    Nobody,
    MaxFds,         \* descriptors the server has for connections and files
    Passing,        \* of those, the ones it may have open in passing, for the
                    \* queues' files and the workers
    SafeThreads     \* threads that can be created for certain

Clients == Submitters \cup Askers
Requests == Clients

\* What is sent, other than the ids of requests; "nul" is the byte that
\* send_file adds.
Messages == {"0", "1", "2", "3", "part", "rest", "nul", "position", "result"}

ASSUME AsyncFrontAssumption ==
    /\ IsFiniteSet(Clients) /\ Submitters \cap Askers = {}
    /\ Nobody \notin Clients \cup Messages /\ Clients \cap Messages = {}
    /\ Killable \subseteq Clients
    /\ MaxFds \in Nat /\ Passing \in Nat /\ SafeThreads \in Nat

VARIABLES
    up,             \* the server runs
    main,           \* where main is
    client_sockfd,  \* the connection main has accepted last
    backlog,        \* connections not yet accepted, in order
    open,           \* connections the server has open
    fd,             \* by connection: its descriptor, which has the name of the
                    \* connection that had it first
    thread,         \* by connection: where its thread is
    sockfd,         \* by thread: the descriptor it has read
    request_id,     \* by thread: the id status_check has received
    stage,          \* by request: where in the queues it is
    at,             \* each client: where it is
    requestId,      \* each client: the id it has
    inbox, outbox,  \* by connection: what is on its way to the server, and back
    peer,           \* by connection: the client's end, as the server sees it
    broken,         \* by connection: 1 after a reset, 2 when it was reported
    got,            \* clients that have received a result
    left,           \* clients that died in the middle
    delivered,      \* connections on which the server has sent a result
    strayed,        \* threads that have read another connection's descriptor
    short           \* what the server has wanted and not had

threads == <<thread, sockfd, request_id>>
server  == <<up, main, client_sockfd, open, fd, threads>>
client  == <<at, requestId>>
history == <<got, left, delivered, strayed, short>>
vars    == <<server, backlog, stage, client, inbox, outbox, peer, broken, history>>

Init ==
    /\ up = TRUE /\ main = "accept" /\ client_sockfd = Nobody
    /\ backlog = <<>> /\ open = {} /\ fd = [c \in Clients |-> Nobody]
    /\ thread = [c \in Clients |-> "none"]
    /\ sockfd = [c \in Clients |-> Nobody]
    /\ request_id = [c \in Clients |-> Nobody]
    /\ stage = [r \in Requests |-> "new"]
    /\ at = [c \in Clients |-> "connect"]
    /\ requestId = [c \in Clients |-> Nobody]
    /\ inbox = [c \in Clients |-> <<>>] /\ outbox = [c \in Clients |-> <<>>]
    /\ peer = [c \in Clients |-> "open"]
    /\ broken = [c \in Clients |-> 0]
    /\ got = {} /\ left = {} /\ delivered = {} /\ strayed = {} /\ short = {}

\* The server has closed a connection, or has ended.
Closed(c) == ~up \/ (c \notin open /\ \A i \in DOMAIN backlog : backlog[i] # c)

\* A recv that finds something else than it is made for takes a message or
\* more.
Cut(q) == {SubSeq(q, n + 1, Len(q)) : n \in 1 .. Len(q)}

\* What a recv leaves: all but the first message, if it is made for that.
LeftOf(q, expected) == IF Head(q) \in expected THEN {Tail(q)} ELSE Cut(q)
-----------------------------------------------------------------------------
(* The client.                                                             *)

ClientAt(c, label) == at' = [at EXCEPT ![c] = label]

\* The client ends; what it has not read makes the end a reset.
End(c) ==
    /\ ClientAt(c, "end")
    /\ peer' = [peer EXCEPT ![c] = IF outbox[c] = <<>> THEN "gone" ELSE "reset"]

\* It goes on and leaves rest unread.
GoOn(c, label, rest) ==
    /\ outbox' = [outbox EXCEPT ![c] = rest]
    /\ ClientAt(c, label)
    /\ peer' = IF label # "end" THEN peer
               ELSE [peer EXCEPT ![c] = IF rest = <<>> THEN "gone" ELSE "reset"]

\* The ids to ask about: those that clients have printed, and a wrong one.
KnownIds == {requestId[s] : s \in Submitters} \cup {Nobody}

\* The arguments, and connect, which succeeds, or has failed five times.
Connect(c) ==
    /\ at[c] = "connect"
    /\ \E id \in IF c \in Askers THEN KnownIds ELSE {Nobody} :
          requestId' = [requestId EXCEPT ![c] = id]
    /\ IF up
       THEN /\ backlog' = Append(backlog, c)
            /\ ClientAt(c, "type") /\ UNCHANGED peer
       ELSE End(c) /\ UNCHANGED backlog
    /\ UNCHANGED <<server, stage, inbox, outbox, broken, history>>

\* Mutant: SIGPIPE is ignored, and the client never ends of it.
SendAnyway(c, messages, next) ==
    IF ~Closed(c)
    THEN /\ inbox' = [inbox EXCEPT ![c] = @ \o messages]
         /\ ClientAt(c, next) /\ UNCHANGED <<broken, peer>>
    ELSE /\ broken' = [broken EXCEPT ![c] = @ + 1]
         /\ ClientAt(c, next) /\ UNCHANGED <<inbox, peer>>

\* send, whose result the client does not look at.  Sending to a connection
\* the server has closed resets it; sending once more ends the client, if the
\* reset has been reported to it.
SendTo(c, messages, next) ==
    IF ~Closed(c)
    THEN /\ inbox' = [inbox EXCEPT ![c] = @ \o messages]
         /\ ClientAt(c, next) /\ UNCHANGED <<broken, peer>>
    ELSE /\ UNCHANGED inbox
         /\ \/ /\ broken[c] < 2 /\ broken' = [broken EXCEPT ![c] = @ + 1]
               /\ ClientAt(c, next) /\ UNCHANGED peer
            \/ broken[c] > 0 /\ End(c) /\ UNCHANGED broken

\* The type of the request, and with type 1 the id.
SendType(c) ==
    /\ at[c] = "type"
    /\ IF c \in Submitters
       THEN SendTo(c, <<"0">>, "upload")
       ELSE SendTo(c, <<"1", requestId[c]>>, "reply")
    /\ UNCHANGED <<server, stage, backlog, requestId, outbox, history>>

\* send_file: the size and a first part, and the rest.  It gives up when a
\* send fails.
Upload(c) ==
    /\ at[c] = "upload"
    /\ \/ SendTo(c, <<"part">>, "upload rest")
       \/ Closed(c) /\ End(c) /\ UNCHANGED <<inbox, broken>>
    /\ UNCHANGED <<server, stage, backlog, requestId, outbox, history>>

UploadRest(c) ==
    /\ at[c] = "upload rest"
    /\ \/ SendTo(c, <<"rest">>, "id")
       \/ Closed(c) /\ End(c) /\ UNCHANGED <<inbox, broken>>
    /\ UNCHANGED <<server, stage, backlog, requestId, outbox, history>>

\* The id, and the message: the second recv takes at most 1000 bytes, so
\* that it may take a report with it.  Neither looks for an error.
ReceiveId(c) ==
    /\ at[c] = "id"
    /\ \/ /\ outbox[c] # <<>>
          /\ requestId' = [requestId EXCEPT ![c] =
                 IF Head(outbox[c]) \in Requests THEN Head(outbox[c]) ELSE Nobody]
          /\ \E n \in 1 .. Len(outbox[c]) :
                outbox' = [outbox EXCEPT ![c] = SubSeq(@, n + 1, Len(@))]
       \/ Closed(c) /\ outbox' = [outbox EXCEPT ![c] = <<>>] /\ UNCHANGED requestId
    /\ ClientAt(c, "ask")
    /\ UNCHANGED <<server, stage, backlog, inbox, peer, broken, history>>

Ask(c) ==
    /\ at[c] = "ask"
    /\ SendTo(c, <<requestId[c]>>, "reply")
    /\ UNCHANGED <<server, stage, backlog, requestId, outbox, history>>

Types == {"0", "1", "2", "3"}

\* Mutant: 2 and 3 are mixed up.
AfterSwapped(c, type) ==
    CASE type = "0" -> "position"
      [] type = "2" -> IF c \in Submitters THEN "position" ELSE "processing"
      [] type = "1" -> IF c \in Submitters THEN "ask" ELSE "end"
      [] type = "3" -> "file"

\* Where the client goes with a type.  A client of type 1 that reads 3 also
\* expects a file; one of type 0 names the file by a pointer it has not set.
After(c, type) ==
    CASE type = "0" -> "position"
      [] type = "3" -> IF c \in Submitters THEN "position" ELSE "processing"
      [] type = "1" -> IF c \in Submitters THEN "ask" ELSE "end"
      [] type = "2" -> "file"

\* What is not a type reads as any.
ReceiveType(c) ==
    /\ at[c] = "reply" /\ outbox[c] # <<>>
    /\ \E type \in IF Head(outbox[c]) \in Types THEN {Head(outbox[c])} ELSE Types :
       \E rest \in LeftOf(outbox[c], Types) : GoOn(c, After(c, type), rest)
    /\ UNCHANGED <<server, stage, backlog, requestId, inbox, broken, history>>

\* recv returns 0 and receive_type is whatever it was before, or -1 and the
\* client ends; a reset may take a report that was on its way with it.
ReceiveNoType(c) ==
    /\ at[c] = "reply" /\ Closed(c)
    /\ \/ /\ outbox[c] = <<>>
          /\ \E type \in Types : GoOn(c, After(c, type), <<>>)
       \/ broken[c] > 0 /\ GoOn(c, "end", <<>>)
    /\ UNCHANGED <<server, stage, backlog, requestId, inbox, broken, history>>

AfterPosition(c) == CASE c \in Submitters        -> "ask"
                      [] at[c] = "processing" -> "file"
                      [] OTHER                -> "end"

\* Mutant: the client of type 1 does not wait for the position.
DoNotWaitForPosition(c) ==
    /\ at[c] \in {"position", "processing"}
    /\ GoOn(c, AfterPosition(c), outbox[c])
    /\ UNCHANGED <<server, stage, backlog, requestId, inbox, broken, history>>

\* That recv returns 0 is no error here.
ReceivePosition(c) ==
    /\ at[c] \in {"position", "processing"}
    /\ \/ /\ outbox[c] # <<>>
          /\ \E rest \in LeftOf(outbox[c], {"position"}) : GoOn(c, AfterPosition(c), rest)
       \/ outbox[c] = <<>> /\ Closed(c) /\ GoOn(c, AfterPosition(c), <<>>)
       \/ broken[c] > 0 /\ Closed(c) /\ GoOn(c, "end", <<>>)
    /\ UNCHANGED <<server, stage, backlog, requestId, inbox, broken, history>>

\* recv_file.  Of what is not a result, or not all of it, it wants more or
\* does not.
ReceiveResult(c) ==
    /\ at[c] \in {"file", "file rest"} /\ outbox[c] # <<>>
    /\ \/ /\ at[c] = "file" /\ Head(outbox[c]) = "result"
          /\ GoOn(c, "end", Tail(outbox[c]))
          /\ got' = got \cup {c}
       \/ /\ at[c] = "file rest" \/ Head(outbox[c]) # "result"
          /\ \E rest \in Cut(outbox[c]), label \in {"file rest", "end"} : GoOn(c, label, rest)
          /\ UNCHANGED got
    /\ UNCHANGED <<server, stage, backlog, requestId, inbox, broken, left, delivered,
                   strayed, short>>

\* The end of the connection is an error only if nothing was received yet;
\* otherwise it is not noticed, and the client turns in the loop for ever.
ReceiveNoResult(c) ==
    /\ Closed(c) /\ (outbox[c] = <<>> \/ broken[c] > 0)
    /\ \/ at[c] = "file" /\ GoOn(c, "end", <<>>)
       \/ at[c] = "file rest" /\ GoOn(c, "spin", <<>>)
    /\ UNCHANGED <<server, stage, backlog, requestId, inbox, broken, history>>

\* A client is killed, or dies of its unset requestId.
Die(c) ==
    /\ \/ c \in Killable /\ at[c] \notin {"connect", "end", "dead"}
       \/ c \in Submitters /\ at[c] = "file"
    /\ ClientAt(c, "dead")
    /\ \E how \in {"gone", "reset"} :
          /\ outbox[c] # <<>> => how = "reset"
          /\ peer' = [peer EXCEPT ![c] = how]
    /\ left' = left \cup {c}
    /\ UNCHANGED <<server, stage, backlog, requestId, inbox, outbox, broken, got,
                   delivered, strayed, short>>
-----------------------------------------------------------------------------
(* The server.                                                             *)

\* Connections on which a result is being sent.
Halfway == {c \in open : \E t \in Clients : thread[t] = "send file" /\ sockfd[t] = fd[c]}

\* main returns, an assertion fails, or SIGPIPE.  The process has gone with
\* its memory and its descriptors, maybe in the middle of a result.
Terminate ==
    /\ up' = FALSE /\ main' = "accept" /\ client_sockfd' = Nobody
    /\ backlog' = <<>> /\ open' = {} /\ fd' = [c \in Clients |-> Nobody]
    /\ thread' = [c \in Clients |-> "none"]
    /\ sockfd' = [c \in Clients |-> Nobody]
    /\ request_id' = [c \in Clients |-> Nobody]
    /\ broken' = [c \in Clients |-> IF broken[c] = 0 THEN 1 ELSE broken[c]]
    /\ \E S \in SUBSET Halfway :
          outbox' = [c \in Clients |-> IF c \in S THEN Append(outbox[c], "part")
                                     ELSE outbox[c]]
    /\ UNCHANGED <<stage, client, inbox, peer, got, left, delivered, strayed>>

\* recv_file has a descriptor of its own.
Receiving == {"receive", "receive rest", "receive some"}
Held == Cardinality(open) + Cardinality({t \in Clients : thread[t] \in Receiving})

\* There is a descriptor, or there may be none; and then it was wanting.
CanOpen == Held < MaxFds
OpenFails == Held + Passing >= MaxFds /\ short' = short \cup {"descriptor"}

\* The number of the new connection is a new one or that of a closed one.
Accept ==
    /\ up /\ main = "accept" /\ backlog # <<>> /\ CanOpen
    /\ LET c == Head(backlog) IN
       /\ client_sockfd' = c /\ backlog' = Tail(backlog) /\ open' = open \cup {c}
       /\ \E n \in ({fd[d] : d \in Clients} \ {fd[d] : d \in open}) \cup {c} :
             n # Nobody /\ fd' = [fd EXCEPT ![c] = n]
    /\ main' = "type"
    /\ UNCHANGED <<up, threads, stage, client, inbox, outbox, peer, broken, history>>

\* accept returns -1, which nothing tests, and so does the recv from it.
AcceptFails ==
    /\ up /\ main = "accept"
    /\ OpenFails
    /\ Terminate

\* A thread is created.  None is ever joined, and pthread_detach is not given
\* a thread: each stays for ever.
Spawn(label) ==
    /\ thread' = [thread EXCEPT ![client_sockfd] = label]
    /\ main' = "accept"

\* The type says what the thread is to do; with something else received, or
\* nothing, it is what it reads as, or what was in memory.
StartLabels == {"start new_request", "start status_check"}
StartLabel == [type \in {"0", "1"} |->
                 IF type = "0" THEN "start new_request" ELSE "start status_check"]

ReceiveRequestType ==
    LET c == client_sockfd IN
    /\ up /\ main = "type" /\ c \in open
    /\ \/ /\ inbox[c] # <<>>
          /\ \E rest \in LeftOf(inbox[c], DOMAIN StartLabel) :
                inbox' = [inbox EXCEPT ![c] = rest]
          /\ IF Head(inbox[c]) \in DOMAIN StartLabel
             THEN Spawn(StartLabel[Head(inbox[c])])
             ELSE \E label \in StartLabels : Spawn(label)
       \/ /\ inbox[c] = <<>> /\ peer[c] = "gone"
          /\ \E label \in StartLabels : Spawn(label)
          /\ UNCHANGED inbox
    /\ UNCHANGED <<up, client_sockfd, open, fd, sockfd, request_id, stage, backlog,
                   client, outbox, peer, broken, history>>

\* recv returns -1: main returns.
ReceiveRequestTypeFails ==
    /\ up /\ main = "type"
    /\ client_sockfd \notin open \/ peer[client_sockfd] = "reset"
    /\ Terminate /\ UNCHANGED short

\* assert(rc == 0).
SpawnFails ==
    /\ up /\ main = "type" /\ client_sockfd \in open
    /\ inbox[client_sockfd] # <<>> \/ peer[client_sockfd] = "gone"
    /\ Cardinality({t \in Clients : thread[t] # "none"}) >= SafeThreads
    /\ short' = short \cup {"thread"}
    /\ Terminate

ThreadAt(t, label) == thread' = [thread EXCEPT ![t] = label]

\* Mutant: the connection stays open.
ExitOnly(t, c) == ThreadAt(t, "over") /\ UNCHANGED <<open, broken>>

\* close and pthread_exit; what was not read makes the close a reset.
CloseAndExit(t, c) ==
    /\ open' = open \ {c}
    /\ ThreadAt(t, "over")
    /\ broken' = [x \in Clients |-> IF x = c /\ inbox[x] # <<>> THEN 1 ELSE broken[x]]

\* What the thread's number stands for: a connection, or none.
Uses(t, c) ==
    IF c = Nobody THEN \A d \in open : fd[d] # sockfd[t]
    ELSE c \in open /\ fd[c] = sockfd[t]

\* A send may fail; a recv returns 0 or -1; or -1.
Gone(c)  == c # Nobody => peer[c] # "open"
Ended(c) == c # Nobody => peer[c] # "open" /\ inbox[c] = <<>>
Reset(c) == c # Nobody => peer[c] = "reset"

\* The thread reads the address that pthread_create was given.
Start(t) ==
    /\ up /\ thread[t] \in StartLabels
    /\ sockfd' = [sockfd EXCEPT ![t] = fd[client_sockfd]]
    /\ strayed' = IF client_sockfd = t THEN strayed ELSE strayed \cup {t}
    /\ ThreadAt(t, IF thread[t] = "start new_request" THEN "open" ELSE "id")
    /\ UNCHANGED <<up, main, client_sockfd, open, fd, request_id, stage, backlog,
                   client, inbox, outbox, peer, broken, got, left, delivered, short>>

\* recv_file's fopen.
OpenFile(t, c) ==
    /\ thread[t] = "open"
    /\ \/ CanOpen /\ ThreadAt(t, "receive") /\ UNCHANGED <<open, broken, short>>
       \/ OpenFails /\ CloseAndExit(t, c)
    /\ UNCHANGED <<sockfd, request_id, stage, inbox, outbox, delivered>>

\* recv_file, as far as the first part: with an error for a length the file
\* is whatever was in memory, if reading that does not end the server.  A
\* size that is something else may ask for any number of messages.
ReceiveFile(t, c) ==
    /\ thread[t] = "receive"
    /\ \/ /\ c # Nobody /\ inbox[c] # <<>>
          /\ \E rest \in LeftOf(inbox[c], {"part"}) : inbox' = [inbox EXCEPT ![c] = rest]
          /\ ThreadAt(t, IF Head(inbox[c]) = "part" THEN "receive rest" ELSE "receive some")
          /\ UNCHANGED <<open, broken>>
       \/ Ended(c) /\ CloseAndExit(t, c) /\ UNCHANGED inbox
       \/ /\ c # Nobody /\ Reset(c) /\ inbox' = [inbox EXCEPT ![c] = <<>>]
          /\ ThreadAt(t, "push") /\ UNCHANGED <<open, broken>>
    /\ UNCHANGED <<sockfd, request_id, stage, outbox, delivered, short>>

\* The rest, up to the size or with the byte that send_file adds.  The end
\* of the connection is not noticed: the loop turns in its place for ever.
\* With a descriptor that is closed the sum comes down to 0, an error.
ReceiveFileRest(t, c) ==
    /\ thread[t] \in {"receive rest", "receive some"}
    /\ \/ /\ c # Nobody /\ inbox[c] # <<>>
          /\ IF thread[t] = "receive rest" /\ Head(inbox[c]) = "rest"
             THEN /\ \E over \in {<<>>, <<"nul">>} :
                        inbox' = [inbox EXCEPT ![c] = over \o Tail(@)]
                  /\ ThreadAt(t, "push")
             ELSE /\ \E rest \in Cut(inbox[c]) : inbox' = [inbox EXCEPT ![c] = rest]
                  /\ \E label \in {"push", "receive some"} : ThreadAt(t, label)
          /\ UNCHANGED <<open, broken>>
       \/ c = Nobody /\ CloseAndExit(t, c) /\ UNCHANGED inbox
    /\ UNCHANGED <<sockfd, request_id, stage, outbox, delivered, short>>

\* fileQueue.push; without a descriptor nothing is queued, and nothing said.
Push(t) ==
    /\ thread[t] = "push"
    /\ \/ CanOpen /\ stage' = [stage EXCEPT ![t] = "queued"] /\ UNCHANGED short
       \/ OpenFails /\ UNCHANGED stage
    /\ ThreadAt(t, "accepted")
    /\ UNCHANGED <<open, sockfd, request_id, inbox, outbox, broken, delivered>>

Sends(c, message) ==
    outbox' = [x \in Clients |-> IF x = c THEN Append(outbox[x], message) ELSE outbox[x]]

\* The id and the message, and the first status_check.
SendId(t, c) ==
    /\ thread[t] = "accepted"
    /\ Sends(c, t)
    /\ ThreadAt(t, "id")
    /\ UNCHANGED <<open, sockfd, request_id, stage, inbox, broken, delivered, short>>

\* status_check's recv, of up to 255 bytes: an id; or, when the byte that
\* was left of an upload comes first, an empty string; or nothing.
ReceiveRequestId(t, c) ==
    /\ thread[t] = "id"
    /\ \/ /\ c # Nobody /\ inbox[c] # <<>>
          /\ request_id' = [request_id EXCEPT ![t] =
                 IF Head(inbox[c]) \in Requests THEN Head(inbox[c]) ELSE Nobody]
          /\ \E rest \in LeftOf(inbox[c], Requests \cup {Nobody}) :
                inbox' = [inbox EXCEPT ![c] = rest]
       \/ Ended(c) /\ request_id' = [request_id EXCEPT ![t] = Nobody] /\ UNCHANGED inbox
    /\ ThreadAt(t, "requests")
    /\ UNCHANGED <<open, sockfd, stage, outbox, broken, delivered, short>>

\* A look-up may find the request where it is, or find no file: a worker that
\* takes a line out removes the file and renames another.
In(t, where) == request_id[t] # Nobody /\ stage[request_id[t]] \in where

CheckRequests(t, c) ==
    /\ thread[t] = "requests"
    /\ \/ /\ In(t, {"queued"})
          /\ Sends(c, "0") /\ ThreadAt(t, "position")
       \/ ThreadAt(t, "process") /\ UNCHANGED outbox
    /\ UNCHANGED <<open, sockfd, request_id, stage, inbox, broken, delivered, short>>

CheckProcess(t, c) ==
    /\ thread[t] = "process"
    /\ \/ /\ In(t, {"listed"})
          /\ Sends(c, "3") /\ ThreadAt(t, "position")
       \/ ThreadAt(t, "status") /\ UNCHANGED outbox
    /\ UNCHANGED <<open, sockfd, request_id, stage, inbox, broken, delivered, short>>

\* The second send of these two, close and pthread_exit; of the thread of a
\* new_request too, whose loop ends in its first turn.
SendPosition(t, c) ==
    /\ thread[t] = "position"
    /\ Sends(c, "position")
    /\ CloseAndExit(t, c)
    /\ UNCHANGED <<sockfd, request_id, stage, inbox, delivered, short>>

CheckStatus(t, c) ==
    /\ thread[t] = "status"
    /\ \/ In(t, {"done"}) /\ ThreadAt(t, "take") /\ UNCHANGED <<outbox, open, broken>>
       \/ Sends(c, "1") /\ CloseAndExit(t, c)
    /\ UNCHANGED <<sockfd, request_id, stage, inbox, delivered, short>>

\* The result file is put together and statusQueue.removeElement called,
\* before anything is sent.
TakeStatus(t) ==
    /\ thread[t] = "take"
    /\ LET taken == [stage EXCEPT ![request_id[t]] = "taken"] IN
       \/ stage' = taken /\ UNCHANGED short
       \/ OpenFails /\ stage' \in {stage, taken}
    /\ ThreadAt(t, "send")
    /\ UNCHANGED <<open, sockfd, request_id, inbox, outbox, broken, delivered>>

SendDone(t, c) ==
    /\ thread[t] = "send"
    /\ Sends(c, "2")
    /\ ThreadAt(t, "send file")
    /\ UNCHANGED <<open, sockfd, request_id, stage, inbox, broken, delivered, short>>

\* The result file.  When it cannot be opened or was not written, for want of
\* a descriptor or of ./results/, which nobody creates, or when a send fails,
\* close; when all is sent the connection is left open.
NoDirectory == short' = short \cup {"directory"}

SendResult(t, c) ==
    /\ thread[t] = "send file"
    /\ \/ /\ c # Nobody
          /\ Sends(c, "result") /\ delivered' = delivered \cup {c}
          /\ ThreadAt(t, "over") /\ UNCHANGED <<open, broken, short>>
       \/ /\ \/ (Gone(c) \/ "descriptor" \in short) /\ UNCHANGED short
             \/ OpenFails \/ NoDirectory
          /\ CloseAndExit(t, c) /\ UNCHANGED <<outbox, delivered>>
    /\ UNCHANGED <<sockfd, request_id, stage, inbox>>

\* The threads that are about to send to a client that has gone, and those
\* that may read memory they should not.
Sending(t) == \/ thread[t] \in {"accepted", "position", "send", "send file", "status"}
              \/ thread[t] = "requests" /\ In(t, {"queued"})
              \/ thread[t] = "process" /\ In(t, {"listed"})

MayEndServer(t, c) ==
    /\ \/ c # Nobody /\ Gone(c) /\ Sending(t)
       \/ Reset(c) /\ thread[t] \in Receiving
    /\ Terminate /\ UNCHANGED short

\* A worker takes a request, puts it on the process queue, then on the status
\* queue.
Grade(r) ==
    /\ up
    /\ \E move \in {<<"queued", "held">>, <<"held", "listed">>, <<"listed", "done">>} :
          /\ stage[r] = move[1]
          /\ stage' = [stage EXCEPT ![r] = move[2]]
    /\ UNCHANGED <<server, backlog, client, inbox, outbox, peer, broken,
                   history>>
-----------------------------------------------------------------------------
ClientStep(c) ==
    \/ Connect(c) \/ SendType(c) \/ Upload(c) \/ UploadRest(c) \/ ReceiveId(c)
    \/ Ask(c) \/ ReceiveType(c) \/ ReceiveNoType(c) \/ ReceivePosition(c)
    \/ ReceiveResult(c) \/ ReceiveNoResult(c)

MainGoesOn == Accept \/ ReceiveRequestType \/ ReceiveRequestTypeFails \/ SpawnFails
MainStep == MainGoesOn \/ AcceptFails

Acts(t, c) ==
    \/ OpenFile(t, c) \/ ReceiveFile(t, c) \/ ReceiveFileRest(t, c) \/ Push(t)
    \/ SendId(t, c) \/ ReceiveRequestId(t, c) \/ CheckRequests(t, c)
    \/ CheckProcess(t, c) \/ SendPosition(t, c) \/ CheckStatus(t, c)
    \/ TakeStatus(t) \/ SendDone(t, c) \/ SendResult(t, c)

ThreadStep(t) ==
    \/ Start(t)
    \/ /\ up /\ \E c \in Clients \cup {Nobody} : Uses(t, c) /\ Acts(t, c)
       /\ UNCHANGED <<up, main, client_sockfd, fd, backlog, client, peer, got, left,
                      strayed>>

EndsServer(t) ==
    up /\ \E c \in Clients \cup {Nobody} : Uses(t, c) /\ MayEndServer(t, c)

Next ==
    \/ MainStep
    \/ \E c \in Clients : ClientStep(c) \/ Die(c) \/ ThreadStep(c) \/ EndsServer(c)
    \/ \E r \in Requests : Grade(r)

Spec == Init /\ [][Next]_vars

\* Processes and threads that can run do; nothing has to grade a request, and
\* accept does not have to fail as long as there is a descriptor.
FairSpec == /\ Spec
            /\ WF_vars(MainGoesOn \/ (~CanOpen /\ AcceptFails))
            /\ \A c \in Clients : WF_vars(ClientStep(c)) /\ WF_vars(ThreadStep(c))
-----------------------------------------------------------------------------
Running == {t \in Clients : thread[t] \notin {"none", "over"}}

TypeOK ==
    /\ up \in BOOLEAN /\ main \in {"accept", "type"}
    /\ client_sockfd \in Clients \cup {Nobody}
    /\ backlog \in Seq(Clients) /\ open \subseteq Clients
    /\ fd \in [Clients -> Clients \cup {Nobody}] /\ sockfd \in [Clients -> Clients \cup {Nobody}]
    /\ thread \in [Clients -> {"none", "start new_request", "start status_check", "open",
                               "receive", "receive rest", "receive some", "push",
                               "accepted", "id", "requests", "process", "position",
                               "status", "take", "send", "send file", "over"}]
    /\ request_id \in [Clients -> Requests \cup {Nobody}]
    /\ stage \in [Requests -> {"new", "queued", "held", "listed", "done", "taken"}]
    /\ at \in [Clients -> {"connect", "type", "upload", "upload rest", "id", "ask", "reply",
                           "position", "processing", "file", "file rest", "spin",
                           "end", "dead"}]
    /\ requestId \in [Clients -> Requests \cup {Nobody}]
    /\ inbox \in [Clients -> Seq(Messages \cup Requests \cup {Nobody})]
    /\ outbox \in [Clients -> Seq(Messages \cup Requests)]
    /\ peer \in [Clients -> {"open", "gone", "reset"}]
    /\ broken \in [Clients -> 0 .. 2]
    /\ got \subseteq Clients /\ left \subseteq Clients /\ delivered \subseteq Clients
    /\ strayed \subseteq Clients /\ short \subseteq {"descriptor", "thread", "directory"}

\* Every path of new_request and status_check closes the connection, but for
\* the one that has delivered a result: a descriptor stays open for no more
\* than main, the running threads, the results ever sent, and the threads that
\* have read the descriptor of another connection than their own
\* (server.cpp:392 and 404).  While none has, that is all there is: nothing is
\* closed under a thread that works on it.
OnlyResultsLeak ==
    LET ours == (IF main = "type" THEN {client_sockfd} ELSE {}) \cup Running \cup delivered IN
    up => /\ open \subseteq ours \cup strayed
          /\ strayed = {} => open = ours

\* "server will run forever" (server.cpp:372).  It does not; but what ends it
\* is a client that has died, a descriptor or a thread it could not have, or a
\* thread on another's connection, and never an orderly client alone.
OrderlyClientsHarmless ==
    ~up => left # {} \/ short \ {"directory"} # {} \/ strayed # {}

\* status_check takes the result out of the queue before it sends it.  While
\* the server runs, has had the descriptors it wanted and ./results/, and no
\* thread has strayed, a result that has been taken is on its way to a client, or was
\* received, or the client it was for has died.
NoResultIsLost ==
    up /\ short \subseteq {"thread"} /\ strayed = {} =>
        \A r \in Requests : stage[r] = "taken" =>
            \E c \in Clients :
                /\ request_id[c] = r
                /\ \/ thread[c] \in {"send", "send file"}
                   \/ c \in delivered /\ at[c] \in {"reply", "file"}
                   \/ c \in got \cup left

\* readme:37, "The client sends the requests periodically until it's request
\* is completed".  Whatever the server closes under it, a client that has
\* connected comes to an end, or turns in recv_file for ever because the server
\* ended in the middle of a result: it is never left waiting on a connection
\* nobody serves, and does not go on asking one, unless a thread has strayed.
EveryClientEnds ==
    \A c \in Clients :
        at[c] = "type" ~> at[c] \in {"end", "dead", "spin"} \/ strayed # {}
=============================================================================
