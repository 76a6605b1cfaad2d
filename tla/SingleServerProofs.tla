------------------------- MODULE SingleServerProofs -------------------------
(***************************************************************************)
(* What the single-threaded server grades is what its client sent, for any *)
(* number of clients and requests, any sizes and any fragmentation, with   *)
(* clients killed at any moment.                                           *)
(***************************************************************************)
EXTENDS SingleServer, FiniteSetTheorems, TLAPS

USE DEF server, client

-----------------------------------------------------------------------------
(* How much of a file has arrived when recv_file takes itself to be done:  *)
(* all of one that fits in a chunk, and of a larger one all but a bounded  *)
(* rest.  A quotient enters a proof through the inequalities defining it.  *)

\* The defining inequalities of a quotient.
LEMMA Quotient ==
    ASSUME NEW n \in Nat, NEW d \in Nat, d > 0
    PROVE  /\ n \div d \in Nat
           /\ d * (n \div d) <= n
           /\ n < d * (n \div d) + d
OBVIOUS

\* They determine it.
LEMMA QuotientIs ==
    ASSUME NEW n \in Nat, NEW d \in Nat, d > 0, NEW k \in Nat,
           d * k <= n, n < d * k + d
    PROVE  n \div d = k
<1> DEFINE q == n \div d
<1>1. q \in Nat /\ d * q <= n /\ n < d * q + d
  BY Quotient
<1> HIDE DEF q
<1>2. ASSUME q < k PROVE FALSE
  <2>1. d * (q + 1) <= d * k
    BY <1>1, <1>2
  <2> QED
    BY <1>1, <2>1
<1>3. ASSUME k < q PROVE FALSE
  <2>1. d * (k + 1) <= d * q
    BY <1>1, <1>3
  <2> QED
    BY <1>1, <2>1
<1> QED
  BY <1>1, <1>2, <1>3 DEF q

\* A quotient grows by no more than what is divided.
LEMMA QuotientGrows ==
    ASSUME NEW n \in Nat, NEW p \in Nat, n <= p, NEW d \in Nat, d > 0
    PROVE  p \div d - n \div d <= p - n
<1> DEFINE a == n \div d
           b == p \div d
<1>1. /\ a \in Nat /\ d * a <= n /\ n < d * a + d
      /\ b \in Nat /\ d * b <= p /\ p < d * b + d
  BY Quotient
<1> HIDE DEF a, b
<1>2. CASE b <= a
  BY <1>1, <1>2
<1>3. CASE a < b
  <2>1. PICK k \in Nat : b = a + 1 + k
    <3>1. b - a - 1 \in Nat /\ b = a + 1 + (b - a - 1)
      BY <1>1, <1>3
    <3> QED
      BY <3>1
  <2>2. d * b = d * a + d + d * k
    BY <1>1, <2>1
  <2>3. k <= d * k
    BY <2>1
  <2> QED
    BY <1>1, <2>1, <2>2, <2>3
<1> QED
  BY <1>1, <1>2, <1>3 DEF a, b

\* What send_file has sent after m full chunks is at most what it sends in
\* all, and with the last chunk, which is shorter, it is all of it.
LEMMA ChunksOfFile ==
    ASSUME NEW m \in Nat, NEW rest \in Nat,
           NEW n \in Nat, n = m * (BUFFER_SIZE - 1) + rest
    PROVE  /\ m * BUFFER_SIZE <= StreamLength(n)
           /\ AtEnd(rest) => m * BUFFER_SIZE + rest + 1 = StreamLength(n)
<1> DEFINE d == BUFFER_SIZE - 1
           q == n \div d
<1>1. d \in Nat /\ d > 0 /\ BUFFER_SIZE = d + 1
  BY FileTransferAssumption
<1>2. q \in Nat /\ d * q <= n /\ n < d * q + d
  BY <1>1, Quotient
<1>3. m * BUFFER_SIZE = d * m + m /\ n = d * m + rest
  BY <1>1
<1>4. StreamLength(n) = n + q + 1
  BY DEF StreamLength
<1> HIDE DEF d, q
<1>5. ASSUME AtEnd(rest) PROVE q = m
  <2>1. rest < d
    BY <1>5 DEF AtEnd, d
  <2>2. d * m <= n /\ n < d * m + d
    BY <1>1, <1>3, <2>1
  <2> QED
    BY <1>1, <2>2, QuotientIs DEF q
<1>6. m <= q
  <2> SUFFICES ASSUME q < m PROVE FALSE
    BY <1>2
  <2>1. d * (q + 1) <= d * m
    BY <1>1, <1>2
  <2> QED
    BY <1>1, <1>2, <1>3, <2>1
<1> QED
  BY <1>1, <1>2, <1>3, <1>4, <1>5, <1>6

\* A file of up to one chunk has arrived whole whenever recv_file's loop
\* ends, even if the last byte of send_file is still on its way.
THEOREM SmallFilesArriveWhole ==
    ASSUME NEW n \in Nat, NEW p \in Nat, n < BUFFER_SIZE,
           Complete(p, n), p <= StreamLength(n)
    PROVE  Arrived(p, n) = n
<1> USE FileTransferAssumption
<1>1. CASE n < BUFFER_SIZE - 1
  <2>1. n \div (BUFFER_SIZE - 1) = 0 /\ n \div BUFFER_SIZE = 0
    BY <1>1, QuotientIs
  <2> QED
    BY <2>1 DEF Arrived, Complete, StreamLength
\* A full chunk and then an empty one, which is a byte of its own.
<1>2. CASE n = BUFFER_SIZE - 1
  <2>1. n \div (BUFFER_SIZE - 1) = 1
    BY <1>2, QuotientIs
  <2>2. CASE p = n
    <3>1. n \div BUFFER_SIZE = 0
      BY <1>2, QuotientIs
    <3> QED
      BY <1>2, <2>1, <2>2, <3>1 DEF Arrived, StreamLength
  <2>3. CASE p = BUFFER_SIZE
    <3>1. p \div BUFFER_SIZE = 1
      BY <2>3, QuotientIs
    <3> QED
      BY <1>2, <2>1, <2>3, <3>1 DEF Arrived, StreamLength
  <2>4. CASE p = BUFFER_SIZE + 1
    BY <1>2, <2>1, <2>4 DEF Arrived, StreamLength
  <2> QED
    BY <1>2, <2>1, <2>2, <2>3, <2>4 DEF Complete, StreamLength
<1> QED
  BY <1>1, <1>2

\* Of a longer file at most one byte for each BUFFER_SIZE of them is missing:
\* the bytes that send_file adds to the chunks are counted towards the size
\* (version7/client.c:48, server.c:34).
THEOREM MissingBytesAreBounded ==
    ASSUME NEW n \in Nat, NEW p \in Nat, Complete(p, n)
    PROVE  n - Arrived(p, n) <= n \div BUFFER_SIZE
<1> USE FileTransferAssumption
<1>1. /\ n <= p
      /\ p \div BUFFER_SIZE - n \div BUFFER_SIZE <= p - n
  BY QuotientGrows DEF Complete
<1>2. n \div BUFFER_SIZE \in Nat /\ p \div BUFFER_SIZE \in Nat
  BY Quotient
<1> QED
  BY <1>1, <1>2 DEF Arrived
-----------------------------------------------------------------------------
(* The inductive invariant.                                                *)

\* A connection is made once, with nothing sent on it before, and is only
\* reset by the death of its client.
Fresh ==
    /\ \A k \in Conns : link[k] = "none" => sent[k] = 0
    /\ \A k \in Conns : link[k] = "reset" => at[k[1]] = "killed"
    /\ \A c \in Clients : \A r \in 1 .. LoopNum(c) :
          r > round[c] \/ (r = round[c] /\ at[c] = "connect") => link[<<c, r>>] = "none"
    /\ \A c \in Clients : at[c] = "send" => link[Conn(c)] # "none"

\* The server's connection and those in the backlog are different ones.
InLine ==
    /\ \A i \in DOMAIN backlog : link[backlog[i]] # "none" /\ backlog[i] # newsockfd
    /\ \A i, j \in DOMAIN backlog : backlog[i] = backlog[j] => i = j
    /\ newsockfd \in Conns => link[newsockfd] # "none"

\* In send_file, full chunks have been sent of what has been read.
Sending ==
    \A c \in Clients : at[c] = "send" =>
        \E m \in Nat : /\ sent[Conn(c)] = m * BUFFER_SIZE
                       /\ SizeOf(c) = m * (BUFFER_SIZE - 1) + left[c]

\* Nobody has sent more than his file, where it is not yet graded.
Sound(k) == sent[k] <= StreamLength(SizeOf(k[1]))
Carried ==
    /\ \A i \in DOMAIN backlog : Sound(backlog[i])
    /\ pc # "accept" /\ ~file.junk => Sound(newsockfd)

\* file.c has what has been received of it.
Received ==
    pc # "accept" =>
        /\ newsockfd \in Conns /\ file.of = Owner
        /\ ~file.junk => file.bytes = total /\ total <= sent[newsockfd]
        /\ ~file.junk /\ pc # "receive" => Complete(total, SizeOf(Owner))

SingleInv == TypeOK /\ Fresh /\ InLine /\ Sending /\ Carried /\ Received

-----------------------------------------------------------------------------
LEMMA ConnTypes ==
    /\ \A k \in Conns : /\ k[1] \in Clients /\ k[2] \in 1 .. LoopNum(k[1])
                        /\ k = <<k[1], k[2]>>
    /\ \A c \in Clients : \A r \in 1 .. LoopNum(c) : <<c, r>> \in Conns
    /\ NoConn \notin Conns
<1>1. \A k \in Conns : /\ k[1] \in Clients /\ k[2] \in 1 .. LoopNum(k[1])
                       /\ k = <<k[1], k[2]>>
  BY DEF Conns
<1>2. ASSUME NEW c \in Clients, NEW r \in 1 .. LoopNum(c) PROVE <<c, r>> \in Conns
  BY <1>2 DEF Conns
<1> QED
  BY <1>1, <1>2, SingleServerAssumption DEF NoConn

LEMMA SingleInit == Init => SingleInv
<1> SUFFICES ASSUME Init PROVE SingleInv
  OBVIOUS
<1> USE SingleServerAssumption DEF Init
<1>1. TypeOK
  BY DEF TypeOK, NoFile, NoProgram, Programs
<1>2. Fresh
  BY ConnTypes DEF Fresh
<1>3. InLine /\ Sending /\ Carried /\ Received
  BY ConnTypes DEF InLine, Sending, Carried, Received
<1> QED
  BY <1>1, <1>2, <1>3 DEF SingleInv

LEMMA ConnNow ==
    ASSUME TypeOK, NEW c \in Clients
    PROVE  /\ Conn(c) \in Conns /\ Conn(c) = <<c, round[c]>>
           /\ Conn(c)[1] = c /\ Conn(c)[2] = round[c]
BY ConnTypes DEF TypeOK, Conn

\* What the parts of a message and the chunks of a file can be.
LEMMA PieceTypes ==
    /\ \A w \in Int : \A n \in Pieces(w) : n \in Nat /\ n > 0 /\ n <= w
    /\ \A l \in Nat : Chunk(l) \in Nat /\ Chunk(l) <= l
    /\ \A t \in Nat : AddError(t) \in Nat
    /\ BUFFER_SIZE \in Nat
BY FileTransferAssumption DEF Pieces, Chunk, AddError

LEMMA VerdictTypes == \A p \in Programs : Verdict(p) \in Verdicts
BY DEF Verdict, Verdicts, Programs

LEMMA GradedTypes ==
    ASSUME file.of \in Clients
    PROVE  GradedAs \subseteq Programs
BY SingleServerAssumption DEF GradedAs, Programs

\* A client's step to the next request, or to its end.
LEMMA NextRoundTypes ==
    ASSUME TypeOK, NEW c \in Clients, NextRound(c)
    PROVE  /\ link' \in [Conns -> {"none", "open", "gone", "reset"}]
           /\ avail' \in [Conns -> Nat]
           /\ at' \in [Clients -> {"connect", "send", "receive", "receive again",
                                   "sleep", "end", "killed"}]
           /\ round' \in [Clients -> Nat] /\ \A d \in Clients : round'[d] \in 1 .. LoopNum(d)
<1>1. Conn(c) \in Conns /\ round[c] \in 1 .. LoopNum(c) /\ LoopNum(c) \in Nat
  BY ConnNow, SingleServerAssumption DEF TypeOK
<1>2. CASE round[c] = LoopNum(c)
  BY <1>1, <1>2 DEF TypeOK, NextRound, ClientAt
<1>3. CASE round[c] # LoopNum(c)
  <2>1. round' = [round EXCEPT ![c] = round[c] + 1]
    BY <1>3 DEF NextRound
  <2>2. round' \in [Clients -> Nat] /\ \A d \in Clients : round'[d] \in 1 .. LoopNum(d)
    <3>1. round \in [Clients -> Nat] /\ \A d \in Clients : round[d] \in 1 .. LoopNum(d)
      BY DEF TypeOK
    <3> QED
      BY <1>1, <1>3, <2>1, <3>1
  <2> QED
    BY <1>1, <1>3, <2>2 DEF TypeOK, NextRound, ClientAt
<1> QED
  BY <1>2, <1>3

LEMMA ClientTypeStep ==
    ASSUME TypeOK, NEW c \in Clients, ClientStep(c) \/ Kill(c)
    PROVE  TypeOK'
<1> USE DEF TypeOK
<1>a. Conn(c) \in Conns
  BY ConnNow
<1>1. CASE Connect(c)
  <2>1. backlog' \in Seq(Conns) /\ link' \in [Conns -> {"none", "open", "gone", "reset"}]
        /\ left' \in [Clients -> Nat]
        /\ at' \in [Clients -> {"connect", "send", "receive", "receive again",
                                "sleep", "end", "killed"}]
    <3>1. /\ backlog \in Seq(Conns) /\ link \in [Conns -> {"none", "open", "gone", "reset"}]
          /\ left \in [Clients -> Nat]
          /\ at \in [Clients -> {"connect", "send", "receive", "receive again",
                                "sleep", "end", "killed"}]
      OBVIOUS
    <3>2. SizeOf(c) \in Nat
      BY SingleServerAssumption
    <3> HIDE DEF TypeOK
    <3>3. CASE up
      <4>1. /\ backlog' = Append(backlog, Conn(c))
            /\ link' = [link EXCEPT ![Conn(c)] = "open"]
            /\ left' = [left EXCEPT ![c] = SizeOf(c)]
            /\ at' = [at EXCEPT ![c] = "send"]
        BY <1>1, <3>3 DEF Connect, ClientAt
      <4>2. backlog' \in Seq(Conns)
        <5>1. backlog \in Seq(Conns) /\ backlog' = Append(backlog, Conn(c))
          BY <3>1, <4>1
        <5> QED
          BY <1>a, <5>1
      <4>3. left' \in [Clients -> Nat]
        BY <3>1, <3>2, <4>1
      <4> QED
        BY <3>1, <4>1, <4>2, <4>3
    <3>4. CASE ~up
      BY <1>1, <3>1, <3>4 DEF Connect, ClientAt
    <3> QED
      BY <3>3, <3>4
  <2> QED
    BY <1>1, <2>1 DEF Connect
<1>2. CASE SendChunk(c)
  <2>1. Chunk(left[c]) \in Nat /\ Chunk(left[c]) <= left[c]
    BY PieceTypes
  <2>2. /\ sent' = [sent EXCEPT ![Conn(c)] = sent[Conn(c)] + Chunk(left[c]) + 1]
        /\ left' = [left EXCEPT ![c] = left[c] - Chunk(left[c])]
    BY <1>2 DEF SendChunk
  <2>3. sent' \in [Conns -> Nat] /\ left' \in [Clients -> Nat]
    <3>1. sent \in [Conns -> Nat] /\ left \in [Clients -> Nat]
      OBVIOUS
    <3> HIDE DEF TypeOK
    <3> QED
      BY <1>a, <2>1, <2>2, <3>1
  <2> QED
    BY <1>2, <2>3 DEF SendChunk, ClientAt
<1>3. CASE SendFails(c)
  <2>1. CASE NextRound(c)
    BY <1>3, <2>1, NextRoundTypes DEF SendFails
  <2> QED
    BY ZenonT(30), <1>3, <1>a, <2>1 DEF SendFails, ClientAt
<1>4. ASSUME Take(c) PROVE avail' \in [Conns -> Nat]
  <2>1. CASE avail' = [avail EXCEPT ![Conn(c)] = 0]
    BY <2>1
  <2>2. ASSUME NEW n \in Pieces(avail[Conn(c)]),
               avail' = [avail EXCEPT ![Conn(c)] = avail[Conn(c)] - n]
        PROVE  avail' \in [Conns -> Nat]
    <3>1. avail \in [Conns -> Nat]
      OBVIOUS
    <3> HIDE DEF TypeOK
    <3> QED
      BY <1>a, <2>2, <3>1, PieceTypes
  <2> QED
    BY <1>4, <2>1, <2>2 DEF Take
<1>5. CASE Receive(c)
  BY <1>4, <1>5 DEF Receive, ClientAt
<1>6. CASE ReceiveAgain(c)
  BY <1>4, <1>6, <1>a DEF ReceiveAgain, ClientAt
<1>7. CASE SleepAndClose(c)
  BY ZenonT(30), <1>7, NextRoundTypes DEF SleepAndClose
<1>8. CASE Kill(c)
  <2>1. link' \in [Conns -> {"none", "open", "gone", "reset"}]
    BY <1>8, <1>a DEF Kill
  <2> QED
    BY <1>8, <2>1 DEF Kill, ClientAt
<1> QED
  BY <1>1, <1>2, <1>3, <1>5, <1>6, <1>7, <1>8 DEF ClientStep

LEMMA ServerTypeStep ==
    ASSUME TypeOK, Received, ServerStep
    PROVE  TypeOK'
<1> USE DEF TypeOK, Goto, Close
<1>a. pc # "accept" => newsockfd \in Conns /\ Owner \in Clients
  BY ConnTypes DEF Received, Owner
<1>b. backlog # <<>> => Head(backlog) \in Conns /\ Tail(backlog) \in Seq(Conns)
  <2>1. backlog \in Seq(Conns)
    OBVIOUS
  <2> HIDE DEF TypeOK
  <2> QED
    BY <2>1
<1>1. CASE Accept
  <2>1. Head(backlog) \in Conns /\ Tail(backlog) \in Seq(Conns) /\ Head(backlog)[1] \in Clients
    BY <1>1, <1>b, ConnTypes DEF Accept
  <2>2. file' \in [of : Clients \cup {Nobody}, bytes : Nat, junk : BOOLEAN]
    BY <1>1, <2>1 DEF Accept
  <2> QED
    BY <1>1, <2>1, <2>2 DEF Accept
<1>2. CASE OpenFails
  BY <1>2, <1>b DEF OpenFails
<1>3. CASE ReceiveData
  <2>1. PICK n \in Pieces(sent[newsockfd] - total) :
              total' = total + n /\ file' = [file EXCEPT !.bytes = file.bytes + n]
    BY <1>3 DEF ReceiveData
  <2>2. n \in Nat
    <3>1. sent[newsockfd] - total \in Int
      <4>1. sent \in [Conns -> Nat] /\ total \in Nat /\ newsockfd \in Conns
        BY <1>3, <1>a DEF ReceiveData
      <4> HIDE DEF TypeOK
      <4> QED
        BY <4>1
    <3> HIDE DEF TypeOK
    <3> QED
      BY <2>1, <3>1, PieceTypes
  <2>3. total' \in Nat /\ file' \in [of : Clients \cup {Nobody}, bytes : Nat, junk : BOOLEAN]
    <3>1. total \in Nat /\ file \in [of : Clients \cup {Nobody}, bytes : Nat, junk : BOOLEAN]
      OBVIOUS
    <3> HIDE DEF TypeOK
    <3> QED
      BY <2>1, <2>2, <3>1
  <2> QED
    BY <1>3, <2>3 DEF ReceiveData
<1>4. CASE ReceiveEnd
  BY <1>4 DEF ReceiveEnd
<1>5. CASE Terminate
  <2>1. <<>> \in Seq(Conns)
    <3> HIDE DEF TypeOK
    <3> QED
      OBVIOUS
  <2> QED
    BY <1>5, <2>1 DEF Terminate
<1>6. CASE ReceiveError /\ ~Terminate
  <2>1. total' = AddError(total) /\ total' \in Nat
    BY ZenonT(30), <1>6, PieceTypes DEF ReceiveError
  <2>2. sent' \in [Conns -> Nat] /\ link' \in [Conns -> {"none", "open", "gone", "reset"}]
    <3>1. /\ sent' = [sent EXCEPT ![newsockfd] = total']
          /\ link' = [link EXCEPT ![newsockfd] = "gone"]
      BY <1>6 DEF ReceiveError
    <3>2. sent \in [Conns -> Nat] /\ link \in [Conns -> {"none", "open", "gone", "reset"}]
      OBVIOUS
    <3> HIDE DEF TypeOK
    <3> QED
      BY <2>1, <3>1, <3>2
  <2>3. file' \in [of : Clients \cup {Nobody}, bytes : Nat, junk : BOOLEAN]
    <3>1. /\ file' = [file EXCEPT !.junk = TRUE]
          /\ file \in [of : Clients \cup {Nobody}, bytes : Nat, junk : BOOLEAN]
      BY <1>6 DEF ReceiveError
    <3> HIDE DEF TypeOK
    <3> QED
      BY <3>1
  <2>4. pc' \in {"receive", "compile"}
    BY <1>6 DEF ReceiveError
  <2>5. UNCHANGED <<up, newsockfd, exe, result, open, backlog, client, avail, answer>>
    BY <1>6 DEF ReceiveError
  <2> QED
    BY <2>1, <2>2, <2>3, <2>4, <2>5 DEF client
<1>7. CASE Compile
  <2>1. file.of \in Clients
    BY <1>7, <1>a DEF Compile, Received
  <2>2. GradedAs \subseteq Programs
    BY <2>1, GradedTypes
  <2>3. /\ exe' \in [of : Clients \cup {Nobody}, as : Programs]
        /\ result' \in Verdicts \cup {NoAnswer} /\ pc' \in {"run", "reply"}
    <3>1. PICK p \in GradedAs :
             \/ exe' = [of |-> file.of, as |-> p] /\ UNCHANGED result /\ pc' = "run"
             \/ result' = "COMPILER ERROR" /\ UNCHANGED exe /\ pc' = "reply"
      BY <1>7 DEF Compile
    <3>2. /\ exe \in [of : Clients \cup {Nobody}, as : Programs]
          /\ result \in Verdicts \cup {NoAnswer}
      OBVIOUS
    <3> HIDE DEF TypeOK
    <3>3. p \in Programs /\ "COMPILER ERROR" \in Verdicts
      BY <2>2 DEF Verdicts
    <3>4. [of |-> file.of, as |-> p] \in [of : Clients \cup {Nobody}, as : Programs]
      BY <2>1, <3>3
    <3> QED
      BY <3>1, <3>2, <3>3, <3>4
  <2>4. UNCHANGED <<up, newsockfd, total, file, open, backlog, client, sent, link,
                    avail, answer>>
    BY <1>7 DEF Compile
  <2> QED
    BY <2>3, <2>4 DEF client
<1>8. CASE Run
  BY <1>8, VerdictTypes DEF Run
<1>9. CASE Reply /\ ~Terminate
  <2>1. avail' = [avail EXCEPT ![newsockfd] = avail[newsockfd] + 1]
        /\ answer' = [answer EXCEPT ![newsockfd] = result]
    BY <1>9 DEF Reply, VerdictLength
  <2>2. avail' \in [Conns -> Nat] /\ answer' \in [Conns -> Verdicts \cup {NoAnswer}]
    <3>1. avail \in [Conns -> Nat] /\ answer \in [Conns -> Verdicts \cup {NoAnswer}]
          /\ result \in Verdicts \cup {NoAnswer} /\ newsockfd \in Conns
      BY <1>9, <1>a DEF Reply
    <3> HIDE DEF TypeOK
    <3> QED
      BY <2>1, <3>1
  <2> QED
    BY <1>9, <2>2 DEF Reply
<1>10. CASE ReplyDetails
  <2>1. avail' \in [Conns -> Nat]
    <3>1. avail \in [Conns -> Nat] /\ newsockfd \in Conns
          /\ avail' = [avail EXCEPT ![newsockfd] = avail[newsockfd] + BUFFER_SIZE]
      BY <1>10, <1>a DEF ReplyDetails, DetailsLength
    <3> HIDE DEF TypeOK
    <3> QED
      BY <3>1, FileTransferAssumption
  <2> QED
    BY <1>10, <2>1 DEF ReplyDetails
<1>11. CASE ReplyDetailsFails /\ ~Terminate
  BY <1>11 DEF ReplyDetailsFails
<1>12. CASE CloseConnection
  BY <1>12 DEF CloseConnection
<1> QED
  BY <1>1, <1>2, <1>3, <1>4, <1>5, <1>6, <1>7, <1>8, <1>9, <1>10, <1>11, <1>12
  DEF ServerStep

-----------------------------------------------------------------------------
(* The steps of a client.                                                  *)

\* A step other than connecting and sending: a client goes on, or to its
\* next request, or is killed.
Moves(c) ==
    /\ at[c] # "killed" /\ at'[c] # "send"
    /\ \A d \in Clients \ {c} : at'[d] = at[d] /\ round'[d] = round[d]
    /\ \/ round'[c] = round[c] /\ at'[c] # "connect"
       \/ round'[c] = round[c] + 1 /\ at'[c] = "connect"
    /\ \/ link' = link
       \/ link' = [link EXCEPT ![Conn(c)] = "gone"]
       \/ link' = [link EXCEPT ![Conn(c)] = "reset"] /\ at'[c] = "killed"
    /\ UNCHANGED <<pc, newsockfd, total, file, sent, left, backlog>>

LEMMA ClientMoves ==
    ASSUME TypeOK, NEW c \in Clients, ClientStep(c) \/ Kill(c)
    PROVE  (Connect(c) /\ up) \/ SendChunk(c) \/ Moves(c)
<1>t. at \in [Clients -> {"connect", "send", "receive", "receive again",
                          "sleep", "end", "killed"}]
  BY DEF TypeOK
<1>r. round \in [Clients -> Nat]
  BY DEF TypeOK
<1>1. ASSUME NextRound(c), at[c] # "killed",
             UNCHANGED <<pc, newsockfd, total, file, sent, left, backlog>>
      PROVE  Moves(c)
  BY <1>1, <1>t, <1>r DEF NextRound, ClientAt, Moves
<1>2. CASE Connect(c) /\ ~up
  BY <1>2, <1>t DEF Connect, ClientAt, Moves
<1>3. CASE SendFails(c)
  BY <1>1, <1>3, <1>t DEF SendFails, ClientAt, Moves
<1>4. CASE Receive(c) \/ ReceiveAgain(c)
  BY <1>4, <1>t DEF Receive, ReceiveAgain, ClientAt, Moves
<1>5. CASE SleepAndClose(c)
  BY <1>1, <1>5 DEF SleepAndClose
<1>6. CASE Kill(c)
  BY <1>6, <1>t DEF Kill, ClientAt, Moves
<1> QED
  BY <1>2, <1>3, <1>4, <1>5, <1>6 DEF ClientStep

LEMMA MovesKeeps ==
    ASSUME SingleInv, NEW c \in Clients, Moves(c)
    PROVE  Fresh' /\ InLine' /\ Sending' /\ Carried' /\ Received'
<1>k. Conn(c) \in Conns /\ Conn(c) = <<c, round[c]>> /\ Conn(c)[1] = c
  BY ConnNow DEF SingleInv
<1>t. /\ round \in [Clients -> Nat] /\ \A d \in Clients : round[d] \in 1 .. LoopNum(d)
      /\ link \in [Conns -> {"none", "open", "gone", "reset"}]
  BY DEF SingleInv, TypeOK
<1>l. \A k \in Conns : /\ link[k] # "none" => link'[k] # "none"
                       /\ k # Conn(c) => link'[k] = link[k]
                       /\ link'[k] = "none" => link[k] = "none"
                       /\ link'[k] = "reset" => link[k] = "reset" \/ (k = Conn(c) /\ at'[c] = "killed")
  BY <1>k, <1>t DEF Moves
<1>1. Fresh'
  <2>1. \A k \in Conns : link'[k] = "none" => sent'[k] = 0
    BY <1>l DEF Moves, SingleInv, Fresh
  <2>2. \A k \in Conns : link'[k] = "reset" => at'[k[1]] = "killed"
    BY <1>k, <1>l, ConnTypes DEF Moves, SingleInv, Fresh
  <2>3. ASSUME NEW d \in Clients, NEW r \in 1 .. LoopNum(d),
               r > round'[d] \/ (r = round'[d] /\ at'[d] = "connect")
        PROVE  link'[<<d, r>>] = "none"
    <3>1. <<d, r>> \in Conns
      BY ConnTypes
    <3>2. CASE d # c
      BY <1>k, <1>l, <2>3, <3>1, <3>2 DEF Moves, SingleInv, Fresh
    <3>3. CASE d = c
      <4>1. r > round[c]
        BY <1>t, <2>3, <3>3, SingleServerAssumption DEF Moves
      <4>2. link[<<c, r>>] = "none" /\ <<c, r>> # Conn(c)
        BY <1>k, <1>t, <3>3, <4>1 DEF SingleInv, Fresh
      <4> QED
        BY <1>l, <3>1, <3>3, <4>2
    <3> QED
      BY <3>2, <3>3
  <2>4. ASSUME NEW d \in Clients, at'[d] = "send" PROVE link'[Conn(d)'] # "none"
    <3>1. d # c /\ Conn(d)' = Conn(d) /\ Conn(d) \in Conns /\ at[d] = "send"
      BY <2>4, ConnNow DEF Moves, Conn, SingleInv
    <3> QED
      BY <1>l, <3>1 DEF SingleInv, Fresh
  <2> QED
    BY <2>1, <2>2, <2>3, <2>4 DEF Fresh
<1>2. InLine'
  <2>1. \A i \in DOMAIN backlog : backlog[i] \in Conns
    <3>1. backlog \in Seq(Conns)
      BY DEF SingleInv, TypeOK
    <3> QED
      BY <3>1
  <2> QED
    BY <1>l, <2>1 DEF Moves, SingleInv, InLine
<1>3. Sending'
  <2>1. ASSUME NEW d \in Clients, at'[d] = "send"
        PROVE  at[d] = "send" /\ Conn(d)' = Conn(d) /\ sent' = sent /\ left' = left
    BY <2>1 DEF Moves, Conn
  <2> QED
    BY <2>1 DEF SingleInv, Sending
<1>4. Carried' /\ Received'
  BY DEF Moves, SingleInv, Carried, Received, Sound, Owner
<1> QED
  BY <1>1, <1>2, <1>3, <1>4

LEMMA ConnectKeeps ==
    ASSUME SingleInv, NEW c \in Clients, Connect(c), up
    PROVE  Fresh' /\ InLine' /\ Sending' /\ Carried' /\ Received'
<1>k. /\ Conn(c) \in Conns /\ Conn(c) = <<c, round[c]>> /\ Conn(c)[1] = c
      /\ round[c] \in 1 .. LoopNum(c)
  BY ConnNow DEF SingleInv, TypeOK
<1>c. /\ at[c] = "connect" /\ at' = [at EXCEPT ![c] = "send"]
      /\ link' = [link EXCEPT ![Conn(c)] = "open"]
      /\ left' = [left EXCEPT ![c] = SizeOf(c)]
      /\ backlog' = Append(backlog, Conn(c))
      /\ UNCHANGED <<round, sent, pc, newsockfd, total, file>>
  BY DEF Connect, ClientAt
<1>t. /\ link \in [Conns -> {"none", "open", "gone", "reset"}]
      /\ at \in [Clients -> {"connect", "send", "receive", "receive again",
                             "sleep", "end", "killed"}]
  BY DEF SingleInv, TypeOK
<1>b. backlog \in Seq(Conns)
  BY DEF SingleInv, TypeOK
<1>l. left \in [Clients -> Nat]
  BY DEF SingleInv, TypeOK
<1>n. link[Conn(c)] = "none" /\ sent[Conn(c)] = 0
  <2>1. link[<<c, round[c]>>] = "none"
    BY <1>k, <1>c DEF SingleInv, Fresh
  <2> QED
    BY <1>k, <2>1 DEF SingleInv, Fresh
<1>1. Fresh'
  <2>1. \A k \in Conns : link'[k] = "none" => sent'[k] = 0
    BY <1>c, <1>t DEF SingleInv, Fresh
  <2>2. \A k \in Conns : link'[k] = "reset" => at'[k[1]] = "killed"
    <3>1. \A k \in Conns : link'[k] = "reset" => at[k[1]] = "killed"
      BY <1>c, <1>t DEF SingleInv, Fresh
    <3> QED
      BY <1>c, <1>t, <3>1, ConnTypes
  <2>3. ASSUME NEW d \in Clients, NEW r \in 1 .. LoopNum(d),
               r > round'[d] \/ (r = round'[d] /\ at'[d] = "connect")
        PROVE  link'[<<d, r>>] = "none"
    <3>1. <<d, r>> \in Conns /\ <<d, r>> # Conn(c)
      <4>1. d = c => r > round[c]
        BY <1>c, <1>t, <2>3
      <4> QED
        BY <1>k, <4>1, ConnTypes
    <3>2. link[<<d, r>>] = "none"
      BY <1>c, <1>t, <2>3 DEF SingleInv, Fresh
    <3> QED
      BY <1>c, <1>t, <3>1, <3>2
  <2>4. ASSUME NEW d \in Clients, at'[d] = "send" PROVE link'[Conn(d)'] # "none"
    <3>1. Conn(d)' = Conn(d) /\ Conn(d) \in Conns /\ (d = c \/ at[d] = "send")
      BY <1>c, <1>t, <2>4, ConnNow DEF Conn, SingleInv
    <3>2. d # c => link[Conn(d)] # "none"
      BY <3>1 DEF SingleInv, Fresh
    <3> QED
      BY <1>c, <1>t, <3>1, <3>2
  <2> QED
    BY <2>1, <2>2, <2>3, <2>4 DEF Fresh
<1>s. /\ DOMAIN backlog' = 1 .. Len(backlog) + 1 /\ DOMAIN backlog = 1 .. Len(backlog)
      /\ Len(backlog) \in Nat
      /\ \A i \in DOMAIN backlog : backlog'[i] = backlog[i] /\ backlog[i] \in Conns
      /\ backlog'[Len(backlog) + 1] = Conn(c)
  BY <1>b, <1>c, <1>k
<1>2. InLine'
  <2>1. /\ \A i \in DOMAIN backlog : backlog[i] # Conn(c)
        /\ newsockfd # Conn(c)
    BY <1>k, <1>n DEF SingleInv, InLine
  <2>2. \A k \in Conns : link[k] # "none" => link'[k] # "none"
    BY <1>c, <1>t
  <2>3. link'[Conn(c)] # "none"
    BY <1>c, <1>k, <1>t
  <2>4. /\ \A i \in DOMAIN backlog : link[backlog[i]] # "none" /\ backlog[i] # newsockfd
        /\ \A i, j \in DOMAIN backlog : backlog[i] = backlog[j] => i = j
        /\ newsockfd \in Conns => link[newsockfd] # "none"
    BY DEF SingleInv, InLine
  <2>5. \A i \in DOMAIN backlog' : link'[backlog'[i]] # "none" /\ backlog'[i] # newsockfd
    BY <1>s, <2>1, <2>2, <2>3, <2>4
  <2>6. \A i, j \in DOMAIN backlog' : backlog'[i] = backlog'[j] => i = j
    BY <1>s, <2>1, <2>4
  <2> QED
    BY <1>c, <2>2, <2>4, <2>5, <2>6 DEF InLine
<1>3. Sending'
  <2>1. ASSUME NEW d \in Clients, at'[d] = "send"
        PROVE  \E m \in Nat : /\ sent'[Conn(d)'] = m * BUFFER_SIZE
                              /\ SizeOf(d) = m * (BUFFER_SIZE - 1) + left'[d]
    <3>1. Conn(d)' = Conn(d)
      BY <1>c DEF Conn
    <3>2. CASE d = c
      <4>1. sent'[Conn(c)'] = 0 * BUFFER_SIZE /\ SizeOf(c) = 0 * (BUFFER_SIZE - 1) + left'[c]
        BY <1>c, <1>l, <1>n, <3>1, <3>2, FileTransferAssumption, SingleServerAssumption
      <4> QED
        BY <3>2, <4>1
    <3>3. CASE d # c
      <4>1. at[d] = "send" /\ left'[d] = left[d] /\ sent' = sent
        BY <1>c, <1>l, <1>t, <2>1, <3>3
      <4> QED
        BY <3>1, <4>1 DEF SingleInv, Sending
    <3> QED
      BY <3>2, <3>3
  <2> QED
    BY <2>1 DEF Sending
<1>4. Carried'
  <2>1. sent'[Conn(c)] <= StreamLength(SizeOf(Conn(c)[1]))
    <3>1. StreamLength(SizeOf(c)) >= 0
      <4>1. SizeOf(c) \in Nat /\ 0 * BUFFER_SIZE <= StreamLength(SizeOf(c))
        BY ChunksOfFile, SingleServerAssumption, FileTransferAssumption
      <4> QED
        BY <4>1, FileTransferAssumption
    <3> QED
      BY <1>c, <1>k, <1>n, <3>1
  <2>2. \A i \in DOMAIN backlog : Sound(backlog[i])
    BY DEF SingleInv, Carried
  <2>3. \A i \in DOMAIN backlog' : sent'[backlog'[i]] <= StreamLength(SizeOf(backlog'[i][1]))
    BY <1>c, <1>s, <2>1, <2>2 DEF Sound
  <2>4. pc # "accept" /\ ~file.junk => Sound(newsockfd)
    BY DEF SingleInv, Carried
  <2> QED
    BY <1>c, <2>3, <2>4 DEF Carried, Sound
<1>5. Received'
  BY <1>c DEF SingleInv, Received, Owner
<1> QED
  BY <1>1, <1>2, <1>3, <1>4, <1>5

LEMMA SendChunkKeeps ==
    ASSUME SingleInv, NEW c \in Clients, SendChunk(c)
    PROVE  Fresh' /\ InLine' /\ Sending' /\ Carried' /\ Received'
<1>k. /\ Conn(c) \in Conns /\ Conn(c) = <<c, round[c]>> /\ Conn(c)[1] = c
      /\ \A d \in Clients : Conn(d)' = Conn(d) /\ Conn(d) \in Conns /\ Conn(d)[1] = d
  BY ConnNow DEF SingleInv, SendChunk, Conn
<1> DEFINE n == SizeOf(c)
           l == left[c]
<1>c. /\ at[c] = "send"
      /\ sent' = [sent EXCEPT ![Conn(c)] = sent[Conn(c)] + Chunk(l) + 1]
      /\ left' = [left EXCEPT ![c] = l - Chunk(l)]
      /\ UNCHANGED <<round, link, pc, newsockfd, total, file, backlog>>
  BY DEF SendChunk
<1>a. at' = [at EXCEPT ![c] = IF AtEnd(l) THEN "receive" ELSE "send"]
  BY DEF SendChunk, ClientAt
<1>t. at \in [Clients -> {"connect", "send", "receive", "receive again",
                          "sleep", "end", "killed"}]
  BY DEF SingleInv, TypeOK
<1>s. sent \in [Conns -> Nat]
  BY DEF SingleInv, TypeOK
<1>l. left \in [Clients -> Nat] /\ l \in Nat /\ n \in Nat
  BY SingleServerAssumption DEF SingleInv, TypeOK
<1>h. Chunk(l) \in Nat /\ Chunk(l) <= l
  BY <1>l, PieceTypes
<1>n. link[Conn(c)] # "none"
  BY <1>c DEF SingleInv, Fresh
<1>m. PICK m \in Nat : sent[Conn(c)] = m * BUFFER_SIZE /\ n = m * (BUFFER_SIZE - 1) + l
  BY <1>c DEF SingleInv, Sending
\* The chunk is the last one, or a full one.
<1>e. AtEnd(l) => Chunk(l) = l
  BY <1>l, FileTransferAssumption DEF AtEnd, Chunk
<1>f. ~AtEnd(l) => Chunk(l) = BUFFER_SIZE - 1
  BY <1>l, FileTransferAssumption DEF AtEnd, Chunk
<1>u. sent'[Conn(c)] = sent[Conn(c)] + Chunk(l) + 1 /\ left'[c] = l - Chunk(l)
  BY <1>c, <1>k, <1>l, <1>s
<1>g. ~AtEnd(l) => /\ sent'[Conn(c)] = (m + 1) * BUFFER_SIZE
                   /\ n = (m + 1) * (BUFFER_SIZE - 1) + left'[c]
                   /\ left'[c] \in Nat
  <2>1. BUFFER_SIZE \in Nat
    BY FileTransferAssumption
  <2>2. /\ (m + 1) * BUFFER_SIZE = m * BUFFER_SIZE + BUFFER_SIZE
        /\ (m + 1) * (BUFFER_SIZE - 1) = m * (BUFFER_SIZE - 1) + (BUFFER_SIZE - 1)
    BY <2>1
  <2>3. m * BUFFER_SIZE \in Nat /\ m * (BUFFER_SIZE - 1) \in Int
    BY <2>1
  <2> QED
    BY <1>f, <1>h, <1>l, <1>m, <1>u, <2>1, <2>2, <2>3
<1>b. sent'[Conn(c)] <= StreamLength(n)
  <2>1. CASE AtEnd(l)
    <3>1. m * BUFFER_SIZE + l + 1 = StreamLength(n)
      BY <1>l, <1>m, <2>1, ChunksOfFile
    <3>2. sent'[Conn(c)] = m * BUFFER_SIZE + l + 1
      BY <1>e, <1>m, <1>u, <2>1
    <3>3. StreamLength(n) \in Int
      BY <1>l, Quotient, FileTransferAssumption DEF StreamLength
    <3> QED
      BY <3>1, <3>2, <3>3
  <2>2. CASE ~AtEnd(l)
    <3>1. (m + 1) * BUFFER_SIZE <= StreamLength(n)
      BY <1>g, <1>l, <2>2, ChunksOfFile
    <3> QED
      BY <1>g, <2>2, <3>1
  <2> QED
    BY <2>1, <2>2
<1>o. \A k \in Conns : k # Conn(c) => sent'[k] = sent[k]
  BY <1>c, <1>s
<1> HIDE DEF n, l
<1>1. Fresh'
  <2>1. \A k \in Conns : link[k] = "none" => sent'[k] = 0
    BY <1>n, <1>o DEF SingleInv, Fresh
  <2>2. \A d \in Clients : at'[d] = at[d] \/ (d = c /\ at'[d] \in {"receive", "send"})
    BY <1>a, <1>t
  <2>3. \A k \in Conns : link[k] = "reset" => at'[k[1]] = "killed"
    BY <1>c, <2>2, ConnTypes DEF SingleInv, Fresh
  <2>4. \A d \in Clients : at'[d] = "send" => at[d] = "send"
    BY <1>c, <2>2
  <2>5. \A d \in Clients : at'[d] = "connect" => at[d] = "connect"
    BY <2>2
  <2> QED
    BY <1>c, <1>k, <2>1, <2>3, <2>4, <2>5 DEF SingleInv, Fresh
<1>2. InLine'
  BY <1>c DEF SingleInv, InLine
<1>3. Sending'
  <2>1. ASSUME NEW d \in Clients, at'[d] = "send"
        PROVE  \E i \in Nat : /\ sent'[Conn(d)'] = i * BUFFER_SIZE
                              /\ SizeOf(d) = i * (BUFFER_SIZE - 1) + left'[d]
    <3>1. CASE d = c
      <4>1. ~AtEnd(l)
        BY <1>a, <1>t, <2>1, <3>1
      <4> QED
        BY <1>g, <1>k, <3>1, <4>1 DEF n
    <3>2. CASE d # c
      <4>1. at[d] = "send" /\ left'[d] = left[d] /\ Conn(d) # Conn(c)
        BY <1>a, <1>c, <1>k, <1>l, <1>t, <2>1, <3>2
      <4>2. sent'[Conn(d)'] = sent[Conn(d)]
        BY <1>k, <1>o, <4>1
      <4> QED
        BY <4>1, <4>2 DEF SingleInv, Sending
    <3> QED
      BY <3>1, <3>2
  <2> QED
    BY <2>1 DEF Sending
<1>4. Carried'
  <2>1. \A k \in Conns : Sound(k) => sent'[k] <= StreamLength(SizeOf(k[1]))
    BY <1>b, <1>k, <1>o DEF Sound, n
  <2>2. \A i \in DOMAIN backlog : backlog[i] \in Conns
    <3>1. backlog \in Seq(Conns)
      BY DEF SingleInv, TypeOK
    <3> QED
      BY <3>1
  <2>3. pc # "accept" => newsockfd \in Conns
    BY DEF SingleInv, Received
  <2> QED
    BY <1>c, <2>1, <2>2, <2>3 DEF SingleInv, Carried, Sound
<1>5. Received'
  <2>1. \A k \in Conns : sent[k] <= sent'[k]
    BY <1>c, <1>h, <1>k, <1>o, <1>s, <1>u
  <2>2. total \in Nat /\ \A k \in Conns : sent'[k] \in Nat
    <3>1. \A k \in Conns : sent'[k] \in Nat
      BY <1>h, <1>k, <1>o, <1>s, <1>u
    <3>2. total \in Nat
      BY DEF SingleInv, TypeOK
    <3> QED
      BY <3>1, <3>2
  <2>3. pc # "accept" /\ ~file.junk => total <= sent'[newsockfd]
    BY <1>s, <2>1, <2>2 DEF SingleInv, Received
  <2> QED
    BY <1>c, <2>3 DEF SingleInv, Received, Owner
<1> QED
  BY <1>1, <1>2, <1>3, <1>4, <1>5

-----------------------------------------------------------------------------
(* The steps of the server.                                                *)

\* The clients' side, which only an error of recv touches, for a connection
\* whose client is no more.
LEMMA ServerKeepsClients ==
    ASSUME SingleInv, ServerStep
    PROVE  Fresh' /\ Sending'
<1>k. \A d \in Clients : Conn(d)' = Conn(d) /\ Conn(d) \in Conns /\ Conn(d)[1] = d
  <2>1. round' = round
    BY DEF ServerStep, Accept, OpenFails, ReceiveData, ReceiveEnd, ReceiveError,
           Compile, Run, Reply, ReplyDetails, ReplyDetailsFails, CloseConnection,
           Terminate
  <2> QED
    BY <2>1, ConnNow DEF SingleInv, Conn
<1>1. CASE UNCHANGED <<at, round, left, link, sent>>
  BY <1>1, <1>k DEF SingleInv, Fresh, Sending
<1>2. CASE ReceiveError /\ ~Terminate
  <2>1. /\ link[newsockfd] = "reset"
        /\ link' = [link EXCEPT ![newsockfd] = "gone"]
        /\ sent' = [sent EXCEPT ![newsockfd] = total']
        /\ UNCHANGED <<at, round, left>>
    BY <1>2 DEF ReceiveError
  <2>2. /\ sent \in [Conns -> Nat]
        /\ link \in [Conns -> {"none", "open", "gone", "reset"}]
    BY DEF SingleInv, TypeOK
  <2>3. newsockfd \in Conns
    BY <1>2 DEF ReceiveError, SingleInv, Received
  <2>4. \A k \in Conns : /\ k # newsockfd => link'[k] = link[k] /\ sent'[k] = sent[k]
                         /\ link'[k] # "none" <=> link[k] # "none"
                         /\ link'[k] = "reset" => link[k] = "reset"
    BY <2>1, <2>2
  <2>5. \A d \in Clients : at[d] = "send" => Conn(d) # newsockfd
    BY <1>k, <2>1, <2>3 DEF SingleInv, Fresh
  <2>6. Fresh'
    <3>1. \A k \in Conns : link'[k] = "none" => sent'[k] = 0
      BY <2>1, <2>4 DEF SingleInv, Fresh
    <3>2. \A d \in Clients : \A r \in 1 .. LoopNum(d) : <<d, r>> \in Conns
      BY ConnTypes
    <3> QED
      BY <1>k, <2>1, <2>4, <3>1, <3>2 DEF SingleInv, Fresh
  <2>7. Sending'
    BY <1>k, <2>1, <2>4, <2>5 DEF SingleInv, Sending
  <2> QED
    BY <2>6, <2>7
<1> QED
  BY <1>1, <1>2
  DEF ServerStep, Accept, OpenFails, ReceiveData, ReceiveEnd, ReceiveError,
      Compile, Run, Reply, ReplyDetails, ReplyDetailsFails, CloseConnection,
      Terminate

\* A step in which the server goes on with the same connection, having
\* received nothing, or is done with it, or ends.
Proceeds ==
    /\ UNCHANGED <<newsockfd, total, file, link, sent>>
    /\ backlog' \in {backlog, <<>>}
    /\ \/ pc' \in {pc, "accept"}
       \/ pc \notin {"accept", "receive"} /\ pc' # "receive"

LEMMA ServerProceeds ==
    ASSUME ServerStep
    PROVE  \/ Accept \/ OpenFails \/ ReceiveData \/ (ReceiveError /\ ~Terminate)
           \/ Proceeds
<1>1. CASE Terminate
  BY <1>1 DEF Terminate, Proceeds
<1>2. CASE ReceiveEnd \/ CloseConnection
  BY <1>2 DEF ReceiveEnd, CloseConnection, Goto, Proceeds
<1>3. CASE Compile \/ Run \/ ReplyDetails
  BY <1>3 DEF Compile, Run, ReplyDetails, Goto, Proceeds
<1>4. CASE (Reply \/ ReplyDetailsFails) /\ ~Terminate
  BY <1>4 DEF Reply, ReplyDetailsFails, Goto, Proceeds
<1> QED
  BY <1>1, <1>2, <1>3, <1>4 DEF ServerStep

LEMMA ServerKeepsTransfer ==
    ASSUME SingleInv, ServerStep
    PROVE  InLine' /\ Carried' /\ Received'
<1>b. backlog \in Seq(Conns)
  BY DEF SingleInv, TypeOK
<1>s. sent \in [Conns -> Nat]
  BY DEF SingleInv, TypeOK
<1>t. total \in Nat /\ file \in [of : Clients \cup {Nobody}, bytes : Nat, junk : BOOLEAN]
  BY DEF SingleInv, TypeOK
\* The first connection of the backlog becomes the server's.
<1>1. ASSUME backlog # <<>>, newsockfd' = Head(backlog), backlog' = Tail(backlog),
             UNCHANGED <<link, sent>>
      PROVE  /\ InLine' /\ newsockfd' \in Conns /\ Sound(Head(backlog))
             /\ \A i \in DOMAIN backlog' : Sound(backlog'[i])
  <2>1. /\ DOMAIN backlog = 1 .. Len(backlog) /\ 1 \in DOMAIN backlog
        /\ Head(backlog) = backlog[1] /\ Head(backlog) \in Conns
        /\ DOMAIN backlog' = 1 .. Len(backlog) - 1
        /\ \A i \in DOMAIN backlog' : backlog'[i] = backlog[i + 1] /\ i + 1 \in DOMAIN backlog
    BY <1>1, <1>b
  <2>2. /\ \A i \in DOMAIN backlog : link[backlog[i]] # "none"
        /\ \A i, j \in DOMAIN backlog : backlog[i] = backlog[j] => i = j
    BY DEF SingleInv, InLine
  <2>3. \A i \in DOMAIN backlog' : i \in Int /\ i + 1 # 1
    BY <1>b, <2>1
  <2>4. \A i, j \in DOMAIN backlog' : i + 1 = j + 1 => i = j
    BY <2>3
  <2>5. \A i, j \in DOMAIN backlog' : backlog'[i] = backlog'[j] => i = j
    BY <2>1, <2>2, <2>4
  <2>6. \A i \in DOMAIN backlog' : link'[backlog'[i]] # "none" /\ backlog'[i] # newsockfd'
    BY <1>1, <2>1, <2>2, <2>3
  <2>7. newsockfd' \in Conns => link'[newsockfd'] # "none"
    BY <1>1, <2>1, <2>2
  <2>8. InLine'
    BY <2>5, <2>6, <2>7 DEF InLine
  <2> QED
    BY <1>1, <2>1, <2>8 DEF SingleInv, Carried
<1>2. CASE Accept
  <2>1. /\ backlog # <<>> /\ newsockfd' = Head(backlog) /\ backlog' = Tail(backlog)
        /\ UNCHANGED <<link, sent>> /\ total' = 0 /\ pc' = "receive"
        /\ file' = [of |-> Head(backlog)[1], bytes |-> 0, junk |-> FALSE]
    BY <1>2 DEF Accept, Goto
  <2>2. Carried'
    BY <1>1, <2>1 DEF Carried, Sound
  <2>3. Received'
    <3>1. 0 <= sent[Head(backlog)]
      BY <1>1, <1>s, <2>1
    <3> QED
      BY <1>1, <2>1, <3>1 DEF Received, Owner
  <2> QED
    BY <1>1, <2>1, <2>2, <2>3
<1>3. CASE OpenFails
  <2>1. /\ backlog # <<>> /\ newsockfd' = Head(backlog) /\ backlog' = Tail(backlog)
        /\ UNCHANGED <<link, sent>> /\ pc = "accept" /\ pc' = pc
    BY <1>3 DEF OpenFails
  <2> QED
    BY <1>1, <2>1 DEF Carried, Received, Sound
<1>4. CASE ReceiveData
  <2>1. /\ pc = "receive" /\ UNCHANGED <<newsockfd, link, sent, backlog>>
        /\ pc' = IF Complete(total', SizeOf(Owner)) THEN "compile" ELSE "receive"
    BY <1>4 DEF ReceiveData, Goto
  <2>2. PICK n \in Pieces(sent[newsockfd] - total) :
              total' = total + n /\ file' = [file EXCEPT !.bytes = file.bytes + n]
    BY <1>4 DEF ReceiveData
  <2>3. newsockfd \in Conns /\ file.of = Owner
    BY <2>1 DEF SingleInv, Received
  <2>4. sent[newsockfd] \in Nat
    BY <1>s, <2>3
  <2>5. n \in Nat /\ n <= sent[newsockfd] - total
    BY <1>t, <2>2, <2>4, PieceTypes
  <2>6. file'.of = file.of /\ file'.junk = file.junk /\ file'.bytes = file.bytes + n
    BY <1>t, <2>2
  <2>7. InLine' /\ Carried'
    BY <2>1, <2>6 DEF SingleInv, InLine, Carried, Sound
  <2>8. ~file'.junk => file'.bytes = total' /\ total' <= sent'[newsockfd']
    BY <1>t, <2>1, <2>2, <2>4, <2>5, <2>6 DEF SingleInv, Received
  <2> QED
    BY <2>1, <2>3, <2>6, <2>7, <2>8 DEF Received, Owner
\* What is graded after an error of recv is junk; the other connections are
\* not touched.
<1>5. CASE ReceiveError /\ ~Terminate
  <2>1. /\ pc = "receive" /\ UNCHANGED <<newsockfd, backlog>>
        /\ link' = [link EXCEPT ![newsockfd] = "gone"]
        /\ sent' = [sent EXCEPT ![newsockfd] = total']
        /\ file' = [file EXCEPT !.junk = TRUE]
    BY <1>5 DEF ReceiveError
  <2>2. file'.of = file.of /\ file'.junk
    BY <1>t, <2>1
  <2>3. \A i \in DOMAIN backlog : /\ link'[backlog[i]] = link[backlog[i]]
                                  /\ sent'[backlog[i]] = sent[backlog[i]]
    <3>1. link \in [Conns -> {"none", "open", "gone", "reset"}]
      BY DEF SingleInv, TypeOK
    <3>2. \A i \in DOMAIN backlog : backlog[i] \in Conns /\ backlog[i] # newsockfd
      BY <1>b DEF SingleInv, InLine
    <3> QED
      BY <1>s, <2>1, <3>1, <3>2
  <2>4. newsockfd \in Conns => link'[newsockfd] = "gone"
    <3>1. link \in [Conns -> {"none", "open", "gone", "reset"}]
      BY DEF SingleInv, TypeOK
    <3> QED
      BY <2>1, <3>1
  <2>5. InLine'
    BY <2>1, <2>3, <2>4 DEF SingleInv, InLine
  <2>6. Carried'
    BY <2>1, <2>2, <2>3 DEF SingleInv, Carried, Sound
  <2> QED
    BY <2>1, <2>2, <2>5, <2>6 DEF SingleInv, Received, Owner
<1>6. CASE Proceeds
  <2>1. /\ UNCHANGED <<newsockfd, total, file, link, sent>>
        /\ backlog' = backlog \/ DOMAIN backlog' = {}
    BY <1>6 DEF Proceeds
  <2>2. pc' # "accept" => pc # "accept" /\ (pc' # "receive" => pc # "receive")
    BY <1>6 DEF Proceeds
  <2>3. InLine' /\ Carried'
    BY <2>1, <2>2 DEF SingleInv, InLine, Carried, Sound
  <2> QED
    BY <2>1, <2>2, <2>3 DEF SingleInv, Received, Owner
<1> QED
  BY <1>2, <1>3, <1>4, <1>5, <1>6, ServerProceeds

-----------------------------------------------------------------------------
LEMMA SingleStep == SingleInv /\ [Next]_vars => SingleInv'
<1> SUFFICES ASSUME SingleInv, [Next]_vars PROVE SingleInv'
  OBVIOUS
<1>1. CASE ServerStep
  BY <1>1, ServerTypeStep, ServerKeepsClients, ServerKeepsTransfer DEF SingleInv
<1>2. ASSUME NEW c \in Clients, ClientStep(c) \/ Kill(c) PROVE SingleInv'
  <2>1. TypeOK'
    BY <1>2, ClientTypeStep DEF SingleInv
  <2>2. (Connect(c) /\ up) \/ SendChunk(c) \/ Moves(c)
    BY <1>2, ClientMoves DEF SingleInv
  <2> QED
    BY <2>1, <2>2, ConnectKeeps, SendChunkKeeps, MovesKeeps DEF SingleInv
<1>3. CASE UNCHANGED vars
  <2> USE <1>3 DEF vars, SingleInv
  <2>1. TypeOK'
    BY DEF TypeOK
  <2>2. Fresh' /\ Sending'
    BY DEF Fresh, Sending, Conn
  <2>3. InLine' /\ Carried' /\ Received'
    BY DEF InLine, Carried, Received, Sound, Owner
  <2> QED
    BY <2>1, <2>2, <2>3
<1> QED
  BY <1>1, <1>2, <1>3 DEF Next

LEMMA SingleInvariant == Spec => []SingleInv
BY SingleInit, SingleStep, PTL DEF Spec

\* What the invariant says of a file that is about to be graded.
LEMMA ReceivedIsSent == SingleInv => GradedIsSent
<1> SUFFICES ASSUME SingleInv, pc \in {"compile", "run", "reply"}, ~file.junk
             PROVE  LET n == SizeOf(Owner) IN
                    /\ file.of = Owner
                    /\ n < BUFFER_SIZE => Whole
                    /\ n - Arrived(file.bytes, n) <= n \div BUFFER_SIZE
  BY DEF GradedIsSent
<1>1. /\ newsockfd \in Conns /\ file.of = Owner /\ file.bytes = total
      /\ total <= sent[newsockfd] /\ Complete(total, SizeOf(Owner))
  BY DEF SingleInv, Received
<1>2. Owner \in Clients
  BY <1>1, ConnTypes DEF Owner
<1>3. SizeOf(Owner) \in Nat
  BY <1>2, SingleServerAssumption
<1>4. total \in Nat /\ sent[newsockfd] \in Nat
  <2>1. sent \in [Conns -> Nat]
    BY DEF SingleInv, TypeOK
  <2>2. total \in Nat
    BY DEF SingleInv, TypeOK
  <2> QED
    BY <1>1, <2>1, <2>2
<1>5. total <= StreamLength(SizeOf(Owner))
  <2>1. sent[newsockfd] <= StreamLength(SizeOf(Owner))
    BY DEF SingleInv, Carried, Sound, Owner
  <2>2. StreamLength(SizeOf(Owner)) \in Int
    BY <1>3, FileTransferAssumption, Quotient DEF StreamLength
  <2> QED
    BY <1>1, <1>4, <2>1, <2>2
<1>6. SizeOf(Owner) < BUFFER_SIZE => Arrived(total, SizeOf(Owner)) = SizeOf(Owner)
  BY <1>1, <1>3, <1>4, <1>5, SmallFilesArriveWhole
<1>7. SizeOf(Owner) - Arrived(total, SizeOf(Owner)) <= SizeOf(Owner) \div BUFFER_SIZE
  BY <1>1, <1>3, <1>4, MissingBytesAreBounded
<1> QED
  BY <1>1, <1>6, <1>7 DEF Whole

\* Every variable keeps its type, with any number of clients, requests and
\* deaths of clients.
THEOREM SingleTypeCorrect == Spec => []TypeOK
<1>1. SingleInv => TypeOK
  BY DEF SingleInv
<1> QED
  BY SingleInvariant, <1>1, PTL

\* Whatever the sizes, the buffer and the pieces in which recv returns them,
\* what the server compiles, runs and answers is the source of the client of
\* its connection, whole if it fits in a chunk, and otherwise short by at
\* most a byte for each buffer of it.
THEOREM GradedIsWhatWasSent == Spec => []GradedIsSent
BY SingleInvariant, ReceivedIsSent, PTL

-----------------------------------------------------------------------------
(* Whose turn it is.                                                       *)

Queued(k) == \E i \in DOMAIN backlog : backlog[i] = k

\* A client whose upload is not yet answered is sending, or receives, and
\* there is nothing to receive.
Waiting(k) ==
    /\ k = Conn(k[1])
    /\ k[1] \notin Killed =>
          link[k] = "open" /\ at[k[1]] \in {"send", "receive"} /\ avail[k] = 0

\* One that has been sent the verdict, but not the details, has received
\* nothing more.
Answered(k) ==
    /\ k = Conn(k[1])
    /\ k[1] \notin Killed =>
          /\ link[k] = "open"
          /\ \/ at[k[1]] \in {"send", "receive"} /\ avail[k] = VerdictLength
             \/ at[k[1]] = "receive again" /\ avail[k] = 0

\* The descriptors that nothing will close are those of clients that died on
\* the connection.
Leaked == IF pc = "accept" THEN open ELSE open \ {newsockfd}
Abandoned(k) == k = Conn(k[1]) /\ k[1] \in Killed

Unanswered == {"receive", "compile", "run", "reply"}

Turns ==
    /\ \A k \in Conns : link[k] = "none" => avail[k] = 0
    /\ ~up => Killed # {} /\ open = {}
    /\ up => /\ pc # "accept" => newsockfd \in open
             /\ \A k \in Conns :
                  /\ Queued(k) => Waiting(k)
                  /\ k = newsockfd /\ pc \in Unanswered => Waiting(k)
                  /\ k = newsockfd /\ pc = "details" => Answered(k)
                  /\ k \in Leaked => Abandoned(k)

LEMMA TurnsInit == Init => Turns
BY DEF Init, Turns, Leaked, Queued, Unanswered

\* What a client's step leaves alone.
LEMMA ClientEffect ==
    ASSUME TypeOK, NEW c \in Clients, ClientStep(c) \/ Kill(c)
    PROVE  /\ UNCHANGED <<up, pc, newsockfd, file, exe, result, open, answer>>
           /\ c \notin Killed /\ Killed' \in {Killed, Killed \cup {c}}
           /\ \A d \in Clients \ {c} : at'[d] = at[d] /\ round'[d] = round[d]
           /\ \A k \in Conns \ {Conn(c)} : link'[k] = link[k] /\ avail'[k] = avail[k]
           /\ \A k \in Conns : link'[k] = "none" => link[k] = "none"
           /\ \A k \in Conns : avail'[k] > 0 => avail[k] > 0
           /\ \/ backlog' = backlog
              \/ Connect(c) /\ up /\ backlog' = Append(backlog, Conn(c))
<1>t. /\ at \in [Clients -> {"connect", "send", "receive", "receive again",
                             "sleep", "end", "killed"}]
      /\ link \in [Conns -> {"none", "open", "gone", "reset"}]
      /\ round \in [Clients -> Nat]
  BY DEF TypeOK
<1>v. avail \in [Conns -> Nat] /\ Conn(c) \in Conns
  BY ConnNow DEF TypeOK
<1>1. (Connect(c) /\ up) \/ SendChunk(c) \/ Moves(c)
  BY ClientMoves
<1>2. /\ at[c] # "killed"
      /\ \A d \in Clients \ {c} : at'[d] = at[d] /\ round'[d] = round[d]
  <2>1. ASSUME Connect(c), up PROVE at[c] = "connect" /\ round' = round /\ ClientAt(c, "send")
    BY <2>1 DEF Connect
  <2>2. ASSUME SendChunk(c)
        PROVE  at[c] = "send" /\ round' = round /\ \E label : ClientAt(c, label)
    BY <2>2 DEF SendChunk
  <2> QED
    BY <1>1, <1>t, <2>1, <2>2 DEF ClientAt, Moves
<1>3. /\ \A k \in Conns \ {Conn(c)} : link'[k] = link[k]
      /\ \A k \in Conns : link'[k] = "none" => link[k] = "none"
  <2>1. \/ link' = link
        \/ \E how \in {"open", "gone", "reset"} : link' = [link EXCEPT ![Conn(c)] = how]
    BY <1>1 DEF Connect, SendChunk, Moves
  <2> QED
    BY <1>t, <1>v, <2>1
<1>4. /\ \A k \in Conns \ {Conn(c)} : avail'[k] = avail[k]
      /\ avail'[Conn(c)] > 0 => avail[Conn(c)] > 0
  <2>1. CASE avail' = avail
    BY <1>v, <2>1
  <2>2. CASE avail' = [avail EXCEPT ![Conn(c)] = 0]
    BY <1>v, <2>2
  <2>3. CASE Take(c)
    <3>1. avail[Conn(c)] \in Nat
      BY <1>v
    <3>2. \A n \in Pieces(avail[Conn(c)]) : avail[Conn(c)] > 0
      BY <3>1, PieceTypes
    <3>3. CASE \E n \in Pieces(avail[Conn(c)]) :
                  avail' = [avail EXCEPT ![Conn(c)] = avail[Conn(c)] - n]
      BY <1>v, <3>2, <3>3
    <3> QED
      BY <2>2, <2>3, <3>3 DEF Take
  <2> QED
    BY <2>1, <2>2, <2>3 DEF ClientStep, Connect, SendChunk, SendFails, Receive,
       ReceiveAgain, SleepAndClose, Kill, NextRound
<1>5. \A k \in Conns : avail'[k] > 0 => avail[k] > 0
  BY <1>4
<1>6. /\ UNCHANGED <<up, pc, newsockfd, file, exe, result, open, answer>>
      /\ backlog' = backlog \/ (Connect(c) /\ up /\ backlog' = Append(backlog, Conn(c)))
  BY DEF ClientStep, Connect, SendChunk, SendFails, Receive, ReceiveAgain,
     SleepAndClose, Kill
<1>7. c \notin Killed /\ Killed' \in {Killed, Killed \cup {c}}
  BY <1>2 DEF Killed
<1> QED
  BY <1>2, <1>3, <1>4, <1>5, <1>6, <1>7

\* A client that waits waits for the server.
LEMMA WaitingClient ==
    ASSUME TypeOK, NEW c \in Clients, ClientStep(c) \/ Kill(c), NEW k \in Conns, Served(k)
    PROVE  (Waiting(k) => Waiting(k)') /\ (Answered(k) => Answered(k)')
<1>t. /\ at \in [Clients -> {"connect", "send", "receive", "receive again",
                             "sleep", "end", "killed"}]
      /\ avail \in [Conns -> Nat]
  BY DEF TypeOK
<1>e. /\ c \notin Killed /\ Killed' \in {Killed, Killed \cup {c}}
      /\ \A d \in Clients \ {c} : at'[d] = at[d] /\ round'[d] = round[d]
      /\ \A l \in Conns \ {Conn(c)} : link'[l] = link[l] /\ avail'[l] = avail[l]
  BY ClientEffect
<1>c. Conn(c) \in Conns /\ Conn(c) = <<c, round[c]>> /\ Conn(c)[1] = c
  BY ConnNow
<1>1. CASE k[1] # c
  <2>1. k[1] \in Clients \ {c} /\ k # Conn(c)
    BY <1>1, <1>c, ConnTypes
  <2>2. at'[k[1]] = at[k[1]] /\ round'[k[1]] = round[k[1]] /\ link'[k] = link[k]
        /\ avail'[k] = avail[k] /\ (k[1] \in Killed' <=> k[1] \in Killed)
    BY <1>e, <2>1
  <2> QED
    BY <2>2 DEF Waiting, Answered, Conn
<1>2. CASE k[1] = c /\ k # Conn(c)
  BY <1>2 DEF Waiting, Answered
<1>3. CASE k = Conn(c)
  <2>w. k[1] = c /\ k = <<c, round[c]>> /\ k[1] \notin Killed /\ avail[k] \in Nat
    BY <1>3, <1>c, <1>e, <1>t
  <2>1. CASE Kill(c)
    <3>1. k[1] \in Killed' /\ round' = round
      BY <1>t, <2>1, <2>w DEF Kill, ClientAt, Killed
    <3> QED
      BY <2>w, <3>1 DEF Waiting, Answered, Conn
  <2>2. CASE SendChunk(c)
    <3>1. /\ at[c] = "send" /\ at'[c] \in {"send", "receive"}
          /\ UNCHANGED <<link, avail, round>>
      BY <1>t, <2>2 DEF SendChunk, ClientAt
    <3> QED
      BY <2>w, <3>1 DEF Waiting, Answered, Conn
  <2>3. CASE Receive(c)
    <3>1. PICK m \in Pieces(avail[k]) : avail' = [avail EXCEPT ![k] = avail[k] - m]
      BY <1>3, <2>3 DEF Receive, Take
    <3>2. m \in Nat /\ m > 0 /\ m <= avail[k]
      BY <2>w, PieceTypes
    <3>3. avail[k] # 0 /\ avail'[k] = avail[k] - m
      <4>1. avail'[k] = avail[k] - m
        BY <1>t, <3>1
      <4> QED
        BY <2>w, <3>2, <4>1
    <3>4. /\ at[c] = "receive" /\ at'[c] = "receive again" /\ UNCHANGED <<link, round>>
      BY <1>t, <2>3 DEF Receive, ClientAt
    <3>5. avail[k] = 1 => avail'[k] = 0
      BY <2>w, <3>2, <3>3
    <3>6. ~Waiting(k)
      BY <2>w, <3>3 DEF Waiting
    <3>7. Answered(k) => Answered(k)'
      BY <2>w, <3>4, <3>5 DEF Answered, VerdictLength, Conn
    <3> QED
      BY <3>6, <3>7
  <2>4. CASE ReceiveAgain(c)
    <3>1. PICK m \in Pieces(avail[k]) : TRUE
      BY <1>3, <2>4 DEF ReceiveAgain, Take
    <3>2. avail[k] # 0
      BY <2>w, <3>1, PieceTypes
    <3> QED
      BY <2>4, <2>w, <3>2 DEF ReceiveAgain, Waiting, Answered
  <2>5. CASE Connect(c) \/ SendFails(c) \/ SleepAndClose(c)
    BY <1>3, <2>5, <2>w DEF Connect, SendFails, SleepAndClose, Waiting, Answered
  <2> QED
    BY <2>1, <2>2, <2>3, <2>4, <2>5 DEF ClientStep
<1> QED
  BY <1>1, <1>2, <1>3

LEMMA TurnsClient ==
    ASSUME SingleInv, Turns, NEW c \in Clients, ClientStep(c) \/ Kill(c)
    PROVE  Turns'
<1>t. TypeOK /\ backlog \in Seq(Conns) /\ open \subseteq Conns
  BY DEF SingleInv, TypeOK
<1>e. /\ UNCHANGED <<up, pc, newsockfd, open>>
      /\ c \notin Killed /\ Killed' \in {Killed, Killed \cup {c}}
      /\ \A d \in Clients \ {c} : at'[d] = at[d] /\ round'[d] = round[d]
      /\ \A k \in Conns : link'[k] = "none" => link[k] = "none"
      /\ \A k \in Conns : avail'[k] > 0 => avail[k] > 0
      /\ \/ backlog' = backlog
         \/ Connect(c) /\ up /\ backlog' = Append(backlog, Conn(c))
  BY <1>t, ClientEffect
<1>c. Conn(c) \in Conns /\ Conn(c) = <<c, round[c]>> /\ Conn(c)[1] = c
  BY <1>t, ConnNow
<1>1. \A k \in Conns : link'[k] = "none" => avail'[k] = 0
  <2>1. avail \in [Conns -> Nat] /\ avail' \in [Conns -> Nat]
    BY <1>t, ClientTypeStep DEF TypeOK
  <2>2. \A k \in Conns : avail[k] \in Nat /\ avail'[k] \in Nat
    BY <2>1
  <2> QED
    BY <1>e, <2>2 DEF Turns
<1>2. ~up' => Killed' # {} /\ open' = {}
  BY <1>e DEF Turns
<1>3. ASSUME up, NEW k \in Conns
      PROVE  (Queued(k) => Waiting(k)')
             /\ (k = newsockfd /\ pc \in Unanswered => Waiting(k)')
             /\ (k = newsockfd /\ pc = "details" => Answered(k)')
  <2>1. Queued(k) => Served(k)
    BY <1>3 DEF Queued, Served
  <2>2. k = newsockfd /\ pc # "accept" => Served(k)
    BY <1>3 DEF Turns, Served
  <2>3. Served(k) => (Waiting(k) => Waiting(k)') /\ (Answered(k) => Answered(k)')
    BY <1>t, WaitingClient
  <2> QED
    BY <1>3, <2>1, <2>2, <2>3 DEF Turns, Unanswered
<1>4. ASSUME up, NEW k \in Conns, Queued(k)' PROVE Waiting(k)'
  <2>1. CASE Queued(k)
    BY <1>3, <1>4, <2>1
  <2>2. CASE ~Queued(k)
    <3>1. Connect(c) /\ backlog' = Append(backlog, Conn(c))
      BY <1>4, <1>e, <2>2 DEF Queued
    <3>2. k = Conn(c)
      BY <1>4, <1>c, <1>t, <2>2, <3>1 DEF Queued
    <3>3. /\ at[c] = "connect" /\ at' = [at EXCEPT ![c] = "send"]
          /\ link' = [link EXCEPT ![k] = "open"] /\ UNCHANGED <<avail, round>>
      BY <1>4, <3>1, <3>2 DEF Connect, ClientAt
    <3>4. /\ at'[c] = "send" /\ link'[k] = "open"
      BY <3>3, <1>t DEF TypeOK
    <3>5. link[k] = "none"
      <4>1. round[c] \in 1 .. LoopNum(c) /\ round[c] = round[c]
        BY <1>t DEF TypeOK
      <4> QED
        BY <1>c, <3>2, <3>3, <4>1 DEF SingleInv, Fresh
    <3>6. avail'[k] = 0
      BY <3>3, <3>5 DEF Turns
    <3> QED
      BY <1>c, <3>2, <3>3, <3>4, <3>6 DEF Waiting, Conn
  <2> QED
    BY <2>1, <2>2
<1>5. ASSUME up, NEW k \in Conns, k \in Leaked' PROVE Abandoned(k)'
  <2>1. k \in Leaked
    BY <1>5, <1>e DEF Leaked
  <2>2. Abandoned(k)
    BY <1>5, <2>1 DEF Turns
  <2>3. k[1] \in Clients \ {c} /\ k[1] \in Killed'
    BY <1>e, <2>2 DEF Abandoned, Killed
  <2>4. round'[k[1]] = round[k[1]]
    BY <1>e, <2>3
  <2> QED
    BY <2>2, <2>3, <2>4 DEF Abandoned, Conn
<1>6. up' /\ pc' # "accept" => newsockfd' \in open'
  BY <1>e DEF Turns
<1> QED
  BY <1>1, <1>2, <1>3, <1>4, <1>5, <1>6, <1>e DEF Turns

\* What the server needs to know of the connection it works on: if it is not
\* open, its client was killed on it.
LEMMA ServedClient ==
    ASSUME SingleInv, Turns, up, pc # "accept"
    PROVE  /\ newsockfd \in Conns /\ newsockfd \in open /\ link[newsockfd] # "none"
           /\ pc # "close" /\ link[newsockfd] # "open" => Abandoned(newsockfd)
<1>1. newsockfd \in Conns /\ newsockfd \in open /\ link[newsockfd] # "none"
  BY DEF SingleInv, Received, InLine, Turns
<1>2. pc # "close" => pc \in Unanswered \/ pc = "details"
  BY DEF SingleInv, TypeOK, Unanswered
<1>3. pc # "close" => Waiting(newsockfd) \/ Answered(newsockfd)
  BY <1>1, <1>2 DEF Turns
<1> QED
  BY <1>1, <1>3 DEF Waiting, Answered, Abandoned

LEMMA TurnsServer ==
    ASSUME SingleInv, Turns, ServerStep
    PROVE  Turns'
<1>t. /\ backlog \in Seq(Conns) /\ open \subseteq Conns
      /\ link \in [Conns -> {"none", "open", "gone", "reset"}]
      /\ avail \in [Conns -> Nat]
  BY DEF SingleInv, TypeOK
<1>u. up
  BY DEF ServerStep, Accept, OpenFails, ReceiveData, ReceiveEnd, ReceiveError,
     Compile, Run, Reply, ReplyDetails, ReplyDetailsFails, CloseConnection
<1>e. at' = at /\ round' = round /\ Killed' = Killed
  <2>1. at' = at /\ round' = round
    BY DEF ServerStep, Accept, OpenFails, ReceiveData, ReceiveEnd, ReceiveError,
       Compile, Run, Reply, ReplyDetails, ReplyDetailsFails, CloseConnection,
       Terminate
  <2> QED
    BY <2>1 DEF Killed
<1>s. ASSUME NEW k \in Conns
      PROVE  /\ Abandoned(k)' <=> Abandoned(k)
             /\ Abandoned(k) => Waiting(k)' /\ Answered(k)'
             /\ link'[k] = link[k] /\ avail'[k] = avail[k] =>
                   (Waiting(k) => Waiting(k)') /\ (Answered(k) => Answered(k)')
  BY <1>e DEF Abandoned, Waiting, Answered, Conn
<1>n. pc # "accept" => /\ newsockfd \in Conns /\ newsockfd \in open
                       /\ link[newsockfd] # "none"
                       /\ pc # "close" /\ link[newsockfd] # "open" => Abandoned(newsockfd)
  BY <1>u, ServedClient
<1>q. backlog # <<>> => /\ Head(backlog) \in Conns /\ Queued(Head(backlog))
                        /\ \A k \in Conns : (\E i \in DOMAIN Tail(backlog) : Tail(backlog)[i] = k)
                                               => Queued(k)
  BY <1>t DEF Queued
<1>1. CASE Accept
  <2>1. PICK h \in Conns : h = Head(backlog) /\ Queued(h) /\ Waiting(h)
    BY <1>1, <1>q, <1>u DEF Accept, Turns
  <2>2. /\ newsockfd' = h /\ open' = open \cup {h} /\ backlog' = Tail(backlog)
        /\ pc = "accept" /\ pc' = "receive" /\ UNCHANGED <<up, link, avail>>
    BY <1>1, <2>1 DEF Accept, Goto
  <2>3. \A k \in Conns : Queued(k)' => Queued(k)
    BY <1>1, <1>q, <2>2 DEF Queued, Accept
  <2>4. Leaked' \subseteq Leaked
    BY <2>2 DEF Leaked
  <2> QED
    BY <1>e, <1>s, <1>u, <2>1, <2>2, <2>3, <2>4 DEF Turns, Unanswered
<1>2. CASE OpenFails
  <2>1. /\ backlog' = Tail(backlog) /\ pc = "accept"
        /\ UNCHANGED <<up, pc, open, link, avail>>
    BY <1>2 DEF OpenFails
  <2>2. \A k \in Conns : Queued(k)' => Queued(k)
    BY <1>2, <1>q, <2>1 DEF Queued, OpenFails
  <2>3. Leaked' = Leaked
    BY <2>1 DEF Leaked
  <2> QED
    BY <1>e, <1>s, <1>u, <2>1, <2>2, <2>3 DEF Turns, Unanswered
<1>3. CASE ReceiveData \/ Compile \/ Run
  <2>1. /\ pc \in Unanswered /\ pc' \in Unanswered
        /\ UNCHANGED <<up, newsockfd, open, backlog, link, avail>>
    BY <1>3 DEF ReceiveData, Compile, Run, Goto, Unanswered
  <2>2. Leaked' = Leaked /\ \A k \in Conns : Queued(k)' <=> Queued(k)
    BY <2>1 DEF Leaked, Queued, Unanswered
  <2> QED
    BY <1>e, <1>s, <1>u, <2>1, <2>2 DEF Turns, Unanswered
<1>4. CASE ReceiveEnd \/ CloseConnection
  <2>1. /\ pc # "accept" /\ pc' = "accept" /\ open' = open \ {newsockfd}
        /\ UNCHANGED <<up, backlog, link, avail>>
    BY <1>4 DEF ReceiveEnd, CloseConnection, Close, Goto
  <2>2. Leaked' = Leaked /\ \A k \in Conns : Queued(k)' <=> Queued(k)
    BY <2>1 DEF Leaked, Queued
  <2> QED
    BY <1>e, <1>s, <1>u, <2>1, <2>2 DEF Turns, Unanswered
<1>5. CASE ReceiveError /\ ~Terminate
  <2>1. /\ pc = "receive" /\ pc' \in {"receive", "compile"} /\ link[newsockfd] = "reset"
        /\ link' = [link EXCEPT ![newsockfd] = "gone"]
        /\ UNCHANGED <<up, newsockfd, open, backlog, avail>>
    BY <1>5 DEF ReceiveError, Goto
  <2>2. Leaked' = Leaked /\ \A k \in Conns : Queued(k)' <=> Queued(k)
    BY <2>1 DEF Leaked, Queued
  <2>3. Abandoned(newsockfd) /\ newsockfd \in Conns
    BY <1>n, <2>1
  <2>4. \A k \in Conns \ {newsockfd} : link'[k] = link[k] /\ avail'[k] = avail[k]
    BY <2>1, <1>t
  <2>5. \A k \in Conns : (Waiting(k) => Waiting(k)') /\ (Abandoned(k) <=> Abandoned(k)')
    BY <1>s, <2>3, <2>4
  <2>6. \A k \in Conns : link'[k] = "none" => avail'[k] = 0
    BY <1>n, <1>t, <2>1 DEF Turns
  <2> QED
    BY <1>e, <1>u, <2>1, <2>2, <2>5, <2>6 DEF Turns, Unanswered
<1>6. CASE Terminate /\ (ReceiveError \/ Reply \/ ReplyDetailsFails)
  <2>1. Abandoned(newsockfd)
    BY <1>6, <1>n DEF ReceiveError, Reply, ReplyDetailsFails, Terminate, Goto
  <2>2. ~up' /\ open' = {} /\ link' = link /\ avail' = avail
    BY <1>6 DEF Terminate, ReceiveError, Reply, ReplyDetailsFails
  <2> QED
    BY <1>e, <2>1, <2>2 DEF Turns, Abandoned
<1>7. CASE Reply /\ ~Terminate
  <2>1. /\ pc = "reply" /\ pc' = "details"
        /\ avail' = [avail EXCEPT ![newsockfd] = avail[newsockfd] + VerdictLength]
        /\ UNCHANGED <<up, newsockfd, open, backlog, link>>
    BY <1>7 DEF Reply, Goto
  <2>2. Leaked' = Leaked /\ \A k \in Conns : Queued(k)' <=> Queued(k)
    BY <2>1 DEF Leaked, Queued
  <2>3. PICK s \in Conns : s = newsockfd /\ Waiting(s) /\ link[s] # "none"
    BY <1>n, <1>u, <2>1 DEF Turns, Unanswered
  <2>4. \A k \in Conns \ {s} : link'[k] = link[k] /\ avail'[k] = avail[k]
    BY <1>t, <2>1, <2>3
  <2>5. \A k \in Conns \ {s} : (Waiting(k) => Waiting(k)') /\ (Abandoned(k) <=> Abandoned(k)')
    BY <1>s, <2>4
  <2>6. \A k \in Conns : Queued(k) => k # s
    BY <2>3 DEF SingleInv, InLine, Queued
  <2>7. Answered(s)'
    <3>1. avail[s] = 0 => avail'[s] = VerdictLength
      BY <1>t, <2>1, <2>3 DEF VerdictLength
    <3> QED
      BY <1>e, <2>1, <2>3, <3>1 DEF Waiting, Answered, Conn
  <2>8. \A k \in Conns : link'[k] = "none" => avail'[k] = 0
    BY <2>1, <2>3, <2>4 DEF Turns
  <2>9. s \notin Leaked
    BY <2>1, <2>3 DEF Leaked
  <2> QED
    BY <1>e, <1>n, <1>u, <2>1, <2>2, <2>3, <2>5, <2>6, <2>7, <2>8, <2>9 DEF Turns, Unanswered
<1>8. CASE ReplyDetails
  <2>1. /\ pc = "details" /\ pc' = "close"
        /\ avail' = [avail EXCEPT ![newsockfd] = avail[newsockfd] + DetailsLength]
        /\ UNCHANGED <<up, newsockfd, open, backlog, link>>
    BY <1>8 DEF ReplyDetails, Goto
  <2>2. Leaked' = Leaked /\ \A k \in Conns : Queued(k)' <=> Queued(k)
    BY <2>1 DEF Leaked, Queued
  <2>3. PICK s \in Conns : s = newsockfd /\ link[s] # "none"
    BY <1>n, <2>1
  <2>4. \A k \in Conns \ {s} : link'[k] = link[k] /\ avail'[k] = avail[k]
    BY <1>t, <2>1, <2>3
  <2>5. \A k \in Conns \ {s} : (Waiting(k) => Waiting(k)') /\ (Abandoned(k) <=> Abandoned(k)')
    BY <1>s, <2>4
  <2>6. \A k \in Conns : Queued(k) => k # s
    BY <2>3 DEF SingleInv, InLine, Queued
  <2>7. \A k \in Conns : link'[k] = "none" => avail'[k] = 0
    BY <2>1, <2>3, <2>4 DEF Turns
  <2>8. s \notin Leaked
    BY <2>1, <2>3 DEF Leaked
  <2> QED
    BY <1>e, <1>n, <1>u, <2>1, <2>2, <2>3, <2>5, <2>6, <2>7, <2>8 DEF Turns, Unanswered
<1>9. CASE ReplyDetailsFails /\ ~Terminate
  <2>1. /\ pc = "details" /\ pc' = "accept" /\ link[newsockfd] # "open"
        /\ UNCHANGED <<up, open, backlog, link, avail>>
    BY <1>9 DEF ReplyDetailsFails, Goto
  <2>2. Leaked' \subseteq Leaked \cup {newsockfd} /\ \A k \in Conns : Queued(k)' <=> Queued(k)
    BY <2>1 DEF Leaked, Queued
  <2>3. Abandoned(newsockfd) /\ newsockfd \in Conns
    BY <1>n, <2>1
  <2>4. \A k \in Conns : k \in Leaked' => Abandoned(k)
    BY <1>u, <2>2, <2>3 DEF Turns
  <2> QED
    BY <1>e, <1>s, <1>u, <2>1, <2>2, <2>4 DEF Turns, Unanswered
<1> QED
  BY <1>1, <1>2, <1>3, <1>4, <1>5, <1>6, <1>7, <1>8, <1>9 DEF ServerStep

LEMMA TurnsStep == SingleInv /\ Turns /\ [Next]_vars => (SingleInv /\ Turns)'
<1> SUFFICES ASSUME SingleInv, Turns, [Next]_vars PROVE SingleInv' /\ Turns'
  OBVIOUS
<1>1. CASE UNCHANGED vars
  <2>1. /\ UNCHANGED <<up, pc, newsockfd, open, link, avail>>
        /\ \A k \in Conns : /\ Queued(k)' <=> Queued(k)
                            /\ Waiting(k)' <=> Waiting(k)
                            /\ Answered(k)' <=> Answered(k)
                            /\ Abandoned(k)' <=> Abandoned(k)
                            /\ k \in Leaked' <=> k \in Leaked
        /\ Killed' = Killed
    BY <1>1 DEF vars, Queued, Waiting, Answered, Abandoned, Leaked, Killed, Conn
  <2> QED
    BY <2>1, SingleStep DEF Turns
<1> QED
  BY <1>1, SingleStep, TurnsClient, TurnsServer DEF Next

LEMMA TurnsInvariant == Spec => [](SingleInv /\ Turns)
BY SingleInit, TurnsInit, TurnsStep, PTL DEF Spec


-----------------------------------------------------------------------------
(* Descriptors.                                                            *)

\* Each of the descriptors that nothing closes is of another client.
LEMMA LeaksArePaid == SingleInv /\ Turns => OneLeakPerLeaver
<1> SUFFICES ASSUME SingleInv, Turns
             PROVE  Cardinality(Leaked) <= Cardinality(Killed) /\ (~up => Killed # {})
  BY DEF OneLeakPerLeaver, Leaked
<1>1. IsFiniteSet(Killed)
  <2>1. IsFiniteSet(Clients) /\ Killed \subseteq Clients
    BY SingleServerAssumption DEF Killed
  <2> QED
    BY <2>1, FS_Subset
<1>2. CASE up
  <2> DEFINE f == [k \in Leaked |-> k[1]]
  <2>1. \A k \in Leaked : k \in Conns /\ k = Conn(k[1]) /\ k[1] \in Killed
    BY <1>2 DEF SingleInv, TypeOK, Turns, Leaked, Abandoned
  <2>2. f \in Injection(Leaked, Killed)
    BY <2>1 DEF Injection, IsInjective
  <2> HIDE DEF f
  <2> QED
    BY <1>1, <1>2, <2>2, FS_Injection
<1>3. CASE ~up
  <2>1. Leaked = {}
    BY <1>3 DEF Turns, Leaked
  <2>2. Cardinality(Leaked) = 0 /\ Cardinality(Killed) \in Nat
    BY <1>1, <2>1, FS_EmptySet, FS_CardinalityType
  <2> QED
    BY <1>3, <2>2 DEF Turns
<1> QED
  BY <1>2, <1>3

\* A client that leaves in the middle can end the server or take one
\* descriptor from it; nothing else does either, with any number of clients
\* and requests and however the connections end.
THEOREM LeaksAreOfLeavers == Spec => []OneLeakPerLeaver
BY TurnsInvariant, LeaksArePaid, PTL

-----------------------------------------------------------------------------
(* Verdicts.                                                               *)

Deserves(k, verdict) ==
    \/ verdict = VerdictOf(k[1])
    \/ SizeOf(k[1]) >= BUFFER_SIZE
    \/ verdict = "COMPILER ERROR" /\ k[1] \in Killed

\* From the upload to the verdict: memory gets into file.c only when its
\* sender was killed, what runs has been compiled from the upload and is the
\* client's program if that fits in a chunk, and there is something to receive
\* only after the verdict.
Deserved ==
    /\ pc # "accept" /\ file.junk => Owner \in Killed
    /\ pc = "run" => exe.of = Owner
    /\ pc = "reply" => result # NoAnswer
    /\ \A k \in Conns :
          /\ k = newsockfd /\ pc = "run" => Deserves(k, Verdict(exe.as))
          /\ k = newsockfd /\ pc = "reply" => Deserves(k, result)
          /\ k = newsockfd /\ pc \in {"details", "close"} => answer[k] # NoAnswer
          /\ answer[k] # NoAnswer => Deserves(k, answer[k])
          /\ avail[k] > 0 => answer[k] # NoAnswer

LEMMA DeservedInit == Init => Deserved
BY DEF Init, Deserved

LEMMA DeservedClient ==
    ASSUME SingleInv, Deserved, NEW c \in Clients, ClientStep(c) \/ Kill(c)
    PROVE  Deserved'
<1>1. /\ UNCHANGED <<up, pc, newsockfd, file, exe, result, open, answer>>
      /\ Killed \subseteq Killed'
      /\ \A k \in Conns : avail'[k] > 0 => avail[k] > 0
  BY ClientEffect DEF SingleInv
<1> QED
  BY <1>1 DEF Deserved, Deserves, Owner

\* What is compiled of a source that fits in a chunk is that source.
LEMMA SmallIsItself ==
    ASSUME SingleInv, pc = "compile", ~file.junk, file.of = Owner, Owner \in Clients,
           ~(SizeOf(Owner) >= BUFFER_SIZE)
    PROVE  GradedAs = {ProgramOf(Owner)}
<1>1. SizeOf(Owner) \in Nat /\ BUFFER_SIZE \in Nat
  BY SingleServerAssumption, FileTransferAssumption
<1>2. SizeOf(Owner) < BUFFER_SIZE
  BY <1>1
<1>3. GradedIsSent
  BY ReceivedIsSent
<1>4. Whole
  BY <1>2, <1>3 DEF GradedIsSent
<1> QED
  BY <1>2, <1>4 DEF GradedAs

LEMMA DeservedServer ==
    ASSUME SingleInv, Deserved, ServerStep
    PROVE  Deserved'
<1>t. /\ avail \in [Conns -> Nat] /\ answer \in [Conns -> Verdicts \cup {NoAnswer}]
      /\ file \in [of : Clients \cup {Nobody}, bytes : Nat, junk : BOOLEAN]
      /\ exe.as \in Programs
  BY DEF SingleInv, TypeOK
<1>n. pc # "accept" => newsockfd \in Conns /\ Owner = newsockfd[1] /\ Owner \in Clients
                       /\ file.of = Owner
  BY ConnTypes DEF SingleInv, Received, Owner
<1>k. Killed' = Killed
  BY DEF ServerStep, Accept, OpenFails, ReceiveData, ReceiveEnd, ReceiveError,
     Compile, Run, Reply, ReplyDetails, ReplyDetailsFails, CloseConnection,
     Terminate, Killed
<1>1. CASE Accept
  <2>1. /\ pc' = "receive" /\ file'.junk = FALSE /\ UNCHANGED <<answer, avail>>
    BY <1>1 DEF Accept, Goto
  <2> QED
    BY <1>k, <2>1 DEF Deserved, Deserves
<1>2. CASE OpenFails \/ ReceiveEnd \/ CloseConnection \/ (ReplyDetailsFails /\ ~Terminate)
  <2>1. pc' = "accept" /\ UNCHANGED <<answer, avail>>
    BY <1>2 DEF OpenFails, ReceiveEnd, CloseConnection, ReplyDetailsFails, Goto
  <2> QED
    BY <1>k, <2>1 DEF Deserved, Deserves
<1>3. CASE ReceiveData
  <2>1. /\ pc = "receive" /\ pc' \in {"receive", "compile"} /\ file'.junk = file.junk
        /\ UNCHANGED <<newsockfd, answer, avail>>
    BY <1>3, <1>t DEF ReceiveData, Goto
  <2> QED
    BY <1>k, <2>1 DEF Deserved, Deserves, Owner
<1>4. CASE ReceiveError /\ ~Terminate
  <2>1. /\ pc = "receive" /\ pc' \in {"receive", "compile"} /\ link[newsockfd] = "reset"
        /\ UNCHANGED <<newsockfd, answer, avail>>
    BY <1>4 DEF ReceiveError, Goto
  <2>2. Owner \in Killed
    BY <1>n, <2>1 DEF SingleInv, Fresh, Killed
  <2> QED
    BY <1>k, <2>1, <2>2 DEF Deserved, Deserves, Owner
<1>5. CASE Compile /\ pc' = "run"
  <2>1. PICK p \in GradedAs : p # "uncompilable" /\ exe' = [of |-> file.of, as |-> p]
    BY <1>5 DEF Compile, Goto
  <2>2. pc = "compile" /\ UNCHANGED <<newsockfd, file, answer, avail>>
    BY <1>5 DEF Compile
  <2>3. Deserves(newsockfd, Verdict(p))
    <3>1. CASE SizeOf(Owner) >= BUFFER_SIZE
      BY <1>n, <2>2, <3>1 DEF Deserves
    <3>2. CASE ~(SizeOf(Owner) >= BUFFER_SIZE)
      <4>1. CASE file.junk
        BY <2>1, <4>1 DEF GradedAs
      <4>2. CASE ~file.junk
        <5>1. p = ProgramOf(Owner)
          BY <1>n, <2>1, <2>2, <3>2, <4>2, SmallIsItself
        <5> QED
          BY <1>n, <2>2, <5>1 DEF Deserves, VerdictOf
      <4> QED
        BY <4>1, <4>2
    <3> QED
      BY <3>1, <3>2
  <2>4. exe'.of = Owner /\ exe'.as = p
    BY <1>n, <2>1, <2>2
  <2>5. Owner' = Owner
    BY <2>2 DEF Owner
  <2> QED
    BY <1>5, <1>k, <2>2, <2>3, <2>4, <2>5 DEF Deserved, Deserves
<1>6. CASE Compile /\ pc' = "reply"
  <2>1. /\ pc = "compile" /\ result' = "COMPILER ERROR" /\ "uncompilable" \in GradedAs
        /\ UNCHANGED <<newsockfd, file, answer, avail>>
    BY <1>6 DEF Compile, Goto
  <2>2. Deserves(newsockfd, "COMPILER ERROR")
    <3>1. CASE SizeOf(Owner) >= BUFFER_SIZE
      BY <1>n, <2>1, <3>1 DEF Deserves
    <3>2. CASE file.junk
      BY <1>n, <2>1, <3>2 DEF Deserves, Deserved
    <3>3. CASE ~(SizeOf(Owner) >= BUFFER_SIZE) /\ ~file.junk
      <4>1. ProgramOf(Owner) = "uncompilable"
        BY <1>n, <2>1, <3>3, SmallIsItself
      <4> QED
        BY <1>n, <2>1, <4>1 DEF Deserves, VerdictOf, Verdict
    <3> QED
      BY <3>1, <3>2, <3>3
  <2>3. result' # NoAnswer
    BY <2>1, SingleServerAssumption DEF Verdicts
  <2> QED
    BY <1>6, <1>k, <2>1, <2>2, <2>3 DEF Deserved, Deserves, Owner
<1>7. CASE Run
  <2>1. /\ pc = "run" /\ pc' = "reply" /\ UNCHANGED <<newsockfd, file, answer, avail>>
        /\ result' = Verdict(exe.as)
    BY <1>7 DEF Run, Goto
  <2>2. Deserves(newsockfd, result')
    BY <1>n, <2>1 DEF Deserved
  <2>3. result' # NoAnswer
    BY <1>t, <2>1, VerdictTypes, SingleServerAssumption
  <2> QED
    BY <1>k, <2>1, <2>2, <2>3 DEF Deserved, Deserves, Owner
<1>8. CASE Reply /\ ~Terminate
  <2>1. /\ pc = "reply" /\ pc' = "details" /\ UNCHANGED <<newsockfd, file>>
        /\ avail' = [avail EXCEPT ![newsockfd] = avail[newsockfd] + VerdictLength]
        /\ answer' = [answer EXCEPT ![newsockfd] = result]
    BY <1>8 DEF Reply, Goto
  <2>2. PICK s \in Conns : s = newsockfd /\ Deserves(s, result)
    BY <1>n, <2>1 DEF Deserved
  <2>3. result # NoAnswer
    BY <2>1 DEF Deserved
  <2>4. answer'[s] = result /\ \A k \in Conns \ {s} : answer'[k] = answer[k] /\ avail'[k] = avail[k]
    BY <1>t, <2>1, <2>2
  <2> QED
    BY <1>k, <2>1, <2>2, <2>3, <2>4 DEF Deserved, Deserves, Owner
<1>9. CASE ReplyDetails
  <2>1. /\ pc = "details" /\ pc' = "close" /\ UNCHANGED <<newsockfd, file, answer>>
        /\ avail' = [avail EXCEPT ![newsockfd] = avail[newsockfd] + DetailsLength]
    BY <1>9 DEF ReplyDetails, Goto
  <2>2. answer[newsockfd] # NoAnswer /\ \A k \in Conns \ {newsockfd} : avail'[k] = avail[k]
    BY <1>n, <1>t, <2>1 DEF Deserved
  <2> QED
    BY <1>k, <2>1, <2>2 DEF Deserved, Deserves, Owner
<1>10. CASE Terminate
  BY <1>k, <1>10 DEF Terminate, Deserved, Deserves, Owner
<1>11. Compile => pc' \in {"run", "reply"}
  BY DEF Compile, Goto
<1> QED
  BY <1>1, <1>2, <1>3, <1>4, <1>5, <1>6, <1>7, <1>8, <1>9, <1>10, <1>11 DEF ServerStep

\* No client has left, and every upload waits, is being served or has been
\* answered; a success is counted after that.
Counted ==
    Killed = {} =>
        /\ \A k \in Conns : k = Conn(k[1]) =>
              /\ at[k[1]] \in {"send", "receive"} =>
                    \/ Queued(k)
                    \/ pc # "accept" /\ newsockfd = k
                    \/ answer[k] # NoAnswer
              /\ at[k[1]] = "receive again" => answer[k] # NoAnswer
        /\ \A k \in counted : answer[k] # NoAnswer

LEMMA CountedInit == Init => Counted
BY ConnTypes DEF Init, Counted, Conn

LEMMA CountedClient ==
    ASSUME SingleInv, Turns, Deserved, Counted, NEW c \in Clients, ClientStep(c) \/ Kill(c)
    PROVE  Counted'
<1> SUFFICES ASSUME Killed' = {} PROVE Counted'
  BY DEF Counted
<1>t. /\ at \in [Clients -> {"connect", "send", "receive", "receive again",
                             "sleep", "end", "killed"}]
      /\ avail \in [Conns -> Nat] /\ backlog \in Seq(Conns)
  BY DEF SingleInv, TypeOK
<1>e. /\ UNCHANGED <<up, pc, newsockfd, open, answer>>
      /\ Killed' \in {Killed, Killed \cup {c}}
      /\ \A d \in Clients \ {c} : at'[d] = at[d] /\ round'[d] = round[d]
      /\ \/ backlog' = backlog
         \/ Connect(c) /\ up /\ backlog' = Append(backlog, Conn(c))
  BY ClientEffect DEF SingleInv
<1>k. Killed = {} /\ up
  BY <1>e DEF Turns
<1>c. Conn(c) \in Conns /\ Conn(c) = <<c, round[c]>> /\ Conn(c)[1] = c
  BY ConnNow DEF SingleInv
<1>q. \A k \in Conns : Queued(k) => Queued(k)'
  <2>1. CASE backlog' = Append(backlog, Conn(c))
    <3>1. \A i \in DOMAIN backlog : i \in DOMAIN backlog' /\ backlog'[i] = backlog[i]
      <4>1. PICK k \in Conns : k = Conn(c)
        BY <1>c
      <4>2. backlog \in Seq(Conns) /\ backlog' = Append(backlog, k)
        BY <1>t, <2>1, <4>1
      <4> QED
        BY <4>2
    <3> QED
      BY <3>1 DEF Queued
  <2> QED
    BY <1>e, <2>1 DEF Queued
<1>1. ASSUME NEW k \in Conns, k[1] # c, k = Conn(k[1])'
      PROVE  /\ at'[k[1]] \in {"send", "receive"} =>
                   \/ Queued(k)'
                   \/ pc' # "accept" /\ newsockfd' = k
                   \/ answer'[k] # NoAnswer
             /\ at'[k[1]] = "receive again" => answer'[k] # NoAnswer
  <2>1. k[1] \in Clients \ {c}
    BY <1>1, ConnTypes
  <2>2. k = Conn(k[1]) /\ at'[k[1]] = at[k[1]]
    BY <1>1, <1>e, <2>1 DEF Conn
  <2> QED
    BY <1>e, <1>k, <1>q, <2>2 DEF Counted
<1>2. ASSUME NEW k \in Conns, k[1] = c, k = Conn(k[1])'
      PROVE  /\ at'[c] \in {"send", "receive"} =>
                   \/ Queued(k)'
                   \/ pc' # "accept" /\ newsockfd' = k
                   \/ answer'[k] # NoAnswer
             /\ at'[c] = "receive again" => answer'[k] # NoAnswer
  <2>1. k = <<c, round'[c]>>
    BY <1>2 DEF Conn
  <2>2. CASE Connect(c)
    <3>1. backlog' = Append(backlog, k) /\ at' = [at EXCEPT ![c] = "send"]
      BY <1>c, <1>k, <2>1, <2>2 DEF Connect, ClientAt
    <3>2. Queued(k)'
      <4>1. Len(backlog) + 1 \in DOMAIN backlog' /\ backlog'[Len(backlog) + 1] = k
        <5>1. backlog' = Append(backlog, k) /\ backlog \in Seq(Conns)
          BY <1>t, <3>1
        <5> QED
          BY <5>1
      <4> QED
        BY <4>1 DEF Queued
    <3> QED
      BY <1>t, <3>1, <3>2
  <2>3. CASE SendChunk(c) \/ (SendFails(c) /\ ClientAt(c, "receive") /\ round' = round)
    <3>1. at[c] = "send" /\ at'[c] \in {"send", "receive"} /\ round' = round
      BY <1>t, <2>3 DEF SendChunk, SendFails, ClientAt
    <3> QED
      BY <1>2, <1>c, <1>e, <1>k, <1>q, <2>1, <3>1 DEF Counted
  <2>4. CASE Receive(c)
    <3>1. at[c] = "receive" /\ at'[c] = "receive again" /\ round' = round
      BY <1>t, <2>4 DEF Receive, ClientAt
    <3>2. k = Conn(c)
      BY <1>c, <2>1, <3>1
    <3>3. CASE ~Served(k)
      <4>1. ~Queued(k) /\ k \notin open
        BY <1>k, <3>3 DEF Served, Queued
      <4>2. ~(pc # "accept" /\ newsockfd = k)
        BY <1>k, <4>1 DEF Turns
      <4> QED
        BY <1>2, <1>e, <1>k, <3>1, <3>2, <4>1, <4>2 DEF Counted
    <3>4. CASE Served(k)
      <4>1. PICK m \in Pieces(avail[k]) : TRUE
        BY <2>4, <3>2, <3>4 DEF Receive, Take
      <4>2. avail[k] \in Nat
        BY <1>t
      <4>3. avail[k] > 0
        BY <4>1, <4>2, PieceTypes
      <4> QED
        BY <1>e, <3>1, <4>3 DEF Deserved
    <3> QED
      BY <3>3, <3>4
  <2>5. CASE \E label \in {"connect", "end", "sleep"} : ClientAt(c, label)
    BY <1>t, <2>5 DEF ClientAt
  <2>6. CASE Kill(c)
    BY <1>t, <2>6 DEF Kill, ClientAt, Killed
  <2> QED
    BY <2>2, <2>3, <2>4, <2>5, <2>6
    DEF ClientStep, SendFails, ReceiveAgain, SleepAndClose, NextRound
<1>3. ASSUME NEW k \in counted' PROVE answer'[k] # NoAnswer
  <2>1. CASE k \in counted
    BY <1>e, <1>k, <2>1 DEF Counted
  <2>2. CASE k \notin counted
    <3>1. at[c] = "receive again" /\ k = Conn(c)
      BY <1>3, <2>2 DEF ClientStep, Connect, SendChunk, SendFails, Receive,
         ReceiveAgain, SleepAndClose, Kill
    <3> QED
      BY <1>c, <1>e, <1>k, <3>1 DEF Counted
  <2> QED
    BY <2>1, <2>2
<1> QED
  BY <1>1, <1>2, <1>3 DEF Counted

LEMMA CountedServer ==
    ASSUME MaxFds >= 2, SingleInv, Turns, Deserved, Counted, ServerStep
    PROVE  Counted'
<1>e. /\ Killed' = Killed /\ up
      /\ UNCHANGED <<at, round, counted>>
  BY DEF ServerStep, Accept, OpenFails, ReceiveData, ReceiveEnd, ReceiveError,
     Compile, Run, Reply, ReplyDetails, ReplyDetailsFails, CloseConnection,
     Terminate, Killed
<1> SUFFICES ASSUME Killed = {} PROVE Counted'
  BY <1>e DEF Counted
<1>t. backlog \in Seq(Conns) /\ answer \in [Conns -> Verdicts \cup {NoAnswer}] /\ open \subseteq Conns
  BY DEF SingleInv, TypeOK
<1>n. pc # "accept" => /\ newsockfd \in Conns
                       /\ pc # "close" => link[newsockfd] = "open"
  BY <1>e, ServedClient DEF Abandoned
<1>1. ~ReceiveEnd /\ ~ReceiveError /\ ~ReplyDetailsFails /\ ~Terminate
  <2>1. ~ReceiveEnd /\ ~ReceiveError /\ ~ReplyDetailsFails
    BY <1>n DEF ReceiveEnd, ReceiveError, ReplyDetailsFails
  <2>2. ~(Reply /\ Terminate)
    BY <1>n DEF Reply, Terminate, Goto
  <2>3. up' \/ Reply
    BY <1>e, <2>1 DEF ServerStep, Accept, OpenFails, ReceiveData, Compile, Run,
       ReplyDetails, CloseConnection
  <2> QED
    BY <2>1, <2>2, <2>3 DEF Terminate
<1>2. ~OpenFails
  <2>1. OpenFails => open = {}
    BY <1>e, <1>t DEF OpenFails, Turns, Leaked, Abandoned
  <2>2. open = {} => Cardinality(open) = 0
    BY FS_EmptySet
  <2>3. MaxFds \in Nat /\ MaxFds # 1
    BY SingleServerAssumption
  <2> QED
    BY <2>1, <2>2, <2>3 DEF OpenFails
<1>3. \A k \in Conns : answer[k] # NoAnswer => answer'[k] # NoAnswer
  <2>1. CASE Reply
    <3>1. result # NoAnswer
      BY <2>1 DEF Reply, Deserved
    <3> QED
      BY <1>1, <1>t, <2>1, <3>1 DEF Reply
  <2>2. CASE ~Reply
    BY <1>1, <1>2, <2>2 DEF ServerStep, Accept, ReceiveData, Compile, Run,
       ReplyDetails, CloseConnection
  <2> QED
    BY <2>1, <2>2
<1>4. ASSUME NEW k \in Conns, Queued(k) \/ (pc # "accept" /\ newsockfd = k)
      PROVE  Queued(k)' \/ (pc' # "accept" /\ newsockfd' = k) \/ answer'[k] # NoAnswer
  <2>1. CASE Accept
    <3>1. PICK i \in DOMAIN backlog : backlog[i] = k
      BY <1>4, <2>1 DEF Accept, Queued
    <3>2. /\ backlog' = Tail(backlog) /\ newsockfd' = Head(backlog) /\ pc' = "receive"
          /\ backlog # <<>>
      BY <2>1 DEF Accept, Goto
    <3>3. i = 1 \/ (i - 1 \in DOMAIN backlog' /\ backlog'[i - 1] = k)
      BY <1>t, <3>1, <3>2
    <3> QED
      BY <1>t, <3>1, <3>2, <3>3 DEF Queued
  <2>2. CASE ReceiveData \/ Compile \/ Run \/ Reply \/ ReplyDetails
    <3>1. pc' # "accept" /\ pc # "accept" /\ UNCHANGED <<newsockfd, backlog>>
      BY <1>1, <2>2 DEF ReceiveData, Compile, Run, Reply, ReplyDetails, Goto
    <3> QED
      BY <1>4, <3>1 DEF Queued
  <2>3. CASE CloseConnection
    <3>1. pc = "close" /\ UNCHANGED <<backlog, answer>>
      BY <2>3 DEF CloseConnection
    <3> QED
      BY <1>4, <3>1 DEF Queued, Deserved
  <2> QED
    BY <1>1, <1>2, <2>1, <2>2, <2>3 DEF ServerStep
<1>5. counted \subseteq Conns
  BY DEF SingleInv, TypeOK
<1> QED
  BY <1>3, <1>4, <1>5, <1>e DEF Counted, Conn

\* Whose verdict is sent on a connection needs no bound; a success counted
\* without a verdict takes a server that cannot open file.c, and with two
\* descriptors it always can while nobody leaves.
LEMMA VerdictsInvariant ==
    ASSUME MaxFds >= 2
    PROVE  Spec => [](SingleInv /\ Turns /\ Deserved /\ Counted)
<1> DEFINE I == SingleInv /\ Turns /\ Deserved /\ Counted
<1>1. Init => I
  BY SingleInit, TurnsInit, DeservedInit, CountedInit
<1>2. I /\ [Next]_vars => I'
  <2> SUFFICES ASSUME SingleInv, Turns, Deserved, Counted, [Next]_vars PROVE I'
    OBVIOUS
  <2>1. (SingleInv /\ Turns)'
    BY TurnsStep
  <2>2. ASSUME ServerStep PROVE Deserved' /\ Counted'
    BY <2>2, DeservedServer, CountedServer
  <2>3. ASSUME NEW c \in Clients, ClientStep(c) \/ Kill(c) PROVE Deserved' /\ Counted'
    BY <2>3, DeservedClient, CountedClient
  <2>4. Deserved' /\ Counted'
    <3>1. CASE UNCHANGED vars
      BY <3>1 DEF vars, Deserved, Counted, Deserves, Queued, Conn, Killed, Owner
    <3> QED
      BY <2>2, <2>3, <3>1 DEF Next
  <2> QED
    BY <2>1, <2>4
<1>3. Spec => []I
  BY <1>1, <1>2, PTL DEF Spec
<1> QED
  BY <1>3

\* What runs was compiled from the source of the client it is answered to.  A
\* verdict is that of the client's own program where the source fits in a
\* chunk, or a compiler error where its sender was killed; and while nobody
\* leaves, a success that is counted had its verdict sent.
THEOREM VerdictsAreDeserved ==
    ASSUME MaxFds >= 2
    PROVE  Spec => []VerdictIsDeserved
<1>1. Deserved /\ Counted => VerdictIsDeserved
  BY DEF Deserved, Deserves, Counted, VerdictIsDeserved
<1> QED
  BY <1>1, VerdictsInvariant, PTL
=============================================================================
