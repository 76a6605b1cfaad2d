-------------------------- MODULE AsyncFrontProofs --------------------------
(***************************************************************************)
(* The connections of the asynchronous server: who holds its descriptors,  *)
(* what ends it, and where results go, for any number of clients, of       *)
(* descriptors and of threads, with clients killed at any moment.          *)
(***************************************************************************)
EXTENDS AsyncFront, SequenceTheorems, TLAPS

USE DEF server, threads, client, history

-----------------------------------------------------------------------------
(* Messages on a connection.                                               *)

LEMMA Shift ==
    ASSUME NEW S, NEW s \in Seq(S), s # <<>>
    PROVE  /\ Head(s) \in S /\ Head(s) = s[1] /\ Tail(s) \in Seq(S)
           /\ DOMAIN s = 1 .. Len(s) /\ Len(s) \in Nat /\ Len(s) >= 1
           /\ DOMAIN Tail(s) = 1 .. Len(s) - 1
           /\ \A i \in DOMAIN Tail(s) : Tail(s)[i] = s[i + 1]
OBVIOUS

LEMMA Skip ==
    ASSUME NEW S, NEW s \in Seq(S), NEW n \in 1 .. Len(s)
    PROVE  /\ SubSeq(s, n + 1, Len(s)) \in Seq(S)
           /\ Len(SubSeq(s, n + 1, Len(s))) = Len(s) - n
           /\ \A i \in 1 .. Len(s) - n : SubSeq(s, n + 1, Len(s))[i] = s[i + n]
<1>1. Len(s) \in Nat /\ n + 1 \in 1 .. Len(s) + 1
  OBVIOUS
<1>2. \A i \in n + 1 .. Len(s) : s[i] \in S
  BY <1>1
<1> QED
  BY <1>1, <1>2, SubSeqProperties

LEMMA ShortMessages ==
    ASSUME NEW x, NEW y, NEW z
    PROVE  /\ Head(<<x>>) = x /\ Tail(<<x>>) = <<>> /\ <<x>> # <<>>
           /\ Head(<<x, y>>) = x /\ Tail(<<x, y>>) = <<y>> /\ <<x, y>> # <<>>
           /\ Head(<<x, y, z>>) = x /\ Tail(<<x, y, z>>) = <<y, z>>
OBVIOUS

LEMMA OneMore ==
    ASSUME NEW x, NEW y, NEW z
    PROVE  /\ Append(<<>>, x) = <<x>> /\ Append(<<x>>, y) = <<x, y>>
           /\ <<>> \o <<x>> = <<x>> /\ <<>> \o <<x, y>> = <<x, y>>
           /\ <<x>> \o <<>> = <<x>> /\ <<x>> \o <<y>> = <<x, y>>
           /\ <<x, y>> \o <<z>> = <<x, y, z>>
<1> DEFINE S == {x, y, z}
<1>1. /\ <<x>> \in Seq(S) /\ <<y>> \in Seq(S) /\ <<z>> \in Seq(S)
      /\ <<x, y>> \in Seq(S) /\ <<x, y, z>> \in Seq(S)
      /\ Len(<<x>>) = 1 /\ Len(<<x, y>>) = 2 /\ Len(<<x, y, z>>) = 3
  OBVIOUS
<1>2. Append(<<x>>, y) = <<x, y>>
  <2>1. /\ Append(<<x>>, y) \in Seq(S) /\ Len(Append(<<x>>, y)) = 2
        /\ Append(<<x>>, y)[1] = x /\ Append(<<x>>, y)[2] = y
    BY <1>1, AppendProperties
  <2>2. \A i \in 1 .. 2 : Append(<<x>>, y)[i] = <<x, y>>[i]
    <3>1. \A i \in 1 .. 2 : i = 1 \/ i = 2
      OBVIOUS
    <3> QED
      BY <2>1, <3>1
  <2> QED
    BY <1>1, <2>1, <2>2, SeqEqual
<1>3. Append(<<x, y>>, z) = <<x, y, z>>
  <2>1. /\ Append(<<x, y>>, z) \in Seq(S) /\ Len(Append(<<x, y>>, z)) = 3
        /\ Append(<<x, y>>, z)[1] = x /\ Append(<<x, y>>, z)[2] = y
        /\ Append(<<x, y>>, z)[3] = z
    BY <1>1, AppendProperties
  <2>2. \A i \in 1 .. 3 : Append(<<x, y>>, z)[i] = <<x, y, z>>[i]
    <3>1. \A i \in 1 .. 3 : i = 1 \/ i = 2 \/ i = 3
      OBVIOUS
    <3> QED
      BY <2>1, <3>1
  <2> QED
    BY <1>1, <2>1, <2>2, SeqEqual
<1>4. <<x>> \o <<y>> = Append(<<x>>, y) /\ <<x, y>> \o <<z>> = Append(<<x, y>>, z)
  BY <1>1, AppendIsConcat
<1>5. Append(<<>>, x) = <<x>> /\ <<>> \o <<x>> = <<x>>
  OBVIOUS
<1>6. <<>> \o <<x, y>> = <<x, y>> /\ <<x>> \o <<>> = <<x>>
  BY <1>1, ConcatEmptySeq
<1> QED
  BY <1>2, <1>3, <1>4, <1>5, <1>6

\* Of one message, or of two, at least one is read.
LEMMA SkipShort ==
    /\ \A x : \A n \in 1 .. Len(<<x>>) : SubSeq(<<x>>, n + 1, Len(<<x>>)) = <<>>
    /\ \A x, y : \A n \in 1 .. Len(<<x, y>>) :
           SubSeq(<<x, y>>, n + 1, Len(<<x, y>>)) \in {<<y>>, <<>>}
<1>1. ASSUME NEW x, NEW n \in 1 .. Len(<<x>>)
      PROVE  SubSeq(<<x>>, n + 1, Len(<<x>>)) = <<>>
  OBVIOUS
<1>2. ASSUME NEW x, NEW y, NEW n \in 1 .. Len(<<x, y>>)
      PROVE  SubSeq(<<x, y>>, n + 1, Len(<<x, y>>)) \in {<<y>>, <<>>}
  <2>1. Len(<<x, y>>) = 2 /\ (n = 1 \/ n = 2)
    OBVIOUS
  <2>2. SubSeq(<<x, y>>, 2, 2) = <<y>>
    <3>1. /\ <<x, y>> \in Seq({x, y}) /\ <<x, y>> # <<>> /\ Tail(<<x, y>>) = <<y>>
          /\ Len(<<x, y>>) = 2
      OBVIOUS
    <3> QED
      BY <3>1, TailIsSubSeq
  <2>3. SubSeq(<<x, y>>, 3, 2) = <<>>
    BY SubSeqEmpty
  <2> QED
    BY <2>1, <2>2, <2>3
<1> QED
  BY <1>1, <1>2

\* What a recv leaves of messages.
LEMMA LeftTypes ==
    ASSUME NEW S, NEW s \in Seq(S), s # <<>>
    PROVE  /\ \A rest \in Cut(s) : rest \in Seq(S)
           /\ \A E : \A rest \in LeftOf(s, E) : rest \in Seq(S)
<1>1. \A n \in 1 .. Len(s) : SubSeq(s, n + 1, Len(s)) \in Seq(S)
  BY Skip
<1>2. Tail(s) \in Seq(S)
  BY Shift
<1> QED
  BY <1>1, <1>2 DEF Cut, LeftOf

-----------------------------------------------------------------------------
(* Types.                                                                  *)

InMessages  == Messages \cup Requests \cup {Nobody}
OutMessages == Messages \cup Requests
Peers == {"open", "gone", "reset"}
Where == {"new", "queued", "held", "listed", "done", "taken"}
ClientLabels == {"connect", "type", "upload", "upload rest", "id", "ask", "reply",
                 "position", "processing", "file", "file rest", "spin", "end", "dead"}
ThreadLabels == {"none", "start new_request", "start status_check", "open", "receive",
                 "receive rest", "receive some", "push", "accepted", "id", "requests",
                 "process", "position", "status", "take", "send", "send file", "over"}

\* TypeOK with the names of this module.
LEMMA Types1 ==
    TypeOK <=>
        /\ up \in BOOLEAN /\ main \in {"accept", "type"}
        /\ client_sockfd \in Clients \cup {Nobody}
        /\ backlog \in Seq(Clients) /\ open \subseteq Clients
        /\ fd \in [Clients -> Clients \cup {Nobody}]
        /\ sockfd \in [Clients -> Clients \cup {Nobody}]
        /\ thread \in [Clients -> ThreadLabels]
        /\ request_id \in [Clients -> Requests \cup {Nobody}]
        /\ stage \in [Requests -> Where]
        /\ at \in [Clients -> ClientLabels]
        /\ requestId \in [Clients -> Requests \cup {Nobody}]
        /\ inbox \in [Clients -> Seq(InMessages)]
        /\ outbox \in [Clients -> Seq(OutMessages)]
        /\ peer \in [Clients -> Peers]
        /\ broken \in [Clients -> 0 .. 2]
        /\ got \subseteq Clients /\ left \subseteq Clients /\ delivered \subseteq Clients
        /\ strayed \subseteq Clients
        /\ short \subseteq {"descriptor", "thread", "directory"}
BY DEF TypeOK, InMessages, OutMessages, Peers, Where, ClientLabels, ThreadLabels

\* What the steps of a client touch.
LEMMA ClientFrame ==
    ASSUME TypeOK, UNCHANGED <<server, stage, broken, delivered, strayed, short>>,
           backlog' \in Seq(Clients), at' \in [Clients -> ClientLabels],
           requestId' \in [Clients -> Requests \cup {Nobody}],
           inbox' \in [Clients -> Seq(InMessages)],
           outbox' \in [Clients -> Seq(OutMessages)],
           peer' \in [Clients -> Peers],
           got' \subseteq Clients, left' \subseteq Clients
    PROVE  TypeOK'
BY Types1 DEF TypeOK, InMessages, OutMessages, Peers, ClientLabels

LEMMA EndEffect ==
    ASSUME TypeOK, NEW c \in Clients, End(c)
    PROVE  /\ at' \in [Clients -> ClientLabels] /\ peer' \in [Clients -> Peers]
           /\ at'[c] = "end"
           /\ \A d \in Clients : d # c => at'[d] = at[d] /\ peer'[d] = peer[d]
<1>1. at \in [Clients -> ClientLabels] /\ peer \in [Clients -> Peers]
  BY Types1
<1> QED
  BY <1>1 DEF End, ClientAt, ClientLabels, Peers

LEMMA GoOnEffect ==
    ASSUME TypeOK, NEW c \in Clients, NEW label \in ClientLabels,
           NEW rest \in Seq(OutMessages), GoOn(c, label, rest)
    PROVE  /\ at' \in [Clients -> ClientLabels] /\ outbox' \in [Clients -> Seq(OutMessages)]
           /\ peer' \in [Clients -> Peers]
           /\ at'[c] = label /\ outbox'[c] = rest
           /\ label # "end" => peer' = peer
           /\ \A d \in Clients : d # c =>
                 at'[d] = at[d] /\ outbox'[d] = outbox[d] /\ peer'[d] = peer[d]
<1>1. /\ at \in [Clients -> ClientLabels] /\ peer \in [Clients -> Peers]
      /\ outbox \in [Clients -> Seq(OutMessages)]
  BY Types1
<1>2. peer' \in [Clients -> Peers] /\ (label # "end" => peer' = peer)
      /\ \A d \in Clients : d # c => peer'[d] = peer[d]
  BY <1>1 DEF GoOn, Peers
<1> QED
  BY <1>1, <1>2 DEF GoOn, ClientAt

LEMMA SendToEffect ==
    ASSUME TypeOK, NEW c \in Clients, NEW messages \in Seq(InMessages),
           NEW next \in ClientLabels, SendTo(c, messages, next)
    PROVE  /\ at' \in [Clients -> ClientLabels] /\ peer' \in [Clients -> Peers]
           /\ inbox' \in [Clients -> Seq(InMessages)] /\ broken' \in [Clients -> 0 .. 2]
           /\ at'[c] \in {next, "end"}
           /\ ~Closed(c) => /\ at'[c] = next /\ inbox'[c] = inbox[c] \o messages
                            /\ peer' = peer
           /\ \A d \in Clients : d # c =>
                 at'[d] = at[d] /\ inbox'[d] = inbox[d] /\ peer'[d] = peer[d]
<1>a. /\ at \in [Clients -> ClientLabels] /\ peer \in [Clients -> Peers]
      /\ inbox \in [Clients -> Seq(InMessages)] /\ broken \in [Clients -> 0 .. 2]
  BY Types1
<1>1. inbox[c] \o messages \in Seq(InMessages)
  BY <1>a, ConcatProperties
<1>2. ClientAt(c, next) => /\ at' \in [Clients -> ClientLabels] /\ at'[c] = next
                           /\ \A d \in Clients : d # c => at'[d] = at[d]
  BY <1>a DEF ClientAt
<1>3. CASE ~Closed(c)
  <2>1. /\ inbox' = [inbox EXCEPT ![c] = @ \o messages] /\ ClientAt(c, next)
        /\ UNCHANGED <<broken, peer>>
    BY <1>3 DEF SendTo
  <2> QED
    BY <1>a, <1>1, <1>2, <1>3, <2>1
<1>4. CASE Closed(c)
  <2>1. /\ inbox' = inbox
        /\ \/ /\ broken[c] < 2 /\ broken' = [broken EXCEPT ![c] = @ + 1]
              /\ ClientAt(c, next) /\ peer' = peer
           \/ End(c) /\ broken' = broken
    BY <1>4 DEF SendTo
  <2>2. broken' \in [Clients -> 0 .. 2]
    <3>1. broken[c] < 2 => broken[c] + 1 \in 0 .. 2
      BY <1>a
    <3> QED
      BY <1>a, <2>1, <3>1
  <2> QED
    BY <1>a, <1>2, <1>4, <2>1, <2>2, EndEffect
<1> QED
  BY <1>3, <1>4

\* What a client may do, and that it touches nothing of the server's and of
\* the others'.
LEMMA ClientEffect ==
    ASSUME TypeOK, NEW c \in Clients, ClientStep(c) \/ Die(c)
    PROVE  /\ TypeOK'
           /\ UNCHANGED <<server, stage, delivered, strayed, short>>
           /\ at'[c] # "connect"
           /\ \A d \in Clients : d # c =>
                 /\ at'[d] = at[d] /\ inbox'[d] = inbox[d] /\ outbox'[d] = outbox[d]
                 /\ peer'[d] = peer[d] /\ requestId'[d] = requestId[d]
                 /\ (d \in got' <=> d \in got) /\ (d \in left' <=> d \in left)
           /\ at[c] # "connect" => backlog' = backlog
           /\ got \subseteq got' /\ left \subseteq left'
           /\ ClientStep(c) => left' = left
<1> USE AsyncFrontAssumption
<1>a. /\ at \in [Clients -> ClientLabels] /\ peer \in [Clients -> Peers]
      /\ inbox \in [Clients -> Seq(InMessages)] /\ outbox \in [Clients -> Seq(OutMessages)]
      /\ backlog \in Seq(Clients) /\ got \subseteq Clients /\ left \subseteq Clients
      /\ requestId \in [Clients -> Requests \cup {Nobody}]
      /\ <<>> \in Seq(OutMessages) /\ Requests = Clients
  BY Types1 DEF Requests
<1>b. /\ {"type", "upload", "upload rest", "id", "reply", "ask", "file rest", "spin", "end"}
             \subseteq ClientLabels \ {"connect"}
      /\ \A type \in Types : After(c, type) \in ClientLabels \ {"connect"}
      /\ AfterPosition(c) \in ClientLabels \ {"connect"}
  BY DEF ClientLabels, Types, After, AfterPosition
<1>c. /\ \A m \in InMessages : <<m>> \in Seq(InMessages)
      /\ \A m, n \in InMessages : <<m, n>> \in Seq(InMessages)
      /\ {"0", "1", "part", "rest"} \subseteq InMessages /\ requestId[c] \in InMessages
  BY <1>a DEF InMessages, Messages
<1>1. CASE Connect(c)
  <2>1. backlog' \in Seq(Clients)
    <3>1. Append(backlog, c) \in Seq(Clients)
      BY <1>a
    <3> QED
      BY <1>1, <1>a, <3>1 DEF Connect
  <2>2. /\ at' \in [Clients -> ClientLabels] /\ peer' \in [Clients -> Peers]
        /\ at'[c] # "connect"
        /\ \A d \in Clients : d # c => at'[d] = at[d] /\ peer'[d] = peer[d]
    <3>1. CASE ClientAt(c, "type") /\ peer' = peer
      BY <1>a, <1>b, <3>1 DEF ClientAt
    <3> QED
      BY <1>1, <3>1, EndEffect DEF Connect
  <2>3. /\ requestId' \in [Clients -> Requests \cup {Nobody}]
        /\ \A d \in Clients : d # c => requestId'[d] = requestId[d]
    <3>1. PICK id \in KnownIds : requestId' = [requestId EXCEPT ![c] = id]
      BY <1>1 DEF Connect, KnownIds
    <3>2. id \in Requests \cup {Nobody}
      BY <1>a, <3>1 DEF KnownIds, Clients
    <3> QED
      BY <1>a, <3>1, <3>2
  <2>4. at[c] = "connect" /\ UNCHANGED <<server, stage, inbox, outbox, broken, history>>
    BY <1>1 DEF Connect
  <2>5. TypeOK'
    BY <1>a, <2>1, <2>2, <2>3, <2>4, ClientFrame
  <2> QED
    BY <2>2, <2>3, <2>4, <2>5
<1>2. ASSUME NEW messages \in Seq(InMessages), NEW next \in ClientLabels \ {"connect"},
             SendTo(c, messages, next) \/ (End(c) /\ UNCHANGED <<inbox, broken>>),
             UNCHANGED <<server, stage, backlog, requestId, outbox, history>>
      PROVE  /\ TypeOK' /\ at'[c] # "connect"
             /\ \A d \in Clients : d # c =>
                   at'[d] = at[d] /\ inbox'[d] = inbox[d] /\ peer'[d] = peer[d]
  <2>1. /\ at' \in [Clients -> ClientLabels] /\ peer' \in [Clients -> Peers]
        /\ inbox' \in [Clients -> Seq(InMessages)] /\ broken' \in [Clients -> 0 .. 2]
        /\ at'[c] # "connect"
        /\ \A d \in Clients : d # c =>
              at'[d] = at[d] /\ inbox'[d] = inbox[d] /\ peer'[d] = peer[d]
    <3>1. CASE SendTo(c, messages, next)
      BY <3>1, SendToEffect
    <3>2. CASE End(c) /\ UNCHANGED <<inbox, broken>>
      BY <1>a, <3>2, EndEffect, Types1
    <3> QED
      BY <1>2, <3>1, <3>2
  <2>2. TypeOK'
    BY <1>2, <2>1 DEF TypeOK, ClientLabels, Peers, InMessages
  <2> QED
    BY <2>1, <2>2
<1>3. CASE SendType(c) \/ Upload(c) \/ UploadRest(c) \/ Ask(c)
  <2>1. /\ \E messages \in Seq(InMessages), next \in ClientLabels \ {"connect"} :
              SendTo(c, messages, next) \/ (End(c) /\ UNCHANGED <<inbox, broken>>)
        /\ UNCHANGED <<server, stage, backlog, requestId, outbox, history>>
        /\ at[c] # "connect"
    BY <1>3, <1>b, <1>c DEF SendType, Upload, UploadRest, Ask
  <2> QED
    BY <1>2, <2>1
<1>4. ASSUME NEW label \in ClientLabels \ {"connect"}, NEW rest \in Seq(OutMessages),
             GoOn(c, label, rest), at[c] # "connect",
             got' = got \/ got' = got \cup {c},
             UNCHANGED <<server, stage, backlog, requestId, inbox, broken, left, delivered,
                         strayed, short>>
      PROVE  /\ TypeOK' /\ at'[c] # "connect" /\ got \subseteq got'
             /\ \A d \in Clients : d # c =>
                   /\ at'[d] = at[d] /\ outbox'[d] = outbox[d] /\ peer'[d] = peer[d]
                   /\ (d \in got' <=> d \in got)
  <2>1. /\ at' \in [Clients -> ClientLabels] /\ outbox' \in [Clients -> Seq(OutMessages)]
        /\ peer' \in [Clients -> Peers] /\ at'[c] = label
        /\ \A d \in Clients : d # c =>
              at'[d] = at[d] /\ outbox'[d] = outbox[d] /\ peer'[d] = peer[d]
    BY <1>4, GoOnEffect
  <2>2. TypeOK'
    BY <1>4, <1>a, <2>1, ClientFrame
  <2> QED
    BY <1>4, <2>1, <2>2
<1>5. CASE ReceiveId(c)
  <2>1. /\ outbox' \in [Clients -> Seq(OutMessages)]
        /\ \A d \in Clients : d # c => outbox'[d] = outbox[d]
    <3>1. \A n \in 1 .. Len(outbox[c]) : SubSeq(outbox[c], n + 1, Len(outbox[c])) \in Seq(OutMessages)
      BY <1>a, Skip
    <3>2. \E s \in Seq(OutMessages) : outbox' = [outbox EXCEPT ![c] = s]
      BY <1>5, <1>a, <3>1 DEF ReceiveId
    <3> QED
      BY <1>a, <3>2
  <2>2. /\ requestId' \in [Clients -> Requests \cup {Nobody}]
        /\ \A d \in Clients : d # c => requestId'[d] = requestId[d]
    <3>1. requestId' = requestId
          \/ \E id \in Requests \cup {Nobody} : requestId' = [requestId EXCEPT ![c] = id]
      BY <1>5 DEF ReceiveId
    <3> QED
      BY <1>a, <3>1
  <2>3. /\ at[c] = "id" /\ at' \in [Clients -> ClientLabels] /\ at'[c] = "ask"
        /\ \A d \in Clients : d # c => at'[d] = at[d]
        /\ UNCHANGED <<server, stage, backlog, inbox, peer, broken, history>>
    BY <1>5, <1>a, <1>b DEF ReceiveId, ClientAt
  <2>4. TypeOK'
    BY <1>a, <2>1, <2>2, <2>3, ClientFrame
  <2> QED
    BY <2>1, <2>2, <2>3, <2>4
<1>6. CASE ReceiveType(c)
  <2>1. PICK type \in Types, rest \in LeftOf(outbox[c], Types) : GoOn(c, After(c, type), rest)
    BY <1>6 DEF ReceiveType
  <2>2. rest \in Seq(OutMessages)
    BY <1>6, <1>a, <2>1, LeftTypes DEF ReceiveType
  <2>3. /\ at[c] = "reply"
        /\ UNCHANGED <<server, stage, backlog, requestId, inbox, broken, history>>
    BY <1>6 DEF ReceiveType
  <2> QED
    BY <1>4, <1>b, <2>1, <2>2, <2>3
<1>7. CASE ReceiveNoType(c) \/ ReceiveNoResult(c)
  <2>1. PICK label \in ClientLabels \ {"connect"} : GoOn(c, label, <<>>)
    BY <1>7, <1>b DEF ReceiveNoType, ReceiveNoResult
  <2>2. /\ at[c] # "connect"
        /\ UNCHANGED <<server, stage, backlog, requestId, inbox, broken, history>>
    BY <1>7 DEF ReceiveNoType, ReceiveNoResult
  <2> QED
    BY <1>4, <1>a, <2>1, <2>2
<1>8. CASE ReceivePosition(c)
  <2>1. PICK label \in ClientLabels \ {"connect"}, rest \in Seq(OutMessages) : GoOn(c, label, rest)
    <3>1. outbox[c] # <<>> => \A rest \in LeftOf(outbox[c], {"position"}) : rest \in Seq(OutMessages)
      BY <1>a, LeftTypes
    <3> QED
      BY <1>8, <1>a, <1>b, <3>1 DEF ReceivePosition
  <2>2. /\ at[c] # "connect"
        /\ UNCHANGED <<server, stage, backlog, requestId, inbox, broken, history>>
    BY <1>8 DEF ReceivePosition
  <2> QED
    BY <1>4, <2>1, <2>2
<1>9. CASE ReceiveResult(c)
  <2>1. PICK label \in ClientLabels \ {"connect"}, rest \in Seq(OutMessages) : GoOn(c, label, rest)
    <3>1. /\ Tail(outbox[c]) \in Seq(OutMessages)
          /\ \A rest \in Cut(outbox[c]) : rest \in Seq(OutMessages)
      BY <1>9, <1>a, Shift, LeftTypes DEF ReceiveResult
    <3> QED
      BY <1>9, <1>b, <3>1 DEF ReceiveResult
  <2>2. /\ at[c] # "connect" /\ (got' = got \/ got' = got \cup {c})
        /\ UNCHANGED <<server, stage, backlog, requestId, inbox, broken, left, delivered,
                       strayed, short>>
    BY <1>9 DEF ReceiveResult
  <2> QED
    BY <1>4, <2>1, <2>2
<1>10. CASE Die(c)
  <2>1. /\ at' \in [Clients -> ClientLabels] /\ peer' \in [Clients -> Peers]
        /\ at'[c] = "dead"
        /\ \A d \in Clients : d # c => at'[d] = at[d] /\ peer'[d] = peer[d]
    BY <1>10, <1>a DEF Die, ClientAt, ClientLabels, Peers
  <2>2. /\ left' = left \cup {c} /\ at[c] # "connect"
        /\ UNCHANGED <<server, stage, backlog, requestId, inbox, outbox, broken, got,
                       delivered, strayed, short>>
    BY <1>10 DEF Die
  <2>3. TypeOK'
    BY <1>a, <2>1, <2>2, ClientFrame
  <2>4. ~ClientStep(c) \/ left' = left
    BY DEF ClientStep, Connect, SendType, Upload, UploadRest, ReceiveId, Ask,
       ReceiveType, ReceiveNoType, ReceivePosition, ReceiveResult, ReceiveNoResult
  <2> QED
    BY <2>1, <2>2, <2>3, <2>4
<1> QED
  BY <1>1, <1>3, <1>5, <1>6, <1>7, <1>8, <1>9, <1>10 DEF ClientStep

\* What the steps of the server touch.
LEMMA ServerFrame ==
    ASSUME TypeOK, UNCHANGED <<client, peer, got, left>>,
           up' \in BOOLEAN, main' \in {"accept", "type"},
           client_sockfd' \in Clients \cup {Nobody},
           backlog' \in Seq(Clients), open' \subseteq Clients,
           fd' \in [Clients -> Clients \cup {Nobody}],
           sockfd' \in [Clients -> Clients \cup {Nobody}],
           thread' \in [Clients -> ThreadLabels],
           request_id' \in [Clients -> Requests \cup {Nobody}],
           stage' \in [Requests -> Where],
           inbox' \in [Clients -> Seq(InMessages)],
           outbox' \in [Clients -> Seq(OutMessages)],
           broken' \in [Clients -> 0 .. 2], delivered' \subseteq Clients,
           strayed' \subseteq Clients, short' \subseteq {"descriptor", "thread", "directory"}
    PROVE  TypeOK'
BY DEF TypeOK, InMessages, OutMessages, Where, ThreadLabels

LEMMA TerminateTypes ==
    ASSUME TypeOK, Terminate, short' \subseteq {"descriptor", "thread", "directory"}
    PROVE  TypeOK'
<1>1. /\ inbox \in [Clients -> Seq(InMessages)] /\ outbox \in [Clients -> Seq(OutMessages)]
      /\ broken \in [Clients -> 0 .. 2] /\ stage \in [Requests -> Where]
      /\ delivered \subseteq Clients /\ strayed \subseteq Clients
  BY Types1
<1>2. outbox' \in [Clients -> Seq(OutMessages)]
  <2>1. \A c \in Clients : Append(outbox[c], "part") \in Seq(OutMessages)
    <3>1. "part" \in OutMessages
      BY DEF OutMessages, Messages
    <3> QED
      BY <1>1, <3>1, AppendProperties
  <2> QED
    BY <1>1, <2>1 DEF Terminate
<1>3. broken' \in [Clients -> 0 .. 2]
  <2>1. \A c \in Clients : (IF broken[c] = 0 THEN 1 ELSE broken[c]) \in 0 .. 2
    BY <1>1
  <2> QED
    BY <2>1 DEF Terminate
<1>4. /\ up' = FALSE /\ main' = "accept" /\ client_sockfd' = Nobody /\ backlog' = <<>>
      /\ open' = {}
      /\ UNCHANGED <<stage, client, inbox, peer, got, left, delivered, strayed>>
  BY DEF Terminate
<1>5. /\ backlog' \in Seq(Clients) /\ fd' \in [Clients -> Clients \cup {Nobody}]
      /\ sockfd' \in [Clients -> Clients \cup {Nobody}]
      /\ thread' \in [Clients -> ThreadLabels]
      /\ request_id' \in [Clients -> Requests \cup {Nobody}]
  <2>1. /\ backlog' = <<>> /\ fd' = [c \in Clients |-> Nobody]
        /\ sockfd' = [c \in Clients |-> Nobody] /\ thread' = [c \in Clients |-> "none"]
        /\ request_id' = [c \in Clients |-> Nobody]
    BY DEF Terminate
  <2>2. "none" \in ThreadLabels
    BY DEF ThreadLabels
  <2> QED
    BY <2>1, <2>2
<1> QED
  BY <1>1, <1>2, <1>3, <1>4, <1>5, ServerFrame

\* accept gives the connection the number of none that is open.
LEMMA AcceptEffect ==
    ASSUME TypeOK, Accept
    PROVE  /\ TypeOK'
           /\ up /\ main = "accept" /\ main' = "type"
           /\ \E k \in Clients :
                 /\ backlog # <<>> /\ k = Head(backlog) /\ backlog' = Tail(backlog)
                 /\ client_sockfd' = k /\ open' = open \cup {k}
                 /\ \E n \in Clients : /\ fd' = [fd EXCEPT ![k] = n]
                                       /\ n = k \/ (\E d \in Clients : n = fd[d])
                                       /\ n = k \/ (\A d \in open : n # fd[d])
           /\ UNCHANGED <<up, threads, stage, client, inbox, outbox, peer, broken, history>>
<1>a. /\ backlog \in Seq(Clients) /\ open \subseteq Clients
      /\ fd \in [Clients -> Clients \cup {Nobody}] /\ sockfd \in [Clients -> Clients \cup {Nobody}]
      /\ thread \in [Clients -> ThreadLabels] /\ stage \in [Requests -> Where]
      /\ request_id \in [Clients -> Requests \cup {Nobody}]
      /\ inbox \in [Clients -> Seq(InMessages)] /\ outbox \in [Clients -> Seq(OutMessages)]
      /\ broken \in [Clients -> 0 .. 2] /\ delivered \subseteq Clients
      /\ strayed \subseteq Clients /\ short \subseteq {"descriptor", "thread", "directory"}
  BY Types1
<1>1. /\ up /\ main = "accept" /\ main' = "type" /\ backlog # <<>> /\ backlog' = Tail(backlog)
      /\ UNCHANGED <<up, threads, stage, client, inbox, outbox, peer, broken, history>>
  BY DEF Accept
<1>2. PICK k \in Clients : k = Head(backlog)
  BY <1>a, <1>1, Shift
<1>3. /\ client_sockfd' = k /\ open' = open \cup {k}
      /\ \E n \in ({fd[d] : d \in Clients} \ {fd[d] : d \in open}) \cup {k} :
            n # Nobody /\ fd' = [fd EXCEPT ![k] = n]
  BY <1>2 DEF Accept
<1>4. PICK n \in Clients : /\ fd' = [fd EXCEPT ![k] = n]
                           /\ n = k \/ (\E d \in Clients : n = fd[d])
                           /\ n = k \/ (\A d \in open : n # fd[d])
  <2>1. PICK n \in ({fd[d] : d \in Clients} \ {fd[d] : d \in open}) \cup {k} :
              n # Nobody /\ fd' = [fd EXCEPT ![k] = n]
    BY <1>3
  <2>2. n = k \/ ((\E d \in Clients : n = fd[d]) /\ (\A d \in open : n # fd[d]))
    BY <2>1
  <2>3. n \in Clients
    BY <1>a, <1>2, <2>1, <2>2
  <2> QED
    BY <2>1, <2>2, <2>3
<1>5. fd' \in [Clients -> Clients \cup {Nobody}] /\ open' \subseteq Clients
      /\ backlog' \in Seq(Clients)
  BY <1>a, <1>1, <1>2, <1>3, <1>4, Shift
<1>6. TypeOK'
  BY <1>a, <1>1, <1>2, <1>3, <1>5, ServerFrame
<1> QED
  BY <1>1, <1>2, <1>3, <1>4, <1>6

\* The type is received: main's connection is its thread's.
LEMMA SpawnEffect ==
    ASSUME TypeOK, ReceiveRequestType
    PROVE  /\ TypeOK'
           /\ client_sockfd \in open /\ up /\ main = "type" /\ main' = "accept"
           /\ thread'[client_sockfd] \in StartLabels
           /\ \A d \in Clients \ {client_sockfd} :
                 thread'[d] = thread[d] /\ inbox'[d] = inbox[d]
           /\ UNCHANGED <<up, client_sockfd, open, fd, sockfd, request_id, stage, backlog,
                          client, outbox, peer, broken, history>>
<1>a. /\ backlog \in Seq(Clients) /\ open \subseteq Clients
      /\ client_sockfd \in Clients \cup {Nobody}
      /\ fd \in [Clients -> Clients \cup {Nobody}] /\ sockfd \in [Clients -> Clients \cup {Nobody}]
      /\ thread \in [Clients -> ThreadLabels] /\ stage \in [Requests -> Where]
      /\ request_id \in [Clients -> Requests \cup {Nobody}]
      /\ inbox \in [Clients -> Seq(InMessages)] /\ outbox \in [Clients -> Seq(OutMessages)]
      /\ broken \in [Clients -> 0 .. 2] /\ delivered \subseteq Clients
      /\ strayed \subseteq Clients /\ short \subseteq {"descriptor", "thread", "directory"}
      /\ StartLabels \subseteq ThreadLabels
  BY Types1 DEF StartLabels, ThreadLabels
<1>1. /\ client_sockfd \in open /\ up /\ main = "type"
      /\ UNCHANGED <<up, client_sockfd, open, fd, sockfd, request_id, stage, backlog,
                     client, outbox, peer, broken, history>>
  BY DEF ReceiveRequestType
<1>2. PICK label \in StartLabels : Spawn(label)
  BY DEF ReceiveRequestType, StartLabel, StartLabels
<1>3. /\ inbox' \in [Clients -> Seq(InMessages)]
      /\ \A d \in Clients \ {client_sockfd} : inbox'[d] = inbox[d]
  <2>1. inbox[client_sockfd] # <<>> =>
           \A rest \in LeftOf(inbox[client_sockfd], DOMAIN StartLabel) : rest \in Seq(InMessages)
    BY <1>a, <1>1, LeftTypes
  <2>2. \/ inbox' = inbox
        \/ \E rest \in Seq(InMessages) : inbox' = [inbox EXCEPT ![client_sockfd] = rest]
    BY <2>1 DEF ReceiveRequestType
  <2> QED
    BY <1>a, <2>2
<1>4. /\ thread' \in [Clients -> ThreadLabels] /\ main' = "accept"
      /\ thread'[client_sockfd] = label
      /\ \A d \in Clients \ {client_sockfd} : thread'[d] = thread[d]
  BY <1>a, <1>1, <1>2 DEF Spawn
<1>5. TypeOK'
  BY <1>a, <1>1, <1>3, <1>4, ServerFrame
<1> QED
  BY <1>1, <1>2, <1>3, <1>4, <1>5

LEMMA StartEffect ==
    ASSUME TypeOK, NEW t \in Clients, Start(t), client_sockfd \in Clients
    PROVE  /\ TypeOK'
           /\ up /\ thread[t] \in StartLabels
           /\ thread'[t] = IF thread[t] = "start new_request" THEN "open" ELSE "id"
           /\ sockfd'[t] = fd[client_sockfd]
           /\ strayed' = IF client_sockfd = t THEN strayed ELSE strayed \cup {t}
           /\ \A d \in Clients : d # t => thread'[d] = thread[d] /\ sockfd'[d] = sockfd[d]
           /\ UNCHANGED <<up, main, client_sockfd, open, fd, request_id, stage, backlog,
                          client, inbox, outbox, peer, broken, got, left, delivered, short>>
<1>a. /\ backlog \in Seq(Clients) /\ open \subseteq Clients /\ up \in BOOLEAN
      /\ main \in {"accept", "type"} /\ client_sockfd \in Clients \cup {Nobody}
      /\ fd \in [Clients -> Clients \cup {Nobody}] /\ sockfd \in [Clients -> Clients \cup {Nobody}]
      /\ thread \in [Clients -> ThreadLabels] /\ stage \in [Requests -> Where]
      /\ request_id \in [Clients -> Requests \cup {Nobody}]
      /\ inbox \in [Clients -> Seq(InMessages)] /\ outbox \in [Clients -> Seq(OutMessages)]
      /\ broken \in [Clients -> 0 .. 2] /\ delivered \subseteq Clients
      /\ strayed \subseteq Clients /\ short \subseteq {"descriptor", "thread", "directory"}
  BY Types1
<1>1. /\ up /\ thread[t] \in StartLabels
      /\ sockfd' = [sockfd EXCEPT ![t] = fd[client_sockfd]]
      /\ strayed' = IF client_sockfd = t THEN strayed ELSE strayed \cup {t}
      /\ thread' = [thread EXCEPT ![t] = IF thread[t] = "start new_request" THEN "open" ELSE "id"]
      /\ UNCHANGED <<up, main, client_sockfd, open, fd, request_id, stage, backlog,
                     client, inbox, outbox, peer, broken, got, left, delivered, short>>
  BY DEF Start, ThreadAt
<1>2. /\ sockfd' \in [Clients -> Clients \cup {Nobody}] /\ sockfd'[t] = fd[client_sockfd]
      /\ thread' \in [Clients -> ThreadLabels]
      /\ thread'[t] = IF thread[t] = "start new_request" THEN "open" ELSE "id"
      /\ \A d \in Clients : d # t => thread'[d] = thread[d] /\ sockfd'[d] = sockfd[d]
      /\ strayed' \subseteq Clients
  BY <1>a, <1>1 DEF ThreadLabels
<1>3. TypeOK'
  BY <1>a, <1>1, <1>2, ServerFrame
<1> QED
  BY <1>1, <1>2, <1>3

\* What the step of a thread does to the connection that its number stands
\* for, and that it touches no other.
LEMMA ActsEffect ==
    ASSUME TypeOK, NEW t \in Clients, NEW c \in Clients \cup {Nobody}, Acts(t, c),
           UNCHANGED <<up, main, client_sockfd, fd, backlog, client, peer, got, left, strayed>>
    PROVE  /\ TypeOK'
           /\ thread[t] \notin {"none", "over"} \cup StartLabels
           /\ sockfd' = sockfd /\ short \subseteq short'
           /\ \A d \in Clients : d # t => /\ thread'[d] = thread[d]
                                          /\ request_id'[d] = request_id[d]
           /\ \A d \in Clients : d # c => inbox'[d] = inbox[d] /\ outbox'[d] = outbox[d]
           /\ \/ /\ thread'[t] \notin {"none", "over"} \cup StartLabels
                 /\ UNCHANGED <<open, delivered>>
              \/ thread'[t] = "over" /\ open' = open \ {c} /\ delivered' = delivered
              \/ thread'[t] = "over" /\ open' = open /\ c # Nobody /\ delivered' = delivered \cup {c}
<1> USE AsyncFrontAssumption
<1> DEFINE Works == ThreadLabels \ ({"none", "over"} \cup StartLabels)
<1>a. /\ backlog \in Seq(Clients) /\ open \subseteq Clients /\ up \in BOOLEAN
      /\ main \in {"accept", "type"} /\ client_sockfd \in Clients \cup {Nobody}
      /\ fd \in [Clients -> Clients \cup {Nobody}] /\ sockfd \in [Clients -> Clients \cup {Nobody}]
      /\ thread \in [Clients -> ThreadLabels] /\ stage \in [Requests -> Where]
      /\ request_id \in [Clients -> Requests \cup {Nobody}]
      /\ inbox \in [Clients -> Seq(InMessages)] /\ outbox \in [Clients -> Seq(OutMessages)]
      /\ broken \in [Clients -> 0 .. 2] /\ delivered \subseteq Clients
      /\ strayed \subseteq Clients /\ short \subseteq {"descriptor", "thread", "directory"}
      /\ Requests = Clients /\ Works \subseteq ThreadLabels /\ "over" \in ThreadLabels
  BY Types1 DEF Requests, ThreadLabels
<1>b. /\ {"open", "receive", "receive rest", "receive some", "push", "accepted", "id",
          "requests", "process", "position", "status", "take", "send", "send file"} \subseteq Works
      /\ "over" \notin Works /\ "none" \notin Works
  BY DEF ThreadLabels, StartLabels
<1>c. ASSUME NEW label \in ThreadLabels, ThreadAt(t, label)
      PROVE  /\ thread' \in [Clients -> ThreadLabels] /\ thread'[t] = label
             /\ \A d \in Clients : d # t => thread'[d] = thread[d]
  BY <1>a, <1>c DEF ThreadAt
<1>d. ASSUME CloseAndExit(t, c)
      PROVE  /\ open' = open \ {c} /\ open' \subseteq Clients
             /\ thread' \in [Clients -> ThreadLabels] /\ thread'[t] = "over"
             /\ \A d \in Clients : d # t => thread'[d] = thread[d]
             /\ broken' \in [Clients -> 0 .. 2]
  <2>1. broken' = [x \in Clients |-> IF x = c /\ inbox[x] # <<>> THEN 1 ELSE broken[x]]
    BY <1>d DEF CloseAndExit
  <2> QED
    BY <1>a, <1>c, <1>d, <2>1 DEF CloseAndExit
<1>e. ASSUME NEW m \in OutMessages, Sends(c, m)
      PROVE  /\ outbox' \in [Clients -> Seq(OutMessages)]
             /\ \A d \in Clients : d # c => outbox'[d] = outbox[d]
  <2>1. \A x \in Clients : Append(outbox[x], m) \in Seq(OutMessages)
    BY <1>a, AppendProperties
  <2> QED
    BY <1>a, <1>e, <2>1 DEF Sends
<1>f. /\ {"0", "1", "2", "3", "position", "result"} \subseteq OutMessages /\ t \in OutMessages
  BY <1>a DEF OutMessages, Messages
<1>g. OpenFails => short' = short \cup {"descriptor"}
  BY DEF OpenFails
<1>h. ASSUME NEW s \in Seq(InMessages), c \in Clients, inbox' = [inbox EXCEPT ![c] = s]
      PROVE  /\ inbox' \in [Clients -> Seq(InMessages)]
             /\ \A d \in Clients : d # c => inbox'[d] = inbox[d]
  BY <1>a, <1>h
<1>i. ASSUME c \in Clients, inbox[c] # <<>>
      PROVE  /\ \A E : \A rest \in LeftOf(inbox[c], E) : rest \in Seq(InMessages)
             /\ \A rest \in Cut(inbox[c]) : rest \in Seq(InMessages)
             /\ Tail(inbox[c]) \in Seq(InMessages)
  BY <1>a, <1>i, LeftTypes, Shift
<1>j. <<>> \in Seq(InMessages) /\ <<"nul">> \in Seq(InMessages)
  BY DEF InMessages, Messages
<1>1. CASE OpenFile(t, c)
  <2>1. /\ thread[t] = "open" /\ UNCHANGED <<sockfd, request_id, stage, inbox, outbox, delivered>>
        /\ \/ ThreadAt(t, "receive") /\ UNCHANGED <<open, broken, short>>
           \/ CloseAndExit(t, c) /\ short' = short \cup {"descriptor"}
    BY <1>1, <1>g DEF OpenFile
  <2>2. TypeOK'
    BY <1>a, <1>b, <1>c, <1>d, <2>1, ServerFrame
  <2> QED
    BY <1>b, <1>c, <1>d, <2>1, <2>2
<1>2. CASE ReceiveFile(t, c)
  <2>1. /\ thread[t] = "receive" /\ UNCHANGED <<sockfd, request_id, stage, outbox, delivered, short>>
        /\ \/ \E label \in Works : ThreadAt(t, label) /\ UNCHANGED <<open, broken>>
           \/ CloseAndExit(t, c)
    BY <1>2, <1>b DEF ReceiveFile
  <2>2. \/ inbox' = inbox
        \/ c \in Clients /\ \E s \in Seq(InMessages) : inbox' = [inbox EXCEPT ![c] = s]
    BY <1>2, <1>i, <1>j DEF ReceiveFile
  <2>3. TypeOK'
    BY <1>a, <1>c, <1>d, <1>h, <2>1, <2>2, ServerFrame
  <2> QED
    BY <1>a, <1>b, <1>c, <1>d, <1>h, <2>1, <2>2, <2>3
<1>3. CASE ReceiveFileRest(t, c)
  <2>1. /\ thread[t] \in {"receive rest", "receive some"}
        /\ UNCHANGED <<sockfd, request_id, stage, outbox, delivered, short>>
        /\ \/ \E label \in Works : ThreadAt(t, label) /\ UNCHANGED <<open, broken>>
           \/ CloseAndExit(t, c)
    BY <1>3, <1>b DEF ReceiveFileRest
  <2>2. \/ inbox' = inbox
        \/ c \in Clients /\ \E s \in Seq(InMessages) : inbox' = [inbox EXCEPT ![c] = s]
    <3>1. c \in Clients /\ inbox[c] # <<>> =>
             \A over \in {<<>>, <<"nul">>} : over \o Tail(inbox[c]) \in Seq(InMessages)
      BY <1>i, <1>j, ConcatProperties
    <3> QED
      BY <1>3, <1>i, <3>1 DEF ReceiveFileRest
  <2>3. TypeOK'
    BY <1>a, <1>c, <1>d, <1>h, <2>1, <2>2, ServerFrame
  <2> QED
    BY <1>a, <1>b, <1>c, <1>d, <1>h, <2>1, <2>2, <2>3
<1>4. CASE Push(t)
  <2>1. /\ thread[t] = "push" /\ ThreadAt(t, "accepted")
        /\ stage' = stage \/ stage' = [stage EXCEPT ![t] = "queued"]
        /\ short' = short \/ short' = short \cup {"descriptor"}
        /\ UNCHANGED <<open, sockfd, request_id, inbox, outbox, broken, delivered>>
    BY <1>4, <1>g DEF Push
  <2>2. stage' \in [Requests -> Where]
    BY <1>a, <2>1 DEF Where
  <2>3. TypeOK'
    BY <1>a, <1>b, <1>c, <2>1, <2>2, ServerFrame
  <2> QED
    BY <1>b, <1>c, <2>1, <2>3
<1>5. CASE \/ SendId(t, c) \/ CheckRequests(t, c) \/ CheckProcess(t, c) \/ SendPosition(t, c)
           \/ CheckStatus(t, c) \/ SendDone(t, c)
  <2>1. /\ thread[t] \in Works
        /\ outbox' = outbox \/ \E m \in OutMessages : Sends(c, m)
        /\ \/ \E label \in Works : ThreadAt(t, label) /\ UNCHANGED <<open, broken>>
           \/ CloseAndExit(t, c)
        /\ UNCHANGED <<sockfd, request_id, stage, inbox, delivered, short>>
    BY <1>5, <1>b, <1>f DEF SendId, CheckRequests, CheckProcess, SendPosition, CheckStatus, SendDone
  <2>2. TypeOK'
    BY <1>a, <1>c, <1>d, <1>e, <2>1, ServerFrame
  <2> QED
    BY <1>a, <1>b, <1>c, <1>d, <1>e, <2>1, <2>2
<1>6. CASE ReceiveRequestId(t, c)
  <2>1. /\ thread[t] = "id" /\ ThreadAt(t, "requests")
        /\ \E r \in Requests \cup {Nobody} : request_id' = [request_id EXCEPT ![t] = r]
        /\ UNCHANGED <<open, sockfd, stage, outbox, broken, delivered, short>>
    BY <1>6 DEF ReceiveRequestId
  <2>2. \/ inbox' = inbox
        \/ c \in Clients /\ \E s \in Seq(InMessages) : inbox' = [inbox EXCEPT ![c] = s]
    BY <1>6, <1>i DEF ReceiveRequestId
  <2>3. /\ request_id' \in [Clients -> Requests \cup {Nobody}]
        /\ \A d \in Clients : d # t => request_id'[d] = request_id[d]
    BY <1>a, <2>1
  <2>4. /\ inbox' \in [Clients -> Seq(InMessages)]
        /\ \A d \in Clients : d # c => inbox'[d] = inbox[d]
    BY <1>a, <1>h, <2>2
  <2>5. TypeOK'
    BY <1>a, <1>b, <1>c, <2>1, <2>3, <2>4, ServerFrame
  <2> QED
    <3>1. /\ thread'[t] = "requests" /\ "requests" \in Works /\ "id" \in Works
          /\ \A d \in Clients : d # t => thread'[d] = thread[d]
      BY <1>a, <1>b, <1>c, <2>1
    <3> QED
      BY <2>1, <2>3, <2>4, <2>5, <3>1
<1>7. CASE TakeStatus(t)
  <2>1. /\ thread[t] = "take" /\ ThreadAt(t, "send")
        /\ stage' = stage \/ stage' = [stage EXCEPT ![request_id[t]] = "taken"]
        /\ short' = short \/ short' = short \cup {"descriptor"}
        /\ UNCHANGED <<open, sockfd, request_id, inbox, outbox, broken, delivered>>
    BY <1>7, <1>g DEF TakeStatus
  <2>2. stage' \in [Requests -> Where]
    BY <1>a, <2>1 DEF Where
  <2>3. TypeOK'
    BY <1>a, <1>b, <1>c, <2>1, <2>2, ServerFrame
  <2> QED
    BY <1>b, <1>c, <2>1, <2>3
<1>8. CASE SendResult(t, c)
  <2>1. /\ thread[t] = "send file" /\ UNCHANGED <<sockfd, request_id, stage, inbox>>
        /\ \/ /\ c # Nobody /\ Sends(c, "result") /\ delivered' = delivered \cup {c}
              /\ ThreadAt(t, "over") /\ UNCHANGED <<open, broken, short>>
           \/ /\ CloseAndExit(t, c) /\ UNCHANGED <<outbox, delivered>>
              /\ \E what \in {"descriptor", "directory"} :
                    short' = short \/ short' = short \cup {what}
    BY <1>8, <1>g DEF SendResult, NoDirectory
  <2>2. TypeOK'
    <3>1. CASE c # Nobody /\ Sends(c, "result") /\ delivered' = delivered \cup {c}
               /\ ThreadAt(t, "over") /\ UNCHANGED <<open, broken, short>>
      <4>1. /\ outbox' \in [Clients -> Seq(OutMessages)] /\ delivered' \subseteq Clients
            /\ thread' \in [Clients -> ThreadLabels]
        BY <1>a, <1>c, <1>e, <1>f, <3>1
      <4> QED
        BY <1>a, <2>1, <3>1, <4>1, ServerFrame
    <3>2. CASE /\ CloseAndExit(t, c) /\ UNCHANGED <<outbox, delivered>>
               /\ \E what \in {"descriptor", "directory"} :
                    short' = short \/ short' = short \cup {what}
      BY <1>a, <1>d, <2>1, <3>2, ServerFrame
    <3> QED
      BY <2>1, <3>1, <3>2
  <2> QED
    BY <1>a, <1>b, <1>c, <1>d, <1>e, <1>f, <2>1, <2>2
<1> QED
  BY <1>1, <1>2, <1>3, <1>4, <1>5, <1>6, <1>7, <1>8 DEF Acts

-----------------------------------------------------------------------------
(* Descriptors.                                                            *)

InBacklog(c) == \E i \in DOMAIN backlog : backlog[i] = c
Served(c) == main = "type" /\ client_sockfd = c

\* A connection is in the backlog once, then main's, then its thread's.
Places ==
    /\ \A i, j \in DOMAIN backlog : backlog[i] = backlog[j] => i = j
    /\ \A c \in Clients :
          /\ InBacklog(c) \/ Served(c) <=> thread[c] = "none" /\ at[c] # "connect"
          /\ ~(InBacklog(c) /\ Served(c))
          /\ at[c] = "connect" => thread[c] = "none"

\* No two connections have a number at a time, nobody has that of a connection
\* still to come, and a thread that has not strayed has its own connection's.
Numbers ==
    /\ \A c, d \in open : fd[c] = fd[d] => c = d
    /\ \A c \in Clients : thread[c] = "none" /\ ~Served(c) => \A d \in Clients : fd[d] # c
    /\ \A t \in Running \ strayed : thread[t] \in StartLabels \/ sockfd[t] = fd[t]

\* main's variable is set before the first thread is created; a result is the
\* last thing a thread sends, on its own connection unless one has strayed.
Connections ==
    /\ client_sockfd = Nobody => main = "accept" /\ \A t \in Clients : thread[t] = "none"
    /\ up => Places /\ Numbers
    /\ up /\ strayed = {} => \A c \in delivered : thread[c] = "over"

ConnectionInv == TypeOK /\ Connections /\ OnlyResultsLeak

LEMMA ConnectionInit == Init => ConnectionInv
<1> SUFFICES ASSUME Init PROVE ConnectionInv
  OBVIOUS
<1> USE AsyncFrontAssumption
<1>1. TypeOK
  BY DEF Init, TypeOK
<1>2. Places /\ Numbers
  BY DEF Init, Places, Numbers, InBacklog, Served, Running
<1> QED
  BY <1>1, <1>2 DEF Init, ConnectionInv, Connections, OnlyResultsLeak, Running

\* A thread that has not strayed works on its own connection, if that is open.
LEMMA OwnNumber ==
    ASSUME Connections, up, NEW t \in Running, t \notin strayed, t \in open,
           thread[t] \notin StartLabels, NEW c \in Clients \cup {Nobody}, Uses(t, c)
    PROVE  c = t
BY DEF Connections, Numbers, Uses

LEMMA ThreadEffect ==
    ASSUME TypeOK, Connections, NEW t \in Clients, ThreadStep(t)
    PROVE  /\ TypeOK' /\ up /\ t \in Running /\ Running \subseteq Clients
           /\ UNCHANGED <<up, main, client_sockfd, fd, backlog, client, peer, got, left>>
           /\ short \subseteq short' /\ strayed \subseteq strayed'
           /\ thread'[t] \notin {"none"} \cup StartLabels
           /\ \A d \in Clients : d # t => /\ thread'[d] = thread[d] /\ sockfd'[d] = sockfd[d]
                                          /\ request_id'[d] = request_id[d]
           /\ t \in strayed' \/ sockfd'[t] = fd[t]
           /\ open' \subseteq open /\ delivered \subseteq delivered'
           /\ thread'[t] = "over" =>
                 \/ t \in strayed' \/ t \notin open' \/ t \in delivered'
<1> USE AsyncFrontAssumption
<1>a. \A d \in Clients : d \in Running <=> thread[d] \notin {"none", "over"}
  BY DEF Running
<1>b. Running \subseteq Clients
  BY DEF Running
<1>c. "none" \notin StartLabels /\ "over" \notin StartLabels
  BY DEF StartLabels
<1>1. CASE Start(t)
  <2>1. client_sockfd \in Clients
    <3>1. thread[t] # "none"
      BY <1>1 DEF Start, StartLabels
    <3> QED
      BY <3>1 DEF Connections, TypeOK
  <2>2. /\ TypeOK' /\ up /\ thread[t] \in StartLabels
        /\ thread'[t] \in {"open", "id"}
        /\ sockfd'[t] = fd[client_sockfd]
        /\ strayed' = IF client_sockfd = t THEN strayed ELSE strayed \cup {t}
        /\ \A d \in Clients : d # t => thread'[d] = thread[d] /\ sockfd'[d] = sockfd[d]
        /\ UNCHANGED <<up, main, client_sockfd, open, fd, request_id, backlog,
                       client, peer, got, left, delivered, short>>
    BY <1>1, <2>1, StartEffect
  <2> QED
    BY <1>a, <1>b, <1>c, <2>2 DEF StartLabels
<1>2. CASE ~Start(t)
  <2>1. PICK c \in Clients \cup {Nobody} :
              /\ up /\ Uses(t, c) /\ Acts(t, c)
              /\ UNCHANGED <<up, main, client_sockfd, fd, backlog, client, peer, got, left, strayed>>
    BY <1>2 DEF ThreadStep
  <2>2. /\ TypeOK' /\ thread[t] \notin {"none", "over"} \cup StartLabels
        /\ sockfd' = sockfd /\ short \subseteq short'
        /\ \A d \in Clients : d # t => /\ thread'[d] = thread[d]
                                       /\ request_id'[d] = request_id[d]
        /\ \/ /\ thread'[t] \notin {"none", "over"} \cup StartLabels
              /\ UNCHANGED <<open, delivered>>
           \/ thread'[t] = "over" /\ open' = open \ {c} /\ delivered' = delivered
           \/ thread'[t] = "over" /\ open' = open /\ c # Nobody /\ delivered' = delivered \cup {c}
    BY <2>1, ActsEffect
  <2>3. t \in Running /\ (t \in strayed \/ sockfd[t] = fd[t])
    BY <1>a, <2>1, <2>2 DEF Connections, Numbers
  <2>4. t \notin strayed /\ t \in open => c = t
    BY <2>1, <2>2, <2>3, OwnNumber
  <2> QED
    BY <1>b, <1>c, <2>1, <2>2, <2>3, <2>4
<1> QED
  BY <1>1, <1>2

\* While no thread strays, it acts on its own connection and on no other.
LEMMA OwnStep ==
    ASSUME TypeOK, Connections, OnlyResultsLeak, NEW t \in Clients, ThreadStep(t), strayed' = {}
    PROVE  /\ strayed = {} /\ t \in open
           /\ \/ Start(t) /\ client_sockfd = t /\ UNCHANGED <<stage, inbox, outbox>>
              \/ Acts(t, t) /\ thread[t] \notin StartLabels
           /\ \A d \in Clients : d # t => /\ thread'[d] = thread[d] /\ inbox'[d] = inbox[d]
                                          /\ outbox'[d] = outbox[d]
                                          /\ request_id'[d] = request_id[d]
           /\ \/ thread'[t] \notin {"none", "over"} /\ UNCHANGED <<open, delivered>>
              \/ thread'[t] = "over" /\ open' = open \ {t} /\ delivered' = delivered
              \/ thread'[t] = "over" /\ open' = open /\ delivered' = delivered \cup {t}
<1>1. /\ up /\ t \in Running /\ strayed = {}
      /\ UNCHANGED <<up, main, client_sockfd, fd, backlog, client, peer, got, left>>
  BY ThreadEffect
<1>2. t \in open
  BY <1>1 DEF OnlyResultsLeak
<1>3. CASE Start(t)
  <2>1. /\ strayed' = IF client_sockfd = t THEN strayed ELSE strayed \cup {t}
        /\ thread' = [thread EXCEPT ![t] = IF thread[t] = "start new_request" THEN "open" ELSE "id"]
        /\ UNCHANGED <<open, stage, inbox, outbox, request_id, delivered>>
    BY <1>3 DEF Start, ThreadAt
  <2> QED
    BY <1>1, <1>2, <1>3, <2>1 DEF TypeOK
<1>4. CASE ~Start(t)
  <2>1. PICK c \in Clients \cup {Nobody} :
              /\ up /\ Uses(t, c) /\ Acts(t, c)
              /\ UNCHANGED <<up, main, client_sockfd, fd, backlog, client, peer, got, left, strayed>>
    BY <1>4 DEF ThreadStep
  <2>2. thread[t] \notin StartLabels
    BY <2>1, ActsEffect
  <2>3. c = t
    BY <1>1, <1>2, <2>1, <2>2, OwnNumber
  <2>4. Acts(t, t)
    BY <2>1, <2>3
  <2>5. /\ \A d \in Clients : d # t => /\ thread'[d] = thread[d] /\ inbox'[d] = inbox[d]
                                       /\ outbox'[d] = outbox[d]
                                       /\ request_id'[d] = request_id[d]
        /\ \/ thread'[t] \notin {"none", "over"} /\ UNCHANGED <<open, delivered>>
           \/ thread'[t] = "over" /\ open' = open \ {t} /\ delivered' = delivered
           \/ thread'[t] = "over" /\ open' = open /\ delivered' = delivered \cup {t}
    BY <2>1, <2>4, ActsEffect
  <2> QED
    BY <1>1, <1>2, <2>2, <2>4, <2>5
<1> QED
  BY <1>3, <1>4

LEMMA BacklogHead ==
    ASSUME TypeOK, NEW k, backlog # <<>>, k = Head(backlog), backlog' = Tail(backlog),
           \A i, j \in DOMAIN backlog : backlog[i] = backlog[j] => i = j
    PROVE  /\ InBacklog(k) /\ ~InBacklog(k)'
           /\ \A c \in Clients : c # k => (InBacklog(c)' <=> InBacklog(c))
           /\ \A i, j \in DOMAIN backlog' : backlog'[i] = backlog'[j] => i = j
<1>1. backlog \in Seq(Clients)
  BY DEF TypeOK
<1>3. /\ k = backlog[1] /\ DOMAIN backlog = 1 .. Len(backlog)
      /\ Len(backlog) \in Nat /\ Len(backlog) >= 1
      /\ DOMAIN backlog' = 1 .. Len(backlog) - 1
      /\ \A i \in DOMAIN backlog' : backlog'[i] = backlog[i + 1]
  BY <1>1, Shift
<1>5. \A i, j \in DOMAIN backlog' : backlog'[i] = backlog'[j] => i = j
  BY <1>3
<1>6. InBacklog(k)
  BY <1>3 DEF InBacklog
<1>7. \A i \in DOMAIN backlog' : backlog'[i] # k
  BY <1>3
<1>8. ASSUME NEW c \in Clients, c # k PROVE InBacklog(c)' <=> InBacklog(c)
  <2>1. ASSUME NEW i \in DOMAIN backlog, backlog[i] = c
        PROVE  \E j \in DOMAIN backlog' : backlog'[j] = c
    <3>1. i # 1 /\ i - 1 \in DOMAIN backlog' /\ (i - 1) + 1 = i
      BY <1>3, <1>8, <2>1
    <3> QED
      BY <1>3, <2>1, <3>1
  <2>2. ASSUME NEW i \in DOMAIN backlog', backlog'[i] = c
        PROVE  \E j \in DOMAIN backlog : backlog[j] = c
    <3>1. i + 1 \in DOMAIN backlog
      BY <1>3
    <3> QED
      BY <1>3, <2>2, <3>1
  <2> QED
    BY <2>1, <2>2 DEF InBacklog
<1> QED
  BY <1>5, <1>6, <1>7, <1>8 DEF InBacklog

LEMMA BacklogEnd ==
    ASSUME TypeOK, NEW c \in Clients, backlog' = Append(backlog, c), ~InBacklog(c),
           \A i, j \in DOMAIN backlog : backlog[i] = backlog[j] => i = j
    PROVE  /\ InBacklog(c)' /\ \A d \in Clients : d # c => (InBacklog(d)' <=> InBacklog(d))
           /\ \A i, j \in DOMAIN backlog' : backlog'[i] = backlog'[j] => i = j
<1>1. backlog \in Seq(Clients)
  BY DEF TypeOK
<1>2. /\ DOMAIN backlog' = 1 .. Len(backlog) + 1 /\ Len(backlog) \in Nat
      /\ DOMAIN backlog = 1 .. Len(backlog)
      /\ \A i \in DOMAIN backlog : backlog'[i] = backlog[i] /\ backlog[i] \in Clients
      /\ backlog'[Len(backlog) + 1] = c
  BY <1>1
<1>3. InBacklog(c)' /\ \A d \in Clients : d # c => (InBacklog(d)' <=> InBacklog(d))
  BY <1>2 DEF InBacklog
<1> QED
  BY <1>2, <1>3 DEF InBacklog

\* A step that touches no connection and no thread.
LEMMA ConnectionsSame ==
    ASSUME TypeOK, Connections, OnlyResultsLeak,
           UNCHANGED <<up, main, client_sockfd, open, fd, thread, sockfd, backlog,
                       delivered, strayed>>,
           \A c \in Clients : at'[c] = "connect" <=> at[c] = "connect"
    PROVE  Connections' /\ OnlyResultsLeak'
<1>1. \A c \in Clients : (InBacklog(c)' <=> InBacklog(c)) /\ (Served(c)' <=> Served(c))
  BY DEF InBacklog, Served
<1>2. Places => Places'
  BY <1>1 DEF Places
<1>3. Running' = Running
  BY DEF Running
<1>4. Numbers => Numbers'
  BY <1>1, <1>3 DEF Numbers
<1> QED
  BY <1>2, <1>3, <1>4 DEF Connections, OnlyResultsLeak

LEMMA ConnectionStep == ConnectionInv /\ [Next]_vars => ConnectionInv'
<1> SUFFICES ASSUME TypeOK, Connections, OnlyResultsLeak, [Next]_vars
             PROVE  TypeOK' /\ Connections' /\ OnlyResultsLeak'
  BY DEF ConnectionInv
<1> USE AsyncFrontAssumption
<1>a. \A c \in Clients : c \in Running <=> thread[c] \notin {"none", "over"}
  BY DEF Running
<1>b. \A c \in Clients : c \in Running' <=> thread'[c] \notin {"none", "over"}
  BY DEF Running
<1>c. Running \subseteq Clients /\ Running' \subseteq Clients /\ delivered \subseteq Clients
  BY DEF Running, TypeOK
<1>1. ASSUME Terminate, short' = short \/ \E what \in {"descriptor", "thread"} :
                                             short' = short \cup {what}
      PROVE  TypeOK' /\ Connections' /\ OnlyResultsLeak'
  <2>1. TypeOK'
    <3>1. short \subseteq {"descriptor", "thread", "directory"}
      BY Types1
    <3> QED
      BY <1>1, <3>1, TerminateTypes
  <2> QED
    BY <1>1, <2>1 DEF Terminate, Connections, OnlyResultsLeak
<1>2. CASE Accept
  <2>1. /\ TypeOK' /\ up /\ main = "accept" /\ main' = "type"
        /\ UNCHANGED <<up, threads, stage, client, inbox, outbox, peer, broken, history>>
    BY <1>2, AcceptEffect
  <2>2. PICK k \in Clients :
              /\ backlog # <<>> /\ k = Head(backlog) /\ backlog' = Tail(backlog)
              /\ client_sockfd' = k /\ open' = open \cup {k}
              /\ \E n \in Clients : /\ fd' = [fd EXCEPT ![k] = n]
                                    /\ n = k \/ (\E d \in Clients : n = fd[d])
                                    /\ n = k \/ (\A d \in open : n # fd[d])
    BY <1>2, AcceptEffect
  <2>3. Places /\ Numbers
    BY <2>1 DEF Connections
  <2>4. /\ InBacklog(k) /\ ~InBacklog(k)'
        /\ \A c \in Clients : c # k => (InBacklog(c)' <=> InBacklog(c))
        /\ \A i, j \in DOMAIN backlog' : backlog'[i] = backlog'[j] => i = j
    BY <2>2, <2>3, BacklogHead DEF Places
  <2>5. /\ thread[k] = "none" /\ at[k] # "connect"
        /\ \A c \in Clients : ~Served(c) /\ (Served(c)' <=> c = k)
    BY <2>1, <2>2, <2>3, <2>4 DEF Places, Served
  <2>6. Places'
    BY <2>1, <2>3, <2>4, <2>5 DEF Places
  <2>7. Numbers'
    <3>1. PICK n \in Clients : /\ fd' = [fd EXCEPT ![k] = n]
                               /\ n = k \/ (\E d \in Clients : n = fd[d])
                               /\ n = k \/ (\A d \in open : n # fd[d])
      BY <2>2
    <3>2. fd'[k] = n /\ \A d \in Clients : d # k => fd'[d] = fd[d]
      BY <3>1 DEF TypeOK
    <3>3. \A d \in Clients : fd[d] # k
      BY <2>3, <2>5 DEF Numbers
    <3>4. open \subseteq Clients
      BY DEF TypeOK
    <3>5. \A d \in open : fd[d] # n
      BY <3>1, <3>3, <3>4
    <3>6. \A c, d \in open' : fd'[c] = fd'[d] => c = d
      BY <2>2, <2>3, <3>2, <3>4, <3>5 DEF Numbers
    <3>7. ASSUME NEW c \in Clients, thread'[c] = "none", ~Served(c)', NEW d \in Clients
          PROVE  fd'[d] # c
      <4>1. c # k /\ thread[c] = "none" /\ ~Served(c)
        BY <2>1, <2>5, <3>7
      <4>2. \A e \in Clients : fd[e] # c
        BY <2>3, <4>1 DEF Numbers
      <4> QED
        BY <3>1, <3>2, <4>1, <4>2
    <3>8. ASSUME NEW t \in Running' \ strayed'
          PROVE  thread'[t] \in StartLabels \/ sockfd'[t] = fd'[t]
      <4>1. t \in Clients /\ t \in Running \ strayed /\ t # k
        BY <1>a, <1>b, <1>c, <2>1, <2>5
      <4> QED
        BY <2>1, <2>3, <3>2, <4>1 DEF Numbers
    <3> QED
      BY <3>6, <3>7, <3>8 DEF Numbers
  <2>8. OnlyResultsLeak'
    BY <2>1, <2>2 DEF OnlyResultsLeak, Running
  <2>9. client_sockfd' # Nobody
    BY <2>2
  <2>10. strayed' = {} => \A c \in delivered' : thread'[c] = "over"
    BY <2>1 DEF Connections
  <2> QED
    BY <2>1, <2>6, <2>7, <2>8, <2>9, <2>10 DEF Connections
<1>3. CASE ReceiveRequestType
  <2>1. /\ TypeOK' /\ client_sockfd \in open /\ up /\ main = "type" /\ main' = "accept"
        /\ thread'[client_sockfd] \in StartLabels
        /\ \A d \in Clients \ {client_sockfd} : thread'[d] = thread[d]
        /\ UNCHANGED <<up, client_sockfd, open, fd, sockfd, backlog, at, delivered, strayed>>
    BY <1>3, SpawnEffect
  <2>2. Places /\ Numbers /\ client_sockfd \in Clients
    BY <2>1 DEF Connections, TypeOK
  <2>3. /\ Served(client_sockfd) /\ thread[client_sockfd] = "none" /\ at[client_sockfd] # "connect"
        /\ thread'[client_sockfd] \notin {"none", "over"}
        /\ \A c \in Clients : (InBacklog(c)' <=> InBacklog(c)) /\ ~Served(c)'
                              /\ (c # client_sockfd => ~Served(c))
    BY <2>1, <2>2 DEF Places, Served, InBacklog, StartLabels
  <2>4. Places'
    <3>1. ASSUME NEW c \in Clients
          PROVE  /\ InBacklog(c)' \/ Served(c)' <=> thread'[c] = "none" /\ at'[c] # "connect"
                 /\ ~(InBacklog(c)' /\ Served(c)')
                 /\ at'[c] = "connect" => thread'[c] = "none"
      BY <2>1, <2>2, <2>3 DEF Places
    <3> QED
      BY <2>1, <2>2, <3>1 DEF Places
  <2>5. Numbers'
    BY <1>a, <1>b, <1>c, <2>1, <2>2, <2>3 DEF Numbers
  <2>6. \A c \in Clients : c \in Running' <=> c \in Running \/ c = client_sockfd
    BY <1>a, <1>b, <2>1, <2>2, <2>3
  <2>7. OnlyResultsLeak'
    BY <1>c, <2>1, <2>2, <2>6 DEF OnlyResultsLeak
  <2>8. strayed' = {} => \A c \in delivered' : thread'[c] = "over"
    BY <1>c, <2>1, <2>3 DEF Connections
  <2> QED
    BY <2>1, <2>2, <2>4, <2>5, <2>7, <2>8 DEF Connections
<1>4. ASSUME NEW t \in Clients, ThreadStep(t) PROVE TypeOK' /\ Connections' /\ OnlyResultsLeak'
  <2>1. /\ TypeOK' /\ up /\ t \in Running
        /\ UNCHANGED <<up, main, client_sockfd, fd, backlog, client>>
        /\ strayed \subseteq strayed'
        /\ thread'[t] \notin {"none"} \cup StartLabels
        /\ \A d \in Clients : d # t => thread'[d] = thread[d] /\ sockfd'[d] = sockfd[d]
        /\ t \in strayed' \/ sockfd'[t] = fd[t]
        /\ open' \subseteq open /\ delivered \subseteq delivered'
        /\ thread'[t] = "over" => t \in strayed' \/ t \notin open' \/ t \in delivered'
    BY <1>4, ThreadEffect
  <2>2. \A c \in Clients : (InBacklog(c)' <=> InBacklog(c)) /\ (Served(c)' <=> Served(c))
    BY <2>1 DEF InBacklog, Served
  <2>3. Places /\ Numbers /\ thread[t] \notin {"none", "over"}
    BY <1>a, <2>1 DEF Connections
  <2>4. Places'
    BY <2>1, <2>2, <2>3 DEF Places
  <2>5. Numbers'
    <3>1. \A c, d \in open' : fd'[c] = fd'[d] => c = d
      BY <2>1, <2>3 DEF Numbers
    <3>2. \A c \in Clients : thread'[c] = "none" /\ ~Served(c)' => \A d \in Clients : fd'[d] # c
      BY <2>1, <2>2, <2>3 DEF Numbers
    <3>3. ASSUME NEW d \in Running' \ strayed'
          PROVE  thread'[d] \in StartLabels \/ sockfd'[d] = fd'[d]
      <4>1. CASE d = t
        BY <2>1, <3>3, <4>1
      <4>2. CASE d # t
        <5>1. d \in Running \ strayed
          BY <1>a, <1>b, <1>c, <2>1, <3>3, <4>2
        <5> QED
          BY <1>c, <2>1, <2>3, <3>3, <4>2, <5>1 DEF Numbers
      <4> QED
        BY <4>1, <4>2
    <3> QED
      BY <3>1, <3>2, <3>3 DEF Numbers
  <2>6. \A d \in Clients : d # t => (d \in Running' <=> d \in Running)
    BY <1>a, <1>b, <2>1
  <2>7. CASE strayed' # {}
    <3>1. ASSUME NEW x \in open'
          PROVE  \/ main' = "type" /\ x = client_sockfd'
                 \/ x \in Running' \cup delivered' \cup strayed'
      <4>1. \/ main = "type" /\ x = client_sockfd
            \/ x \in Running \cup delivered \cup strayed
        BY <2>1, <3>1 DEF OnlyResultsLeak
      <4>2. x = t => x \in Running' \cup delivered' \cup strayed'
        BY <1>b, <2>1, <3>1
      <4> QED
        BY <1>c, <2>1, <2>6, <4>1, <4>2
    <3>2. OnlyResultsLeak'
      BY <2>7, <3>1 DEF OnlyResultsLeak
    <3> QED
      BY <2>1, <2>3, <2>4, <2>5, <2>7, <3>2 DEF Connections
  <2>8. CASE strayed' = {}
    <3>1. /\ strayed = {}
          /\ \/ thread'[t] \notin {"none", "over"} /\ UNCHANGED <<open, delivered>>
             \/ thread'[t] = "over" /\ open' = open \ {t} /\ delivered' = delivered
             \/ thread'[t] = "over" /\ open' = open /\ delivered' = delivered \cup {t}
      BY <1>4, <2>8, OwnStep
    <3>2. (\A c \in delivered : thread[c] = "over") /\ t \notin delivered
      BY <2>1, <2>3, <3>1 DEF Connections
    <3>3. \A c \in delivered' : thread'[c] = "over"
      BY <1>c, <2>1, <3>1, <3>2
    <3>4. ~Served(t)
      BY <2>1, <2>3 DEF Places
    <3>5. \/ t \in Running' /\ UNCHANGED <<open, delivered>>
          \/ t \notin Running' /\ open' = open \ {t} /\ delivered' = delivered
          \/ t \notin Running' /\ open' = open /\ delivered' = delivered \cup {t}
      BY <1>b, <3>1
    <3>6. main = "type" => client_sockfd # t
      BY <3>4 DEF Served
    <3>7. OnlyResultsLeak'
      BY <1>c, <2>1, <2>6, <3>1, <3>2, <3>5, <3>6 DEF OnlyResultsLeak
    <3> QED
      BY <2>1, <2>3, <2>4, <2>5, <3>3, <3>7 DEF Connections
  <2> QED
    BY <2>7, <2>8
<1>5. ASSUME NEW c \in Clients, ClientStep(c) \/ Die(c)
      PROVE  TypeOK' /\ Connections' /\ OnlyResultsLeak'
  <2>1. /\ TypeOK' /\ UNCHANGED <<server, delivered, strayed>> /\ at'[c] # "connect"
        /\ \A d \in Clients : d # c => at'[d] = at[d]
        /\ at[c] # "connect" => backlog' = backlog
    BY <1>5, ClientEffect
  <2>2. CASE at[c] # "connect"
    BY <2>1, <2>2, ConnectionsSame
  <2>3. CASE at[c] = "connect"
    <3>1. OnlyResultsLeak'
      BY <2>1 DEF OnlyResultsLeak, Running
    <3>2. Connect(c)
      BY <1>5, <2>3 DEF ClientStep, SendType, Upload, UploadRest, ReceiveId, Ask,
         ReceiveType, ReceiveNoType, ReceivePosition, ReceiveResult, ReceiveNoResult, Die
    <3>3. CASE ~up
      BY <2>1, <3>1, <3>3 DEF Connections
    <3>4. CASE up
      <4>1. Places /\ Numbers /\ backlog' = Append(backlog, c)
        BY <3>2, <3>4 DEF Connections, Connect
      <4>2. ~InBacklog(c) /\ ~Served(c) /\ thread[c] = "none"
        BY <2>3, <4>1 DEF Places
      <4>3. /\ InBacklog(c)' /\ \A d \in Clients : d # c => (InBacklog(d)' <=> InBacklog(d))
            /\ \A i, j \in DOMAIN backlog' : backlog'[i] = backlog'[j] => i = j
        BY <4>1, <4>2, BacklogEnd DEF Places
      <4>4. \A d \in Clients : Served(d)' <=> Served(d)
        BY <2>1 DEF Served
      <4>5. Places'
        BY <2>1, <4>1, <4>2, <4>3, <4>4 DEF Places
      <4>6. Numbers'
        BY <1>a, <1>b, <1>c, <2>1, <4>1, <4>4 DEF Numbers
      <4> QED
        BY <2>1, <3>1, <4>5, <4>6 DEF Connections
    <3> QED
      BY <3>3, <3>4
  <2> QED
    BY <2>2, <2>3
<1>6. ASSUME NEW r \in Requests, Grade(r) PROVE TypeOK' /\ Connections' /\ OnlyResultsLeak'
  <2>1. UNCHANGED <<server, backlog, client, inbox, outbox, peer, broken, history>>
    BY <1>6 DEF Grade
  <2>2. stage' \in [Requests -> Where]
    <3>1. PICK move \in {<<"queued", "held">>, <<"held", "listed">>, <<"listed", "done">>} :
              stage' = [stage EXCEPT ![r] = move[2]]
      BY <1>6 DEF Grade
    <3>2. move[2] \in Where
      BY DEF Where
    <3>3. stage \in [Requests -> Where]
      BY Types1
    <3> QED
      BY <3>1, <3>2, <3>3
  <2>3. TypeOK'
    BY <2>1, <2>2 DEF TypeOK, Where
  <2> QED
    BY <2>1, <2>3, ConnectionsSame
<1>7. CASE UNCHANGED vars
  <2>1. TypeOK'
    BY <1>7 DEF vars, TypeOK
  <2> QED
    BY <1>7, <2>1, ConnectionsSame DEF vars
<1>8. CASE AcceptFails \/ ReceiveRequestTypeFails \/ SpawnFails \/ \E t \in Clients : EndsServer(t)
  <2>1. Terminate /\ (short' = short \/ \E what \in {"descriptor", "thread"} :
                                             short' = short \cup {what})
    BY <1>8 DEF AcceptFails, OpenFails, ReceiveRequestTypeFails, SpawnFails, EndsServer, MayEndServer
  <2> QED
    BY <1>1, <2>1
<1> QED
  BY <1>2, <1>3, <1>4, <1>5, <1>6, <1>7, <1>8 DEF Next, MainStep, MainGoesOn

LEMMA ConnectionInvariant == Spec => []ConnectionInv
BY ConnectionInit, ConnectionStep, PTL DEF Spec

\* Every variable keeps its type.
THEOREM FrontTypeCorrect == Spec => []TypeOK
<1>1. ConnectionInv => TypeOK
  BY DEF ConnectionInv
<1> QED
  BY <1>1, ConnectionInvariant, PTL

\* The server has a descriptor for main's connection, for each running thread
\* and for each result it has ever sent, and for nothing else; once threads
\* have read others' descriptors, at most for the connections of those too.
THEOREM LeaksAreResults == Spec => []OnlyResultsLeak
<1>1. ConnectionInv => OnlyResultsLeak
  BY DEF ConnectionInv
<1> QED
  BY <1>1, ConnectionInvariant, PTL

-----------------------------------------------------------------------------
(* Conversations.                                                          *)

\* What a client has sent while nothing has been received.
Sent(c) ==
    \/ at[c] \in {"connect", "type"} /\ inbox[c] = <<>>
    \/ c \in Askers /\ at[c] = "reply" /\ inbox[c] = <<"1", requestId[c]>>
    \/ /\ c \in Submitters
       /\ \/ at[c] = "upload" /\ inbox[c] = <<"0">>
          \/ at[c] = "upload rest" /\ inbox[c] = <<"0", "part">>
          \/ at[c] = "id" /\ inbox[c] = <<"0", "part", "rest">>

\* While nothing of the file has been received.
Uploading(c) ==
    /\ c \in Submitters /\ outbox[c] = <<>>
    /\ \/ at[c] = "upload" /\ inbox[c] = <<>>
       \/ at[c] = "upload rest" /\ inbox[c] = <<"part">>
       \/ at[c] = "id" /\ inbox[c] = <<"part", "rest">>

\* What is left while status_check waits for the id: the byte that was left of
\* an upload may come before it.
Asking(c) ==
    \/ c \in Askers /\ at[c] = "reply" /\ inbox[c] = <<requestId[c]>> /\ outbox[c] = <<>>
    \/ /\ c \in Submitters
       /\ \/ at[c] = "id" /\ outbox[c] = <<c>> /\ inbox[c] \in {<<>>, <<"nul">>}
          \/ at[c] = "ask" /\ outbox[c] = <<>> /\ inbox[c] \in {<<>>, <<"nul">>}
          \/ /\ at[c] = "reply" /\ outbox[c] = <<>>
             /\ inbox[c] \in {<<requestId[c]>>, <<"nul", requestId[c]>>}

\* While the queues are searched.  A submitter whose byte was taken for the id
\* may still have to ask.
Asked(c) ==
    \/ at[c] = "reply" /\ inbox[c] = <<>> /\ outbox[c] = <<>>
    \/ /\ request_id[c] = Nobody
       /\ \/ at[c] = "id" /\ inbox[c] = <<>> /\ outbox[c] = <<c>>
          \/ at[c] = "ask" /\ inbox[c] = <<>> /\ outbox[c] = <<>>
          \/ at[c] = "reply" /\ inbox[c] = <<requestId[c]>> /\ outbox[c] = <<>>

\* Until its thread is over, a client that has not died waits for what the
\* thread is going to send, and the thread for what the client is.
Talk(c) ==
    /\ peer[c] = "open" /\ thread[c] # "receive some"
    /\ thread[c] = "none" => Sent(c) /\ outbox[c] = <<>>
    /\ thread[c] \in {"start new_request", "open", "receive"} => Uploading(c)
    /\ thread[c] = "receive rest" =>
          /\ c \in Submitters /\ outbox[c] = <<>>
          /\ \/ at[c] = "upload rest" /\ inbox[c] = <<>>
             \/ at[c] = "id" /\ inbox[c] = <<"rest">>
    /\ thread[c] \in {"push", "accepted"} =>
          /\ c \in Submitters /\ at[c] = "id" /\ outbox[c] = <<>>
          /\ inbox[c] \in {<<>>, <<"nul">>}
    /\ thread[c] \in {"start status_check", "id"} => Asking(c)
    /\ thread[c] \in {"requests", "process", "status"} => Asked(c)
    /\ thread[c] = "position" =>
          /\ inbox[c] = <<>>
          /\ \/ at[c] = "reply" /\ outbox[c] \in {<<"0">>, <<"3">>}
             \/ at[c] \in {"position", "processing"} /\ outbox[c] = <<>>
    /\ thread[c] \in {"take", "send"} =>
          inbox[c] = <<>> /\ at[c] = "reply" /\ outbox[c] = <<>>
    /\ thread[c] = "send file" =>
          /\ inbox[c] = <<>>
          /\ \/ at[c] = "reply" /\ outbox[c] = <<"2">>
             \/ at[c] = "file" /\ outbox[c] = <<>>

Talks == up /\ strayed = {} => \A c \in Clients \ left : thread[c] # "over" => Talk(c)

LEMMA TalkInit == Init => Talks
BY DEF Init, Talks, Talk, Sent

LEMMA TalkSame ==
    ASSUME NEW c \in Clients, Talk(c), at'[c] = at[c], thread'[c] = thread[c],
           inbox'[c] = inbox[c], outbox'[c] = outbox[c], peer'[c] = peer[c],
           request_id'[c] = request_id[c], requestId'[c] = requestId[c]
    PROVE  Talk(c)'
<1>1. /\ Sent(c) => Sent(c)'
      /\ Uploading(c) => Uploading(c)'
      /\ Asking(c) => Asking(c)'
      /\ Asked(c) => Asked(c)'
  BY DEF Sent, Uploading, Asking, Asked
<1> QED
  BY <1>1 DEF Talk

LEMMA NotClosed ==
    ASSUME TypeOK, Connections, OnlyResultsLeak, up, strayed = {}, NEW c \in Clients,
           thread[c] # "over", at[c] # "connect"
    PROVE  ~Closed(c)
<1>1. CASE thread[c] = "none"
  BY <1>1 DEF Connections, Places, OnlyResultsLeak, InBacklog, Served, Closed
<1>2. CASE thread[c] # "none"
  BY <1>2 DEF OnlyResultsLeak, Running, Closed
<1> QED
  BY <1>1, <1>2

LEMMA TalkClient ==
    ASSUME TypeOK, Connections, OnlyResultsLeak, up, strayed = {}, NEW c \in Clients,
           ClientStep(c), thread[c] # "over", Talk(c)
    PROVE  Talk(c)'
<1> USE AsyncFrontAssumption
<1>a. /\ UNCHANGED <<thread, request_id>> /\ thread[c] \in ThreadLabels
      /\ (c \in Submitters <=> c \notin Askers)
      /\ outbox[c] \in Seq(OutMessages) /\ requestId[c] \in InMessages
  BY ClientEffect, Types1 DEF Clients, InMessages, Requests
<1>b. at[c] # "connect" => ~Closed(c)
  BY NotClosed
<1>c. /\ <<>> \o <<"0">> = <<"0">> /\ <<"0">> \o <<"part">> = <<"0", "part">>
      /\ <<"0", "part">> \o <<"rest">> = <<"0", "part", "rest">>
      /\ <<>> \o <<"1", requestId[c]>> = <<"1", requestId[c]>>
      /\ <<>> \o <<"part">> = <<"part">> /\ <<"part">> \o <<"rest">> = <<"part", "rest">>
      /\ <<>> \o <<"rest">> = <<"rest">>
      /\ <<>> \o <<requestId[c]>> = <<requestId[c]>>
      /\ <<"nul">> \o <<requestId[c]>> = <<"nul", requestId[c]>>
  BY OneMore
<1>d. ASSUME NEW messages, NEW next, SendTo(c, messages, next), ~Closed(c)
      PROVE  at'[c] = next /\ inbox'[c] = inbox[c] \o messages /\ peer' = peer
  BY <1>d DEF SendTo, ClientAt, TypeOK
<1>1. CASE Connect(c)
  <2>1. thread[c] = "none" /\ at[c] = "connect" /\ at'[c] = "type"
        /\ UNCHANGED <<inbox, outbox, peer>>
    <3>1. at[c] = "connect" /\ ClientAt(c, "type") /\ UNCHANGED <<inbox, outbox, peer>>
      BY <1>1 DEF Connect
    <3>2. at'[c] = "type"
      BY <3>1 DEF ClientAt, TypeOK
    <3>3. Places
      BY DEF Connections
    <3>4. thread[c] = "none"
      BY <3>1, <3>3 DEF Places
    <3> QED
      BY <3>1, <3>2, <3>4
  <2> QED
    BY <1>a, <2>1 DEF Talk, Sent
<1>2. CASE SendType(c)
  <2>1. at[c] = "type" /\ UNCHANGED <<outbox, peer, requestId>>
        /\ IF c \in Submitters
           THEN at'[c] = "upload" /\ inbox'[c] = inbox[c] \o <<"0">>
           ELSE at'[c] = "reply" /\ inbox'[c] = inbox[c] \o <<"1", requestId[c]>>
    BY <1>2, <1>b, <1>d DEF SendType
  <2>2. thread[c] = "none" /\ inbox[c] = <<>> /\ outbox[c] = <<>>
    BY <1>a, <2>1 DEF Talk, Sent, Uploading, Asking, Asked, ThreadLabels
  <2> QED
    BY <1>a, <1>c, <2>1, <2>2 DEF Talk, Sent
<1>3. CASE Upload(c)
  <2>1. at[c] = "upload" /\ outbox' = outbox /\ peer' = peer
        /\ at'[c] = "upload rest" /\ inbox'[c] = inbox[c] \o <<"part">>
    BY <1>3, <1>b, <1>d DEF Upload
  <2>2. c \in Submitters /\ outbox[c] = <<>>
        /\ \/ thread[c] = "none" /\ inbox[c] = <<"0">>
           \/ thread[c] \in {"start new_request", "open", "receive"} /\ inbox[c] = <<>>
    BY <1>a, <2>1 DEF Talk, Sent, Uploading, Asking, Asked, ThreadLabels
  <2> QED
    BY <1>a, <1>c, <2>1, <2>2 DEF Talk, Sent, Uploading
<1>4. CASE UploadRest(c)
  <2>1. at[c] = "upload rest" /\ outbox' = outbox /\ peer' = peer
        /\ at'[c] = "id" /\ inbox'[c] = inbox[c] \o <<"rest">>
    BY <1>4, <1>b, <1>d DEF UploadRest
  <2>2. c \in Submitters /\ outbox[c] = <<>>
        /\ \/ thread[c] = "none" /\ inbox[c] = <<"0", "part">>
           \/ thread[c] \in {"start new_request", "open", "receive"} /\ inbox[c] = <<"part">>
           \/ thread[c] = "receive rest" /\ inbox[c] = <<>>
    BY <1>a, <2>1 DEF Talk, Sent, Uploading, Asking, Asked, ThreadLabels
  <2> QED
    BY <1>a, <1>c, <2>1, <2>2 DEF Talk, Sent, Uploading
<1>5. CASE ReceiveId(c)
  <2>1. /\ at[c] = "id" /\ at'[c] = "ask" /\ UNCHANGED <<inbox, peer>>
        /\ outbox[c] # <<>>
        /\ \E n \in 1 .. Len(outbox[c]) : outbox'[c] = SubSeq(outbox[c], n + 1, Len(outbox[c]))
    BY <1>5, <1>b DEF ReceiveId, ClientAt, TypeOK
  <2>2. /\ outbox[c] = <<c>>
        /\ \/ thread[c] = "id" /\ c \in Submitters /\ inbox[c] \in {<<>>, <<"nul">>}
           \/ thread[c] = "start status_check" /\ c \in Submitters /\ inbox[c] \in {<<>>, <<"nul">>}
           \/ /\ thread[c] \in {"requests", "process", "status"}
              /\ request_id[c] = Nobody /\ inbox[c] = <<>>
    BY <1>a, <2>1 DEF Talk, Sent, Uploading, Asking, Asked, ThreadLabels
  <2>3. outbox'[c] = <<>>
    <3>1. PICK n \in 1 .. Len(<<c>>) : outbox'[c] = SubSeq(<<c>>, n + 1, Len(<<c>>))
      BY <2>1, <2>2
    <3> QED
      BY <3>1, SkipShort
  <2> QED
    BY <1>a, <2>1, <2>2, <2>3 DEF Talk, Asking, Asked
<1>6. CASE Ask(c)
  <2>1. at[c] = "ask" /\ UNCHANGED <<outbox, peer, requestId>>
        /\ at'[c] = "reply" /\ inbox'[c] = inbox[c] \o <<requestId[c]>>
    BY <1>6, <1>b, <1>d DEF Ask
  <2>2. /\ outbox[c] = <<>>
        /\ \/ /\ thread[c] \in {"id", "start status_check"}
              /\ c \in Submitters /\ inbox[c] \in {<<>>, <<"nul">>}
           \/ /\ thread[c] \in {"requests", "process", "status"}
              /\ request_id[c] = Nobody /\ inbox[c] = <<>>
    BY <1>a, <2>1 DEF Talk, Sent, Uploading, Asking, Asked, ThreadLabels
  <2> QED
    BY <1>a, <1>c, <2>1, <2>2 DEF Talk, Asking, Asked
<1>7. CASE ReceiveType(c)
  <2>1. at[c] = "reply" /\ outbox[c] # <<>> /\ inbox' = inbox
    BY <1>7 DEF ReceiveType
  <2>2. \/ thread[c] = "position" /\ outbox[c] \in {<<"0">>, <<"3">>} /\ inbox[c] = <<>>
        \/ thread[c] = "send file" /\ outbox[c] = <<"2">> /\ inbox[c] = <<>>
    BY <1>a, <2>1 DEF Talk, Sent, Uploading, Asking, Asked, ThreadLabels
  <2>3. /\ Head(<<"0">>) = "0" /\ Head(<<"2">>) = "2" /\ Head(<<"3">>) = "3"
        /\ Tail(<<"0">>) = <<>> /\ Tail(<<"2">>) = <<>> /\ Tail(<<"3">>) = <<>>
    BY ShortMessages
  <2>4. Head(outbox[c]) \in Types /\ Tail(outbox[c]) = <<>>
    BY <2>2, <2>3 DEF Types
  <2>5. /\ After(c, "0") = "position" /\ After(c, "3") \in {"position", "processing"}
        /\ After(c, "2") = "file"
        /\ {"position", "processing", "file"} \subseteq ClientLabels
    BY DEF After, ClientLabels
  <2>6. GoOn(c, After(c, Head(outbox[c])), <<>>)
    BY <1>7, <2>4 DEF ReceiveType, LeftOf
  <2>7. <<>> \in Seq(OutMessages)
    OBVIOUS
  <2>8. /\ After(c, Head(outbox[c])) \in
              IF thread[c] = "position" THEN {"position", "processing"} ELSE {"file"}
    BY <2>2, <2>3, <2>5
  <2>9. /\ at'[c] = After(c, Head(outbox[c])) /\ outbox'[c] = <<>> /\ peer' = peer
    <3>1. After(c, Head(outbox[c])) \in ClientLabels \ {"end"}
      BY <2>5, <2>8
    <3> QED
      BY <2>6, <2>7, <3>1, GoOnEffect
  <2>10. CASE thread[c] = "position"
    BY <1>a, <2>1, <2>2, <2>8, <2>9, <2>10 DEF Talk
  <2>11. CASE thread[c] = "send file"
    BY <1>a, <2>1, <2>2, <2>8, <2>9, <2>11 DEF Talk
  <2> QED
    BY <2>2, <2>10, <2>11
<1>8. CASE ReceiveNoType(c) \/ ReceiveNoResult(c)
  BY <1>8, <1>b DEF ReceiveNoType, ReceiveNoResult
<1>9. CASE ReceivePosition(c)
  <2>1. at[c] \in {"position", "processing"} /\ outbox[c] # <<>>
    BY <1>9, <1>b DEF ReceivePosition
  <2> QED
    BY <1>a, <2>1 DEF Talk, Sent, Uploading, Asking, Asked, ThreadLabels
<1>10. CASE ReceiveResult(c)
  <2>1. at[c] \in {"file", "file rest"} /\ outbox[c] # <<>>
    BY <1>10 DEF ReceiveResult
  <2> QED
    BY <1>a, <2>1 DEF Talk, Sent, Uploading, Asking, Asked, ThreadLabels
<1> QED
  BY <1>1, <1>2, <1>3, <1>4, <1>5, <1>6, <1>7, <1>8, <1>9, <1>10 DEF ClientStep

LEMMA TalkMain ==
    ASSUME TypeOK, Connections, ReceiveRequestType,
           NEW c \in Clients, c = client_sockfd, Talk(c)
    PROVE  Talk(c)'
<1> USE AsyncFrontAssumption
<1>1. /\ thread[c] = "none" /\ at[c] # "connect"
      /\ UNCHANGED <<at, outbox, peer, requestId>>
  BY SpawnEffect DEF Connections, Places, Served
<1>2. outbox[c] = <<>> /\ Sent(c) /\ peer[c] = "open"
  BY <1>1 DEF Talk
<1>3. /\ inbox[c] # <<>>
      /\ \E rest \in LeftOf(inbox[c], DOMAIN StartLabel) : inbox'[c] = rest
      /\ Head(inbox[c]) \in DOMAIN StartLabel => thread'[c] = StartLabel[Head(inbox[c])]
  BY <1>2 DEF ReceiveRequestType, Spawn, TypeOK
<1>4. /\ Head(<<"0">>) = "0" /\ Head(<<"0", "part">>) = "0"
      /\ Head(<<"0", "part", "rest">>) = "0" /\ Head(<<"1", requestId[c]>>) = "1"
      /\ Tail(<<"0">>) = <<>> /\ Tail(<<"0", "part">>) = <<"part">>
      /\ Tail(<<"0", "part", "rest">>) = <<"part", "rest">>
      /\ Tail(<<"1", requestId[c]>>) = <<requestId[c]>>
  BY ShortMessages
<1>5. /\ DOMAIN StartLabel = {"0", "1"} /\ StartLabel["0"] = "start new_request"
      /\ StartLabel["1"] = "start status_check"
  BY DEF StartLabel
<1>6. Head(inbox[c]) \in {"0", "1"} => /\ inbox'[c] = Tail(inbox[c])
                                       /\ thread'[c] = StartLabel[Head(inbox[c])]
  BY <1>3, <1>5 DEF LeftOf
<1>7. CASE c \in Askers
  <2>1. at[c] = "reply" /\ inbox[c] = <<"1", requestId[c]>> /\ c \notin Submitters
    BY <1>1, <1>2, <1>3, <1>7 DEF Sent
  <2>2. thread'[c] = "start status_check" /\ inbox'[c] = <<requestId[c]>>
    BY <1>4, <1>5, <1>6, <2>1
  <2> QED
    BY <1>1, <1>2, <1>7, <2>1, <2>2 DEF Talk, Asking
<1>8. CASE c \in Submitters
  <2>1. /\ c \notin Askers
        /\ \/ at[c] = "upload" /\ inbox[c] = <<"0">>
           \/ at[c] = "upload rest" /\ inbox[c] = <<"0", "part">>
           \/ at[c] = "id" /\ inbox[c] = <<"0", "part", "rest">>
    BY <1>1, <1>2, <1>3, <1>8 DEF Sent
  <2>2. thread'[c] = "start new_request"
        /\ \/ at[c] = "upload" /\ inbox'[c] = <<>>
           \/ at[c] = "upload rest" /\ inbox'[c] = <<"part">>
           \/ at[c] = "id" /\ inbox'[c] = <<"part", "rest">>
    BY <1>4, <1>5, <1>6, <2>1
  <2> QED
    BY <1>1, <1>2, <1>8, <2>2 DEF Talk, Uploading
<1> QED
  BY <1>7, <1>8 DEF Clients

LEMMA TalkThread ==
    ASSUME TypeOK, NEW t \in Clients, Talk(t), Start(t) \/ Acts(t, t),
           UNCHANGED <<client, peer>>, Start(t) => UNCHANGED <<inbox, outbox>>
    PROVE  thread'[t] = "over" \/ Talk(t)'
<1> USE AsyncFrontAssumption
<1>a. UNCHANGED <<at, requestId, peer>> /\ peer[t] = "open" /\ t # Nobody
  BY DEF Talk, Clients
<1>b. \A label : ThreadAt(t, label) => thread'[t] = label
  BY DEF ThreadAt, TypeOK
<1>c. CloseAndExit(t, t) => thread'[t] = "over"
  BY <1>b DEF CloseAndExit
<1>d. \A m : Sends(t, m) => outbox'[t] = Append(outbox[t], m)
  BY DEF Sends
<1>e. ~Gone(t) /\ ~Ended(t) /\ ~Reset(t)
  BY <1>a DEF Gone, Ended, Reset
<1>f. /\ Append(<<>>, "0") = <<"0">> /\ Append(<<>>, "2") = <<"2">> /\ Append(<<>>, "3") = <<"3">>
      /\ Append(<<>>, t) = <<t>>
  BY OneMore
<1>0. CASE Start(t)
  <2>1. /\ thread[t] \in {"start new_request", "start status_check"}
        /\ thread'[t] = IF thread[t] = "start new_request" THEN "open" ELSE "id"
        /\ UNCHANGED <<inbox, outbox, request_id>>
    BY <1>0, <1>b DEF Start, StartLabels
  <2> QED
    BY <1>a, <2>1 DEF Talk, Uploading, Asking
<1>1. CASE OpenFile(t, t)
  <2>1. /\ thread[t] = "open" /\ thread'[t] \in {"receive", "over"}
        /\ UNCHANGED <<inbox, outbox, request_id>>
    BY <1>1, <1>b, <1>c DEF OpenFile
  <2> QED
    BY <1>a, <2>1 DEF Talk, Uploading
<1>2. CASE ReceiveFile(t, t)
  <2>1. thread[t] = "receive" /\ inbox[t] # <<>> /\ UNCHANGED <<outbox, request_id>>
        /\ \E rest \in LeftOf(inbox[t], {"part"}) : inbox' = [inbox EXCEPT ![t] = rest]
        /\ thread'[t] = IF Head(inbox[t]) = "part" THEN "receive rest" ELSE "receive some"
    BY <1>2, <1>a, <1>b, <1>e DEF ReceiveFile
  <2>2. /\ Head(<<"part">>) = "part" /\ Head(<<"part", "rest">>) = "part"
        /\ Tail(<<"part">>) = <<>> /\ Tail(<<"part", "rest">>) = <<"rest">>
    BY ShortMessages
  <2>3. Uploading(t)
    BY <2>1 DEF Talk
  <2>4. Head(inbox[t]) = "part"
    BY <2>1, <2>2, <2>3 DEF Uploading
  <2>5. inbox'[t] = Tail(inbox[t]) /\ thread'[t] = "receive rest"
    BY <2>1, <2>4 DEF LeftOf, TypeOK
  <2> QED
    BY <1>a, <2>1, <2>2, <2>3, <2>5 DEF Talk, Uploading
<1>3. CASE ReceiveFileRest(t, t)
  <2>1. thread[t] = "receive rest"
    BY <1>3 DEF ReceiveFileRest, Talk
  <2>2. inbox[t] # <<>> /\ UNCHANGED <<outbox, request_id>>
    BY <1>3, <1>a DEF ReceiveFileRest
  <2>3. inbox[t] = <<"rest">> /\ at[t] = "id" /\ t \in Submitters /\ outbox[t] = <<>>
    BY <2>1, <2>2 DEF Talk
  <2>4. Head(<<"rest">>) = "rest" /\ Tail(<<"rest">>) = <<>>
    BY ShortMessages
  <2>5. /\ \E over \in {<<>>, <<"nul">>} : inbox'[t] = over \o Tail(inbox[t])
        /\ thread'[t] = "push"
    BY <1>3, <1>a, <1>b, <2>1, <2>3, <2>4 DEF ReceiveFileRest, TypeOK
  <2>6. inbox'[t] \in {<<>>, <<"nul">>}
    <3>1. <<>> \o <<>> = <<>> /\ <<"nul">> \o <<>> = <<"nul">>
      BY OneMore, ConcatEmptySeq
    <3> QED
      BY <2>3, <2>4, <2>5, <3>1
  <2> QED
    BY <1>a, <2>2, <2>3, <2>5, <2>6 DEF Talk
<1>4. CASE Push(t)
  <2>1. /\ thread[t] = "push" /\ thread'[t] = "accepted" /\ UNCHANGED <<inbox, outbox>>
    BY <1>4, <1>b DEF Push
  <2> QED
    BY <1>a, <2>1 DEF Talk
<1>5. CASE SendId(t, t)
  <2>1. /\ thread[t] = "accepted" /\ thread'[t] = "id" /\ outbox'[t] = Append(outbox[t], t)
        /\ inbox' = inbox
    BY <1>5, <1>b, <1>d DEF SendId
  <2> QED
    BY <1>a, <1>f, <2>1 DEF Talk, Asking
<1>6. CASE ReceiveRequestId(t, t)
  <2>1. /\ thread[t] = "id" /\ thread'[t] = "requests" /\ outbox' = outbox /\ inbox[t] # <<>>
        /\ request_id'[t] = IF Head(inbox[t]) \in Requests THEN Head(inbox[t]) ELSE Nobody
        /\ \E rest \in LeftOf(inbox[t], Requests \cup {Nobody}) : inbox'[t] = rest
    BY <1>6, <1>a, <1>b, <1>e DEF ReceiveRequestId, TypeOK
  <2>2. Asking(t)
    BY <2>1 DEF Talk
  <2>3. /\ requestId[t] \in Requests \cup {Nobody}
        /\ "nul" \notin Requests /\ "nul" # Nobody
    BY DEF TypeOK, Messages, Requests
  <2>4. /\ Head(<<requestId[t]>>) = requestId[t] /\ Tail(<<requestId[t]>>) = <<>>
        /\ Head(<<"nul">>) = "nul" /\ Head(<<"nul", requestId[t]>>) = "nul"
    BY ShortMessages
  <2>5. CASE inbox[t] = <<requestId[t]>>
    <3>1. inbox'[t] = <<>> /\ at[t] = "reply" /\ outbox[t] = <<>>
      BY <2>1, <2>2, <2>3, <2>4, <2>5 DEF Asking, LeftOf
    <3> QED
      BY <1>a, <2>1, <3>1 DEF Talk, Asked
  <2>6. CASE inbox[t] \in {<<"nul">>, <<"nul", requestId[t]>>}
    <3>1. Head(inbox[t]) = "nul"
      BY <2>4, <2>6
    <3>2. request_id'[t] = Nobody /\ inbox'[t] \in Cut(inbox[t])
      BY <2>1, <2>3, <3>1 DEF LeftOf
    <3>3. PICK n \in 1 .. Len(inbox[t]) : inbox'[t] = SubSeq(inbox[t], n + 1, Len(inbox[t]))
      BY <3>2 DEF Cut
    <3>4. CASE inbox[t] = <<"nul">>
      <4>1. inbox'[t] = <<>>
        BY <3>3, <3>4, SkipShort
      <4>2. /\ t \in Submitters \/ requestId[t] = "nul"
            /\ \/ at[t] = "id" /\ outbox[t] = <<t>>
               \/ at[t] = "ask" /\ outbox[t] = <<>>
               \/ at[t] = "reply" /\ outbox[t] = <<>>
        BY <2>2, <3>4 DEF Asking
      <4> QED
        BY <1>a, <2>1, <3>2, <4>1, <4>2 DEF Talk, Asked
    <3>5. CASE inbox[t] = <<"nul", requestId[t]>>
      <4>1. inbox'[t] \in {<<requestId[t]>>, <<>>}
        BY <3>3, <3>5, SkipShort
      <4>2. at[t] = "reply" /\ outbox[t] = <<>>
        BY <2>2, <3>5 DEF Asking
      <4> QED
        BY <1>a, <2>1, <3>2, <4>1, <4>2 DEF Talk, Asked
    <3> QED
      BY <2>6, <3>4, <3>5
  <2> QED
    BY <2>1, <2>2, <2>5, <2>6 DEF Asking
<1>7. CASE CheckRequests(t, t)
  <2>1. /\ thread[t] = "requests" /\ UNCHANGED <<inbox, request_id>>
        /\ \/ /\ In(t, {"queued"})
              /\ outbox'[t] = Append(outbox[t], "0") /\ thread'[t] = "position"
           \/ outbox' = outbox /\ thread'[t] = "process"
    BY <1>7, <1>b, <1>d DEF CheckRequests
  <2>2. Asked(t)
    BY <2>1 DEF Talk
  <2> QED
    BY <1>a, <1>f, <2>1, <2>2 DEF Talk, Asked, In
<1>8. CASE CheckProcess(t, t)
  <2>1. /\ thread[t] = "process" /\ UNCHANGED <<inbox, request_id>>
        /\ \/ /\ In(t, {"listed"})
              /\ outbox'[t] = Append(outbox[t], "3") /\ thread'[t] = "position"
           \/ outbox' = outbox /\ thread'[t] = "status"
    BY <1>8, <1>b, <1>d DEF CheckProcess
  <2>2. Asked(t)
    BY <2>1 DEF Talk
  <2> QED
    BY <1>a, <1>f, <2>1, <2>2 DEF Talk, Asked, In
<1>9. CASE CheckStatus(t, t)
  <2>1. /\ thread[t] = "status" /\ UNCHANGED <<inbox, request_id>>
        /\ \/ In(t, {"done"}) /\ outbox' = outbox /\ thread'[t] = "take"
           \/ thread'[t] = "over"
    BY <1>9, <1>b, <1>c DEF CheckStatus
  <2>2. Asked(t)
    BY <2>1 DEF Talk
  <2> QED
    BY <1>a, <2>1, <2>2 DEF Talk, Asked, In
<1>10. CASE TakeStatus(t)
  <2>1. thread[t] = "take" /\ thread'[t] = "send" /\ UNCHANGED <<inbox, outbox>>
    BY <1>10, <1>b DEF TakeStatus
  <2> QED
    BY <1>a, <2>1 DEF Talk
<1>11. CASE SendDone(t, t)
  <2>1. /\ thread[t] = "send" /\ thread'[t] = "send file" /\ inbox' = inbox
        /\ outbox'[t] = Append(outbox[t], "2")
    BY <1>11, <1>b, <1>d DEF SendDone
  <2> QED
    BY <1>a, <1>f, <2>1 DEF Talk
<1>12. CASE SendPosition(t, t) \/ SendResult(t, t)
  BY <1>12, <1>b, <1>c DEF SendPosition, SendResult
<1> QED
  BY <1>0, <1>1, <1>2, <1>3, <1>4, <1>5, <1>6, <1>7, <1>8, <1>9, <1>10, <1>11, <1>12 DEF Acts

\* left and strayed only grow.
LEMMA Grows ==
    ASSUME TypeOK, Connections, [Next]_vars
    PROVE  left \subseteq left' /\ strayed \subseteq strayed' /\ short \subseteq short'
           /\ (up' => up)
<1>1. ASSUME NEW c \in Clients, ClientStep(c) \/ Die(c)
      PROVE  left \subseteq left' /\ strayed' = strayed /\ short' = short /\ up' = up
  BY <1>1, ClientEffect
<1>2. ASSUME NEW t \in Clients, ThreadStep(t)
      PROVE  left' = left /\ strayed \subseteq strayed' /\ short \subseteq short' /\ up
  BY <1>2, ThreadEffect
<1> QED
  BY <1>1, <1>2
  DEF Next, MainStep, MainGoesOn, Accept, AcceptFails, OpenFails, ReceiveRequestType,
      ReceiveRequestTypeFails, SpawnFails, EndsServer, MayEndServer, Terminate, Grade, vars

LEMMA TalkStep ==
    ASSUME TypeOK, Connections, OnlyResultsLeak, Talks, [Next]_vars
    PROVE  Talks'
<1> SUFFICES ASSUME up', strayed' = {} PROVE Talks'
  BY DEF Talks
<1> USE AsyncFrontAssumption
<1>0. up /\ strayed = {} /\ left \subseteq left'
  BY Grows
<1>2. ASSUME NEW c \in Clients, c \notin left', thread'[c] # "over",
             thread[c] # "over", at'[c] = at[c], thread'[c] = thread[c],
             inbox'[c] = inbox[c], outbox'[c] = outbox[c], peer'[c] = peer[c],
             request_id'[c] = request_id[c], requestId'[c] = requestId[c]
      PROVE  Talk(c)'
  BY <1>0, <1>2, TalkSame DEF Talks
<1>3. CASE Accept \/ UNCHANGED vars \/ \E r \in Requests : Grade(r)
  <2>1. UNCHANGED <<at, thread, inbox, outbox, peer, request_id, requestId>>
    BY <1>3 DEF Accept, vars, Grade
  <2> QED
    BY <1>2, <2>1 DEF Talks
<1>4. CASE ReceiveRequestType
  <2>1. /\ UNCHANGED <<left, at, outbox, peer, request_id, requestId>>
        /\ client_sockfd \in Clients /\ thread[client_sockfd] = "none"
        /\ \A d \in Clients \ {client_sockfd} :
              thread'[d] = thread[d] /\ inbox'[d] = inbox[d]
    <3>1. /\ client_sockfd \in open /\ up /\ main = "type"
          /\ UNCHANGED <<left, at, outbox, peer, request_id, requestId>>
          /\ \A d \in Clients \ {client_sockfd} :
                thread'[d] = thread[d] /\ inbox'[d] = inbox[d]
      BY <1>4, SpawnEffect
    <3> QED
      BY <3>1 DEF Connections, Places, Served, TypeOK
  <2>2. ASSUME NEW c \in Clients \ left, c = client_sockfd PROVE Talk(c)'
    <3>1. Talk(c)
      BY <1>0, <2>1, <2>2 DEF Talks
    <3> QED
      BY <1>4, <2>2, <3>1, TalkMain
  <2>3. \A c \in Clients \ left : c # client_sockfd /\ thread'[c] # "over" => Talk(c)'
    BY <1>2, <2>1
  <2> QED
    BY <2>1, <2>2, <2>3 DEF Talks
<1>5. ASSUME NEW d \in Clients, ThreadStep(d) PROVE Talks'
  <2>1. /\ UNCHANGED <<client, left, peer>> /\ thread[d] # "over"
        /\ \A c \in Clients : c # d => /\ thread'[c] = thread[c] /\ inbox'[c] = inbox[c]
                                       /\ outbox'[c] = outbox[c]
                                       /\ request_id'[c] = request_id[c]
        /\ Start(d) \/ Acts(d, d)
        /\ Start(d) => UNCHANGED <<inbox, outbox>>
    <3>1. UNCHANGED <<client, left, peer>> /\ d \in Running
      BY <1>5, ThreadEffect
    <3>2. thread[d] # "over"
      BY <3>1 DEF Running
    <3>3. Start(d) => UNCHANGED <<inbox, outbox>>
      BY DEF Start
    <3>4. Start(d) \/ Acts(d, d)
      BY <1>5, OwnStep, Zenon
    <3>5. \A c \in Clients : c # d => /\ thread'[c] = thread[c] /\ inbox'[c] = inbox[c]
                                      /\ outbox'[c] = outbox[c]
                                      /\ request_id'[c] = request_id[c]
      BY <1>5, OwnStep, Zenon
    <3> QED
      BY <3>1, <3>2, <3>3, <3>4, <3>5
  <2>2. d \notin left /\ thread'[d] # "over" => Talk(d)'
    <3>1. d \notin left => Talk(d)
      BY <1>0, <2>1 DEF Talks
    <3> QED
      BY <2>1, <3>1, TalkThread
  <2>3. \A c \in Clients \ left : c # d /\ thread'[c] # "over" => Talk(c)'
    BY <1>2, <2>1
  <2> QED
    BY <2>1, <2>2, <2>3 DEF Talks
<1>6. ASSUME NEW d \in Clients, ClientStep(d) \/ Die(d) PROVE Talks'
  <2>1. /\ UNCHANGED <<thread, request_id>>
        /\ \A c \in Clients : c # d => /\ at'[c] = at[c] /\ inbox'[c] = inbox[c]
                                       /\ outbox'[c] = outbox[c] /\ peer'[c] = peer[c]
                                       /\ requestId'[c] = requestId[c]
    BY <1>6, ClientEffect
  <2>2. d \notin left' /\ thread'[d] # "over" => Talk(d)'
    <3>1. CASE Die(d)
      BY <3>1 DEF Die
    <3>2. CASE ClientStep(d)
      BY <1>0, <2>1, <3>2, TalkClient DEF Talks
    <3> QED
      BY <1>6, <3>1, <3>2
  <2>3. \A c \in Clients \ left' : c # d /\ thread'[c] # "over" => Talk(c)'
    BY <1>2, <2>1
  <2> QED
    BY <2>2, <2>3 DEF Talks
<1>7. CASE AcceptFails \/ ReceiveRequestTypeFails \/ SpawnFails \/ \E t \in Clients : EndsServer(t)
  BY <1>7 DEF AcceptFails, ReceiveRequestTypeFails, SpawnFails, EndsServer, MayEndServer, Terminate
<1> QED
  BY <1>3, <1>4, <1>5, <1>6, <1>7 DEF Next, MainStep, MainGoesOn

TalkInv == ConnectionInv /\ Talks

LEMMA TalkInvariant == Spec => []TalkInv
<1>1. TalkInv /\ [Next]_vars => TalkInv'
  BY ConnectionStep, TalkStep DEF TalkInv, ConnectionInv
<1>2. Init => TalkInv
  BY ConnectionInit, TalkInit DEF TalkInv
<1> QED
  BY <1>1, <1>2, PTL DEF Spec

-----------------------------------------------------------------------------
(* What ends the server.                                                   *)

LEMMA OrderlyStep ==
    ASSUME TypeOK, Connections, OnlyResultsLeak, Talks, OrderlyClientsHarmless, [Next]_vars
    PROVE  OrderlyClientsHarmless'
<1> USE AsyncFrontAssumption
<1> SUFFICES ASSUME ~up', strayed' = {}, short' \subseteq {"directory"}
             PROVE  left' # {}
  BY DEF OrderlyClientsHarmless
<1>0. /\ left \subseteq left' /\ strayed = {} /\ short \subseteq {"directory"}
  BY Grows
<1>1. CASE ~up
  BY <1>0, <1>1 DEF OrderlyClientsHarmless
<1>2. CASE up
  <2>1. ASSUME NEW c \in Clients, thread[c] # "over", peer[c] # "open" PROVE left' # {}
    BY <1>0, <1>2, <2>1 DEF Talks, Talk
  <2>2. ASSUME NEW c \in Clients, ClientStep(c) \/ Die(c) \/ ThreadStep(c) PROVE FALSE
    BY <1>2, <2>2, ClientEffect, ThreadEffect
  <2>3. CASE AcceptFails \/ SpawnFails
    BY <2>3 DEF AcceptFails, OpenFails, SpawnFails
  <2>4. CASE ReceiveRequestTypeFails
    <3>1. /\ main = "type" /\ client_sockfd \in Clients
          /\ client_sockfd \notin open \/ peer[client_sockfd] = "reset"
      BY <2>4 DEF ReceiveRequestTypeFails, Connections, TypeOK
    <3>2. client_sockfd \in open
      BY <1>0, <1>2, <3>1 DEF OnlyResultsLeak
    <3>3. thread[client_sockfd] = "none"
      BY <1>2, <3>1 DEF Connections, Places, Served
    <3> QED
      BY <2>1, <3>1, <3>2, <3>3
  <2>5. ASSUME NEW t \in Clients, EndsServer(t) PROVE left' # {}
    <3>1. PICK c \in Clients \cup {Nobody} :
              /\ Uses(t, c)
              /\ \/ c # Nobody /\ Gone(c) /\ Sending(t)
                 \/ Reset(c) /\ thread[t] \in Receiving
      BY <2>5 DEF EndsServer, MayEndServer
    <3>2. thread[t] \notin {"none", "over"} \cup StartLabels
      BY <3>1 DEF Sending, Receiving, StartLabels
    <3>3. t \in Running /\ t \in open
      BY <1>0, <1>2, <3>2 DEF Running, OnlyResultsLeak
    <3>4. c = t
      BY <1>0, <1>2, <3>1, <3>2, <3>3, OwnNumber
    <3>5. peer[t] # "open"
      BY <3>1, <3>4 DEF Gone, Reset, Clients
    <3> QED
      BY <2>1, <3>2, <3>5
  <2> QED
    BY <1>2, <2>2, <2>3, <2>4, <2>5
    DEF Next, MainStep, MainGoesOn, Accept, ReceiveRequestType, Grade, vars
<1> QED
  BY <1>1, <1>2

\* Nothing ends the server but a client that has died, a descriptor or a thread
\* it could not have, or a thread on another's connection; however many orderly
\* clients come, and whatever they ask about.
THEOREM OnlyDeathsEndServer == Spec => []OrderlyClientsHarmless
<1>1. Init => OrderlyClientsHarmless
  BY DEF Init, OrderlyClientsHarmless
<1>2. TalkInv /\ OrderlyClientsHarmless /\ [Next]_vars => OrderlyClientsHarmless'
  BY OrderlyStep DEF TalkInv, ConnectionInv
<1> QED
  BY <1>1, <1>2, TalkInvariant, PTL DEF Spec

-----------------------------------------------------------------------------
(* Results.                                                                *)

\* A result is on its way, with the type before it or not.
OnItsWay(c) ==
    \/ at[c] = "reply" /\ outbox[c] = <<"2", "result">>
    \/ at[c] = "file" /\ outbox[c] = <<"result">>

\* A result that has been sent is, until its client has it or dies.
Results == up /\ strayed = {} => \A c \in delivered \ (got \cup left) : OnItsWay(c)

\* A result that has been taken is being sent, or was, or its client has died.
Taken ==
    up /\ short \subseteq {"thread"} /\ strayed = {} =>
        \A r \in Requests : stage[r] = "taken" =>
            \E c \in Clients :
                /\ request_id[c] = r
                /\ \/ thread[c] \in {"send", "send file"}
                   \/ thread[c] = "over" /\ c \in delivered \cup left

\* The step of a client to which a result has been sent.
LEMMA ResultsClient ==
    ASSUME TypeOK, OnlyResultsLeak, Results, up, strayed = {},
           NEW c \in delivered, ClientStep(c), c \notin left, c \notin got, c \notin got'
    PROVE  OnItsWay(c)'
<1>1. c \in Clients /\ ~Closed(c)
  BY DEF TypeOK, OnlyResultsLeak, Closed
<1>2. /\ OnItsWay(c)
      /\ at[c] \in {"reply", "file"} /\ outbox[c] # <<>>
  BY DEF Results, OnItsWay
<1>3. ReceiveType(c) \/ ReceiveResult(c)
  BY <1>1, <1>2 DEF ClientStep, Connect, SendType, Upload, UploadRest, ReceiveId, Ask,
     ReceiveNoType, ReceivePosition, ReceiveNoResult
<1>4. /\ Head(<<"2", "result">>) = "2" /\ Tail(<<"2", "result">>) = <<"result">>
      /\ Head(<<"result">>) = "result"
  BY ShortMessages
<1>5. CASE ReceiveResult(c)
  <2>1. at[c] \in {"file", "file rest"}
    BY <1>5 DEF ReceiveResult
  <2>2. at[c] = "file" /\ Head(outbox[c]) = "result"
    BY <1>2, <1>4, <2>1 DEF OnItsWay
  <2> QED
    BY <1>5, <2>2 DEF ReceiveResult
<1>6. CASE ReceiveType(c)
  <2>1. at[c] = "reply"
    BY <1>6 DEF ReceiveType
  <2>2. outbox[c] = <<"2", "result">>
    BY <1>2, <2>1 DEF OnItsWay
  <2>3. Head(outbox[c]) = "2" /\ Tail(outbox[c]) = <<"result">> /\ "2" \in Types
    BY <1>4, <2>2 DEF Types
  <2>4. After(c, "2") = "file" /\ "file" \in ClientLabels \ {"end"}
    BY DEF After, ClientLabels
  <2>5. GoOn(c, "file", <<"result">>)
    BY <1>6, <2>3, <2>4 DEF ReceiveType, LeftOf
  <2>6. <<"result">> \in Seq(OutMessages)
    BY DEF OutMessages, Messages
  <2> QED
    BY <1>1, <2>4, <2>5, <2>6, GoOnEffect DEF OnItsWay
<1> QED
  BY <1>3, <1>5, <1>6

LEMMA ResultsStep ==
    ASSUME TypeOK, Connections, OnlyResultsLeak, Talks, Results, [Next]_vars
    PROVE  Results'
<1> SUFFICES ASSUME up', strayed' = {} PROVE Results'
  BY DEF Results
<1> USE AsyncFrontAssumption
<1>0. up /\ strayed = {} /\ delivered \subseteq Clients
  BY Grows DEF TypeOK
<1>2. CASE UNCHANGED <<at, outbox, delivered, got, left>>
  BY <1>0, <1>2 DEF Results, OnItsWay
<1>3. CASE ReceiveRequestType
  BY <1>2, <1>3, SpawnEffect
<1>4. ASSUME NEW d \in Clients, ThreadStep(d) PROVE Results'
  <2>1. UNCHANGED <<at, peer, got, left>> /\ thread[d] # "over"
    BY <1>4, ThreadEffect DEF Running
  <2>2. /\ Start(d) \/ Acts(d, d)
        /\ \A c \in Clients : c # d => outbox'[c] = outbox[c]
        /\ delivered' \subseteq delivered \cup {d}
        /\ Start(d) => delivered' = delivered
    <3>1. Start(d) => delivered' = delivered
      BY DEF Start
    <3> QED
      BY <1>4, <3>1, OwnStep
  <2>3. d \notin delivered
    BY <1>0, <2>1 DEF Connections
  <2>4. ASSUME d \in delivered', d \notin left
        PROVE  OnItsWay(d)'
    <3>1. SendResult(d, d)
      BY <2>2, <2>3, <2>4 DEF Acts, OpenFile, ReceiveFile, ReceiveFileRest, Push, SendId,
         ReceiveRequestId, CheckRequests, CheckProcess, SendPosition, CheckStatus,
         TakeStatus, SendDone
    <3>2. /\ thread[d] = "send file"
          /\ outbox'[d] = Append(outbox[d], "result")
      BY <2>3, <2>4, <3>1 DEF SendResult, Sends
    <3>3. \/ at[d] = "reply" /\ outbox[d] = <<"2">>
          \/ at[d] = "file" /\ outbox[d] = <<>>
      BY <1>0, <2>1, <2>4, <3>2 DEF Talks, Talk
    <3>4. Append(<<"2">>, "result") = <<"2", "result">> /\ Append(<<>>, "result") = <<"result">>
      BY OneMore
    <3> QED
      BY <2>1, <3>2, <3>3, <3>4 DEF OnItsWay
  <2>5. ASSUME NEW c \in delivered' \ (got' \cup left'), c # d PROVE OnItsWay(c)'
    <3>1. c \in Clients /\ OnItsWay(c)
      BY <1>0, <2>1, <2>2, <2>5 DEF Results
    <3> QED
      BY <2>1, <2>2, <2>5, <3>1 DEF OnItsWay
  <2> QED
    BY <2>1, <2>4, <2>5 DEF Results
<1>5. ASSUME NEW d \in Clients, ClientStep(d) \/ Die(d) PROVE Results'
  <2>1. /\ delivered' = delivered
        /\ \A c \in Clients : c # d => /\ at'[c] = at[c] /\ outbox'[c] = outbox[c]
                                       /\ (c \in got' <=> c \in got)
                                       /\ (c \in left' <=> c \in left)
        /\ got \subseteq got' /\ left \subseteq left'
    BY <1>5, ClientEffect
  <2>2. ASSUME d \in delivered \ (got' \cup left') PROVE OnItsWay(d)'
    <3>1. ClientStep(d)
      BY <1>5, <2>2 DEF Die
    <3> QED
      BY <1>0, <2>1, <2>2, <3>1, ResultsClient
  <2>3. ASSUME NEW c \in delivered \ (got' \cup left'), c # d PROVE OnItsWay(c)'
    <3>1. OnItsWay(c) /\ c \in Clients
      BY <1>0, <2>1, <2>3 DEF Results
    <3> QED
      BY <2>1, <2>3, <3>1 DEF OnItsWay
  <2> QED
    BY <2>1, <2>2, <2>3 DEF Results
<1>6. CASE AcceptFails \/ ReceiveRequestTypeFails \/ SpawnFails \/ \E t \in Clients : EndsServer(t)
  BY <1>6 DEF AcceptFails, ReceiveRequestTypeFails, SpawnFails, EndsServer, MayEndServer, Terminate
<1>7. CASE Accept \/ UNCHANGED vars \/ \E r \in Requests : Grade(r)
  BY <1>2, <1>7 DEF Accept, vars, Grade
<1> QED
  BY <1>3, <1>4, <1>5, <1>6, <1>7 DEF Next, MainStep, MainGoesOn

LEMMA TakenStep ==
    ASSUME TypeOK, Connections, OnlyResultsLeak, Talks, Taken, [Next]_vars
    PROVE  Taken'
<1> SUFFICES ASSUME up', strayed' = {}, short' \subseteq {"thread"} PROVE Taken'
  BY DEF Taken
<1> USE AsyncFrontAssumption
<1> DEFINE Answers(c) == \/ thread[c] \in {"send", "send file"}
                         \/ thread[c] = "over" /\ c \in delivered \cup left
<1>0. up /\ strayed = {} /\ short \subseteq {"thread"} /\ left \subseteq left'
  BY Grows
<1>1. ASSUME NEW r \in Requests, stage[r] = "taken"
      PROVE  \E c \in Clients : request_id[c] = r /\ Answers(c)
  BY <1>0, <1>1 DEF Taken
<1>2. ASSUME \A r \in Requests : stage'[r] = "taken" => stage[r] = "taken",
             \A c \in Clients : Answers(c) => Answers(c)' /\ request_id'[c] = request_id[c]
      PROVE  Taken'
  <2>1. ASSUME NEW r \in Requests, stage'[r] = "taken"
        PROVE  \E c \in Clients : request_id'[c] = r /\ Answers(c)'
    <3>1. PICK c \in Clients : request_id[c] = r /\ Answers(c)
      BY <1>1, <1>2, <2>1
    <3>2. Answers(c)' /\ request_id'[c] = r
      BY <1>2, <3>1
    <3> QED
      BY <3>2
  <2> QED
    BY <2>1 DEF Taken
<1>3. CASE ReceiveRequestType
  <2>1. /\ UNCHANGED <<stage, delivered, left, request_id>>
        /\ client_sockfd \in Clients /\ thread[client_sockfd] = "none"
        /\ \A c \in Clients \ {client_sockfd} : thread'[c] = thread[c]
    <3>1. /\ client_sockfd \in open /\ up /\ main = "type"
          /\ UNCHANGED <<stage, delivered, left, request_id>>
          /\ \A c \in Clients \ {client_sockfd} : thread'[c] = thread[c]
      BY <1>3, SpawnEffect
    <3> QED
      BY <3>1 DEF Connections, Places, Served, TypeOK
  <2> QED
    BY <1>2, <2>1
<1>4. ASSUME NEW d \in Clients, ThreadStep(d) PROVE Taken'
  <2>1. /\ UNCHANGED <<peer, left>> /\ delivered \subseteq delivered'
        /\ thread[d] # "over" /\ short \subseteq short'
    BY <1>4, ThreadEffect DEF Running
  <2>2. /\ Start(d) \/ Acts(d, d)
        /\ \A c \in Clients : c # d => thread'[c] = thread[c] /\ request_id'[c] = request_id[c]
    <3>1. Start(d) \/ Acts(d, d)
      BY <1>4, OwnStep, Zenon
    <3>2. \A c \in Clients : c # d => thread'[c] = thread[c] /\ request_id'[c] = request_id[c]
      BY <1>4, OwnStep, Zenon
    <3> QED
      BY <3>1, <3>2
  <2>3. \A c \in Clients : c # d /\ Answers(c) => Answers(c)' /\ request_id'[c] = request_id[c]
    BY <2>1, <2>2
  <2>4. \A label : ThreadAt(d, label) => thread'[d] = label
    BY DEF ThreadAt, TypeOK
  <2>5. CASE TakeStatus(d)
    <3>1. /\ thread[d] = "take" /\ thread'[d] = "send" /\ request_id' = request_id
          /\ stage' = [stage EXCEPT ![request_id[d]] = "taken"]
      BY <2>4, <2>5 DEF TakeStatus, OpenFails
    <3>2. ASSUME NEW r \in Requests, stage'[r] = "taken"
          PROVE  \E c \in Clients : request_id'[c] = r /\ Answers(c)'
      <4>1. CASE request_id[d] = r
        BY <3>1, <4>1
      <4>2. CASE request_id[d] # r
        <5>1. stage[r] = "taken"
          BY <3>1, <3>2, <4>2 DEF TypeOK
        <5>2. PICK c \in Clients : request_id[c] = r /\ Answers(c)
          BY <1>1, <5>1
        <5> QED
          BY <2>3, <4>2, <5>2
      <4> QED
        BY <4>1, <4>2
    <3> QED
      BY <3>2 DEF Taken
  <2>6. CASE SendDone(d, d) \/ SendResult(d, d)
    <3>1. stage' = stage /\ request_id' = request_id
      BY <2>6 DEF SendDone, SendResult
    <3>2. Answers(d)'
      <4>1. CASE SendDone(d, d)
        BY <2>4, <4>1 DEF SendDone
      <4>2. CASE SendResult(d, d)
        <5>1. thread[d] = "send file" /\ thread'[d] = "over"
          BY <2>4, <4>2 DEF SendResult, CloseAndExit
        <5>2. d \in left \/ peer[d] = "open"
          BY <1>0, <5>1 DEF Talks, Talk
        <5>3. d \in left \/ ~Gone(d)
          BY <5>2 DEF Gone, Clients
        <5>4. d \in delivered' \/ d \in left'
          BY <1>0, <2>1, <4>2, <5>3 DEF SendResult, OpenFails, NoDirectory
        <5> QED
          BY <5>1, <5>4
      <4> QED
        BY <2>6, <4>1, <4>2
    <3> QED
      BY <1>2, <2>3, <3>1, <3>2
  <2>7. CASE ~(TakeStatus(d) \/ SendDone(d, d) \/ SendResult(d, d))
    <3>1. /\ thread[d] \notin {"send", "send file"}
          /\ \A r \in Requests : stage'[r] = "taken" => stage[r] = "taken"
      <4>1. CASE Start(d)
        BY <4>1 DEF Start, StartLabels
      <4>2. CASE Push(d)
        BY <4>2 DEF Push, TypeOK
      <4>3. CASE Acts(d, d) /\ ~Push(d)
        BY <2>7, <4>3 DEF Acts, OpenFile, ReceiveFile, ReceiveFileRest, SendId,
           ReceiveRequestId, CheckRequests, CheckProcess, SendPosition, CheckStatus
      <4> QED
        BY <2>2, <4>1, <4>2, <4>3
    <3> QED
      BY <1>2, <2>1, <2>3, <3>1
  <2> QED
    BY <2>5, <2>6, <2>7
<1>5. ASSUME NEW d \in Clients, ClientStep(d) \/ Die(d) PROVE Taken'
  <2>1. UNCHANGED <<stage, thread, request_id, delivered>>
    BY <1>5, ClientEffect
  <2> QED
    BY <1>0, <1>2, <2>1
<1>6. ASSUME NEW s \in Requests, Grade(s) PROVE Taken'
  <2>1. \A r \in Requests : stage'[r] = "taken" => stage[r] = "taken"
    <3>1. PICK move \in {<<"queued", "held">>, <<"held", "listed">>, <<"listed", "done">>} :
              stage' = [stage EXCEPT ![s] = move[2]]
      BY <1>6 DEF Grade
    <3>2. move[2] # "taken"
      OBVIOUS
    <3> QED
      BY <3>1, <3>2 DEF TypeOK
  <2>2. UNCHANGED <<thread, request_id, delivered, left>>
    BY <1>6 DEF Grade
  <2> QED
    BY <1>2, <2>1, <2>2
<1>7. CASE Accept \/ UNCHANGED vars
  <2>1. UNCHANGED <<stage, thread, request_id, delivered, left>>
    BY <1>7 DEF Accept, vars
  <2> QED
    BY <1>2, <2>1
<1>8. CASE AcceptFails \/ ReceiveRequestTypeFails \/ SpawnFails \/ \E t \in Clients : EndsServer(t)
  BY <1>8 DEF AcceptFails, ReceiveRequestTypeFails, SpawnFails, EndsServer, MayEndServer, Terminate
<1> QED
  BY <1>3, <1>4, <1>5, <1>6, <1>7, <1>8 DEF Next, MainStep, MainGoesOn

\* A result is taken out of the queue before it is sent; it is on its way or was
\* received, unless a client it was for has died, or the server has ended, has
\* wanted for a descriptor or ./results/, or serves another's connection.
THEOREM ResultsAreDelivered == Spec => []NoResultIsLost
<1>1. Init => Results /\ Taken
  BY DEF Init, Results, Taken
<1>2. TalkInv /\ Results /\ Taken /\ [Next]_vars => Results' /\ Taken'
  BY ResultsStep, TakenStep DEF TalkInv, ConnectionInv
<1>3. TalkInv /\ Results /\ Taken => NoResultIsLost
  <2> SUFFICES ASSUME Results, Taken, up, short \subseteq {"thread"}, strayed = {},
                      NEW r \in Requests, stage[r] = "taken"
               PROVE  \E c \in Clients :
                         /\ request_id[c] = r
                         /\ \/ thread[c] \in {"send", "send file"}
                            \/ c \in delivered /\ at[c] \in {"reply", "file"}
                            \/ c \in got \cup left
    BY DEF NoResultIsLost
  <2>1. PICK c \in Clients : /\ request_id[c] = r
                             /\ thread[c] \in {"send", "send file"} \/ c \in delivered \cup left
    BY DEF Taken
  <2>2. c \in delivered \ (got \cup left) => at[c] \in {"reply", "file"}
    BY DEF Results, OnItsWay
  <2> QED
    BY <2>1, <2>2
<1> QED
  BY <1>1, <1>2, <1>3, TalkInvariant, PTL DEF Spec
=============================================================================
