------------------------- MODULE SharedFilesProofs -------------------------
(***************************************************************************)
(* What is left of a server that grades everything in the same files: for  *)
(* any clients, programs, timeouts and descriptors, verdicts are right     *)
(* unless gradings overlapped, the server only ends for a slow grading or  *)
(* a timeout, and the counts of the load test mean what they say.          *)
(***************************************************************************)
EXTENDS SharedFiles, FiniteSetTheorems, TLAPS

USE DEF threads, files, counts, client, net, notes

-----------------------------------------------------------------------------
(* The inductive invariant.                                                *)

\* A thread that runs has a descriptor, one with a file open has a second,
\* and one that has graded has a verdict.
Descriptors ==
    /\ main = "sleep" => newsockfd \in Fds /\ accepted \in Conns
    /\ \A k \in Running : fd[k] \in Fds
    /\ \A k \in Conns : pc[k] \in {"receive", "details"} => fp[k] \in Fds
    /\ \A k \in Conns : pc[k] \in {"reply", "open", "details", "close"} => result[k] \in Verdicts

\* A round is counted when it ends, or when its second recv returns.
Uncounted ==
    \A k \in Conns : ~Gone(k) =>
        /\ Error[k] = 0
        /\ k \in success <=> k = Conn(Owner(k)) /\ at[Owner(k)] = "sleep"

Types == TypeOK /\ Descriptors /\ Uncounted

\* Connections that are not made yet, and what nobody knows of them.
Unmade(k) == \/ k[2] > round[Owner(k)]
             \/ k = Conn(Owner(k)) /\ at[Owner(k)] = "connect"

Fresh == \A k \in Conns : Unmade(k) =>
            /\ pc[k] = "none" /\ accepted # k /\ avail[k] = 0
            /\ k \notin sent \cup dead \cup errno
            /\ \A i \in DOMAIN backlog : backlog[i] # k
            /\ \A d \in Fds : table[d] # k

\* Connections that are not accepted yet.
Line == /\ \A i \in DOMAIN backlog : /\ pc[backlog[i]] = "none" /\ backlog[i] # accepted
                                     /\ avail[backlog[i]] = 0
                                     /\ \A d \in Fds : table[d] # backlog[i]
        /\ \A i, j \in DOMAIN backlog : backlog[i] = backlog[j] => i = j

Unsent == \A c \in Clients : at[c] = "send" => Conn(c) \notin sent

Made == Fresh /\ Line /\ Unsent

\* What the files hold when they hold a thread's own.
Own(k) ==
    /\ pc[k] \in {"start", "receive"} => table[fd[k]] = k
    /\ pc[k] = "receive" => table[fp[k]] = OpenFile
    /\ pc[k] = "compile" => file_c = k
    /\ pc[k] = "run" => exe = k /\ Program(k) # "uncompilable"
    /\ pc[k] = "compare" => out = k /\ Program(k) \notin {"uncompilable", "failing"}
    /\ pc[k] = "reply" => result[k] = VerdictOf(Owner(k))

\* A thread that has not overlapped with another is the only one, the one of
\* main's last connection, and finds in the files what it has put there.
Single ==
    \A k \in Running \ overlapped : Running = {k} /\ accepted = k /\ Own(k)

\* A thread whose descriptor is another's connection overlaps with that.
Strays == \A k \in Running : \A l \in Conns :
             table[fd[k]] = l /\ l # k => l \in overlapped

Gradings == Single /\ Strays /\ VerdictUnlessOverlapped

\* As long as nothing has overlapped, all that is open is of the connection
\* accepted last.
Alone ==
    overlapped = {} =>
        /\ Running \subseteq {accepted}
        /\ \A d \in Fds : table[d] \in {NoConn, OpenFile, accepted}
        /\ \A d \in Fds : table[d] = OpenFile =>
              accepted \in Conns /\ pc[accepted] \in {"receive", "details"} /\ d = fp[accepted]
        /\ \A d \in Fds : accepted \in Conns /\ table[d] = accepted =>
              main = "sleep" /\ d = newsockfd
        /\ main = "sleep" =>
              /\ pc[accepted] # "done" => table[newsockfd] = accepted
              /\ pc[accepted] = "none" => accepted \in unserved
        /\ accepted \in Running =>
              /\ fd[accepted] = newsockfd
              /\ main = "accept" => accepted \in late
              /\ pc[accepted] \in {"receive", "details"} => table[fp[accepted]] = OpenFile

\* Main does not wait for the second's sake for slow gradings only.
Lateness == /\ late = {} => overlapped = {}
            /\ \A k \in late : Owner(k) \in Slow

Sharing == Alone /\ Lateness

Waits(k) == \E i \in DOMAIN backlog : backlog[i] = k
Served(k) == k = accepted /\ main = "sleep" /\ pc[k] # "done"

\* What has become of a connection whose client waits for its end.
Held == up /\ overlapped = {} =>
    \A c \in Clients :
        /\ at[c] = "send" =>
              Waits(Conn(c)) \/ (Served(Conn(c)) /\ pc[Conn(c)] \in {"none", "start", "receive"})
        /\ at[c] \in {"receive", "again"} =>
              \/ Waits(Conn(c)) \/ Served(Conn(c))
              \/ Conn(c) \in late \cup unserved \/ answers[Conn(c)] # {}

\* What is received is the verdict, or follows it.
Answered == up /\ overlapped = {} =>
    \A k \in Conns :
        avail[k] > 0 \/ pc[k] \in {"open", "details", "close", "done"} => answers[k] # {}

Counting == Held /\ Answered /\ CountsAreRight

\* With all clients patient and no grading late, a client waits for its verdict
\* and then, at most, for the details.
Patient == up /\ timedOut = {} /\ late = {} =>
    \A k \in Conns :
        /\ Waits(k) \/ (Served(k) /\ pc[k] \in {"start", "receive", "compile", "run", "compare", "reply"}) =>
              avail[k] = 0 /\ k \notin dead \cup errno /\ ~Gone(k) /\ at[Owner(k)] # "sleep"
        /\ Served(k) /\ pc[k] \in {"open", "details"} =>
              /\ avail[k] \in {0, 1} /\ k \notin dead \cup errno
              /\ avail[k] = 1 => ~Gone(k) /\ at[Owner(k)] # "sleep"

IInv == Types /\ Made /\ Gradings /\ Sharing /\ Counting /\ Patient /\ EndsOnlyFor
-----------------------------------------------------------------------------
(* Connections, descriptors, verdicts.                                     *)

LEMMA ConnsAre ==
    /\ \A c \in Clients : \A r \in 1 .. LoopNum(c) : <<c, r>> \in Conns
    /\ \A k \in Conns : /\ k[1] \in Clients /\ k[2] \in 1 .. LoopNum(k[1])
                        /\ k = <<k[1], k[2]>>
    /\ NoConn \notin Conns /\ OpenFile \notin Conns /\ NoConn # OpenFile
<1>1. \A c \in Clients : \A r \in 1 .. LoopNum(c) : <<c, r>> \in Conns
  BY DEF Conns
<1>2. ASSUME NEW k \in Conns
      PROVE  /\ k[1] \in Clients /\ k[2] \in 1 .. LoopNum(k[1])
             /\ k = <<k[1], k[2]>>
  <2>1. PICK c \in Clients : k \in {c} \X (1 .. LoopNum(c))
    BY DEF Conns
  <2> QED
    BY <2>1
<1>3. None \notin Clients
  BY SharedFilesAssumption
<1>4. NoConn \notin Conns /\ OpenFile \notin Conns
  <2>1. NoConn[1] = None /\ OpenFile[1] = None
    BY DEF NoConn, OpenFile
  <2> QED
    BY <1>2, <1>3, <2>1
<1>5. NoConn # OpenFile
  BY DEF NoConn, OpenFile
<1> QED
  BY <1>1, <1>2, <1>4, <1>5

\* The connection a client is with is one of its own.
LEMMA ConnIs ==
    ASSUME TypeOK, NEW c \in Clients
    PROVE  /\ Conn(c) \in Conns /\ Owner(Conn(c)) = c /\ Conn(c)[2] = round[c]
           /\ ~(Conn(c)[2] > round[c]) /\ ~(Conn(c)[2] < round[c])
<1>1. round[c] \in Nat /\ round[c] \in 1 .. LoopNum(c)
  BY DEF TypeOK
<1>2. Conn(c) \in Conns /\ Owner(Conn(c)) = c /\ Conn(c)[2] = round[c]
  BY <1>1, ConnsAre DEF Conn, Owner
<1> QED
  BY <1>1, <1>2

LEMMA VerdictTypes ==
    /\ {"COMPILER ERROR", "RUNTIME ERROR", "Wrong output", "PASSED"} \subseteq Verdicts
    /\ NoAnswer \notin Verdicts
BY SharedFilesAssumption DEF Verdicts

\* A set of numbers has a least one.
LEMMA LeastIs ==
    ASSUME NEW I \in SUBSET Nat, I # {}
    PROVE  Min(I) \in I
<1> DEFINE Below == {0 .. k : k \in I}
           R     == StrictSubsetOrdering(Nat)
<1>1. Below \subseteq FiniteSubsetsOf(Nat) /\ Below # {}
  <2>1. \A k \in I : IsFiniteSet(0 .. k) /\ 0 .. k \in SUBSET Nat
    BY FS_Interval
  <2>2. \A k \in I : 0 .. k \in FiniteSubsetsOf(Nat)
    BY <2>1 DEF FiniteSubsetsOf
  <2> QED
    BY <2>2
<1>2. PICK x \in Below : \A y \in Below : <<y, x>> \notin R
  <2>1. IsWellFoundedOn(R, FiniteSubsetsOf(Nat))
    BY FS_StrictSubsetOrderingWellFounded
  <2> QED
    BY <1>1, <2>1, WFMin
<1>3. PICK m \in I : x = 0 .. m
  OBVIOUS
<1>4. ASSUME NEW j \in I PROVE m <= j
  <2>1. <<0 .. j, 0 .. m>> \notin R
    BY <1>2, <1>3
  <2>2. j < m => <<0 .. j, 0 .. m>> \in R
    <3>1. j < m => 0 .. j \subseteq 0 .. m /\ m \in 0 .. m /\ m \notin 0 .. j
      OBVIOUS
    <3> QED
      BY <3>1 DEF StrictSubsetOrdering
  <2> QED
    BY <2>1, <2>2
<1>5. \E n \in I : \A j \in I : n <= j
  BY <1>4
<1> QED
  BY <1>5 DEF Min

LEMMA LeastFree == FreeFds # {} => Min(FreeFds) \in Fds /\ table[Min(FreeFds)] = NoConn
<1>1. FreeFds \in SUBSET Nat
  BY SharedFilesAssumption DEF FreeFds
<1>2. FreeFds # {} => Min(FreeFds) \in FreeFds
  BY <1>1, LeastIs
<1> QED
  BY <1>2 DEF FreeFds

-----------------------------------------------------------------------------
(* What a client's step does to it.                                        *)

\* It goes on with its connection.
LEMMA ClientGoes ==
    ASSUME TypeOK, NEW c \in Clients, at[c] # "end",
           NEW spot \in {"send", "receive", "again", "sleep"},
           ClientAt(c, spot), UNCHANGED round
    PROVE  /\ at' \in [Clients -> Places] /\ at'[c] = spot
           /\ \A b \in Clients : b # c => at'[b] = at[b]
           /\ \A b \in Clients : Conn(b)' = Conn(b)
           /\ \A k \in Conns : Gone(k)' <=> Gone(k)
           /\ \A k \in Conns : Unmade(k)' <=> Unmade(k) /\ ~(k = Conn(c) /\ at[c] = "connect")
<1>1. /\ at \in [Clients -> Places] /\ at' = [at EXCEPT ![c] = spot]
      /\ \A k \in Conns : Owner(k) \in Clients
  BY ConnsAre DEF TypeOK, ClientAt, Owner
<1>2. /\ at' \in [Clients -> Places] /\ at'[c] = spot
      /\ \A b \in Clients : b # c => at'[b] = at[b]
  BY <1>1 DEF Places
<1>3. \A b \in Clients : Conn(b)' = Conn(b)
  BY DEF Conn
<1>4. \A k \in Conns : Gone(k)' <=> Gone(k)
  BY <1>1, <1>2 DEF Gone
<1>5. ASSUME NEW k \in Conns
      PROVE  Unmade(k)' <=> Unmade(k) /\ ~(k = Conn(c) /\ at[c] = "connect")
  <2>1. Owner(Conn(c)) = c /\ Conn(c)[2] = round[c] /\ round[c] \in Nat
    BY ConnIs DEF TypeOK
  <2>2. Unmade(k)' <=> \/ k[2] > round[Owner(k)]
                       \/ k = Conn(Owner(k)) /\ at'[Owner(k)] = "connect"
    BY DEF Unmade, Conn
  <2>3. ~(Conn(c)[2] > round[c])
    BY ConnIs
  <2> QED
    BY <1>1, <1>2, <2>1, <2>2, <2>3 DEF Unmade
<1> QED
  BY <1>2, <1>3, <1>4, <1>5

\* It is done with its connection.
LEMMA ClientIsDone ==
    ASSUME TypeOK, NEW c \in Clients, at[c] # "end", StepOn(c)
    PROVE  /\ at' \in [Clients -> Places] /\ at'[c] \in {"connect", "end"}
           /\ round' \in [Clients -> Nat]
           /\ \A b \in Clients : round'[b] \in 1 .. LoopNum(b)
           /\ \A b \in Clients : b # c => at'[b] = at[b] /\ Conn(b)' = Conn(b)
           /\ \A k \in Conns : Gone(k)' <=> Gone(k) \/ k = Conn(c)
           /\ \A k \in Conns : Unmade(k)' <=> Unmade(k) /\ k # Conn(c)
<1>1. /\ at \in [Clients -> Places] /\ round \in [Clients -> Nat]
      /\ \A b \in Clients : round[b] \in 1 .. LoopNum(b) /\ LoopNum(b) \in Nat
      /\ \A k \in Conns : Owner(k) \in Clients /\ k[2] \in Nat /\ k[2] <= LoopNum(Owner(k))
      /\ \A k \in Conns : k = <<Owner(k), k[2]>>
      /\ Conn(c) \in Conns /\ Owner(Conn(c)) = c /\ Conn(c)[2] = round[c]
  <2>1. /\ at \in [Clients -> Places] /\ round \in [Clients -> Nat]
        /\ \A b \in Clients : round[b] \in 1 .. LoopNum(b)
    BY DEF TypeOK
  <2>2. \A b \in Clients : LoopNum(b) \in Nat
    BY SharedFilesAssumption
  <2>3. \A k \in Conns : /\ Owner(k) \in Clients /\ k[2] \in 1 .. LoopNum(Owner(k))
                         /\ k = <<Owner(k), k[2]>>
    BY ConnsAre DEF Owner
  <2>4. ASSUME NEW k \in Conns PROVE k[2] \in Nat /\ k[2] <= LoopNum(Owner(k))
    <3>1. LoopNum(Owner(k)) \in Nat /\ k[2] \in 1 .. LoopNum(Owner(k))
      BY <2>2, <2>3
    <3> QED
      BY <3>1
  <2> QED
    BY <2>1, <2>2, <2>3, <2>4, ConnIs
<1>2. \A k \in Conns : Owner(k) = c /\ k[2] = round[c] => k = Conn(c)
  BY <1>1 DEF Conn
<1>3. CASE round[c] = LoopNum(c)
  <2>1. at' = [at EXCEPT ![c] = "end"] /\ round' = round
    BY <1>3 DEF StepOn, ClientAt
  <2>2. /\ at' \in [Clients -> Places] /\ at'[c] = "end"
        /\ \A b \in Clients : b # c => at'[b] = at[b] /\ Conn(b)' = Conn(b)
    BY <1>1, <2>1 DEF Places, Conn
  <2>3. ASSUME NEW k \in Conns PROVE Gone(k)' <=> Gone(k) \/ k = Conn(c)
    <3>1. Gone(k)' <=> k[2] < round[Owner(k)] \/ at'[Owner(k)] = "end"
      BY <2>1 DEF Gone
    <3>2. Owner(k) = c => k[2] < round[c] \/ k[2] = round[c]
      BY <1>1, <1>3
    <3> QED
      BY <1>1, <1>2, <2>2, <3>1, <3>2 DEF Gone
  <2>4. ASSUME NEW k \in Conns PROVE Unmade(k)' <=> Unmade(k) /\ k # Conn(c)
    <3>1. Unmade(k)' <=> \/ k[2] > round[Owner(k)]
                         \/ k = Conn(Owner(k)) /\ at'[Owner(k)] = "connect"
      BY <2>1 DEF Unmade, Conn
    <3>2. Owner(k) = c => ~(k[2] > round[c])
      BY <1>1, <1>3
    <3> QED
      BY <1>1, <2>2, <3>1, <3>2 DEF Unmade
  <2> QED
    BY <1>1, <2>1, <2>2, <2>3, <2>4
<1>4. CASE round[c] # LoopNum(c)
  <2>1. at' = [at EXCEPT ![c] = "connect"] /\ round' = [round EXCEPT ![c] = @ + 1]
    BY <1>4 DEF StepOn, ClientAt
  <2>2. round'[c] = round[c] + 1 /\ round[c] \in Nat /\ round[c] + 1 \in 1 .. LoopNum(c)
    BY <1>1, <1>4, <2>1
  <2>3. /\ at' \in [Clients -> Places] /\ at'[c] = "connect" /\ round' \in [Clients -> Nat]
        /\ \A b \in Clients : b # c => at'[b] = at[b] /\ round'[b] = round[b]
    <3>1. at' \in [Clients -> Places] /\ at'[c] = "connect"
      BY <1>1, <2>1 DEF Places
    <3>2. round' \in [Clients -> Nat]
      BY <1>1, <2>1, <2>2
    <3>3. \A b \in Clients : b # c => at'[b] = at[b] /\ round'[b] = round[b]
      BY <1>1, <2>1
    <3> QED
      BY <3>1, <3>2, <3>3
  <2>4. \A b \in Clients : b # c => Conn(b)' = Conn(b)
    BY <2>3 DEF Conn
  <2>5. Conn(c)' = <<c, round[c] + 1>>
    BY <2>2 DEF Conn
  <2>6. ASSUME NEW k \in Conns PROVE Gone(k)' <=> Gone(k) \/ k = Conn(c)
    <3>1. Gone(k)' <=> k[2] < round'[Owner(k)] \/ at'[Owner(k)] = "end"
      BY DEF Gone
    <3>2. CASE Owner(k) = c
      <4>1. k[2] < round[c] + 1 <=> k[2] < round[c] \/ k[2] = round[c]
        BY <1>1, <2>2
      <4>2. k = Conn(c) <=> k[2] = round[c]
        BY <1>1, <1>2, <3>2
      <4> QED
        BY <2>2, <2>3, <3>1, <3>2, <4>1, <4>2 DEF Gone
    <3>3. CASE Owner(k) # c
      BY <1>1, <2>3, <3>1, <3>3 DEF Gone
    <3> QED
      BY <3>2, <3>3
  <2>7. ASSUME NEW k \in Conns PROVE Unmade(k)' <=> Unmade(k) /\ k # Conn(c)
    <3>1. Unmade(k)' <=> \/ k[2] > round'[Owner(k)]
                         \/ k = Conn(Owner(k))' /\ at'[Owner(k)] = "connect"
      <4>1. PICK b \in Clients : b = Owner(k)
        BY <1>1
      <4> QED
        BY <4>1 DEF Unmade, Owner, Conn
    <3>2. CASE Owner(k) = c
      <4>1. /\ k[2] > round[c] <=> k[2] > round[c] + 1 \/ k[2] = round[c] + 1
            /\ k = Conn(c) => ~(k[2] > round[c])
        BY <1>1, <2>2
      <4>2. k = <<c, round[c] + 1>> <=> k[2] = round[c] + 1
        BY <1>1, <3>2
      <4>3. Unmade(k)' <=> k[2] > round[c] + 1 \/ k = <<c, round[c] + 1>>
        BY <2>2, <2>3, <2>5, <3>1, <3>2
      <4> QED
        BY <3>2, <4>1, <4>2, <4>3 DEF Unmade
    <3>3. CASE Owner(k) # c
      BY <1>1, <2>3, <2>4, <3>1, <3>3 DEF Unmade
    <3> QED
      BY <3>2, <3>3
  <2>8. \A b \in Clients : round'[b] \in 1 .. LoopNum(b)
    BY <1>1, <2>2, <2>3
  <2> QED
    BY <2>3, <2>4, <2>6, <2>7, <2>8
<1> QED
  BY <1>3, <1>4

\* A signal ends it.
LEMMA ClientEnds ==
    ASSUME TypeOK, NEW c \in Clients, at[c] = "send", ClientAt(c, "end"), UNCHANGED round
    PROVE  /\ at' \in [Clients -> Places] /\ at'[c] = "end"
           /\ \A b \in Clients : b # c => at'[b] = at[b]
           /\ \A b \in Clients : Conn(b)' = Conn(b)
           /\ \A k \in Conns : Gone(k)' <=> Gone(k) \/ Owner(k) = c
           /\ \A k \in Conns : Unmade(k)' <=> Unmade(k)
<1>1. /\ at \in [Clients -> Places] /\ at' = [at EXCEPT ![c] = "end"]
      /\ \A k \in Conns : Owner(k) \in Clients
  BY ConnsAre DEF TypeOK, ClientAt, Owner
<1>2. /\ at' \in [Clients -> Places] /\ at'[c] = "end"
      /\ \A b \in Clients : b # c => at'[b] = at[b]
  BY <1>1 DEF Places
<1>3. \A b \in Clients : Conn(b)' = Conn(b)
  BY DEF Conn
<1>4. \A k \in Conns : Gone(k)' <=> Gone(k) \/ Owner(k) = c
  BY <1>1, <1>2 DEF Gone
<1>5. \A k \in Conns : Unmade(k)' <=> Unmade(k)
  BY <1>1, <1>2, <1>3 DEF Unmade, Conn
<1> QED
  BY <1>2, <1>3, <1>4, <1>5

LEMMA NotGone == ASSUME TypeOK, NEW c \in Clients, at[c] # "end" PROVE ~Gone(Conn(c))
BY ConnIs DEF Gone

LEMMA ClientKeeps ==
    ASSUME NEW c \in Clients, ClientStep(c)
    PROVE  UNCHANGED <<up, main, newsockfd, accepted, table, threads, files, answers, notes>>
BY DEF ClientStep, Connect, SendFile, SendFails, Receive, ReceiveAgain, ReceiveFails,
       SleepAndClose

\* What a recv leaves to be received.
LEMMA RecvTypes ==
    ASSUME TypeOK, NEW k \in Conns,
           SomeBytes(k) \/ EndOfFile(k) \/ WasReset(k) \/ TimesOut(k)
    PROVE  avail' \in [Conns -> Nat] /\ errno' \subseteq errno
<1>1. avail \in [Conns -> Nat]
  BY DEF TypeOK
<1>2. CASE SomeBytes(k)
  <2>1. PICK m \in 1 .. BUFFER_SIZE : m <= avail[k] /\ avail' = [avail EXCEPT ![k] = @ - m]
    BY <1>2 DEF SomeBytes
  <2>2. avail[k] - m \in Nat
    BY <1>1, <2>1, SharedFilesAssumption
  <2> QED
    BY <1>1, <1>2, <2>1, <2>2 DEF SomeBytes
<1>3. CASE ~SomeBytes(k)
  BY <1>1, <1>3 DEF EndOfFile, WasReset, TimesOut
<1> QED
  BY <1>2, <1>3

-----------------------------------------------------------------------------
(* Types.                                                                  *)

\* A client's step on what only clients write.
LEMMA ClientTypes ==
    ASSUME Types, NEW c \in Clients, ClientStep(c)
    PROVE  /\ at' \in [Clients -> Places] /\ round' \in [Clients -> Nat]
           /\ \A b \in Clients : round'[b] \in 1 .. LoopNum(b)
           /\ Error' \in [Conns -> 0 .. 2]
           /\ success' \cup timedOut' \cup sent' \subseteq Conns
           /\ Uncounted'
<1> DEFINE k == Conn(c)
<1>1. TypeOK /\ Uncounted
  BY DEF Types
<1>2. /\ at \in [Clients -> Places] /\ round \in [Clients -> Nat]
      /\ \A b \in Clients : round[b] \in 1 .. LoopNum(b)
      /\ Error \in [Conns -> 0 .. 2] /\ success \cup timedOut \cup sent \subseteq Conns
      /\ k \in Conns /\ Owner(k) = c /\ \A l \in Conns : Owner(l) \in Clients
  BY <1>1, ConnIs, ConnsAre DEF TypeOK, Owner
<1>3. at[c] # "end"
  BY DEF ClientStep, Connect, SendFile, SendFails, Receive, ReceiveAgain, ReceiveFails,
         SleepAndClose
<1>4. ~Gone(k) /\ Error[k] = 0 /\ (k \in success <=> at[c] = "sleep")
  BY <1>1, <1>2, <1>3, NotGone DEF Uncounted
<1> HIDE DEF k
\* A step that goes on.
<1>5. ASSUME NEW spot \in {"send", "receive", "again", "sleep"},
             at[c] # "sleep", ClientAt(c, spot), UNCHANGED <<round, Error>>,
             success' = IF spot = "sleep" THEN success \cup {k} ELSE success
      PROVE  /\ at' \in [Clients -> Places] /\ Uncounted'
  <2>1. /\ at' \in [Clients -> Places] /\ at'[c] = spot
        /\ \A b \in Clients : b # c => at'[b] = at[b]
        /\ \A b \in Clients : Conn(b)' = Conn(b)
        /\ \A l \in Conns : Gone(l)' <=> Gone(l)
    BY <1>1, <1>3, <1>5, ClientGoes
  <2>2. ASSUME NEW l \in Conns, ~Gone(l)
        PROVE  Error'[l] = 0 /\ (l \in success' <=> l = Conn(Owner(l))' /\ at'[Owner(l)] = "sleep")
    <3>1. Error[l] = 0 /\ (l \in success <=> l = Conn(Owner(l)) /\ at[Owner(l)] = "sleep")
      BY <1>1, <2>2 DEF Uncounted
    <3>2. PICK b \in Clients : b = Owner(l)
      BY <1>2
    <3>3. Conn(Owner(l))' = Conn(b)
      BY <2>1, <3>2 DEF Owner
    <3>4. CASE b = c
      <4>1. Conn(Owner(l)) = k /\ Conn(Owner(l))' = k
        BY <3>2, <3>3, <3>4 DEF k
      <4>2. at[Owner(l)] # "sleep" /\ at'[Owner(l)] = spot
        BY <1>5, <2>1, <3>2, <3>4
      <4>3. l \in success' <=> l = k /\ spot = "sleep"
        BY <1>5, <3>1, <4>2
      <4> QED
        BY <1>5, <3>1, <4>1, <4>2, <4>3
    <3>5. CASE b # c
      <4>1. l # k
        BY <1>2, <3>2, <3>5
      <4>2. at'[Owner(l)] = at[Owner(l)] /\ (l \in success' <=> l \in success)
        BY <1>5, <2>1, <3>2, <3>5, <4>1
      <4> QED
        BY <1>5, <3>1, <3>2, <3>3, <4>2
    <3> QED
      BY <3>4, <3>5
  <2> QED
    BY <2>1, <2>2 DEF Uncounted
\* A step that ends a round.
<1>6. ASSUME StepOn(c), \A l \in Conns \ {k} : Error'[l] = Error[l], success' = success
      PROVE  Uncounted'
  <2>1. /\ at'[c] \in {"connect", "end"}
        /\ \A b \in Clients : b # c => at'[b] = at[b] /\ Conn(b)' = Conn(b)
        /\ \A l \in Conns : Gone(l)' <=> Gone(l) \/ l = k
    BY <1>1, <1>3, <1>6, ClientIsDone DEF k
  <2>2. ASSUME NEW l \in Conns, ~Gone(l)'
        PROVE  Error'[l] = 0 /\ (l \in success' <=> l = Conn(Owner(l))' /\ at'[Owner(l)] = "sleep")
    <3>1. /\ ~Gone(l) /\ l # k /\ Error[l] = 0
          /\ l \in success <=> l = Conn(Owner(l)) /\ at[Owner(l)] = "sleep"
      BY <1>1, <2>1, <2>2 DEF Uncounted
    <3>2. PICK b \in Clients : b = Owner(l)
      BY <1>2
    <3>3. CASE b = c
      BY <1>2, <1>6, <2>1, <3>1, <3>2, <3>3 DEF k
    <3>4. CASE b # c
      <4>1. Conn(Owner(l))' = Conn(b)
        BY <2>1, <3>2, <3>4 DEF Owner
      <4> QED
        BY <1>6, <2>1, <3>1, <3>2, <3>4, <4>1
    <3> QED
      BY <3>3, <3>4
  <2> QED
    BY <2>2 DEF Uncounted
\* The signal.
<1>7. ASSUME at[c] = "send", ClientAt(c, "end"), UNCHANGED <<round, Error, success>>
      PROVE  at' \in [Clients -> Places] /\ Uncounted'
  <2>1. /\ at' \in [Clients -> Places] /\ at'[c] = "end"
        /\ \A b \in Clients : b # c => at'[b] = at[b]
        /\ \A b \in Clients : Conn(b)' = Conn(b)
        /\ \A l \in Conns : Gone(l)' <=> Gone(l) \/ Owner(l) = c
    BY <1>1, <1>7, ClientEnds
  <2>2. ASSUME NEW l \in Conns, ~Gone(l)'
        PROVE  Error'[l] = 0 /\ (l \in success' <=> l = Conn(Owner(l))' /\ at'[Owner(l)] = "sleep")
    <3>1. /\ ~Gone(l) /\ Owner(l) # c /\ Error[l] = 0
          /\ l \in success <=> l = Conn(Owner(l)) /\ at[Owner(l)] = "sleep"
      BY <1>1, <2>1, <2>2 DEF Uncounted
    <3>2. PICK b \in Clients : b = Owner(l)
      BY <1>2
    <3>3. Conn(Owner(l))' = Conn(b)
      BY <2>1, <3>2 DEF Owner
    <3> QED
      BY <1>7, <2>1, <3>1, <3>2, <3>3
  <2> QED
    BY <2>1, <2>2 DEF Uncounted
\* A count.
<1>8. ASSUME NEW m \in 0 .. 2, CountError(k, m)
      PROVE  Error' \in [Conns -> 0 .. 2] /\ \A l \in Conns \ {k} : Error'[l] = Error[l]
  <2>1. Error' = [Error EXCEPT ![k] = @ + m] /\ Error[k] + m \in 0 .. 2
    BY <1>4, <1>8 DEF CountError
  <2> QED
    BY <1>2, <2>1
<1>9. StepOn(c) => /\ at' \in [Clients -> Places] /\ round' \in [Clients -> Nat]
                   /\ \A b \in Clients : round'[b] \in 1 .. LoopNum(b)
  BY <1>1, <1>3, ClientIsDone
<1>10. CASE Connect(c)
  <2>1. at[c] = "connect" /\ UNCHANGED <<sent, success, timedOut>>
    BY <1>10 DEF Connect
  <2>2. CASE up
    BY <1>2, <1>5, <1>10, <2>1, <2>2 DEF Connect
  <2>3. CASE ~up
    <3>1. CountError(k, 1) /\ StepOn(c)
      BY <1>10, <2>3 DEF Connect, NextRound, k
    <3> QED
      BY <1>2, <1>6, <1>8, <1>9, <2>1, <3>1
  <2> QED
    BY <2>2, <2>3
<1>11. CASE SendFile(c)
  <2>1. /\ at[c] = "send" /\ ClientAt(c, "receive") /\ UNCHANGED <<round, Error, success, timedOut>>
        /\ sent' = sent \cup {k}
    BY <1>11 DEF SendFile, k
  <2> QED
    BY <1>2, <1>5, <2>1
<1>12. CASE SendFails(c)
  <2>1. at[c] = "send" /\ UNCHANGED <<sent, success, timedOut>>
    BY <1>12 DEF SendFails
  <2>2. ASSUME NEW m \in {0, 2}, CountError(k, m), NextRound(c)
        PROVE  /\ at' \in [Clients -> Places] /\ round' \in [Clients -> Nat]
               /\ \A b \in Clients : round'[b] \in 1 .. LoopNum(b)
               /\ Error' \in [Conns -> 0 .. 2] /\ Uncounted'
    <3>1. m \in 0 .. 2 /\ StepOn(c)
      BY <2>2 DEF NextRound
    <3>2. Error' \in [Conns -> 0 .. 2] /\ \A l \in Conns \ {k} : Error'[l] = Error[l]
      BY <1>8, <2>2, <3>1
    <3> QED
      BY <1>6, <1>9, <2>1, <3>1, <3>2
  <2>3. CASE ClientAt(c, "receive") /\ UNCHANGED <<round, Error>>
    BY <1>2, <1>5, <2>1, <2>3
  <2>4. CASE ClientAt(c, "end") /\ UNCHANGED <<round, Error>>
    BY <1>2, <1>7, <2>1, <2>4
  <2>5. UNCHANGED <<sent, success, timedOut>>
    BY <2>1
  <2> QED
    BY <1>2, <1>12, <2>2, <2>3, <2>4, <2>5 DEF SendFails, k
<1>13. CASE Receive(c)
  <2>1. /\ at[c] = "receive" /\ ClientAt(c, "again")
        /\ UNCHANGED <<round, Error, success, timedOut, sent>>
    BY <1>13 DEF Receive
  <2> QED
    BY <1>2, <1>5, <2>1
<1>14. CASE ReceiveAgain(c)
  <2>1. /\ at[c] = "again" /\ ClientAt(c, "sleep") /\ success' = success \cup {k}
        /\ UNCHANGED <<round, Error, timedOut, sent>>
    BY <1>14 DEF ReceiveAgain, k
  <2> QED
    BY <1>2, <1>5, <2>1
<1>15. CASE ReceiveFails(c)
  <2>1. /\ at[c] = "again" /\ CountError(k, 1) /\ StepOn(c) /\ 1 \in 0 .. 2
        /\ UNCHANGED <<success, sent>> /\ timedOut' \subseteq timedOut \cup {k}
    BY <1>15 DEF ReceiveFails, NextRound, k
  <2> QED
    BY <1>2, <1>6, <1>8, <1>9, <2>1
<1>16. CASE SleepAndClose(c)
  <2>1. StepOn(c) /\ UNCHANGED <<success, sent, timedOut, Error>>
    BY <1>16 DEF SleepAndClose, NextRound
  <2> QED
    BY <1>2, <1>6, <1>9, <2>1
<1> QED
  BY <1>10, <1>11, <1>12, <1>13, <1>14, <1>15, <1>16 DEF ClientStep
LEMMA TypesOfClient ==
    ASSUME Types, NEW c \in Clients, ClientStep(c)
    PROVE  Types'
<1> DEFINE k == Conn(c)
<1>1. TypeOK /\ Descriptors /\ k \in Conns
  BY ConnIs DEF Types
<1>2. UNCHANGED <<up, main, newsockfd, accepted, table, threads, files, answers, notes>>
  BY ClientKeeps
<1>3. backlog' \in Seq(Conns)
  <2>1. backlog \in Seq(Conns) /\ Append(backlog, k) \in Seq(Conns)
    BY <1>1 DEF TypeOK
  <2>2. backlog' = backlog \/ backlog' = Append(backlog, k)
    BY DEF ClientStep, Connect, SendFile, SendFails, Receive, ReceiveAgain, ReceiveFails,
           SleepAndClose, k
  <2> QED
    BY <2>1, <2>2
<1>4. avail' \in [Conns -> Nat]
  <2>1. \/ avail' = avail
        \/ SomeBytes(k) \/ EndOfFile(k) \/ WasReset(k) \/ TimesOut(k)
    BY DEF ClientStep, Connect, SendFile, SendFails, Receive, ReceiveAgain, ReceiveFails,
           SleepAndClose, k
  <2>2. avail \in [Conns -> Nat]
    BY <1>1 DEF TypeOK
  <2> QED
    BY <1>1, <2>1, <2>2, RecvTypes
<1>5. errno' \subseteq errno \cup {k}
  <2>1. \/ errno' \subseteq errno \cup {k}
        \/ SomeBytes(k) \/ EndOfFile(k) \/ WasReset(k) \/ TimesOut(k)
    BY DEF ClientStep, Connect, SendFile, SendFails, Receive, ReceiveAgain, ReceiveFails,
           SleepAndClose, k
  <2> QED
    BY <1>1, <2>1, RecvTypes
<1>6. dead' \subseteq dead \cup {k}
  BY DEF ClientStep, Connect, SendFile, SendFails, Receive, ReceiveAgain, ReceiveFails,
         SleepAndClose, NextRound, k
<1> HIDE DEF k
<1>7. errno \cup dead \subseteq Conns
  BY <1>1 DEF TypeOK
<1>8. errno' \cup dead' \subseteq Conns
  BY <1>1, <1>5, <1>6, <1>7
<1>9. TypeOK'
  BY <1>1, <1>2, <1>3, <1>4, <1>8, ClientTypes DEF TypeOK, Contents
<1>10. Descriptors'
  BY <1>1, <1>2 DEF Descriptors, Running
<1> QED
  BY <1>9, <1>10, ClientTypes DEF Types

\* The server does not touch what only clients write.
LEMMA ServerKeeps ==
    ASSUME Accept \/ CloseAfterSleep \/ \E k \in Conns : ThreadStep(k)
    PROVE  UNCHANGED client
BY DEF Accept, CloseAfterSleep, ThreadStep, OpenSource, ReceiveFile, Compile, Run, Compare, Reply,
       OpenDetails, ReplyDetails, CloseAndExit, Terminate

LEMMA ClientStays ==
    ASSUME UNCHANGED client
    PROVE  /\ Uncounted => Uncounted'
           /\ \A k : Gone(k)' <=> Gone(k)
           /\ \A k : Unmade(k)' <=> Unmade(k)
           /\ \A c : Conn(c)' = Conn(c)
BY DEF Uncounted, Gone, Unmade, Conn, Owner

LEMMA ResetsType == ASSUME NEW K, TypeOK, Resets(K) PROVE errno' \subseteq Conns
<1>1. errno \cup sent \subseteq Conns
  BY DEF TypeOK
<1> QED
  BY <1>1 DEF Resets

LEMMA TerminateTypes == TypeOK /\ Terminate => TypeOK'
<1> SUFFICES ASSUME TypeOK, Terminate PROVE TypeOK'
  OBVIOUS
<1>1. errno' \subseteq Conns
  BY ResetsType DEF Terminate
<1> QED
  BY <1>1 DEF Terminate, TypeOK, Contents

\* fopen, of one file or another.
LEMMA OpensIs ==
    ASSUME TypeOK, NEW k \in Conns, Opens(k)
    PROVE  /\ \E d \in Fds : /\ table[d] = NoConn /\ table' = [table EXCEPT ![d] = OpenFile]
                             /\ fp'[k] = d
           /\ fp' \in [Conns -> Fds \cup {0}] /\ fp'[k] \in Fds
           /\ \A l \in Conns \ {k} : fp'[l] = fp[l]
           /\ table' \in [Fds -> Contents]
<1> DEFINE d == Min(FreeFds)
<1>1. /\ d \in Fds /\ table[d] = NoConn
      /\ fp' = [fp EXCEPT ![k] = d] /\ table' = [table EXCEPT ![d] = OpenFile]
  BY LeastFree DEF Opens
<1> HIDE DEF d
<1>2. fp \in [Conns -> Fds \cup {0}] /\ table \in [Fds -> Contents]
  BY DEF TypeOK
<1> QED
  BY <1>1, <1>2 DEF Contents

LEMMA TypesOfMain ==
    ASSUME Types, Accept \/ CloseAfterSleep
    PROVE  Types'
<1>1. TypeOK /\ Descriptors
  BY DEF Types
<1>2. Uncounted'
  BY ServerKeeps, ClientStays DEF Types
<1>3. CASE Accept
  <2> DEFINE k == Head(backlog)
             d == Min(FreeFds)
  <2>1. k \in Conns /\ Tail(backlog) \in Seq(Conns) /\ d \in Fds
    <3>1. backlog \in Seq(Conns) /\ backlog # <<>> /\ FreeFds # {}
      BY <1>1, <1>3 DEF TypeOK, Accept
    <3> QED
      BY <3>1, LeastFree
  <2>2. /\ accepted' = k /\ newsockfd' = d /\ table' = [table EXCEPT ![d] = k]
        /\ \/ pc' = [pc EXCEPT ![k] = "start"] /\ fd' = [fd EXCEPT ![k] = d]
              /\ unserved' = unserved
           \/ UNCHANGED <<pc, fd>> /\ unserved' = unserved \cup {k}
        /\ backlog' = Tail(backlog) /\ main' = "sleep"
        /\ UNCHANGED <<up, fp, result, files, client, net, answers, late>>
    BY <1>3 DEF Accept, Goto
  <2>3. overlapped' \subseteq overlapped \cup Running \cup {k}
    BY <1>3 DEF Accept
  <2> HIDE DEF k, d
  <2>4. pc' \in [Conns -> Labels] /\ fd' \in [Conns -> Fds \cup {0}]
    <3>1. /\ pc' = pc \/ pc' = [pc EXCEPT ![k] = "start"]
          /\ fd' = fd \/ fd' = [fd EXCEPT ![k] = d]
      BY <2>2
    <3>2. pc' \in [Conns -> Labels]
      <4>1. pc \in [Conns -> Labels] /\ "start" \in Labels
        BY <1>1 DEF TypeOK, Labels
      <4> QED
        BY <3>1, <4>1
    <3>3. fd' \in [Conns -> Fds \cup {0}]
      <4>1. fd \in [Conns -> Fds \cup {0}] /\ d \in Fds \cup {0}
        BY <1>1, <2>1 DEF TypeOK
      <4> QED
        BY <3>1, <4>1
    <3> QED
      BY <3>2, <3>3
  <2>5. table' \in [Fds -> Contents]
    BY <1>1, <2>1, <2>2 DEF TypeOK, Contents
  <2>6. late' \cup unserved' \cup overlapped' \subseteq Conns
    BY <1>1, <2>1, <2>2, <2>3 DEF TypeOK, Running
  <2>7. {file_c', exe', out'} \subseteq Conns \cup {None}
    BY <1>1, <2>2 DEF TypeOK
  <2>8. TypeOK'
    BY <1>1, <2>1, <2>2, <2>4, <2>5, <2>6, <2>7 DEF TypeOK, Contents
  <2>9. /\ \A l \in Running' : fd'[l] \in Fds
        /\ \A l \in Conns : pc'[l] \in {"receive", "details"} => pc[l] = pc'[l]
        /\ \A l \in Conns : pc'[l] \in {"reply", "open", "details", "close"} => pc[l] = pc'[l]
    <3>1. CASE pc' = [pc EXCEPT ![k] = "start"] /\ fd' = [fd EXCEPT ![k] = d]
      <4>1. \A l \in Conns : IF l = k THEN pc'[l] = "start" /\ fd'[l] = d
                                      ELSE pc'[l] = pc[l] /\ fd'[l] = fd[l]
        BY <1>1, <2>1, <3>1 DEF TypeOK
      <4> QED
        BY <1>1, <2>1, <4>1 DEF Descriptors, Running
    <3>2. CASE UNCHANGED <<pc, fd>>
      BY <1>1, <3>2 DEF Descriptors, Running
    <3> QED
      BY <2>2, <3>1, <3>2
  <2>10. Descriptors'
    BY <1>1, <2>1, <2>2, <2>9 DEF Descriptors
  <2> QED
    BY <1>2, <2>8, <2>10 DEF Types
<1>4. CASE CloseAfterSleep
  <2>1. /\ table' = [table EXCEPT ![newsockfd] = NoConn] /\ Resets({table[newsockfd]})
        /\ late' \subseteq late \cup {accepted} /\ main' = "accept" /\ accepted \in Conns
        /\ UNCHANGED <<up, newsockfd, accepted, backlog, threads, files, client,
                       avail, dead, answers, unserved, overlapped>>
    BY <1>1, <1>4 DEF CloseAfterSleep, Close, Descriptors
  <2>2. errno' \subseteq Conns
    BY <1>1, <2>1, ResetsType
  <2>3. table' \in [Fds -> Contents]
    BY <1>1, <2>1 DEF TypeOK, Contents
  <2>4. late' \cup unserved' \cup overlapped' \subseteq Conns
    BY <1>1, <2>1 DEF TypeOK
  <2>5. TypeOK'
    BY <1>1, <2>1, <2>2, <2>3, <2>4 DEF TypeOK, Contents
  <2>6. Descriptors'
    BY <1>1, <2>1 DEF Descriptors, Running
  <2> QED
    BY <1>2, <2>5, <2>6 DEF Types
<1> QED
  BY <1>3, <1>4

\* A thread that goes on, in the variables that only threads write.
LEMMA ThreadGoes ==
    ASSUME TypeOK, Descriptors, NEW k \in Conns, k \in Running, NEW spot \in Labels,
           Goto(k, spot), UNCHANGED <<main, newsockfd, accepted, fd>>,
           \A l \in Conns \ {k} : fp'[l] = fp[l] /\ result'[l] = result[l],
           spot \in {"receive", "details"} => fp'[k] \in Fds,
           spot \in {"reply", "open", "details", "close"} => result'[k] \in Verdicts
    PROVE  pc' \in [Conns -> Labels] /\ Descriptors'
<1>1. pc' = [pc EXCEPT ![k] = spot] /\ pc \in [Conns -> Labels]
  BY DEF Goto, TypeOK
<1>2. pc'[k] = spot /\ \A l \in Conns \ {k} : pc'[l] = pc[l]
  BY <1>1
<1>3. Running' \subseteq Running
  BY <1>2 DEF Running
<1> QED
  BY <1>1, <1>2, <1>3 DEF Descriptors

LEMMA TypesOfThread ==
    ASSUME Types, NEW k \in Conns, ThreadStep(k)
    PROVE  Types'
<1>1. TypeOK /\ Descriptors
  BY DEF Types
<1>2. Uncounted'
  BY ServerKeeps, ClientStays DEF Types
<1>3. /\ Terminate => TypeOK'
      /\ Terminate => Descriptors'
  BY <1>1, TerminateTypes DEF Terminate, Descriptors, Running
<1>4. /\ {"receive", "compile", "run", "compare", "reply", "open", "details", "close",
          "done"} \subseteq Labels
      /\ \A l \in Conns : pc[l] \in {"start", "receive", "compile", "run", "compare", "reply",
                                     "open", "details", "close"} => l \in Running
  BY DEF Labels, Running
\* A verdict.
<1>5. ASSUME NEW verdict \in Verdicts, Answer(k, verdict), k \in Running,
             UNCHANGED <<main, newsockfd, accepted, fd, fp>>
      PROVE  /\ pc' \in [Conns -> Labels] /\ Descriptors'
             /\ result' \in [Conns -> Verdicts \cup {NoAnswer}]
  <2>1. result' = [result EXCEPT ![k] = verdict] /\ Goto(k, "reply")
    BY <1>5 DEF Answer
  <2>2. result' \in [Conns -> Verdicts \cup {NoAnswer}] /\ result'[k] \in Verdicts
        /\ \A l \in Conns \ {k} : result'[l] = result[l]
    BY <1>1, <2>1 DEF TypeOK
  <2> QED
    BY <1>1, <1>4, <1>5, <2>1, <2>2, ThreadGoes
<1>6. CASE ReceiveFile(k)
  <2>1. pc[k] = "receive"
    BY <1>6 DEF ReceiveFile
  <2>2. CASE /\ file_c' \in {k, None} /\ Goto(k, "compile") /\ Close(fp[k])
             /\ UNCHANGED <<up, main, newsockfd, accepted, backlog, fd, fp, result,
                            exe, out, client, avail, dead, answers, notes>>
    <3>1. pc' \in [Conns -> Labels] /\ Descriptors'
      BY <1>1, <1>4, <2>1, <2>2, ThreadGoes
    <3>2. table' \in [Fds -> Contents] /\ errno' \subseteq Conns
      BY <1>1, <2>2, ResetsType DEF Close, TypeOK, Contents
    <3> QED
      BY <1>1, <1>2, <2>2, <3>1, <3>2 DEF Types, TypeOK, Contents
  <2> QED
    BY <1>2, <1>3, <1>6, <2>2 DEF ReceiveFile, Types
<1>7. CASE Compile(k)
  <2>1. /\ pc[k] = "compile"
        /\ UNCHANGED <<up, main, newsockfd, accepted, table, backlog, fd, fp, file_c,
                       out, client, net, answers, notes>>
    BY <1>7 DEF Compile
  <2>2. /\ pc' \in [Conns -> Labels] /\ Descriptors'
        /\ result' \in [Conns -> Verdicts \cup {NoAnswer}]
        /\ exe' \in {exe, file_c}
    <3>1. CASE Answer(k, "COMPILER ERROR") /\ UNCHANGED exe
      BY <1>4, <1>5, <2>1, <3>1, VerdictTypes
    <3>2. CASE exe' = file_c /\ Goto(k, "run") /\ UNCHANGED result
      <4>1. pc' \in [Conns -> Labels] /\ Descriptors'
        BY <1>1, <1>4, <2>1, <3>2, ThreadGoes
      <4> QED
        BY <1>1, <3>2, <4>1 DEF TypeOK
    <3> QED
      BY <1>7, <3>1, <3>2 DEF Compile
  <2>3. TypeOK'
    BY <1>1, <2>1, <2>2 DEF TypeOK, Contents
  <2> QED
    BY <1>2, <2>2, <2>3 DEF Types
<1>8. CASE Run(k)
  <2>1. /\ pc[k] = "run"
        /\ UNCHANGED <<up, main, newsockfd, accepted, table, backlog, fd, fp, file_c,
                       exe, client, net, answers, notes>>
    BY <1>8 DEF Run
  <2>2. /\ pc' \in [Conns -> Labels] /\ Descriptors'
        /\ result' \in [Conns -> Verdicts \cup {NoAnswer}]
        /\ out' \in {exe, None}
    <3>1. CASE out' = None /\ Answer(k, "RUNTIME ERROR")
      BY <1>4, <1>5, <2>1, <3>1, VerdictTypes
    <3>2. CASE out' = exe /\ Goto(k, "compare") /\ UNCHANGED result
      <4>1. pc' \in [Conns -> Labels] /\ Descriptors'
        BY <1>1, <1>4, <2>1, <3>2, ThreadGoes
      <4> QED
        BY <1>1, <3>2, <4>1 DEF TypeOK
    <3> QED
      BY <1>8, <3>1, <3>2 DEF Run
  <2>3. TypeOK'
    BY <1>1, <2>1, <2>2 DEF TypeOK, Contents
  <2> QED
    BY <1>2, <2>2, <2>3 DEF Types
<1>9. CASE Compare(k)
  <2>1. /\ pc[k] = "compare"
        /\ UNCHANGED <<up, main, newsockfd, accepted, table, backlog, fd, fp, files,
                       client, net, answers, notes>>
    BY <1>9 DEF Compare
  <2>2. PICK verdict \in Verdicts : Answer(k, verdict)
    BY <1>9, VerdictTypes DEF Compare
  <2>3. /\ pc' \in [Conns -> Labels] /\ Descriptors'
        /\ result' \in [Conns -> Verdicts \cup {NoAnswer}]
    BY <1>4, <1>5, <2>1, <2>2
  <2>4. TypeOK'
    BY <1>1, <2>1, <2>3 DEF TypeOK, Contents
  <2> QED
    BY <1>2, <2>3, <2>4 DEF Types
<1>10. CASE Reply(k)
  <2>1. pc[k] = "reply" /\ result[k] \in Verdicts
    BY <1>1, <1>10 DEF Reply, Descriptors
  <2>2. CASE Terminate
    BY <1>2, <1>3, <2>2 DEF Types
  <2>3. CASE ~Terminate
    <3>1. /\ SendTo(fd[k], 1) /\ Goto(k, "open")
          /\ answers' = [answers EXCEPT ![table[fd[k]]] = @ \cup {result[k]}]
          /\ UNCHANGED <<up, main, newsockfd, accepted, table, backlog, fd, fp,
                         result, files, client, errno, notes>>
      BY <1>10, <2>3 DEF Reply
    <3>2. answers' \in [Conns -> SUBSET Verdicts]
      BY <1>1, <2>1, <3>1 DEF TypeOK, SendTo
    <3>3. avail' \in [Conns -> Nat] /\ dead' \subseteq Conns
      <4>1. avail \in [Conns -> Nat] /\ dead \subseteq Conns
        BY <1>1 DEF TypeOK
      <4> QED
        BY <3>1, <4>1 DEF SendTo
    <3>4. pc' \in [Conns -> Labels] /\ Descriptors'
      BY <1>1, <1>4, <2>1, <3>1, ThreadGoes
    <3>5. TypeOK'
      BY <1>1, <3>1, <3>2, <3>3, <3>4 DEF TypeOK, Contents
    <3> QED
      BY <1>2, <3>4, <3>5 DEF Types
  <2> QED
    BY <2>2, <2>3
<1>11. CASE OpenDetails(k)
  <2>1. CASE Terminate
    BY <1>2, <1>3, <2>1 DEF Types
  <2>2. CASE ~Terminate
    <3>1. /\ pc[k] = "open" /\ Opens(k) /\ Goto(k, "details")
          /\ UNCHANGED <<up, main, newsockfd, accepted, backlog, fd, result,
                         files, client, net, answers, notes>>
      BY <1>11, <2>2 DEF OpenDetails
    <3>2. /\ fp' \in [Conns -> Fds \cup {0}] /\ fp'[k] \in Fds
          /\ \A l \in Conns \ {k} : fp'[l] = fp[l]
          /\ table' \in [Fds -> Contents]
      BY <1>1, <3>1, OpensIs
    <3>3. pc' \in [Conns -> Labels] /\ Descriptors'
      <4>1. result[k] \in Verdicts
        BY <1>1, <3>1 DEF Descriptors
      <4> QED
        BY <1>1, <1>4, <3>1, <3>2, <4>1, ThreadGoes
    <3>4. TypeOK'
      BY <1>1, <3>1, <3>2, <3>3 DEF TypeOK, Contents
    <3> QED
      BY <1>2, <3>3, <3>4 DEF Types
  <2> QED
    BY <2>1, <2>2
<1>12. CASE ReplyDetails(k)
  <2>1. pc[k] = "details" /\ result[k] \in Verdicts
    BY <1>1, <1>12 DEF ReplyDetails, Descriptors
  <2>2. CASE Terminate
    BY <1>2, <1>3, <2>2 DEF Types
  <2>3. CASE ~Terminate
    <3>1. /\ SendTo(fd[k], BUFFER_SIZE) \/ UNCHANGED <<avail, dead>>
          /\ Close(fp[k]) /\ Goto(k, "close")
          /\ UNCHANGED <<up, main, newsockfd, accepted, backlog, fd, fp, result,
                         files, client, answers, notes>>
      BY <1>12, <2>3 DEF ReplyDetails
    <3>2. avail' \in [Conns -> Nat] /\ dead' \subseteq Conns
      <4>1. avail \in [Conns -> Nat] /\ dead \subseteq Conns /\ BUFFER_SIZE \in Nat
        BY <1>1, SharedFilesAssumption DEF TypeOK
      <4> QED
        BY <3>1, <4>1 DEF SendTo
    <3>3. table' \in [Fds -> Contents] /\ errno' \subseteq Conns
      BY <1>1, <3>1, ResetsType DEF Close, TypeOK, Contents
    <3>4. pc' \in [Conns -> Labels] /\ Descriptors'
      BY <1>1, <1>4, <2>1, <3>1, ThreadGoes
    <3>5. TypeOK'
      BY <1>1, <3>1, <3>2, <3>3, <3>4 DEF TypeOK, Contents
    <3> QED
      BY <1>2, <3>4, <3>5 DEF Types
  <2> QED
    BY <2>2, <2>3
<1>13. CASE CloseAndExit(k)
  <2>1. /\ pc[k] = "close" /\ Close(fd[k]) /\ Goto(k, "done")
        /\ UNCHANGED <<up, main, newsockfd, accepted, backlog, fd, fp, result, files,
                       client, avail, dead, answers, notes>>
    BY <1>13 DEF CloseAndExit
  <2>2. table' \in [Fds -> Contents] /\ errno' \subseteq Conns
    BY <1>1, <2>1, ResetsType DEF Close, TypeOK, Contents
  <2>3. pc' \in [Conns -> Labels] /\ Descriptors'
    BY <1>1, <1>4, <2>1, ThreadGoes
  <2>4. TypeOK'
    BY <1>1, <2>1, <2>2, <2>3 DEF TypeOK, Contents
  <2> QED
    BY <1>2, <2>3, <2>4 DEF Types
<1>14. CASE OpenSource(k)
  <2>1. /\ pc[k] = "start"
        /\ UNCHANGED <<up, main, newsockfd, accepted, backlog, fd, result, exe, out,
                       client, avail, dead, answers, notes>>
    BY <1>14 DEF OpenSource
  <2>2. CASE Opens(k) /\ file_c' = None /\ Goto(k, "receive") /\ UNCHANGED errno
    <3>1. /\ fp' \in [Conns -> Fds \cup {0}] /\ fp'[k] \in Fds
          /\ \A l \in Conns \ {k} : fp'[l] = fp[l]
          /\ table' \in [Fds -> Contents]
      BY <1>1, <2>2, OpensIs
    <3>2. pc' \in [Conns -> Labels] /\ Descriptors'
      BY <1>1, <1>4, <2>1, <2>2, <3>1, ThreadGoes
    <3>3. TypeOK'
      BY <1>1, <2>1, <2>2, <3>1, <3>2 DEF TypeOK, Contents
    <3> QED
      BY <1>2, <3>2, <3>3 DEF Types
  <2>3. CASE Close(fd[k]) /\ Goto(k, "done") /\ UNCHANGED <<fp, file_c>>
    <3>1. table' \in [Fds -> Contents] /\ errno' \subseteq Conns
      BY <1>1, <2>3, ResetsType DEF Close, TypeOK, Contents
    <3>2. pc' \in [Conns -> Labels] /\ Descriptors'
      BY <1>1, <1>4, <2>1, <2>3, ThreadGoes
    <3>3. TypeOK'
      BY <1>1, <2>1, <2>3, <3>1, <3>2 DEF TypeOK, Contents
    <3> QED
      BY <1>2, <3>2, <3>3 DEF Types
  <2> QED
    BY <1>14, <2>2, <2>3 DEF OpenSource
<1> QED
  BY <1>6, <1>7, <1>8, <1>9, <1>10, <1>11, <1>12, <1>13, <1>14 DEF ThreadStep
-----------------------------------------------------------------------------
(* What a step may reach.                                                  *)

\* A client's step reaches its own connection.
LEMMA ClientFrame ==
    ASSUME TypeOK, NEW c \in Clients, ClientStep(c)
    PROVE  /\ at[c] # "end"
           /\ sent' \subseteq sent \cup {Conn(c)} /\ sent \subseteq sent'
           /\ dead' \subseteq dead \cup {Conn(c)}
           /\ errno' \subseteq errno \cup {Conn(c)}
           /\ \A l \in Conns : l # Conn(c) \/ avail[l] = 0 => avail'[l] = avail[l]
           /\ \/ backlog' = backlog /\ at[c] # "connect"
              \/ backlog' = Append(backlog, Conn(c)) /\ at[c] = "connect" /\ at'[c] = "send"
              \/ backlog' = backlog /\ ~up
           /\ \A b \in Clients : b # c => at'[b] = at[b] /\ Conn(b)' = Conn(b)
           /\ \A k \in Conns : Unmade(k)' => Unmade(k) /\ k # Conn(c)
           /\ \A k \in Conns : Gone(k) => Gone(k)'
<1> DEFINE k == Conn(c)
<1>1. /\ at \in [Clients -> Places] /\ avail \in [Conns -> Nat] /\ k \in Conns
      /\ Owner(k) = c /\ ~(k[2] > round[c])
  BY ConnIs DEF TypeOK
<1>2. at[c] # "end"
  BY DEF ClientStep, Connect, SendFile, SendFails, Receive, ReceiveAgain, ReceiveFails,
         SleepAndClose
<1>3. /\ dead' \subseteq dead \cup {k} /\ sent' \subseteq sent \cup {k} /\ sent \subseteq sent'
  BY DEF ClientStep, Connect, SendFile, SendFails, Receive, ReceiveAgain, ReceiveFails,
         SleepAndClose, NextRound, k
<1>4. \/ UNCHANGED avail /\ errno' \subseteq errno \cup {k}
      \/ SomeBytes(k) \/ EndOfFile(k) \/ WasReset(k) \/ TimesOut(k)
  BY DEF ClientStep, Connect, SendFile, SendFails, Receive, ReceiveAgain, ReceiveFails,
         SleepAndClose, k
<1>5. errno' \subseteq errno \cup {k}
  BY <1>1, <1>4, RecvTypes
<1>6. \A l \in Conns : l # k \/ avail[l] = 0 => avail'[l] = avail[l]
  <2>1. CASE SomeBytes(k)
    <3>1. PICK m \in 1 .. BUFFER_SIZE : m <= avail[k] /\ avail' = [avail EXCEPT ![k] = @ - m]
      BY <2>1 DEF SomeBytes
    <3>2. avail[k] # 0
      <4>1. avail[k] \in Nat /\ m \in 1 .. BUFFER_SIZE /\ BUFFER_SIZE \in Nat
        BY <1>1, SharedFilesAssumption
      <4> QED
        BY <3>1, <4>1
    <3> QED
      BY <1>1, <3>1, <3>2
  <2>2. CASE ~SomeBytes(k)
    BY <1>1, <1>4, <2>2 DEF EndOfFile, WasReset, TimesOut
  <2> QED
    BY <2>1, <2>2
<1>7. \/ backlog' = backlog /\ at[c] # "connect"
      \/ backlog' = Append(backlog, k) /\ at[c] = "connect" /\ at'[c] = "send"
      \/ backlog' = backlog /\ ~up
  <2>1. CASE Connect(c)
    <3>1. CASE up
      <4>1. backlog' = Append(backlog, k) /\ at[c] = "connect" /\ at' = [at EXCEPT ![c] = "send"]
        BY <2>1, <3>1 DEF Connect, ClientAt, k
      <4> QED
        BY <1>1, <4>1
    <3> QED
      BY <2>1, <3>1 DEF Connect
  <2>2. CASE ~Connect(c)
    BY <2>2 DEF ClientStep, SendFile, SendFails, Receive, ReceiveAgain, ReceiveFails,
                SleepAndClose
  <2> QED
    BY <2>1, <2>2
<1>8. \/ StepOn(c)
      \/ \E spot \in {"send", "receive", "again", "sleep"} :
            ClientAt(c, spot) /\ UNCHANGED round
      \/ at[c] = "send" /\ ClientAt(c, "end") /\ UNCHANGED round
  <2>1. CASE Connect(c)
    BY <2>1 DEF Connect, NextRound
  <2>2. CASE SendFails(c)
    BY <2>2 DEF SendFails, NextRound
  <2>3. CASE SendFile(c) \/ Receive(c) \/ ReceiveAgain(c)
    BY <2>3 DEF SendFile, Receive, ReceiveAgain
  <2>4. CASE ReceiveFails(c) \/ SleepAndClose(c)
    BY <2>4 DEF ReceiveFails, SleepAndClose, NextRound
  <2> QED
    BY <2>1, <2>2, <2>3, <2>4 DEF ClientStep
<1>9. /\ \A b \in Clients : b # c => at'[b] = at[b] /\ Conn(b)' = Conn(b)
      /\ \A l \in Conns : Unmade(l)' => Unmade(l) /\ l # k
      /\ \A l \in Conns : Gone(l) => Gone(l)'
  <2>0. at[c] # "connect" => ~Unmade(k)
    BY <1>1 DEF Unmade
  <2>1. CASE StepOn(c)
    BY <1>2, <2>1, ClientIsDone DEF k
  <2>2. ASSUME NEW spot \in {"send", "receive", "again", "sleep"},
               ClientAt(c, spot), UNCHANGED round
        PROVE  /\ \A b \in Clients : b # c => at'[b] = at[b] /\ Conn(b)' = Conn(b)
               /\ \A l \in Conns : Unmade(l)' => Unmade(l) /\ l # k
               /\ \A l \in Conns : Gone(l) => Gone(l)'
    BY <1>2, <2>0, <2>2, ClientGoes DEF k
  <2>3. CASE at[c] = "send" /\ ClientAt(c, "end") /\ UNCHANGED round
    BY <2>0, <2>3, ClientEnds DEF k
  <2> QED
    BY <1>8, <2>1, <2>2, <2>3
<1> QED
  BY <1>2, <1>3, <1>5, <1>6, <1>7, <1>9 DEF k

\* A thread's step reaches what its descriptor is for, and what it closes.
LEMMA ThreadFrame ==
    ASSUME Types, NEW k \in Conns, ThreadStep(k)
    PROVE  /\ k \in Running /\ up
           /\ UNCHANGED <<main, newsockfd, accepted, backlog, fd, client, notes>>
           /\ \A l \in Conns \ {k} : pc'[l] = pc[l]
           /\ pc'[k] \notin {"none", "start"} \/ UNCHANGED pc
           /\ \A d \in Fds : \A l \in Conns : table'[d] = l => table[d] = l
           /\ \A l \in Conns : avail'[l] # avail[l] => table[fd[k]] = l
           /\ \A l \in dead' : l \in dead \/ table[fd[k]] = l
           /\ errno' \subseteq errno \cup sent
<1>1. /\ pc \in [Conns -> Labels] /\ avail \in [Conns -> Nat] /\ table \in [Fds -> Contents]
      /\ OpenFile \notin Conns /\ NoConn \notin Conns
  BY ConnsAre DEF Types, TypeOK
<1>2. k \in Running /\ up
  BY DEF ThreadStep, OpenSource, ReceiveFile, Compile, Run, Compare, Reply, OpenDetails, ReplyDetails,
         CloseAndExit, Running
<1>3. \A K : Resets(K) => errno' \subseteq errno \cup sent
  BY DEF Resets
<1>4. Terminate => errno' \subseteq errno \cup sent
  BY <1>3 DEF Terminate
<1>5. /\ UNCHANGED <<main, newsockfd, accepted, backlog, fd, client, notes>>
      /\ errno' \subseteq errno \cup sent
  BY <1>3, <1>4
  DEF ThreadStep, OpenSource, ReceiveFile, Compile, Run, Compare, Reply, OpenDetails, ReplyDetails,
      CloseAndExit, Terminate, Close
<1>6. \/ UNCHANGED pc
      \/ \E spot \in {"receive", "compile", "run", "compare", "reply", "open", "details",
                     "close", "done"} : Goto(k, spot)
  BY DEF ThreadStep, OpenSource, ReceiveFile, Compile, Run, Compare, Reply, OpenDetails, ReplyDetails,
         CloseAndExit, Terminate, Answer
<1>7. /\ \A l \in Conns \ {k} : pc'[l] = pc[l]
      /\ pc'[k] \notin {"none", "start"} \/ UNCHANGED pc
  BY <1>1, <1>6 DEF Goto
<1>8. \/ UNCHANGED table
      \/ \E d \in Fds : table' = [table EXCEPT ![d] = NoConn]
      \/ \E d \in Fds : table' = [table EXCEPT ![d] = OpenFile]
  <2>1. CASE Opens(k)
    BY <2>1, OpensIs DEF Types
  <2>2. CASE ReplyDetails(k)
    BY <2>2 DEF ReplyDetails, Close, Terminate, Types, Descriptors
  <2>3. CASE CloseAndExit(k)
    BY <1>2, <2>3 DEF CloseAndExit, Close, Types, Descriptors
  <2>4. CASE ReceiveFile(k)
    BY <2>4 DEF ReceiveFile, Close, Terminate, Types, Descriptors
  <2>5. CASE OpenSource(k) \/ OpenDetails(k)
    BY <1>2, <2>1, <2>5 DEF OpenSource, OpenDetails, Close, Terminate, Types, Descriptors
  <2>6. CASE Compile(k) \/ Run(k) \/ Compare(k) \/ Reply(k)
    BY <2>6 DEF Compile, Run, Compare, Reply, Terminate
  <2> QED
    BY <2>2, <2>3, <2>4, <2>5, <2>6 DEF ThreadStep
<1>9. \A d \in Fds : \A l \in Conns : table'[d] = l => table[d] = l
  BY <1>1, <1>8
<1>10. /\ \A l \in Conns : avail'[l] # avail[l] => table[fd[k]] = l
       /\ \A l \in dead' : l \in dead \/ table[fd[k]] = l
  <2>1. \A m : SendTo(fd[k], m) => /\ \A l \in Conns : avail'[l] # avail[l] => table[fd[k]] = l
                                   /\ \A l \in dead' : l \in dead \/ table[fd[k]] = l
    BY <1>1 DEF SendTo
  <2>2. \/ UNCHANGED <<avail, dead>>
        \/ SendTo(fd[k], 1) \/ SendTo(fd[k], BUFFER_SIZE)
    BY DEF ThreadStep, OpenSource, ReceiveFile, Compile, Run, Compare, Reply, OpenDetails, ReplyDetails,
           CloseAndExit, Terminate
  <2> QED
    BY <2>1, <2>2
<1> QED
  BY <1>2, <1>5, <1>7, <1>9, <1>10
-----------------------------------------------------------------------------
(* Connections that are not made or not accepted yet.                      *)

LEMMA MadeOfClient ==
    ASSUME Types, Made, NEW c \in Clients, ClientStep(c)
    PROVE  Made'
<1> DEFINE k == Conn(c)
<1>1. /\ TypeOK /\ k \in Conns /\ backlog \in Seq(Conns)
      /\ \A b \in Clients : Conn(b) \in Conns /\ Owner(Conn(b)) = b
  BY ConnIs DEF Types, TypeOK
<1>2. UNCHANGED <<accepted, table, pc>>
  BY ClientKeeps
<1>3. /\ sent' \subseteq sent \cup {k} /\ dead' \subseteq dead \cup {k}
      /\ errno' \subseteq errno \cup {k}
      /\ \A l \in Conns : l # k \/ avail[l] = 0 => avail'[l] = avail[l]
      /\ \/ backlog' = backlog /\ at[c] # "connect"
         \/ backlog' = Append(backlog, k) /\ at[c] = "connect" /\ at'[c] = "send"
         \/ backlog' = backlog /\ ~up
      /\ \A b \in Clients : b # c => at'[b] = at[b] /\ Conn(b)' = Conn(b)
      /\ \A l \in Conns : Unmade(l)' => Unmade(l) /\ l # k
  BY <1>1, ClientFrame
<1>4. ASSUME at[c] = "connect"
      PROVE  /\ pc[k] = "none" /\ accepted # k /\ avail[k] = 0 /\ k \notin sent
             /\ \A i \in DOMAIN backlog : backlog[i] # k
             /\ \A d \in Fds : table[d] # k
  <2>1. Unmade(k)
    BY <1>1, <1>4 DEF Unmade
  <2> QED
    BY <1>1, <2>1 DEF Made, Fresh
<1>5. backlog' = backlog \/ (backlog' = Append(backlog, k) /\ at[c] = "connect")
  BY <1>3
<1> HIDE DEF k
<1>6. ASSUME backlog' = backlog PROVE Fresh' /\ Line'
  <2>1. Fresh'
    BY <1>2, <1>3, <1>6 DEF Made, Fresh
  <2>2. Line'
    <3>1. \A i \in DOMAIN backlog : backlog[i] \in Conns
      BY <1>1
    <3> QED
      BY <1>2, <1>3, <1>6, <3>1 DEF Made, Line
  <2> QED
    BY <2>1, <2>2
<1>7. ASSUME backlog' = Append(backlog, k), at[c] = "connect" PROVE Fresh' /\ Line'
  <2>1. /\ DOMAIN backlog' = DOMAIN backlog \cup {Len(backlog) + 1}
        /\ \A i \in DOMAIN backlog : /\ backlog'[i] = backlog[i] /\ backlog[i] \in Conns
                                     /\ i # Len(backlog) + 1
        /\ backlog'[Len(backlog) + 1] = k
    BY <1>1, <1>7
  <2>2. Fresh'
    BY <1>2, <1>3, <2>1 DEF Made, Fresh
  <2>3. Line'
    <3>1. \A i \in DOMAIN backlog' :
             /\ pc[backlog'[i]] = "none" /\ backlog'[i] # accepted
             /\ avail'[backlog'[i]] = 0 /\ \A d \in Fds : table[d] # backlog'[i]
      BY <1>1, <1>3, <1>4, <1>7, <2>1 DEF Made, Line
    <3>2. \A i, j \in DOMAIN backlog' : backlog'[i] = backlog'[j] => i = j
      BY <1>4, <1>7, <2>1 DEF Made, Line
    <3> QED
      BY <1>2, <3>1, <3>2 DEF Line
  <2> QED
    BY <2>2, <2>3
<1>8. Unsent'
  <2>1. ASSUME NEW b \in Clients, at'[b] = "send" PROVE Conn(b)' \notin sent'
    <3>1. CASE b # c
      BY <1>1, <1>3, <2>1, <3>1 DEF Made, Unsent, k
    <3>2. CASE b = c
      <4>1. Connect(c)
        <5>1. CASE SendFails(c)
          <6>1. StepOn(c) => at'[c] # "send"
            BY <1>1, ClientIsDone, <5>1 DEF SendFails
          <6>2. \A spot \in {"receive", "end"} : ClientAt(c, spot) => at'[c] # "send"
            BY <1>1 DEF ClientAt, TypeOK
          <6> QED
            BY <2>1, <3>2, <5>1, <6>1, <6>2 DEF SendFails, NextRound
        <5>2. CASE SendFile(c) \/ Receive(c) \/ ReceiveAgain(c)
          <6>1. \A spot \in {"receive", "again", "sleep"} : ClientAt(c, spot) => at'[c] # "send"
            BY <1>1 DEF ClientAt, TypeOK
          <6> QED
            BY <2>1, <3>2, <5>2, <6>1 DEF SendFile, Receive, ReceiveAgain
        <5>3. CASE ReceiveFails(c) \/ SleepAndClose(c)
          <6>1. at[c] # "end"
            BY <5>3 DEF ReceiveFails, SleepAndClose
          <6>2. StepOn(c) => at'[c] # "send"
            BY <1>1, <6>1, ClientIsDone
          <6> QED
            BY <2>1, <3>2, <5>3, <6>2 DEF ReceiveFails, SleepAndClose, NextRound
        <5> QED
          BY <5>1, <5>2, <5>3 DEF ClientStep
      <4>2. at[c] = "connect" /\ sent' = sent /\ at[c] # "end"
        BY <4>1 DEF Connect
      <4>3. round' = round
        <5>1. CASE up
          BY <4>1, <5>1 DEF Connect
        <5>2. CASE ~up
          <6>1. StepOn(c)
            BY <4>1, <5>2 DEF Connect, NextRound
          <6>2. at'[c] # "send"
            BY <1>1, <4>2, <6>1, ClientIsDone
          <6> QED
            BY <2>1, <3>2, <6>2
        <5> QED
          BY <5>1, <5>2
      <4>4. Conn(b)' = k
        BY <3>2, <4>3 DEF Conn, k
      <4> QED
        BY <1>4, <4>2, <4>4
    <3> QED
      BY <3>1, <3>2
  <2> QED
    BY <2>1 DEF Unsent
<1> QED
  BY <1>5, <1>6, <1>7, <1>8 DEF Made

LEMMA MadeOfThread ==
    ASSUME Types, Made, NEW k \in Conns, ThreadStep(k)
    PROVE  Made'
<1>1. /\ TypeOK /\ k \in Running /\ up /\ fd[k] \in Fds
      /\ UNCHANGED <<main, newsockfd, accepted, backlog, fd, client, notes>>
      /\ \A l \in Conns \ {k} : pc'[l] = pc[l]
      /\ \A d \in Fds : \A l \in Conns : table'[d] = l => table[d] = l
      /\ \A l \in Conns : avail'[l] # avail[l] => table[fd[k]] = l
      /\ \A l \in dead' : l \in dead \/ table[fd[k]] = l
      /\ errno' \subseteq errno \cup sent
  BY ThreadFrame DEF Types, Descriptors
<1>2. pc[k] # "none"
  BY <1>1 DEF Running
<1>3. Fresh'
  <2>1. ASSUME NEW l \in Conns, Unmade(l)
        PROVE  /\ pc'[l] = "none" /\ accepted # l /\ avail'[l] = 0
               /\ l \notin sent \cup dead' \cup errno'
               /\ \A i \in DOMAIN backlog : backlog[i] # l
               /\ \A d \in Fds : table'[d] # l
    <3>1. /\ pc[l] = "none" /\ accepted # l /\ avail[l] = 0
          /\ l \notin sent \cup dead \cup errno
          /\ \A i \in DOMAIN backlog : backlog[i] # l
          /\ \A d \in Fds : table[d] # l
      BY <2>1 DEF Made, Fresh
    <3> QED
      BY <1>1, <1>2, <3>1
  <2>2. \A l : Unmade(l)' <=> Unmade(l)
    BY <1>1, ClientStays
  <2> QED
    BY <1>1, <2>1, <2>2 DEF Fresh
<1>4. Line'
  <2>1. \A i \in DOMAIN backlog : backlog[i] \in Conns
    BY <1>1 DEF TypeOK
  <2>2. \A i \in DOMAIN backlog :
           /\ pc'[backlog[i]] = "none" /\ avail'[backlog[i]] = 0
           /\ \A d \in Fds : table'[d] # backlog[i]
    BY <1>1, <1>2, <2>1 DEF Made, Line
  <2> QED
    BY <1>1, <2>2 DEF Made, Line
<1>5. Unsent'
  BY <1>1 DEF Made, Unsent, Conn
<1> QED
  BY <1>3, <1>4, <1>5 DEF Made

\* What main takes from the backlog and where it puts it.
LEMMA AcceptIs ==
    ASSUME Types, Made, Accept
    PROVE  \E k \in Conns : \E d \in Fds :
              /\ up /\ main = "accept"
              /\ \E i \in DOMAIN backlog : backlog[i] = k
              /\ \A i \in DOMAIN backlog' : \E j \in DOMAIN backlog :
                    j = i + 1 /\ backlog[j] = backlog'[i] /\ backlog'[i] # k
              /\ \A j \in DOMAIN backlog : backlog[j] = k \/ \E i \in DOMAIN backlog' :
                    backlog'[i] = backlog[j]
              /\ ~Unmade(k) /\ pc[k] = "none" /\ accepted # k /\ avail[k] = 0
              /\ \A e \in Fds : table[e] # k
              /\ accepted' = k /\ newsockfd' = d /\ main' = "sleep"
              /\ table[d] = NoConn /\ table' = [table EXCEPT ![d] = k]
              /\ \/ /\ pc' = [pc EXCEPT ![k] = "start"] /\ fd' = [fd EXCEPT ![k] = d]
                    /\ UNCHANGED unserved
                 \/ UNCHANGED <<pc, fd>> /\ unserved' = unserved \cup {k}
              /\ overlapped' = IF Running = {} THEN overlapped
                               ELSE overlapped \cup Running \cup {k}
              /\ UNCHANGED <<up, fp, result, files, client, net, answers, late>>
<1> DEFINE k == Head(backlog)
           d == Min(FreeFds)
<1>1. /\ backlog \in Seq(Conns) /\ backlog # <<>> /\ backlog' = Tail(backlog)
  BY DEF Types, TypeOK, Accept
<1>2. /\ 1 \in DOMAIN backlog /\ backlog[1] = k /\ k \in Conns
      /\ \A i \in DOMAIN backlog' : /\ i + 1 \in DOMAIN backlog /\ i + 1 # 1
                                    /\ backlog'[i] = backlog[i + 1]
      /\ \A j \in DOMAIN backlog :
            j = 1 \/ (j - 1 \in DOMAIN backlog' /\ backlog'[j - 1] = backlog[j])
  <2>1. /\ Len(backlog) \in Nat /\ Len(backlog) # 0 /\ DOMAIN backlog = 1 .. Len(backlog)
        /\ Len(backlog') = Len(backlog) - 1 /\ DOMAIN backlog' = 1 .. Len(backlog')
        /\ \A i \in 1 .. Len(backlog') : backlog'[i] = backlog[i + 1]
    BY <1>1
  <2>2. 1 \in DOMAIN backlog /\ backlog[1] = k /\ k \in Conns
    BY <1>1, <2>1
  <2>3. ASSUME NEW i \in DOMAIN backlog'
        PROVE  i + 1 \in DOMAIN backlog /\ i + 1 # 1 /\ backlog'[i] = backlog[i + 1]
    BY <2>1
  <2>4. ASSUME NEW j \in DOMAIN backlog, j # 1
        PROVE  j - 1 \in DOMAIN backlog' /\ backlog'[j - 1] = backlog[j]
    <3>1. j - 1 \in 1 .. Len(backlog') /\ (j - 1) + 1 = j
      BY <2>1, <2>4
    <3> QED
      BY <2>1, <3>1
  <2> QED
    BY <2>2, <2>3, <2>4
<1>3. /\ \E i \in DOMAIN backlog : backlog[i] = k
      /\ \A i \in DOMAIN backlog' : \E j \in DOMAIN backlog :
            j = i + 1 /\ backlog[j] = backlog'[i] /\ backlog'[i] # k
      /\ \A j \in DOMAIN backlog : backlog[j] = k \/ \E i \in DOMAIN backlog' :
            backlog'[i] = backlog[j]
  BY <1>2 DEF Made, Line
<1>4. /\ ~Unmade(k) /\ pc[k] = "none" /\ accepted # k /\ avail[k] = 0
      /\ \A e \in Fds : table[e] # k
  BY <1>2 DEF Made, Line, Fresh
<1>5. d \in Fds /\ table[d] = NoConn
  BY LeastFree DEF Accept
<1>6. /\ up /\ main = "accept" /\ accepted' = k /\ newsockfd' = d /\ main' = "sleep"
      /\ table' = [table EXCEPT ![d] = k]
      /\ \/ /\ pc' = [pc EXCEPT ![k] = "start"] /\ fd' = [fd EXCEPT ![k] = d]
            /\ UNCHANGED unserved
         \/ UNCHANGED <<pc, fd>> /\ unserved' = unserved \cup {k}
      /\ overlapped' = IF Running = {} THEN overlapped
                       ELSE overlapped \cup Running \cup {k}
      /\ UNCHANGED <<up, fp, result, files, client, net, answers, late>>
  BY DEF Accept, Goto
<1> HIDE DEF k, d
<1> QED
  BY <1>2, <1>3, <1>4, <1>5, <1>6

LEMMA MadeOfMain ==
    ASSUME Types, Made, Accept \/ CloseAfterSleep
    PROVE  Made'
<1>1. \A l : Unmade(l)' <=> Unmade(l)
  BY ServerKeeps, ClientStays
<1>2. Unsent'
  BY ServerKeeps DEF Made, Unsent, Conn
<1>3. CASE Accept
  <2>1. PICK k \in Conns, d \in Fds :
              /\ \E i \in DOMAIN backlog : backlog[i] = k
              /\ \A i \in DOMAIN backlog' : \E j \in DOMAIN backlog :
                    j = i + 1 /\ backlog[j] = backlog'[i] /\ backlog'[i] # k
              /\ ~Unmade(k)
              /\ accepted' = k /\ table' = [table EXCEPT ![d] = k]
              /\ pc' = [pc EXCEPT ![k] = "start"] \/ UNCHANGED pc
              /\ UNCHANGED <<avail, sent, dead, errno>>
    BY <1>3, AcceptIs
  <2>2. /\ pc \in [Conns -> Labels] /\ table \in [Fds -> Contents] /\ backlog' \in Seq(Conns)
    <3>1. Types'
      BY <1>3, TypesOfMain
    <3> QED
      BY <3>1 DEF Types, TypeOK
  <2>3. /\ \A l \in Conns \ {k} : pc'[l] = pc[l]
        /\ \A e \in Fds : \A l \in Conns \ {k} : table'[e] = l => table[e] = l
    BY <2>1, <2>2
  <2>4. Fresh'
    <3>1. ASSUME NEW l \in Conns, Unmade(l)
          PROVE  /\ pc'[l] = "none" /\ k # l /\ avail[l] = 0
                 /\ l \notin sent \cup dead \cup errno
                 /\ \A i \in DOMAIN backlog' : backlog'[i] # l
                 /\ \A e \in Fds : table'[e] # l
      <4>1. /\ pc[l] = "none" /\ avail[l] = 0
            /\ l \notin sent \cup dead \cup errno
            /\ \A i \in DOMAIN backlog : backlog[i] # l
            /\ \A e \in Fds : table[e] # l
        BY <3>1 DEF Made, Fresh
      <4> QED
        BY <2>1, <2>3, <3>1, <4>1
    <3> QED
      BY <1>1, <2>1, <3>1 DEF Fresh
  <2>5. Line'
    <3>1. ASSUME NEW i \in DOMAIN backlog'
          PROVE  /\ pc'[backlog'[i]] = "none" /\ backlog'[i] # k /\ avail[backlog'[i]] = 0
                 /\ \A e \in Fds : table'[e] # backlog'[i]
      <4>1. PICK j \in DOMAIN backlog : backlog[j] = backlog'[i] /\ backlog'[i] # k
        BY <2>1
      <4>2. backlog'[i] \in Conns
        BY <2>2
      <4> QED
        BY <2>3, <4>1, <4>2 DEF Made, Line
    <3>2. ASSUME NEW i \in DOMAIN backlog', NEW j \in DOMAIN backlog', backlog'[i] = backlog'[j]
          PROVE  i = j
      <4>1. i + 1 = j + 1
        BY <2>1, <3>2 DEF Made, Line
      <4>2. i \in Nat /\ j \in Nat
        BY <2>2
      <4> QED
        BY <4>1, <4>2
    <3> QED
      BY <2>1, <3>1, <3>2 DEF Line
  <2> QED
    BY <1>2, <2>4, <2>5 DEF Made
<1>4. CASE CloseAfterSleep
  <2>1. /\ table' = [table EXCEPT ![newsockfd] = NoConn] /\ errno' \subseteq errno \cup sent
        /\ UNCHANGED <<accepted, backlog, pc, sent, avail, dead>>
    BY <1>4 DEF CloseAfterSleep, Close, Resets
  <2>2. \A e \in Fds : \A l \in Conns : table'[e] = l => table[e] = l
    BY <2>1, ConnsAre DEF Types, TypeOK
  <2>3. Fresh'
    BY <1>1, <2>1, <2>2 DEF Made, Fresh
  <2>4. Line'
    <3>1. \A i \in DOMAIN backlog : backlog[i] \in Conns
      BY DEF Types, TypeOK
    <3> QED
      BY <2>1, <2>2, <3>1 DEF Made, Line
  <2> QED
    BY <1>2, <2>3, <2>4 DEF Made
<1> QED
  BY <1>3, <1>4
-----------------------------------------------------------------------------
(* Verdicts.                                                               *)

\* What a program deserves.
LEMMA DeservedIs ==
    ASSUME NEW k \in Conns
    PROVE  /\ Program(k) \in {"uncompilable", "failing", "wrong", "right"}
           /\ Program(k) = "uncompilable" => VerdictOf(Owner(k)) = "COMPILER ERROR"
           /\ Program(k) = "failing" => VerdictOf(Owner(k)) = "RUNTIME ERROR"
           /\ Program(k) = "wrong" => VerdictOf(Owner(k)) = "Wrong output"
           /\ Program(k) = "right" => VerdictOf(Owner(k)) = "PASSED"
<1> DEFINE c == Owner(k)
<1>1. c \in Clients
  BY ConnsAre DEF Owner
<1>2. ProgramOf(c) \in {"uncompilable", "failing", "wrong", "right"}
  BY <1>1, SharedFilesAssumption DEF Programs
<1>3. /\ "uncompilable" # "failing" /\ "uncompilable" # "wrong" /\ "uncompilable" # "right"
      /\ "failing" # "wrong" /\ "failing" # "right" /\ "wrong" # "right"
  OBVIOUS
<1> HIDE DEF c
<1>4. ProgramOf(c) = "uncompilable" => VerdictOf(c) = "COMPILER ERROR"
  BY <1>3, Zenon DEF VerdictOf
<1>5. ProgramOf(c) = "failing" => VerdictOf(c) = "RUNTIME ERROR"
  BY <1>3, Zenon DEF VerdictOf
<1>6. ProgramOf(c) = "wrong" => VerdictOf(c) = "Wrong output"
  BY <1>3, Zenon DEF VerdictOf
<1>7. ProgramOf(c) = "right" => VerdictOf(c) = "PASSED"
  BY <1>3, Zenon DEF VerdictOf
<1> QED
  BY <1>2, <1>4, <1>5, <1>6, <1>7, Zenon DEF c, Program

LEMMA OwnOfThread ==
    ASSUME Types, NEW k \in Conns, ThreadStep(k), Running = {k}, Own(k)
    PROVE  Own(k)'
<1>1. /\ pc \in [Conns -> Labels] /\ result \in [Conns -> Verdicts \cup {NoAnswer}]
      /\ k # None
  BY SharedFilesAssumption DEF Types, TypeOK
<1>2. \A spot : Goto(k, spot) => pc'[k] = spot
  BY <1>1 DEF Goto
<1>3. \A verdict : Answer(k, verdict) => pc'[k] = "reply" /\ result'[k] = verdict
  BY <1>1 DEF Answer, Goto
<1>4. Terminate => Own(k)'
  BY DEF Terminate, Own
<1>5. CASE ReceiveFile(k)
  <2>1. pc[k] = "receive" /\ table[fd[k]] = k /\ table[fp[k]] = OpenFile
    BY <1>5 DEF ReceiveFile, Own
  <2>2. Writable(k)
    BY <2>1 DEF Writable
  <2>3. file_c' = k /\ Goto(k, "compile")
    BY <1>5, <2>1, <2>2 DEF ReceiveFile
  <2> QED
    BY <1>2, <2>3 DEF Own
<1>6. CASE Compile(k)
  <2>1. pc[k] = "compile" /\ file_c = k
    BY <1>6 DEF Compile, Own
  <2>2. CASE Program(k) = "uncompilable"
    <3>1. Answer(k, "COMPILER ERROR")
      BY <1>6, <2>1, <2>2, Zenon DEF Compile
    <3>2. pc'[k] = "reply" /\ result'[k] = VerdictOf(Owner(k))
      BY <1>3, <2>2, <3>1, DeservedIs, Zenon
    <3> QED
      BY <3>2 DEF Own
  <2>3. CASE Program(k) # "uncompilable"
    <3>1. exe' = k /\ Goto(k, "run")
      BY <1>1, <1>6, <2>1, <2>3, Zenon DEF Compile
    <3>2. Program(k)' = Program(k)
      BY DEF Program, Owner
    <3> QED
      BY <1>2, <2>3, <3>1, <3>2 DEF Own
  <2> QED
    BY <2>2, <2>3
<1>7. CASE Run(k)
  <2>1. pc[k] = "run" /\ exe = k /\ Program(k) # "uncompilable"
    BY <1>7 DEF Run, Own
  <2>2. CASE Program(k) = "failing"
    <3>1. Answer(k, "RUNTIME ERROR")
      BY <1>7, <2>1, <2>2, Zenon DEF Run
    <3>2. pc'[k] = "reply" /\ result'[k] = VerdictOf(Owner(k))
      BY <1>3, <2>2, <3>1, DeservedIs, Zenon
    <3> QED
      BY <3>2 DEF Own
  <2>3. CASE Program(k) # "failing"
    <3>1. out' = k /\ Goto(k, "compare")
      BY <1>1, <1>7, <2>1, <2>3, Zenon DEF Run
    <3>2. Program(k)' = Program(k)
      BY DEF Program, Owner
    <3> QED
      BY <1>2, <2>1, <2>3, <3>1, <3>2 DEF Own
  <2> QED
    BY <2>2, <2>3
<1>8. CASE Compare(k)
  <2>1. pc[k] = "compare" /\ out = k /\ Program(k) \notin {"uncompilable", "failing"}
    BY <1>8 DEF Compare, Own
  <2>2. Answer(k, IF Program(k) = "right" THEN "PASSED" ELSE "Wrong output")
    BY <1>1, <1>8, <2>1, Zenon DEF Compare
  <2>3. (IF Program(k) = "right" THEN "PASSED" ELSE "Wrong output") = VerdictOf(Owner(k))
    <3>1. Program(k) \in {"wrong", "right"}
      BY <2>1, DeservedIs, Zenon
    <3> QED
      BY <3>1, DeservedIs, Zenon
  <2>4. pc'[k] = "reply" /\ result'[k] = VerdictOf(Owner(k))
    BY <1>3, <2>2, <2>3, Zenon
  <2> QED
    BY <2>4 DEF Own
<1>9. CASE Reply(k) \/ OpenDetails(k) \/ ReplyDetails(k) \/ CloseAndExit(k)
  <2>1. \/ Terminate
        \/ \E spot \in {"open", "details", "close", "done"} : Goto(k, spot)
    BY <1>9 DEF Reply, OpenDetails, ReplyDetails, CloseAndExit
  <2> QED
    BY <1>2, <1>4, <2>1 DEF Own
<1>10. CASE OpenSource(k)
  <2>1. table[fd[k]] = k /\ fd[k] \in Fds /\ UNCHANGED fd
    <3>1. pc[k] = "start" /\ UNCHANGED fd
      BY <1>10 DEF OpenSource
    <3>2. k \in Running
      BY <3>1 DEF Running
    <3> QED
      BY <3>1, <3>2 DEF Own, Types, Descriptors
  <2>2. CASE Opens(k) /\ Goto(k, "receive")
    <3>1. PICK d \in Fds : /\ table[d] = NoConn /\ table' = [table EXCEPT ![d] = OpenFile]
                           /\ fp'[k] = d
      BY <2>2, OpensIs DEF Types
    <3>2. table'[fd[k]] = k /\ table'[fp'[k]] = OpenFile
      BY <2>1, <3>1, ConnsAre DEF Types, TypeOK
    <3> QED
      BY <1>2, <2>1, <2>2, <3>2 DEF Own
  <2>3. CASE Goto(k, "done")
    BY <1>2, <2>3 DEF Own
  <2> QED
    BY <1>10, <2>2, <2>3 DEF OpenSource
<1> QED
  BY <1>5, <1>6, <1>7, <1>8, <1>9, <1>10 DEF ThreadStep

LEMMA GradingsOfThread ==
    ASSUME Types, Gradings, NEW k \in Conns, ThreadStep(k)
    PROVE  Gradings'
<1>1. /\ k \in Running
      /\ UNCHANGED <<accepted, fd, notes>>
      /\ \A l \in Conns \ {k} : pc'[l] = pc[l]
      /\ \A d \in Fds : \A l \in Conns : table'[d] = l => table[d] = l
      /\ \A l \in Running : fd[l] \in Fds
  BY ThreadFrame DEF Types, Descriptors
<1>2. Running' \subseteq Running
  BY <1>1 DEF Running
<1>3. Single'
  <2>1. ASSUME NEW l \in Running', l \notin overlapped
        PROVE  Running' = {l} /\ accepted = l /\ Own(l)'
    <3>1. Running = {l} /\ accepted = l /\ Own(l) /\ l = k
      BY <1>1, <1>2, <2>1 DEF Gradings, Single
    <3>2. Own(l)'
      BY <3>1, OwnOfThread
    <3> QED
      BY <1>2, <2>1, <3>1, <3>2
  <2> QED
    BY <1>1, <2>1 DEF Single
<1>4. Strays'
  BY <1>1, <1>2 DEF Gradings, Strays
<1>5. VerdictUnlessOverlapped'
  <2>1. CASE UNCHANGED answers
    BY <1>1, <2>1 DEF Gradings, VerdictUnlessOverlapped
  <2>2. CASE Reply(k) /\ ~Terminate
    <3>1. /\ pc[k] = "reply" /\ table[fd[k]] \in Conns
          /\ answers' = [answers EXCEPT ![table[fd[k]]] = @ \cup {result[k]}]
      BY <2>2 DEF Reply, SendTo
    <3>2. k \notin overlapped => result[k] = VerdictOf(Owner(k))
      BY <1>1, <3>1 DEF Gradings, Single, Own
    <3>3. table[fd[k]] = k \/ table[fd[k]] \in overlapped
      BY <1>1, <3>1 DEF Gradings, Strays
    <3>4. answers \in [Conns -> SUBSET Verdicts]
      BY DEF Types, TypeOK
    <3>5. ASSUME NEW l \in Conns, l \notin overlapped
          PROVE  answers'[l] \subseteq {VerdictOf(Owner(l))}
      <4>1. answers[l] \subseteq {VerdictOf(Owner(l))}
        BY <3>5 DEF Gradings, VerdictUnlessOverlapped
      <4>2. answers'[l] = answers[l] \/ (l = k /\ answers'[l] = answers[l] \cup {result[l]})
        BY <3>1, <3>3, <3>4, <3>5
      <4> QED
        BY <3>2, <3>5, <4>1, <4>2
    <3> QED
      BY <1>1, <3>5 DEF VerdictUnlessOverlapped
  <2>3. UNCHANGED answers \/ (Reply(k) /\ ~Terminate)
    BY DEF ThreadStep, OpenSource, ReceiveFile, Compile, Run, Compare, Reply, OpenDetails, ReplyDetails,
           CloseAndExit, Terminate
  <2> QED
    BY <2>1, <2>2, <2>3
<1> QED
  BY <1>3, <1>4, <1>5 DEF Gradings

LEMMA GradingsOfMain ==
    ASSUME Types, Made, Gradings, Accept \/ CloseAfterSleep
    PROVE  Gradings'
<1>1. CASE Accept
  <2>1. PICK k \in Conns, d \in Fds :
              /\ pc[k] = "none" /\ accepted' = k
              /\ table' = [table EXCEPT ![d] = k]
              /\ \/ /\ pc' = [pc EXCEPT ![k] = "start"] /\ fd' = [fd EXCEPT ![k] = d]
                 \/ UNCHANGED <<pc, fd>>
              /\ overlapped' = IF Running = {} THEN overlapped
                               ELSE overlapped \cup Running \cup {k}
              /\ UNCHANGED <<answers>>
    BY <1>1, AcceptIs
  <2>2. /\ pc \in [Conns -> Labels] /\ table \in [Fds -> Contents]
        /\ fd \in [Conns -> Fds \cup {0}]
    BY DEF Types, TypeOK
  <2>3. /\ \A l \in Running' \ {k} : l \in Running /\ fd'[l] = fd[l]
        /\ k \in Running' => pc'[k] = "start" /\ table'[fd'[k]] = k
    BY <2>1, <2>2 DEF Running
  <2>4. \A l \in Running : fd[l] \in Fds
    BY DEF Types, Descriptors
  <2>5. Single'
    <3>1. CASE Running = {}
      <4>1. \A l \in Running' : l = k /\ Own(l)'
        BY <2>3, <3>1 DEF Own
      <4> QED
        BY <2>1, <4>1 DEF Single
    <3>2. CASE Running # {}
      <4>1. Running' \subseteq overlapped'
        BY <2>1, <2>3, <3>2
      <4> QED
        BY <4>1 DEF Single
    <3> QED
      BY <3>1, <3>2
  <2>6. Strays'
    <3>1. ASSUME NEW m \in Running', NEW l \in Conns, table'[fd'[m]] = l, l # m
          PROVE  l \in overlapped'
      <4>1. m # k /\ m \in Running /\ fd'[m] = fd[m] /\ fd[m] \in Fds
        BY <2>3, <2>4, <3>1
      <4>2. l = k \/ table[fd[m]] = l
        BY <2>1, <2>2, <3>1, <4>1
      <4> QED
        BY <2>1, <3>1, <4>1, <4>2 DEF Gradings, Strays
    <3> QED
      BY <3>1 DEF Strays
  <2>7. VerdictUnlessOverlapped'
    BY <2>1 DEF Gradings, VerdictUnlessOverlapped
  <2> QED
    BY <2>5, <2>6, <2>7 DEF Gradings
<1>2. CASE CloseAfterSleep
  <2>1. /\ table' = [table EXCEPT ![newsockfd] = NoConn] /\ pc[accepted] \notin {"start", "receive"}
        /\ UNCHANGED <<accepted, threads, files, answers, overlapped>>
    BY <1>2 DEF CloseAfterSleep, Close, SleepIsOver
  <2>2. \A e \in Fds : \A l \in Conns : table'[e] = l => table[e] = l
    BY <2>1, ConnsAre DEF Types, TypeOK
  <2>3. Running' = Running
    BY <2>1 DEF Running
  <2>4. Single'
    <3>1. ASSUME NEW l \in Running \ overlapped PROVE Own(l)'
      BY <2>1, <3>1 DEF Gradings, Single, Own
    <3> QED
      BY <2>1, <2>3, <3>1 DEF Gradings, Single
  <2>5. Strays'
    BY <2>1, <2>2, <2>3 DEF Gradings, Strays, Types, Descriptors
  <2>6. VerdictUnlessOverlapped'
    BY <2>1 DEF Gradings, VerdictUnlessOverlapped
  <2> QED
    BY <2>4, <2>5, <2>6 DEF Gradings
<1> QED
  BY <1>1, <1>2

LEMMA GradingsOfClient ==
    ASSUME Gradings, NEW c \in Clients, ClientStep(c)
    PROVE  Gradings'
<1>1. UNCHANGED <<accepted, table, threads, files, answers, overlapped>>
  BY ClientKeeps
<1>2. Single' /\ Strays'
  BY <1>1 DEF Gradings, Single, Strays, Own, Running
<1>3. VerdictUnlessOverlapped'
  BY <1>1 DEF Gradings, VerdictUnlessOverlapped
<1> QED
  BY <1>2, <1>3 DEF Gradings
-----------------------------------------------------------------------------
(* What gradings that do not overlap share.                                *)

LEMMA SharingOfClient ==
    ASSUME Sharing, NEW c \in Clients, ClientStep(c)
    PROVE  Sharing'
<1>1. UNCHANGED <<main, newsockfd, accepted, table, pc, fd, fp, late, unserved, overlapped>>
  BY ClientKeeps
<1> QED
  BY <1>1 DEF Sharing, Alone, Lateness, Running

LEMMA SharingOfThread ==
    ASSUME Types, Sharing, NEW k \in Conns, ThreadStep(k)
    PROVE  Sharing'
<1>1. /\ UNCHANGED <<main, newsockfd, accepted, fd, late, unserved, overlapped>>
      /\ k \in Running /\ \A l \in Conns \ {k} : pc'[l] = pc[l]
  BY ThreadFrame
<1>2. Lateness'
  BY <1>1 DEF Sharing, Lateness
<1>3. ASSUME overlapped = {} PROVE Alone'
  <2>1. /\ pc \in [Conns -> Labels] /\ table \in [Fds -> Contents]
        /\ fp \in [Conns -> Fds \cup {0}]
        /\ OpenFile \notin Conns /\ NoConn \notin Conns /\ NoConn # OpenFile
        /\ main = "sleep" => newsockfd \in Fds
        /\ pc[k] \in {"receive", "details"} => fp[k] \in Fds
        /\ fd[k] \in Fds
    BY <1>1, ConnsAre DEF Types, TypeOK, Descriptors
  <2>2. /\ Running \subseteq {accepted} /\ accepted = k
        /\ \A d \in Fds : table[d] \in {NoConn, OpenFile, k}
        /\ \A d \in Fds : table[d] = OpenFile => pc[k] \in {"receive", "details"} /\ d = fp[k]
        /\ \A d \in Fds : table[d] = k => main = "sleep" /\ d = newsockfd
        /\ main = "sleep" /\ pc[k] # "done" => table[newsockfd] = k
        /\ fd[k] = newsockfd
        /\ main = "accept" => k \in late
        /\ pc[k] \in {"receive", "details"} => table[fp[k]] = OpenFile
    <3>1. accepted = k
      BY <1>1, <1>3 DEF Sharing, Alone
    <3> QED
      BY <1>1, <1>3, <3>1 DEF Sharing, Alone
  <2>3. pc[k] \notin {"none", "done"}
    BY <1>1 DEF Running
  <2>4. Running' \subseteq Running
    BY <1>1 DEF Running
  <2>5. SUFFICES
           /\ pc'[k] # "none"
           /\ \A d \in Fds : table'[d] \in {NoConn, OpenFile, k}
           /\ \A d \in Fds : table'[d] = OpenFile =>
                 pc'[k] \in {"receive", "details"} /\ d = fp'[k]
           /\ \A d \in Fds : table'[d] = k => table[d] = k
           /\ main = "sleep" /\ pc'[k] # "done" => table'[newsockfd] = k
           /\ pc'[k] \in {"receive", "details"} => table'[fp'[k]] = OpenFile
    BY <1>1, <2>2, <2>4 DEF Alone
  <2>6. \A spot : Goto(k, spot) => pc'[k] = spot
    BY <2>1 DEF Goto
  <2>7. CASE Terminate
    BY <2>1, <2>2, <2>3, <2>7 DEF Terminate
  <2>8. CASE ~Terminate /\ (Compile(k) \/ Run(k) \/ Compare(k) \/ Reply(k))
    <3>1. UNCHANGED table /\ pc[k] \notin {"receive", "details"}
      BY <2>8 DEF Compile, Run, Compare, Reply
    <3>2. \E spot \in {"run", "compare", "reply", "open"} : Goto(k, spot)
      BY <2>8 DEF Compile, Run, Compare, Reply, Answer
    <3> QED
      BY <2>1, <2>2, <2>3, <2>6, <3>1, <3>2
  <2>9. CASE Opens(k) /\ pc[k] \in {"start", "open"} /\ pc'[k] \in {"receive", "details"}
    <3>1. PICK d \in Fds : /\ table[d] = NoConn /\ table' = [table EXCEPT ![d] = OpenFile]
                           /\ fp'[k] = d
      BY <2>9, OpensIs DEF Types
    <3> QED
      BY <2>1, <2>2, <2>9, <3>1
  <2>12. CASE OpenSource(k)
    <3>1. pc[k] = "start"
      BY <2>12 DEF OpenSource
    <3>2. CASE Close(fd[k]) /\ Goto(k, "done")
      <4>1. table' = [table EXCEPT ![fd[k]] = NoConn] /\ pc'[k] = "done"
        BY <2>6, <3>2 DEF Close
      <4> QED
        BY <2>1, <2>2, <3>1, <4>1
    <3> QED
      BY <2>6, <2>9, <2>12, <3>1, <3>2 DEF OpenSource
  <2>13. CASE ReceiveFile(k) /\ ~Terminate
    <3>1. pc[k] = "receive" /\ table' = [table EXCEPT ![fp[k]] = NoConn] /\ pc'[k] = "compile"
      BY <2>6, <2>13 DEF ReceiveFile, Close
    <3> QED
      BY <2>1, <2>2, <3>1
  <2>14. CASE OpenDetails(k) /\ ~Terminate
    BY <2>6, <2>9, <2>14 DEF OpenDetails
  <2>10. CASE ReplyDetails(k) /\ ~Terminate
    <3>1. pc[k] = "details" /\ table' = [table EXCEPT ![fp[k]] = NoConn] /\ pc'[k] = "close"
      BY <2>6, <2>10 DEF ReplyDetails, Close
    <3> QED
      BY <2>1, <2>2, <3>1
  <2>11. CASE CloseAndExit(k)
    <3>1. pc[k] = "close" /\ table' = [table EXCEPT ![fd[k]] = NoConn] /\ pc'[k] = "done"
      BY <2>6, <2>11 DEF CloseAndExit, Close
    <3> QED
      BY <2>1, <2>2, <3>1
  <2> QED
    BY <2>7, <2>8, <2>10, <2>11, <2>12, <2>13, <2>14 DEF ThreadStep
<1>4. Alone'
  BY <1>1, <1>3 DEF Alone
<1> QED
  BY <1>2, <1>4 DEF Sharing

\* Main accepts alone when nothing is open.
LEMMA NothingIsOpen ==
    ASSUME Types, Sharing, main = "accept", overlapped = {}, Running = {}
    PROVE  \A d \in Fds : table[d] = NoConn
<1>1. accepted \in Conns \/ accepted = NoConn
  BY DEF Types, TypeOK
<1>2. accepted \in Conns => pc[accepted] \notin {"receive", "details"}
  BY DEF Running
<1> QED
  BY <1>1, <1>2 DEF Sharing, Alone

LEMMA SharingOfMain ==
    ASSUME Types, Made, Sharing, Accept \/ CloseAfterSleep
    PROVE  Sharing'
<1>1. /\ pc \in [Conns -> Labels] /\ table \in [Fds -> Contents]
      /\ fd \in [Conns -> Fds \cup {0}] /\ accepted \in Conns \cup {NoConn}
      /\ OpenFile \notin Conns /\ NoConn \notin Conns /\ NoConn # OpenFile
      /\ main = "sleep" => newsockfd \in Fds /\ accepted \in Conns
      /\ \A l \in Conns : pc[l] \in {"receive", "details"} => fp[l] \in Fds
  BY ConnsAre DEF Types, TypeOK, Descriptors
<1>2. CASE Accept
  <2>1. PICK k \in Conns, d \in Fds :
              /\ main = "accept" /\ pc[k] = "none" /\ accepted' = k /\ newsockfd' = d
              /\ main' = "sleep"
              /\ table' = [table EXCEPT ![d] = k]
              /\ \/ /\ pc' = [pc EXCEPT ![k] = "start"] /\ fd' = [fd EXCEPT ![k] = d]
                    /\ UNCHANGED unserved
                 \/ UNCHANGED <<pc, fd>> /\ unserved' = unserved \cup {k}
              /\ overlapped' = IF Running = {} THEN overlapped
                               ELSE overlapped \cup Running \cup {k}
              /\ UNCHANGED <<late>>
    BY <1>2, AcceptIs
  <2>2. Running' \subseteq Running \cup {k} /\ (k \in Running' => pc'[k] = "start" /\ fd'[k] = d)
    BY <1>1, <2>1 DEF Running
  <2>3. late = {} => Running = {}
    <3>1. ASSUME late = {}, NEW l \in Running PROVE FALSE
      BY <2>1, <3>1 DEF Sharing, Alone, Lateness
    <3> QED
      BY <3>1
  <2>4. Lateness'
    BY <2>1, <2>3 DEF Sharing, Lateness
  <2>5. ASSUME overlapped' = {} PROVE Alone'
    <3>1. Running = {} /\ overlapped = {}
      BY <2>1, <2>5
    <3>2. \A e \in Fds : table[e] = NoConn
      BY <2>1, <3>1, NothingIsOpen
    <3>3. \A e \in Fds : IF e = d THEN table'[e] = k ELSE table'[e] = NoConn
      BY <1>1, <2>1, <3>2
    <3>4. pc'[k] \in {"none", "start", "receive"} /\ (pc'[k] = "none" => k \in unserved')
      BY <1>1, <2>1
    <3> QED
      BY <1>1, <2>1, <2>2, <3>1, <3>3, <3>4 DEF Alone
  <2> QED
    BY <2>4, <2>5 DEF Sharing, Alone
<1>3. CASE CloseAfterSleep
  <2>1. /\ table' = [table EXCEPT ![newsockfd] = NoConn] /\ main = "sleep" /\ main' = "accept"
        /\ late' = IF pc[accepted] \in {"none", "done"} THEN late ELSE late \cup {accepted}
        /\ pc[accepted] \in {"none", "done"} \/ Owner(accepted) \in Slow
        /\ UNCHANGED <<newsockfd, accepted, threads, overlapped, unserved>>
    BY <1>3 DEF CloseAfterSleep, Close, SleepIsOver
  <2>2. Lateness'
    BY <2>1 DEF Sharing, Lateness
  <2>3. ASSUME overlapped = {} PROVE Alone'
    <3>1. \A e \in Fds : IF e = newsockfd THEN table'[e] = NoConn ELSE table'[e] = table[e]
      BY <1>1, <2>1
    <3>2. accepted \in Running => pc[accepted] # "done" /\ accepted \in late'
      BY <2>1 DEF Running
    <3>3. accepted \in Running /\ pc[accepted] \in {"receive", "details"} => fp[accepted] # newsockfd
      BY <1>1, <2>1, <2>3, <3>2 DEF Sharing, Alone
    <3>4. Running' = Running
      BY <2>1 DEF Running
    <3> QED
      BY <1>1, <2>1, <2>3, <3>1, <3>2, <3>3, <3>4 DEF Sharing, Alone
  <2> QED
    BY <2>1, <2>2, <2>3 DEF Sharing, Alone
<1> QED
  BY <1>2, <1>3

\* A thread that is alone reaches no other connection.
LEMMA LoneThread ==
    ASSUME Types, Sharing, overlapped = {}, NEW k \in Conns, ThreadStep(k)
    PROVE  /\ accepted = k /\ fd[k] = newsockfd /\ fd[k] \in Fds
           /\ main = "accept" => k \in late
           /\ main = "sleep" => table[fd[k]] = k
           /\ table[fd[k]] \in {k, NoConn, OpenFile}
           /\ \A l \in Conns \ {k} :
                 /\ avail'[l] = avail[l] /\ (l \in dead' => l \in dead)
                 /\ up' => (l \in errno' <=> l \in errno)
<1>1. /\ k \in Running /\ fd[k] \in Fds /\ up
      /\ \A l \in Conns : avail'[l] # avail[l] => table[fd[k]] = l
      /\ \A l \in dead' : l \in dead \/ table[fd[k]] = l
  BY ThreadFrame DEF Types, Descriptors
<1>2. pc[k] # "done" /\ OpenFile \notin Conns /\ NoConn \notin Conns /\ sent \subseteq Conns
  BY <1>1, ConnsAre DEF Running, Types, TypeOK
<1>3. accepted = k
  BY <1>1 DEF Sharing, Alone
<1>4. /\ fd[k] = newsockfd
      /\ main = "accept" => k \in late
      /\ main = "sleep" => table[fd[k]] = k
      /\ table[fd[k]] \in {k, NoConn, OpenFile}
      /\ pc[k] \in {"receive", "details"} => table[fp[k]] = OpenFile
  BY <1>1, <1>2, <1>3 DEF Sharing, Alone
<1>5. \A l \in Conns \ {k} : avail'[l] = avail[l] /\ (l \in dead' => l \in dead)
  BY <1>1, <1>2, <1>4
<1>6. \/ ~up' \/ UNCHANGED errno
      \/ pc[k] \in {"receive", "details"} /\ Resets({table[fp[k]]})
      \/ Resets({table[fd[k]]})
  BY DEF ThreadStep, OpenSource, ReceiveFile, Compile, Run, Compare, Reply, OpenDetails, ReplyDetails,
         CloseAndExit, Terminate, Close
<1>7. \A x : Resets({x}) => \A l \in errno' : l \in errno \/ l = x
  BY DEF Resets
<1>8. \A x : Resets({x}) => errno \subseteq errno'
  BY DEF Resets
<1>9. up' => \A l \in Conns \ {k} : l \in errno' <=> l \in errno
  BY <1>2, <1>4, <1>6, <1>7, <1>8
<1> QED
  BY <1>1, <1>3, <1>4, <1>5, <1>9

\* A thread that is alone finds a descriptor for its file.
LEMMA LoneThreadOpens ==
    ASSUME Types, Sharing, overlapped = {}, NEW k \in Running, pc[k] \in {"start", "open"}
    PROVE  FreeFds # {}
<1>1. /\ table \in [Fds -> Contents] /\ pc \in [Conns -> Labels] /\ k \in Conns
      /\ IsFiniteSet(Fds) /\ Cardinality(Fds) > 1
  BY SharedFilesAssumption DEF Types, TypeOK, Running
<1>2. accepted = k
  BY DEF Sharing, Alone
<1>3. \A d \in Fds : table[d] = NoConn \/ d = newsockfd
  BY <1>1, <1>2 DEF Sharing, Alone
<1>4. Fds # {} /\ Fds # {newsockfd}
  BY <1>1, FS_EmptySet, FS_Singleton
<1>5. PICK d \in Fds : d # newsockfd
  BY <1>4
<1> QED
  BY <1>3, <1>5 DEF FreeFds

-----------------------------------------------------------------------------
(* What the server ends for.                                               *)

LEMMA ServerStaysUp ==
    ASSUME Types, Sharing, Patient, timedOut = {}, late = {}, NEW k \in Conns, ThreadStep(k)
    PROVE  up' /\ accepted = k /\ main = "sleep" /\ table[fd[k]] = k
<1>1. overlapped = {} /\ k \in Running /\ up
  BY ThreadFrame DEF Sharing, Lateness
<1>2. /\ accepted = k /\ main \in {"accept", "sleep"} /\ pc[k] # "done"
      /\ main = "accept" => k \in late
      /\ main = "sleep" => table[fd[k]] = k
  BY <1>1, LoneThread DEF Types, TypeOK, Running
<1>3. main = "sleep" /\ table[fd[k]] = k
  BY <1>2
<1>4. pc[k] \in {"reply", "details"} => k \notin dead
  BY <1>1, <1>2, <1>3 DEF Patient, Served
<1>6. OpenDetails(k) => FreeFds # {}
  BY <1>1, LoneThreadOpens DEF OpenDetails
<1>7. table[fd[k]] \in Conns
  BY <1>3
<1>5. up'
  BY <1>1, <1>3, <1>4, <1>6, <1>7
  DEF ThreadStep, OpenSource, ReceiveFile, Compile, Run, Compare, Reply, OpenDetails, ReplyDetails,
      CloseAndExit, SendMayFail, Terminate
<1> QED
  BY <1>2, <1>3, <1>5

LEMMA PatientOfThread ==
    ASSUME Types, Made, Sharing, Patient, NEW k \in Conns, ThreadStep(k)
    PROVE  Patient'
<1>1. /\ UNCHANGED <<main, accepted, backlog, client, late>> /\ k \in Running /\ up
  BY ThreadFrame
<1>2. SUFFICES ASSUME timedOut = {}, late = {} PROVE Patient'
  BY <1>1 DEF Patient
<1>3. up' /\ accepted = k /\ main = "sleep" /\ table[fd[k]] = k /\ overlapped = {}
  BY <1>2, ServerStaysUp DEF Sharing, Lateness
<1>4. /\ \A l \in Conns \ {k} : avail'[l] = avail[l] /\ (l \in dead' => l \in dead)
                                /\ (l \in errno' <=> l \in errno)
      /\ \A l : Gone(l)' <=> Gone(l)
  BY <1>1, <1>3, LoneThread, ClientStays
<1>5. pc[k] \notin {"none", "done"} /\ pc \in [Conns -> Labels] /\ avail \in [Conns -> Nat]
  BY <1>1 DEF Running, Types, TypeOK
<1>6. ~Waits(k)
  BY <1>5 DEF Waits, Made, Line
<1>7. \A l \in Conns : Waits(l)' <=> Waits(l)
  BY <1>1 DEF Waits
<1>8. ASSUME NEW l \in Conns, Waits(l)
      PROVE  avail'[l] = 0 /\ l \notin dead' \cup errno' /\ ~Gone(l)' /\ at'[Owner(l)] # "sleep"
  <2>1. avail[l] = 0 /\ l \notin dead \cup errno /\ ~Gone(l) /\ at[Owner(l)] # "sleep"
    BY <1>1, <1>2, <1>8 DEF Patient
  <2> QED
    BY <1>1, <1>4, <1>6, <1>8, <2>1
<1>9. \A spot : Goto(k, spot) => pc'[k] = spot
  BY <1>5 DEF Goto
<1>10. /\ pc[k] \in {"start", "receive", "compile", "run", "compare", "reply"} =>
             avail[k] = 0 /\ k \notin dead \cup errno /\ ~Gone(k) /\ at[Owner(k)] # "sleep"
       /\ pc[k] \in {"open", "details"} =>
             /\ avail[k] \in {0, 1} /\ k \notin dead \cup errno
             /\ avail[k] = 1 => ~Gone(k) /\ at[Owner(k)] # "sleep"
  BY <1>1, <1>2, <1>3, <1>5 DEF Patient, Served
<1>11. /\ pc'[k] \in {"start", "receive", "compile", "run", "compare", "reply"} =>
             avail'[k] = 0 /\ k \notin dead' \cup errno' /\ ~Gone(k) /\ at[Owner(k)] # "sleep"
       /\ pc'[k] \in {"open", "details"} =>
             /\ avail'[k] \in {0, 1} /\ k \notin dead' \cup errno'
             /\ avail'[k] = 1 => ~Gone(k) /\ at[Owner(k)] # "sleep"
  <2>1. CASE Compile(k) \/ Run(k) \/ Compare(k)
    <3>1. /\ pc[k] \in {"compile", "run", "compare"}
          /\ UNCHANGED <<avail, dead, errno>>
      BY <1>3, <2>1 DEF Compile, Run, Compare
    <3>2. \E spot \in {"run", "compare", "reply"} : Goto(k, spot)
      BY <1>3, <2>1 DEF Compile, Run, Compare, Answer
    <3> QED
      BY <1>9, <1>10, <3>1, <3>2
  <2>5. CASE ReceiveFile(k)
    <3>1. /\ pc[k] = "receive" /\ Resets({table[fp[k]]}) /\ pc'[k] = "compile"
          /\ UNCHANGED <<avail, dead>>
      BY <1>3, <1>9, <2>5 DEF ReceiveFile, Close, Terminate
    <3>2. table[fp[k]] = OpenFile
      BY <1>1, <1>3, <3>1 DEF Sharing, Alone
    <3>3. errno' \subseteq errno
      BY <3>1, <3>2, ConnsAre DEF Resets, Types, TypeOK
    <3> QED
      BY <1>10, <3>1, <3>3
  <2>6. CASE OpenSource(k)
    <3>1. /\ pc[k] = "start" /\ UNCHANGED <<avail, dead>>
          /\ pc'[k] = "done" \/ (pc'[k] = "receive" /\ UNCHANGED errno)
      BY <1>9, <2>6 DEF OpenSource
    <3> QED
      BY <1>10, <3>1
  <2>2. CASE Reply(k)
    <3>1. pc[k] = "reply" /\ SendTo(fd[k], 1) /\ UNCHANGED errno /\ pc'[k] = "open"
      BY <1>3, <1>9, <2>2 DEF Reply, Terminate
    <3>2. avail' = [avail EXCEPT ![k] = @ + 1] /\ UNCHANGED dead
      BY <1>3, <1>10, <3>1 DEF SendTo
    <3>3. avail'[k] = 1
      BY <1>5, <1>10, <3>1, <3>2
    <3> QED
      BY <1>10, <3>1, <3>2, <3>3
  <2>3. CASE OpenDetails(k)
    <3>1. pc[k] = "open" /\ pc'[k] = "details" /\ UNCHANGED <<avail, dead, errno>>
      BY <1>3, <1>9, <2>3 DEF OpenDetails, Terminate
    <3> QED
      BY <1>10, <3>1
  <2>4. CASE ReplyDetails(k) \/ CloseAndExit(k)
    <3>1. pc'[k] \in {"close", "done"}
      BY <1>3, <1>9, <2>4 DEF ReplyDetails, CloseAndExit, Terminate
    <3> QED
      BY <3>1
  <2> QED
    BY <2>1, <2>2, <2>3, <2>4, <2>5, <2>6 DEF ThreadStep
<1>12. \A l \in Conns : Served(l)' => l = k
  BY <1>1, <1>3 DEF Served
<1> QED
  BY <1>1, <1>4, <1>6, <1>7, <1>8, <1>11, <1>12 DEF Patient

LEMMA PatientOfMain ==
    ASSUME Types, Made, Sharing, Patient, Accept \/ CloseAfterSleep
    PROVE  Patient'
<1>1. UNCHANGED <<up, client, avail, dead>>
  BY ServerKeeps DEF Accept, CloseAfterSleep
<1>2. \A l : Gone(l)' <=> Gone(l)
  BY <1>1, ClientStays
<1>3. CASE Accept
  <2>1. PICK k \in Conns :
              /\ \E i \in DOMAIN backlog : backlog[i] = k
              /\ \A i \in DOMAIN backlog' : \E j \in DOMAIN backlog :
                    j = i + 1 /\ backlog[j] = backlog'[i] /\ backlog'[i] # k
              /\ pc[k] = "none" /\ accepted' = k
              /\ pc' = [pc EXCEPT ![k] = "start"] \/ UNCHANGED pc
              /\ UNCHANGED <<errno, late>>
    BY <1>3, AcceptIs
  <2>2. Waits(k) /\ \A l \in Conns : Waits(l)' => Waits(l)
    BY <2>1 DEF Waits
  <2>3. pc'[k] \in {"none", "start", "receive"}
    BY <2>1 DEF Types, TypeOK
  <2>4. \A l \in Conns : Served(l)' => l = k
    BY <2>1 DEF Served
  <2> QED
    BY <1>1, <1>2, <2>1, <2>2, <2>3, <2>4 DEF Patient
<1>4. CASE CloseAfterSleep
  <2>1. /\ main' = "accept" /\ UNCHANGED <<backlog, accepted, pc>> /\ late \subseteq late'
        /\ Resets({table[newsockfd]}) /\ main = "sleep"
    BY <1>4 DEF CloseAfterSleep, Close
  <2>2. \A l \in Conns : Waits(l) => l # table[newsockfd]
    BY <2>1 DEF Waits, Made, Line, Types, Descriptors
  <2>3. \A l \in errno' : l \in errno \/ l = table[newsockfd]
    BY <2>1 DEF Resets
  <2>4. \A l \in Conns : ~Served(l)' /\ (Waits(l)' <=> Waits(l))
    BY <2>1 DEF Served, Waits
  <2> QED
    BY <1>1, <1>2, <2>1, <2>2, <2>3, <2>4 DEF Patient
<1> QED
  BY <1>3, <1>4

\* What the server still has to do with is open.
LEMMA OpenIfServed ==
    ASSUME Types, Sharing, up, overlapped = {}, NEW k \in Conns, Waits(k) \/ Served(k)
    PROVE  ~Closed(k)
<1>1. CASE Waits(k)
  BY <1>1 DEF Waits, Closed
<1>2. CASE Served(k)
  <2>1. newsockfd \in Fds /\ table[newsockfd] = k
    BY <1>2 DEF Served, Sharing, Alone, Types, Descriptors
  <2> QED
    BY <2>1 DEF Closed
<1> QED
  BY <1>1, <1>2

LEMMA PatientOfClient ==
    ASSUME Types, Made, Sharing, Patient, NEW c \in Clients, ClientStep(c)
    PROVE  Patient'
<1>0. PICK k \in Conns : k = Conn(c)
  BY ConnIs DEF Types
<1>1. /\ TypeOK /\ k \in Conns /\ Owner(k) = c /\ k[2] = round[c]
      /\ \A l \in Conns : Owner(l) \in Clients /\ l[2] \in Nat /\ l = <<Owner(l), l[2]>>
      /\ \A b \in Clients : round[b] \in Nat
  <2>1. \A l \in Conns : /\ Owner(l) \in Clients /\ l[2] \in 1 .. LoopNum(Owner(l))
                         /\ l = <<Owner(l), l[2]>>
    BY ConnsAre DEF Owner
  <2>2. \A b \in Clients : LoopNum(b) \in Nat
    BY SharedFilesAssumption
  <2>3. \A l \in Conns : l[2] \in Nat
    BY <2>1, <2>2
  <2> QED
    BY <1>0, <2>1, <2>3, ConnIs DEF Types, TypeOK
<1>2. UNCHANGED <<up, main, newsockfd, accepted, table, threads, late, overlapped>>
  BY ClientKeeps
<1>3. /\ at[c] # "end"
      /\ dead' \subseteq dead \cup {k} /\ errno' \subseteq errno \cup {k}
      /\ \A l \in Conns : l # k \/ avail[l] = 0 => avail'[l] = avail[l]
      /\ \/ backlog' = backlog /\ at[c] # "connect"
         \/ backlog' = Append(backlog, k) /\ at[c] = "connect" /\ at'[c] = "send"
         \/ backlog' = backlog /\ ~up
      /\ \A b \in Clients : b # c => at'[b] = at[b] /\ Conn(b)' = Conn(b)
      /\ \A l \in Conns : Gone(l) => Gone(l)'
  BY <1>0, <1>1, ClientFrame
<1>4. timedOut \subseteq timedOut'
  BY DEF ClientStep, Connect, SendFile, SendFails, Receive, ReceiveAgain, ReceiveFails,
         SleepAndClose
<1>5. SUFFICES ASSUME up, timedOut = {}, late = {}, timedOut' = {} PROVE Patient'
  BY <1>2, <1>4 DEF Patient
<1>6. overlapped = {} /\ (Waits(k) \/ Served(k) => ~Closed(k))
  BY <1>1, <1>5, OpenIfServed DEF Sharing, Lateness
<1>7. \A l \in Conns : /\ Served(l)' <=> Served(l)
                       /\ Waits(l)' => Waits(l) \/ (l = k /\ at[c] = "connect")
  <2>1. \A l \in Conns : Served(l)' <=> Served(l)
    BY <1>2 DEF Served
  <2>2. CASE backlog' = backlog
    BY <2>1, <2>2 DEF Waits
  <2>3. CASE backlog' = Append(backlog, k) /\ at[c] = "connect"
    <3>1. backlog \in Seq(Conns)
      BY <1>1 DEF TypeOK
    <3>2. /\ DOMAIN backlog' = DOMAIN backlog \cup {Len(backlog) + 1}
          /\ \A i \in DOMAIN backlog : backlog'[i] = backlog[i]
          /\ backlog'[Len(backlog) + 1] = k
      BY <1>1, <2>3, <3>1
    <3> QED
      BY <2>1, <2>3, <3>2 DEF Waits
  <2> QED
    BY <1>3, <2>2, <2>3
\* The other connections of this client are behind it or before it.
<1>8. ASSUME NEW l \in Conns, l # k, Waits(l) \/ Served(l)
      PROVE  \/ Owner(l) # c /\ at'[Owner(l)] = at[Owner(l)] /\ (Gone(l)' <=> Gone(l))
             \/ Gone(l)
  <2>1. CASE Owner(l) # c
    <3>1. PICK b \in Clients : b = Owner(l)
      BY <1>1
    <3>2. at'[b] = at[b] /\ <<b, round[b]>>' = <<b, round[b]>>
      BY <1>3, <2>1, <3>1 DEF Conn
    <3>3. round'[b] = round[b]
      BY <3>2
    <3> QED
      BY <2>1, <3>1, <3>2, <3>3 DEF Gone, Owner
  <2>2. CASE Owner(l) = c
    <3>1. ~Unmade(l)
      BY <1>8 DEF Waits, Served, Made, Fresh
    <3>2. l[2] # round[c]
      BY <1>0, <1>1, <1>8, <2>2 DEF Conn
    <3>3. l[2] < round[c]
      BY <1>1, <2>2, <3>1, <3>2 DEF Unmade
    <3> QED
      BY <2>2, <3>3 DEF Gone
  <2> QED
    BY <2>1, <2>2
<1>9. ASSUME NEW l \in Conns, l # k
      PROVE
        /\ Waits(l)' \/ (/\ Served(l)'
                         /\ pc'[l] \in {"start", "receive", "compile", "run", "compare", "reply"}) =>
              avail'[l] = 0 /\ l \notin dead' \cup errno' /\ ~Gone(l)' /\ at'[Owner(l)] # "sleep"
        /\ Served(l)' /\ pc'[l] \in {"open", "details"} =>
              /\ avail'[l] \in {0, 1} /\ l \notin dead' \cup errno'
              /\ avail'[l] = 1 => ~Gone(l)' /\ at'[Owner(l)] # "sleep"
  <2>1. /\ Waits(l) \/ (Served(l) /\ pc[l] \in {"start", "receive", "compile", "run", "compare", "reply"}) =>
              avail[l] = 0 /\ l \notin dead \cup errno /\ ~Gone(l) /\ at[Owner(l)] # "sleep"
        /\ Served(l) /\ pc[l] \in {"open", "details"} =>
              /\ avail[l] \in {0, 1} /\ l \notin dead \cup errno
              /\ avail[l] = 1 => ~Gone(l) /\ at[Owner(l)] # "sleep"
    BY <1>5 DEF Patient
  <2>2. avail'[l] = avail[l] /\ (l \in dead' => l \in dead) /\ (l \in errno' => l \in errno)
    BY <1>3, <1>9
  <2>3. (Served(l)' <=> Served(l)) /\ (Waits(l)' => Waits(l)) /\ pc' = pc
    BY <1>2, <1>7, <1>9
  <2> QED
    BY <1>8, <1>9, <2>1, <2>2, <2>3
<1>10. ASSUME at[c] # "connect"
       PROVE
        /\ Waits(k) \/ (Served(k) /\ pc[k] \in {"start", "receive", "compile", "run", "compare", "reply"}) =>
              avail'[k] = 0 /\ k \notin dead' \cup errno' /\ ~Gone(k)' /\ at'[c] # "sleep"
        /\ Served(k) /\ pc[k] \in {"open", "details"} =>
              /\ avail'[k] \in {0, 1} /\ k \notin dead' \cup errno'
              /\ avail'[k] = 1 => ~Gone(k)' /\ at'[c] # "sleep"
  <2> SUFFICES ASSUME Waits(k) \/ Served(k)
               PROVE
        /\ Waits(k) \/ (Served(k) /\ pc[k] \in {"start", "receive", "compile", "run", "compare", "reply"}) =>
              avail'[k] = 0 /\ k \notin dead' \cup errno' /\ ~Gone(k)' /\ at'[c] # "sleep"
        /\ Served(k) /\ pc[k] \in {"open", "details"} =>
              /\ avail'[k] \in {0, 1} /\ k \notin dead' \cup errno'
              /\ avail'[k] = 1 => ~Gone(k)' /\ at'[c] # "sleep"
    OBVIOUS
  <2>1. ~Closed(k) /\ avail[k] \in Nat /\ avail \in [Conns -> Nat]
    BY <1>1, <1>6 DEF TypeOK
  <2>2. /\ Waits(k) \/ (Served(k) /\ pc[k] \in {"start", "receive", "compile", "run", "compare", "reply"}) =>
              avail[k] = 0 /\ k \notin dead \cup errno /\ at[c] # "sleep"
        /\ Served(k) /\ pc[k] \in {"open", "details"} =>
              /\ avail[k] \in {0, 1} /\ k \notin dead \cup errno
              /\ avail[k] = 1 => at[c] # "sleep"
    BY <1>1, <1>5 DEF Patient
  <2>3. ASSUME NEW spot \in {"send", "receive", "again", "sleep"},
               ClientAt(c, spot), UNCHANGED round
        PROVE  ~Gone(k)' /\ at'[c] = spot
    <3>1. ~Gone(k)
      BY <1>0, <1>1, <1>3, NotGone
    <3> QED
      BY <1>0, <1>1, <1>3, <2>3, <3>1, ClientGoes
  <2>4. ASSUME SomeBytes(k)
        PROVE  /\ avail'[k] \in Nat /\ avail[k] # 0 /\ (avail[k] = 1 => avail'[k] = 0)
               /\ UNCHANGED errno
    <3>1. PICK n \in 1 .. BUFFER_SIZE : n <= avail[k] /\ avail' = [avail EXCEPT ![k] = @ - n]
      BY <2>4 DEF SomeBytes
    <3>2. n \in Nat /\ n # 0 /\ avail'[k] = avail[k] - n
      BY <1>1, <2>1, <3>1, SharedFilesAssumption
    <3>3. avail'[k] \in Nat /\ avail[k] # 0 /\ (avail[k] = 1 => avail'[k] = 0)
      BY <2>1, <3>1, <3>2
    <3> QED
      BY <2>4, <3>3 DEF SomeBytes
  <2>5. \/ /\ ~Gone(k)' /\ at'[c] # "sleep" /\ UNCHANGED <<avail, errno, dead>>
        \/ SomeBytes(k) /\ UNCHANGED dead
        \/ WasReset(k)
        \/ /\ at[c] = "sleep" /\ UNCHANGED <<avail, errno>>
           /\ avail[k] = 0 => UNCHANGED dead
    <3>1. CASE SendFile(c)
      <4>1. ClientAt(c, "receive") /\ UNCHANGED <<round, avail, errno, dead>>
        BY <3>1 DEF SendFile
      <4> QED
        BY <2>3, <4>1
    <3>2. CASE Receive(c)
      <4>1. ClientAt(c, "again") /\ UNCHANGED <<round, dead>>
        BY <3>2 DEF Receive
      <4>2. SomeBytes(k) \/ WasReset(k) \/ UNCHANGED <<avail, errno>>
        BY <1>0, <3>2 DEF Receive, EndOfFile, TimesOut
      <4> QED
        BY <2>3, <4>1, <4>2
    <3>3. CASE ReceiveAgain(c)
      BY <1>0, <2>1, <3>3 DEF ReceiveAgain, EndOfFile
    <3>4. CASE ReceiveFails(c)
      <4>1. timedOut' # timedOut \/ WasReset(k)
        BY <1>0, <1>5, <3>4 DEF ReceiveFails
      <4> QED
        BY <1>5, <4>1
    <3>5. CASE SleepAndClose(c)
      BY <1>0, <3>5 DEF SleepAndClose, NextRound
    <3>6. CASE Connect(c) \/ SendFails(c)
      BY <1>0, <1>10, <2>1, <3>6 DEF Connect, SendFails
    <3> QED
      BY <3>1, <3>2, <3>3, <3>4, <3>5, <3>6 DEF ClientStep
  <2>6. WasReset(k) => k \in errno
    BY DEF WasReset
  <2> QED
    BY <2>1, <2>2, <2>4, <2>5, <2>6
<1>11. CASE at[c] = "connect"
  <2>1. Unmade(k)
    BY <1>0, <1>1, <1>11 DEF Unmade
  <2>2. avail[k] = 0 /\ k \notin dead \cup errno /\ ~Served(k)
    BY <1>1, <2>1 DEF Made, Fresh, Served
  <2>3. Connect(c)
    BY <1>11 DEF ClientStep, SendFile, SendFails, Receive, ReceiveAgain, ReceiveFails,
                 SleepAndClose
  <2>4. ClientAt(c, "send") /\ UNCHANGED <<round, avail, errno, dead>>
    BY <1>5, <2>3 DEF Connect
  <2>5. ~Gone(k)' /\ at'[c] = "send"
    <3>1. ~Gone(k)
      BY <1>0, <1>1, <1>3, NotGone
    <3> QED
      BY <1>0, <1>1, <1>3, <2>4, <3>1, ClientGoes
  <2> QED
    BY <1>1, <1>2, <1>7, <1>9, <2>2, <2>4, <2>5 DEF Patient
<1>12. CASE at[c] # "connect"
  BY <1>1, <1>2, <1>7, <1>9, <1>10, <1>12 DEF Patient
<1> QED
  BY <1>11, <1>12

LEMMA EndsOfNext ==
    ASSUME Types, Sharing, Patient, EndsOnlyFor, Next
    PROVE  EndsOnlyFor'
<1>1. CASE \E c \in Clients : ClientStep(c)
  <2>1. PICK c \in Clients : ClientStep(c)
    BY <1>1
  <2>2. UNCHANGED <<up, late>>
    BY <2>1, ClientKeeps
  <2>3. timedOut \subseteq timedOut'
    BY <2>1 DEF ClientStep, Connect, SendFile, SendFails, Receive, ReceiveAgain,
                ReceiveFails, SleepAndClose
  <2> QED
    BY <2>2, <2>3 DEF EndsOnlyFor
<1>2. CASE Accept \/ CloseAfterSleep
  BY <1>2 DEF EndsOnlyFor, Accept, CloseAfterSleep
<1>3. CASE \E k \in Conns : ThreadStep(k)
  <2>1. PICK k \in Conns : ThreadStep(k)
    BY <1>3
  <2>2. UNCHANGED <<late, timedOut>>
    BY <2>1, ThreadFrame
  <2>3. timedOut # {} \/ late # {} \/ up'
    BY <2>1, ServerStaysUp
  <2>4. \A l \in late : Owner(l) \in Slow
    BY DEF Sharing, Lateness
  <2> QED
    BY <2>2, <2>3, <2>4 DEF EndsOnlyFor
<1> QED
  BY <1>1, <1>2, <1>3 DEF Next

-----------------------------------------------------------------------------
(* What the clients count.                                                 *)

LEMMA CountingOfClient ==
    ASSUME Types, Made, Sharing, Counting, NEW c \in Clients, ClientStep(c)
    PROVE  Counting'
<1>0. PICK k \in Conns : k = Conn(c)
  BY ConnIs DEF Types
<1>1. TypeOK /\ Owner(k) = c
  BY <1>0, ConnIs DEF Types
<1>2. UNCHANGED <<up, main, newsockfd, accepted, table, threads, answers, notes>>
  BY ClientKeeps
<1>3. /\ at[c] # "end"
      /\ \A l \in Conns : l # k \/ avail[l] = 0 => avail'[l] = avail[l]
      /\ \/ backlog' = backlog /\ at[c] # "connect"
         \/ backlog' = Append(backlog, k) /\ at[c] = "connect" /\ at'[c] = "send"
         \/ backlog' = backlog /\ ~up
      /\ \A b \in Clients : b # c => at'[b] = at[b] /\ Conn(b)' = Conn(b)
  BY <1>0, <1>1, ClientFrame
<1>4. SUFFICES ASSUME up, overlapped = {} PROVE Counting'
  BY <1>2 DEF Counting, Held, Answered, CountsAreRight
<1>5. /\ \A l \in Conns : Served(l)' <=> Served(l)
      /\ \A l \in Conns : Waits(l) => Waits(l)'
      /\ at[c] = "connect" => Waits(k)'
  <2>1. \A l \in Conns : Served(l)' <=> Served(l)
    BY <1>2 DEF Served
  <2>2. CASE backlog' = backlog /\ at[c] # "connect"
    BY <2>1, <2>2 DEF Waits
  <2>3. CASE backlog' = Append(backlog, k)
    <3>1. backlog \in Seq(Conns)
      BY <1>1 DEF TypeOK
    <3>2. /\ DOMAIN backlog' = DOMAIN backlog \cup {Len(backlog) + 1}
          /\ \A i \in DOMAIN backlog : backlog'[i] = backlog[i]
          /\ backlog'[Len(backlog) + 1] = k
      BY <2>3, <3>1
    <3> QED
      BY <2>1, <3>2 DEF Waits
  <2> QED
    BY <1>3, <1>4, <2>2, <2>3
<1>6. ~SendFails(c)
  <2>1. at[c] = "send" => Waits(k) \/ Served(k)
    BY <1>0, <1>4 DEF Counting, Held
  <2>2. Waits(k) \/ Served(k) => ~Closed(k)
    BY <1>4, OpenIfServed
  <2> QED
    BY <1>0, <2>1, <2>2 DEF SendFails
<1>7. ~Gone(k) /\ Error[k] = 0 /\ (k \in success <=> at[c] = "sleep")
  BY <1>0, <1>1, <1>3, NotGone DEF Types, Uncounted
<1>8. CASE Connect(c) \/ SendFile(c) \/ Receive(c) \/ ReceiveAgain(c)
  <2>1. PICK spot \in {"send", "receive", "again", "sleep"} :
           /\ ClientAt(c, spot) /\ UNCHANGED <<round, Error>>
           /\ spot = "send" => at[c] = "connect"
           /\ spot \in {"receive", "again"} => at[c] \in {"send", "receive"}
    BY <1>4, <1>8 DEF Connect, SendFile, Receive, ReceiveAgain
  <2>2. /\ at'[c] = spot /\ Conn(c)' = k
        /\ \A l \in Conns : Gone(l)' <=> Gone(l)
    BY <1>0, <1>1, <1>3, <2>1, ClientGoes
  <2>3. Held'
    <3>1. ASSUME NEW b \in Clients, at'[b] = "send"
          PROVE  Waits(Conn(b))' \/ (Served(Conn(b))' /\ pc'[Conn(b)'] \in {"none", "start", "receive"})
      <4>1. CASE b = c
        <5>1. Waits(k)'
          BY <1>5, <2>1, <2>2, <3>1, <4>1
        <5> QED
          BY <2>2, <4>1, <5>1 DEF Waits
      <4>2. CASE b # c
        <5>1. PICK l \in Conns : l = Conn(b)
          BY <1>1, ConnIs
        <5>2. l = Conn(b)' /\ at[b] = "send"
          BY <1>3, <3>1, <4>2, <5>1
        <5>3. Waits(l)' \/ (Served(l)' /\ pc'[l] \in {"none", "start", "receive"})
          BY <1>2, <1>4, <1>5, <5>1, <5>2 DEF Counting, Held
        <5> QED
          BY <5>2, <5>3 DEF Waits, Served
      <4> QED
        BY <4>1, <4>2
    <3>2. ASSUME NEW b \in Clients, at'[b] \in {"receive", "again"}
          PROVE  \/ Waits(Conn(b))' \/ Served(Conn(b))'
                 \/ Conn(b)' \in late \cup unserved \/ answers[Conn(b)'] # {}
      <4>1. PICK l \in Conns : l = Conn(b)
        BY <1>1, ConnIs
      <4>2. l = Conn(b)' /\ at[b] \in {"send", "receive", "again"}
        BY <1>0, <1>3, <2>1, <2>2, <3>2, <4>1
      <4>3. Waits(l)' \/ Served(l)' \/ l \in late \cup unserved \/ answers[l] # {}
        BY <1>4, <1>5, <4>1, <4>2 DEF Counting, Held
      <4> QED
        BY <4>2, <4>3 DEF Waits, Served
    <3> QED
      BY <1>2, <3>1, <3>2 DEF Held
  <2>4. Answered'
    BY <1>1, <1>2, <1>3, <1>4 DEF Counting, Answered, TypeOK
  <2>5. ASSUME NEW l \in Conns, l \in success'
        PROVE  answers[l] # {} \/ l \in late \cup unserved
    <3>1. CASE l \in success
      BY <1>4, <3>1 DEF Counting, CountsAreRight
    <3>2. CASE l \notin success
      <4>1. l = k /\ at[c] = "again" /\ (SomeBytes(k) \/ EndOfFile(k))
        BY <1>0, <1>8, <2>5, <3>2 DEF Connect, SendFile, Receive, ReceiveAgain
      <4>2. CASE SomeBytes(k)
        <5>1. avail[k] > 0
          <6>1. avail[k] \in Nat /\ \E m \in 1 .. BUFFER_SIZE : m <= avail[k]
            BY <1>1, <4>2 DEF SomeBytes, TypeOK
          <6> QED
            BY <6>1, SharedFilesAssumption
        <5> QED
          BY <1>4, <4>1, <5>1 DEF Counting, Answered
      <4>3. CASE EndOfFile(k)
        <5>1. ~(Waits(k) \/ Served(k))
          BY <1>4, <4>3, OpenIfServed DEF EndOfFile
        <5> QED
          BY <1>0, <1>4, <4>1, <5>1 DEF Counting, Held
      <4> QED
        BY <4>1, <4>2, <4>3
    <3> QED
      BY <3>1, <3>2
  <2>6. ASSUME NEW l \in Conns, Gone(l)
        PROVE  (IF l \in success' THEN 1 ELSE 0) + Error[l] = 1
    <3>1. l # k
      BY <1>7, <2>6
    <3>2. l \in success' <=> l \in success
      BY <1>0, <1>8, <3>1 DEF Connect, SendFile, Receive, ReceiveAgain
    <3> QED
      BY <1>4, <2>6, <3>2 DEF Counting, CountsAreRight
  <2>7. CountsAreRight'
    BY <1>2, <2>1, <2>2, <2>5, <2>6 DEF CountsAreRight
  <2> QED
    BY <2>3, <2>4, <2>7 DEF Counting
<1>9. CASE ReceiveFails(c) \/ SleepAndClose(c)
  <2>1. StepOn(c) /\ UNCHANGED success
    BY <1>9 DEF ReceiveFails, SleepAndClose, NextRound
  <2>2. /\ at'[c] \in {"connect", "end"}
        /\ \A l \in Conns : Gone(l)' <=> Gone(l) \/ l = k
    BY <1>0, <1>1, <1>3, <2>1, ClientIsDone
  <2>3. Held'
    <3>1. ASSUME NEW b \in Clients, b # c
          PROVE  /\ at'[b] = "send" =>
                      Waits(Conn(b))' \/ (Served(Conn(b))' /\ pc'[Conn(b)'] \in {"none", "start", "receive"})
                 /\ at'[b] \in {"receive", "again"} =>
                      \/ Waits(Conn(b))' \/ Served(Conn(b))'
                      \/ Conn(b)' \in late \cup unserved \/ answers[Conn(b)'] # {}
      <4>1. PICK l \in Conns : l = Conn(b)
        BY <1>1, ConnIs
      <4>2. l = Conn(b)' /\ at'[b] = at[b]
        BY <1>3, <3>1, <4>1
      <4>3. /\ at[b] = "send" => Waits(l)' \/ (Served(l)' /\ pc'[l] \in {"none", "start", "receive"})
            /\ at[b] \in {"receive", "again"} =>
                  Waits(l)' \/ Served(l)' \/ l \in late \cup unserved \/ answers[l] # {}
        BY <1>2, <1>4, <1>5, <4>1 DEF Counting, Held
      <4> QED
        BY <4>2, <4>3 DEF Waits, Served
    <3> QED
      BY <1>2, <2>2, <3>1 DEF Held
  <2>4. Answered'
    BY <1>1, <1>2, <1>3, <1>4 DEF Counting, Answered, TypeOK
  <2>5. /\ k \in success => Error' = Error
        /\ k \notin success => Error' = [Error EXCEPT ![k] = @ + 1]
    <3>1. CASE ReceiveFails(c)
      BY <1>0, <1>7, <3>1 DEF ReceiveFails, CountError
    <3>2. CASE SleepAndClose(c)
      BY <1>7, <3>2 DEF SleepAndClose
    <3> QED
      BY <1>9, <3>1, <3>2
  <2>6. Error \in [Conns -> 0 .. 2]
    BY <1>1 DEF TypeOK
  <2>7. ASSUME NEW l \in Conns, Gone(l) \/ l = k
        PROVE  (IF l \in success THEN 1 ELSE 0) + Error'[l] = 1
    <3>1. CASE l = k
      BY <1>7, <2>5, <2>6, <3>1
    <3>2. CASE l # k
      <4>1. Error'[l] = Error[l]
        BY <2>5, <2>6, <3>2
      <4> QED
        BY <1>4, <2>7, <3>2, <4>1 DEF Counting, CountsAreRight
    <3> QED
      BY <3>1, <3>2
  <2>8. CountsAreRight'
    BY <1>2, <1>4, <2>1, <2>2, <2>7 DEF Counting, CountsAreRight
  <2> QED
    BY <2>3, <2>4, <2>8 DEF Counting
<1> QED
  BY <1>6, <1>8, <1>9 DEF ClientStep

LEMMA CountingOfMain ==
    ASSUME Types, Made, Sharing, Counting, Accept \/ CloseAfterSleep
    PROVE  Counting'
<1>1. UNCHANGED <<up, client, avail, answers>> /\ up
  BY ServerKeeps DEF Accept, CloseAfterSleep
<1>2. /\ \A l : Gone(l)' <=> Gone(l)
      /\ \A b : Conn(b)' = Conn(b)
      /\ \A b \in Clients : Conn(b) \in Conns
  BY <1>1, ClientStays, ConnIs DEF Types
<1>3. overlapped \subseteq overlapped' /\ late \subseteq late' /\ unserved \subseteq unserved'
  BY DEF Accept, CloseAfterSleep
<1>4. SUFFICES ASSUME overlapped' = {} PROVE Counting'
  BY DEF Counting, Held, Answered, CountsAreRight
<1>5. overlapped = {}
  BY <1>3, <1>4
<1>6. CountsAreRight'
  BY <1>1, <1>2, <1>3, <1>5 DEF Counting, CountsAreRight
<1>7. CASE Accept
  <2>1. PICK k \in Conns :
              /\ main = "accept" /\ pc[k] = "none" /\ accepted' = k /\ main' = "sleep"
              /\ \A j \in DOMAIN backlog : backlog[j] = k \/ \E i \in DOMAIN backlog' :
                    backlog'[i] = backlog[j]
              /\ pc' = [pc EXCEPT ![k] = "start"] \/ UNCHANGED pc
    BY <1>7, AcceptIs
  <2>2. pc'[k] \in {"none", "start", "receive"} /\ \A l \in Conns : pc'[l] = pc[l] \/ l = k
    BY <2>1 DEF Types, TypeOK
  <2>3. ASSUME NEW l \in Conns, Waits(l) \/ Served(l)
        PROVE  Waits(l)' \/ (Served(l)' /\ pc'[l] \in {"none", "start", "receive"})
    <3>1. Waits(l)
      BY <2>1, <2>3 DEF Served
    <3>2. l = k \/ Waits(l)'
      BY <2>1, <3>1 DEF Waits
    <3> QED
      BY <2>1, <2>2, <3>2 DEF Served
  <2>4. Held'
    <3>1. ASSUME NEW b \in Clients
          PROVE  /\ at[b] = "send" =>
                      Waits(Conn(b))' \/ (Served(Conn(b))' /\ pc'[Conn(b)'] \in {"none", "start", "receive"})
                 /\ at[b] \in {"receive", "again"} =>
                      \/ Waits(Conn(b))' \/ Served(Conn(b))'
                      \/ Conn(b)' \in late' \cup unserved' \/ answers[Conn(b)'] # {}
      <4>1. PICK l \in Conns : l = Conn(b) /\ l = Conn(b)'
        BY <1>2
      <4>2. /\ at[b] = "send" => Waits(l) \/ Served(l)
            /\ at[b] \in {"receive", "again"} =>
                  Waits(l) \/ Served(l) \/ l \in late' \cup unserved' \/ answers[l] # {}
        BY <1>1, <1>3, <1>5, <4>1 DEF Counting, Held
      <4>3. /\ at[b] = "send" => Waits(l)' \/ (Served(l)' /\ pc'[l] \in {"none", "start", "receive"})
            /\ at[b] \in {"receive", "again"} =>
                  Waits(l)' \/ Served(l)' \/ l \in late' \cup unserved' \/ answers[l] # {}
        BY <2>3, <4>2
      <4> QED
        BY <4>1, <4>3 DEF Waits, Served
    <3> QED
      BY <1>1, <3>1 DEF Held
  <2>5. Answered'
    BY <1>1, <1>5, <2>2 DEF Counting, Answered
  <2> QED
    BY <1>6, <2>4, <2>5 DEF Counting
<1>8. CASE CloseAfterSleep
  <2>1. /\ SleepIsOver /\ main = "sleep"
        /\ late' = IF pc[accepted] \in {"none", "done"} THEN late ELSE late \cup {accepted}
        /\ UNCHANGED <<accepted, backlog, pc>>
    BY <1>8 DEF CloseAfterSleep
  <2>2. accepted \in Conns /\ pc[accepted] \notin {"start", "receive"}
        /\ (pc[accepted] = "none" => accepted \in unserved)
    BY <1>5, <2>1 DEF SleepIsOver, Sharing, Alone, Types, Descriptors
  <2>3. Held'
    <3>1. ASSUME NEW b \in Clients
          PROVE  /\ at[b] = "send" =>
                      Waits(Conn(b))' \/ (Served(Conn(b))' /\ pc'[Conn(b)'] \in {"none", "start", "receive"})
                 /\ at[b] \in {"receive", "again"} =>
                      \/ Waits(Conn(b))' \/ Served(Conn(b))'
                      \/ Conn(b)' \in late' \cup unserved' \/ answers[Conn(b)'] # {}
      <4>1. PICK l \in Conns : l = Conn(b) /\ l = Conn(b)'
        BY <1>2
      <4>2. /\ at[b] = "send" => Waits(l) \/ Served(l)
            /\ at[b] \in {"receive", "again"} =>
                  Waits(l) \/ Served(l) \/ l \in late' \cup unserved' \/ answers[l] # {}
        BY <1>1, <1>3, <1>5, <4>1 DEF Counting, Held
      <4>3. at[b] = "send" => ~Served(l)
        <5>1. at[b] = "send" => l \notin sent /\ ~Gone(l)
          BY <4>1, NotGone DEF Made, Unsent, Types
        <5> QED
          BY <2>1, <5>1 DEF Served, SleepIsOver
      <4>4. Served(l) => l \in late' \cup unserved'
        BY <1>3, <2>1, <2>2 DEF Served
      <4>5. Waits(l) => Waits(l)'
        BY <2>1 DEF Waits
      <4>6. /\ at[b] = "send" => Waits(l)'
            /\ at[b] \in {"receive", "again"} =>
                  Waits(l)' \/ l \in late' \cup unserved' \/ answers[l] # {}
        BY <4>2, <4>3, <4>4, <4>5
      <4> QED
        BY <4>1, <4>6 DEF Waits
    <3> QED
      BY <1>1, <3>1 DEF Held
  <2>4. Answered'
    BY <1>1, <1>5, <2>1 DEF Counting, Answered
  <2> QED
    BY <1>6, <2>3, <2>4 DEF Counting
<1> QED
  BY <1>7, <1>8

LEMMA CountingOfThread ==
    ASSUME Types, Made, Sharing, Counting, NEW k \in Conns, ThreadStep(k)
    PROVE  Counting'
<1>1. /\ UNCHANGED <<main, accepted, backlog, client, late, unserved, overlapped>>
      /\ k \in Running /\ up /\ \A l \in Conns \ {k} : pc'[l] = pc[l]
  BY ThreadFrame
<1>2. /\ \A l : Gone(l)' <=> Gone(l)
      /\ \A b : Conn(b)' = Conn(b)
      /\ \A b \in Clients : Conn(b) \in Conns
  BY <1>1, ClientStays, ConnIs DEF Types
<1>3. SUFFICES ASSUME overlapped = {}, up' PROVE Counting'
  BY <1>1 DEF Counting, Held, Answered, CountsAreRight
<1>4. /\ accepted = k
      /\ main = "sleep" => table[fd[k]] = k
      /\ table[fd[k]] \in {k, NoConn, OpenFile}
      /\ \A l \in Conns \ {k} : avail'[l] = avail[l]
      /\ NoConn \notin Conns /\ OpenFile \notin Conns
  BY <1>3, LoneThread, ConnsAre
<1>5. /\ pc \in [Conns -> Labels] /\ pc[k] \notin {"none", "done"}
      /\ answers \in [Conns -> SUBSET Verdicts] /\ avail \in [Conns -> Nat]
  BY <1>1 DEF Types, TypeOK, Running
<1>6. \A spot : Goto(k, spot) => pc'[k] = spot
  BY <1>5 DEF Goto
\* What a step does to what has been answered.
<1>7. /\ \A l \in Conns : answers[l] \subseteq answers'[l]
      /\ pc'[k] \in {"open", "details", "close", "done"} =>
            pc[k] \in {"open", "details", "close"} \/ answers'[k] # {}
      /\ avail' = avail \/ pc[k] \in {"open", "details", "close"} \/ answers'[k] # {}
  <2>1. CASE Reply(k)
    <3>1. /\ table[fd[k]] \in Conns
          /\ answers' = [answers EXCEPT ![table[fd[k]]] = @ \cup {result[k]}]
      BY <1>3, <2>1 DEF Reply, Terminate, SendTo
    <3>2. answers' = [answers EXCEPT ![k] = @ \cup {result[k]}]
      BY <1>4, <3>1
    <3> QED
      BY <1>5, <3>2
  <2>2. CASE ReceiveFile(k) \/ Compile(k) \/ Run(k) \/ Compare(k)
    <3>1. UNCHANGED <<avail, answers>>
      BY <1>3, <2>2 DEF ReceiveFile, Compile, Run, Compare, Terminate
    <3>2. \E spot \in {"compile", "run", "compare", "reply"} : Goto(k, spot)
      BY <1>3, <2>2 DEF ReceiveFile, Compile, Run, Compare, Terminate, Answer
    <3> QED
      BY <1>6, <3>1, <3>2
  <2>3. CASE OpenDetails(k) \/ ReplyDetails(k) \/ CloseAndExit(k)
    <3>1. pc[k] \in {"open", "details", "close"} /\ UNCHANGED answers
      BY <1>3, <2>3 DEF OpenDetails, ReplyDetails, CloseAndExit, Terminate
    <3> QED
      BY <3>1
  <2>4. CASE OpenSource(k)
    <3>1. Goto(k, "receive") /\ UNCHANGED <<avail, answers>>
      BY <1>1, <1>3, <2>4, LoneThreadOpens DEF OpenSource
    <3> QED
      BY <1>6, <3>1
  <2> QED
    BY <2>1, <2>2, <2>3, <2>4 DEF ThreadStep
<1>8. pc[k] \in {"open", "details", "close"} => answers[k] # {}
  BY <1>1, <1>3 DEF Counting, Answered
<1>9. Answered'
  <2>1. ASSUME NEW l \in Conns,
               avail'[l] > 0 \/ pc'[l] \in {"open", "details", "close", "done"}
        PROVE  answers'[l] # {}
    <3>1. CASE l = k
      <4>1. avail' = avail /\ avail[k] > 0 => answers[k] # {}
        BY <1>1, <1>3 DEF Counting, Answered
      <4> QED
        BY <1>7, <1>8, <2>1, <3>1, <4>1
    <3>2. CASE l # k
      <4>1. avail'[l] = avail[l] /\ pc'[l] = pc[l]
        BY <1>1, <1>4, <3>2
      <4>2. answers[l] # {}
        BY <1>1, <1>3, <2>1, <4>1 DEF Counting, Answered
      <4> QED
        BY <1>7, <4>2
    <3> QED
      BY <3>1, <3>2
  <2> QED
    BY <2>1 DEF Answered
<1>10. Held'
  <2>1. ASSUME NEW b \in Clients
        PROVE  /\ at[b] = "send" =>
                    Waits(Conn(b))' \/ (Served(Conn(b))' /\ pc'[Conn(b)'] \in {"none", "start", "receive"})
               /\ at[b] \in {"receive", "again"} =>
                    \/ Waits(Conn(b))' \/ Served(Conn(b))'
                    \/ Conn(b)' \in late \cup unserved \/ answers'[Conn(b)'] # {}
    <3>1. PICK l \in Conns : l = Conn(b) /\ l = Conn(b)'
      BY <1>2
    <3>2. /\ at[b] = "send" => Waits(l) \/ (Served(l) /\ pc[l] \in {"none", "start", "receive"})
          /\ at[b] \in {"receive", "again"} =>
                Waits(l) \/ Served(l) \/ l \in late \cup unserved \/ answers[l] # {}
      BY <1>1, <1>3, <3>1 DEF Counting, Held
    <3>3. Waits(l) => Waits(l)'
      BY <1>1 DEF Waits
    <3>4. Served(l) => l = k /\ main = "sleep"
      BY <1>4 DEF Served
    <3>5. at[b] = "send" /\ Served(l) => pc'[l] \in {"none", "start", "receive"} /\ Served(l)'
      <4>1. SUFFICES ASSUME at[b] = "send", Served(l) PROVE pc'[l] = "receive"
        BY <1>1 DEF Served
      <4>2. l = k /\ table[fd[k]] = k /\ pc[k] \in {"start", "receive"}
        <5>1. l = k /\ table[fd[k]] = k
          BY <1>4, <3>4, <4>1
        <5>2. ~Waits(k)
          BY <1>5 DEF Waits, Made, Line
        <5> QED
          BY <1>5, <3>2, <4>1, <5>1, <5>2
      <4>3. CASE pc[k] = "start"
        <5>1. OpenSource(k)
          BY <4>3 DEF ThreadStep, ReceiveFile, Compile, Run, Compare, Reply, OpenDetails,
                      ReplyDetails, CloseAndExit
        <5> QED
          BY <1>1, <1>3, <1>6, <4>2, <4>3, <5>1, LoneThreadOpens DEF OpenSource
      <4>4. CASE pc[k] = "receive"
        <5>1. ReceiveFile(k)
          BY <4>4 DEF ThreadStep, OpenSource, Compile, Run, Compare, Reply, OpenDetails,
                      ReplyDetails, CloseAndExit
        <5>2. k \in sent
          BY <4>2, <5>1 DEF ReceiveFile
        <5> QED
          BY <3>1, <4>1, <4>2, <5>2 DEF Made, Unsent
      <4> QED
        BY <4>2, <4>3, <4>4
    <3>6. Served(l) => Served(l)' \/ answers'[l] # {}
      <4>1. Served(l) => Served(l)' \/ pc'[k] = "done"
        BY <1>1, <3>4 DEF Served
      <4>2. pc'[k] = "done" => answers'[k] # {}
        BY <1>7, <1>8
      <4> QED
        BY <3>4, <4>1, <4>2
    <3>7. answers[l] # {} => answers'[l] # {}
      BY <1>7
    <3>8. /\ at[b] = "send" => Waits(l)' \/ (Served(l)' /\ pc'[l] \in {"none", "start", "receive"})
          /\ at[b] \in {"receive", "again"} =>
                Waits(l)' \/ Served(l)' \/ l \in late \cup unserved \/ answers'[l] # {}
      BY <1>5, <3>2, <3>3, <3>4, <3>5, <3>6, <3>7
    <3> QED
      BY <3>1, <3>8 DEF Waits, Served
  <2> QED
    BY <1>1, <2>1 DEF Held
<1>11. CountsAreRight'
  <2>1. \A l \in Conns : answers[l] # {} => answers'[l] # {}
    BY <1>7
  <2> QED
    BY <1>1, <1>2, <1>3, <2>1 DEF Counting, CountsAreRight
<1> QED
  BY <1>9, <1>10, <1>11 DEF Counting
-----------------------------------------------------------------------------
(* The invariant, and what it shows.                                       *)

LEMMA InitOfAll == Init => IInv
<1> SUFFICES ASSUME Init PROVE IInv
  OBVIOUS
<1>1. /\ \A c \in Clients : Conn(c) = <<c, 1>> /\ Conn(c) \in Conns /\ LoopNum(c) \in Nat \ {0}
      /\ \A k \in Conns : Owner(k) \in Clients /\ k[2] \in 1 .. LoopNum(Owner(k))
      /\ NoConn \notin Conns /\ OpenFile \notin Conns /\ NoConn # OpenFile
  <2>1. ASSUME NEW c \in Clients
        PROVE  Conn(c) = <<c, 1>> /\ Conn(c) \in Conns /\ LoopNum(c) \in Nat \ {0}
    <3>1. LoopNum(c) \in Nat \ {0} /\ round[c] = 1
      BY SharedFilesAssumption DEF Init
    <3>2. 1 \in 1 .. LoopNum(c)
      BY <3>1
    <3> QED
      BY <3>1, <3>2, ConnsAre DEF Conn
  <2>2. \A k \in Conns : Owner(k) \in Clients /\ k[2] \in 1 .. LoopNum(Owner(k))
    BY ConnsAre DEF Owner
  <2> QED
    BY <2>1, <2>2, ConnsAre
<1>2. \A k \in Conns : ~Gone(k)
  <2>1. ASSUME NEW k \in Conns PROVE ~(k[2] < 1)
    <3>1. LoopNum(Owner(k)) \in Nat /\ k[2] \in 1 .. LoopNum(Owner(k))
      BY <1>1
    <3> QED
      BY <3>1
  <2> QED
    BY <1>1, <2>1 DEF Init, Gone
<1>3. Running = {} /\ \A k : ~Waits(k) /\ ~Served(k)
  BY DEF Init, Running, Waits, Served
<1>4. Types
  <2>1. TypeOK
    <3>1. \A c \in Clients : 1 \in 1 .. LoopNum(c)
      BY <1>1
    <3>2. NoAnswer \in Verdicts \cup {NoAnswer} /\ None \in Conns \cup {None}
      OBVIOUS
    <3>3. backlog \in Seq(Conns) /\ "none" \in Labels /\ "connect" \in Places
      BY DEF Init, Labels, Places
    <3>4. result \in [Conns -> Verdicts \cup {NoAnswer}] /\ answers \in [Conns -> SUBSET Verdicts]
      BY DEF Init
    <3> QED
      BY <3>1, <3>2, <3>3, <3>4 DEF Init, TypeOK, Contents
  <2>2. Descriptors
    BY <1>3 DEF Init, Descriptors
  <2>3. Uncounted
    BY <1>1 DEF Init, Uncounted
  <2> QED
    BY <2>1, <2>2, <2>3 DEF Types
<1>5. Made
  BY <1>1 DEF Init, Made, Fresh, Line, Unsent
<1>6. Gradings
  BY <1>3 DEF Init, Gradings, Single, Strays, VerdictUnlessOverlapped
<1>7. Sharing
  BY <1>1, <1>3 DEF Init, Sharing, Alone, Lateness
<1>8. Counting
  BY <1>1, <1>2 DEF Init, Counting, Held, Answered, CountsAreRight
<1>9. Patient /\ EndsOnlyFor
  BY <1>3 DEF Init, Patient, EndsOnlyFor
<1> QED
  BY <1>4, <1>5, <1>6, <1>7, <1>8, <1>9 DEF IInv

LEMMA StutterOfAll == IInv /\ UNCHANGED vars => IInv'
<1> SUFFICES ASSUME IInv, UNCHANGED vars PROVE IInv'
  OBVIOUS
<1>1. /\ UNCHANGED <<up, main, newsockfd, accepted, table, backlog, pc, fd, fp, result>>
      /\ UNCHANGED <<file_c, exe, out, client, avail, errno, dead, answers, late, unserved,
                     overlapped>>
  BY DEF vars
<1>2. /\ \A k : (Gone(k)' <=> Gone(k)) /\ (Unmade(k)' <=> Unmade(k))
      /\ \A k : (Waits(k)' <=> Waits(k)) /\ (Served(k)' <=> Served(k))
      /\ \A c : Conn(c)' = Conn(c)
      /\ Running' = Running
  BY <1>1, ClientStays DEF Waits, Served, Running
<1>3. Types'
  <2>1. TypeOK'
    BY <1>1 DEF IInv, Types, TypeOK, Contents
  <2>2. Descriptors' /\ Uncounted'
    BY <1>1, <1>2, ClientStays DEF IInv, Types, Descriptors
  <2> QED
    BY <2>1, <2>2 DEF Types
<1>4. Made'
  BY <1>1, <1>2 DEF IInv, Made, Fresh, Line, Unsent
<1>5. Gradings'
  BY <1>1, <1>2 DEF IInv, Gradings, Single, Own, Strays, VerdictUnlessOverlapped
<1>6. Sharing'
  BY <1>1, <1>2 DEF IInv, Sharing, Alone, Lateness
<1>7. Counting'
  BY <1>1, <1>2 DEF IInv, Counting, Held, Answered, CountsAreRight, Waits, Served
<1>8. Patient' /\ EndsOnlyFor'
  BY <1>1, <1>2 DEF IInv, Patient, EndsOnlyFor
<1> QED
  BY <1>3, <1>4, <1>5, <1>6, <1>7, <1>8 DEF IInv

LEMMA NextOfAll == IInv /\ [Next]_vars => IInv'
<1> SUFFICES ASSUME IInv, [Next]_vars PROVE IInv'
  OBVIOUS
<1>1. CASE UNCHANGED vars
  BY <1>1, StutterOfAll
<1>2. CASE Next
  <2>1. EndsOnlyFor'
    BY <1>2, EndsOfNext DEF IInv
  <2>2. CASE \E c \in Clients : ClientStep(c)
    <3>1. PICK c \in Clients : ClientStep(c)
      BY <2>2
    <3> QED
      BY <2>1, <3>1, TypesOfClient, MadeOfClient, GradingsOfClient, SharingOfClient,
         CountingOfClient, PatientOfClient DEF IInv
  <2>3. CASE \E k \in Conns : ThreadStep(k)
    <3>1. PICK k \in Conns : ThreadStep(k)
      BY <2>3
    <3> QED
      BY <2>1, <3>1, TypesOfThread, MadeOfThread, GradingsOfThread, SharingOfThread,
         CountingOfThread, PatientOfThread DEF IInv
  <2>4. CASE Accept \/ CloseAfterSleep
    BY <2>1, <2>4, TypesOfMain, MadeOfMain, GradingsOfMain, SharingOfMain, CountingOfMain,
       PatientOfMain DEF IInv
  <2> QED
    BY <1>2, <2>2, <2>3, <2>4 DEF Next
<1> QED
  BY <1>1, <1>2

LEMMA IInvIsInvariant == Spec => []IInv
BY InitOfAll, NextOfAll, PTL DEF Spec

\* Every variable has its type: what is received and what a client's Error
\* counts are never negative, and a round is never counted three times.
THEOREM SharedTypeCorrect == Spec => []TypeOK
<1>1. IInv => TypeOK
  BY DEF IInv, Types
<1> QED
  BY <1>1, IInvIsInvariant, PTL

\* One file.c, one executable and one out.txt for everyone, and descriptors that
\* change hands under the threads: a connection that has not overlapped with
\* another grading is still only ever sent what its own program deserves.
THEOREM VerdictsUnlessOverlapped == Spec => []VerdictUnlessOverlapped
<1>1. IInv => VerdictUnlessOverlapped
  BY DEF IInv, Gradings
<1> QED
  BY <1>1, IInvIsInvariant, PTL

\* A server that has ended has had a client that timed out and closed, or a
\* grading that took longer than main's second.
THEOREM SharedEndsOnlyFor == Spec => []EndsOnlyFor
<1>1. IInv => EndsOnlyFor
  BY DEF IInv
<1> QED
  BY <1>1, IInvIsInvariant, PTL

\* The load test counts every finished round once, and a success is a round
\* whose verdict was sent, if nothing overlapped; or main closed the connection
\* under the grading, or found no thread for it.
THEOREM SharedCountsAreRight == Spec => []CountsAreRight
<1>1. IInv => CountsAreRight
  BY DEF IInv, Counting
<1> QED
  BY <1>1, IInvIsInvariant, PTL
=============================================================================
