----------------------- MODULE ThreadPerRequestProofs -----------------------
(***************************************************************************)
(* The thread-per-request server: its sockets come back whatever happens,  *)
(* and, as long as no grading outlasts the second main sleeps, threads     *)
(* keep their sockets, clients get their own verdicts, and the server      *)
(* implements the abstract grading service; for any number of connections  *)
(* and descriptors.                                                        *)
(***************************************************************************)
EXTENDS ThreadPerRequest, TLAPS

USE DEF threads, files, net

-----------------------------------------------------------------------------
(* Types.                                                                  *)

LEMMA VerdictTypes == \A c \in Conns : VerdictOf(c) \in Verdicts
BY ThreadPerRequestAssumption DEF VerdictOf, Verdicts, Programs

LEMMA CloseTypes ==
    ASSUME TypeOK, NEW d, NEW table \in [Fds -> Conns \cup {None, SourceFile}],
           Close(d, table)
    PROVE  /\ peer' \in [Fds -> Conns \cup {None, SourceFile}]
           /\ client' \in [Conns -> {"new", "open", "gone", "closed"}]
BY DEF TypeOK, Close

LEMMA TerminateTypes == TypeOK /\ Terminate => TypeOK'
BY DEF TypeOK, Terminate

\* A thread that goes on, and one that has its verdict.
LEMMA GotoTypes ==
    ASSUME TypeOK, NEW t \in Conns, NEW label \in Labels, Goto(t, label), result' = result,
           label \in {"reply", "details"} => result[t] \in Verdicts
    PROVE  /\ pc' \in [Conns -> Labels] /\ result' \in [Conns -> Verdicts \cup {NoAnswer}]
           /\ \A c \in Conns : pc'[c] \in {"reply", "details"} => result'[c] \in Verdicts
BY DEF TypeOK, Goto

LEMMA ReplyWithTypes ==
    ASSUME TypeOK, NEW t \in Conns, NEW verdict \in Verdicts, ReplyWith(t, verdict)
    PROVE  /\ pc' \in [Conns -> Labels] /\ result' \in [Conns -> Verdicts \cup {NoAnswer}]
           /\ \A c \in Conns : pc'[c] \in {"reply", "details"} => result'[c] \in Verdicts
<1>1. "reply" \in Labels
  BY DEF Labels
<1>2. result' = [result EXCEPT ![t] = verdict] /\ pc' = [pc EXCEPT ![t] = "reply"]
  BY DEF ReplyWith, Goto
<1> QED
  BY <1>1, <1>2 DEF TypeOK

LEMMA TypeStep == TypeOK /\ [Next]_vars => TypeOK'
<1> SUFFICES ASSUME TypeOK, [Next]_vars PROVE TypeOK'
  OBVIOUS
<1> USE ThreadPerRequestAssumption
<1>v. /\ {"COMPILER ERROR", "RUNTIME ERROR", "Wrong output", "PASSED"} \subseteq Verdicts
      /\ {"run", "compare", "details", "close"} \subseteq Labels
  BY DEF Verdicts, Labels
<1>1. CASE Accept
  <2>1. Head(backlog) \in Conns /\ Tail(backlog) \in Seq(Conns)
    BY <1>1 DEF Accept, TypeOK
  <2>2. PICK d \in Fds : newsockfd' = d /\ peer' = [peer EXCEPT ![d] = Head(backlog)]
    BY <1>1 DEF Accept, Free
  <2>3. /\ peer' \in [Fds -> Conns \cup {None, SourceFile}]
        /\ newsockfd' \in Fds \cup {NoFd}
    BY <2>1, <2>2 DEF TypeOK
  <2>4. /\ pc' \in [Conns -> Labels]
        /\ \A t \in Conns : pc'[t] \in {"reply", "details"} => pc'[t] = pc[t]
    BY <1>1, <2>1 DEF Accept, TypeOK, Labels
  <2> QED
    BY <1>1, <2>1, <2>3, <2>4 DEF Accept, TypeOK
<1>2. CASE AcceptError
  BY <1>2 DEF AcceptError, TypeOK
<1>3. CASE CloseAfterSleep
  <2>1. peer \in [Fds -> Conns \cup {None, SourceFile}]
    BY DEF TypeOK
  <2>2. Close(newsockfd, peer)
    BY <1>3 DEF CloseAfterSleep
  <2> QED
    BY <1>3, <2>1, <2>2, CloseTypes DEF CloseAfterSleep, TypeOK
<1>4. ASSUME NEW t \in Conns, PickUp(t) PROVE TypeOK'
  BY <1>4 DEF PickUp, Goto, TypeOK, Labels
<1>5. ASSUME NEW t \in Conns, Receive(t) PROVE TypeOK'
  BY <1>5 DEF Receive, Goto, TypeOK, Labels, Free, Opened, FileName
<1>6. ASSUME NEW t \in Conns, ReceiveFails(t) PROVE TypeOK'
  <2>1. \E table \in [Fds -> Conns \cup {None, SourceFile}] : Close(fd[t], table)
    BY <1>6 DEF ReceiveFails, TypeOK, Free
  <2>2. /\ peer' \in [Fds -> Conns \cup {None, SourceFile}]
        /\ client' \in [Conns -> {"new", "open", "gone", "closed"}]
    BY <2>1, CloseTypes
  <2>3. code' \in [Fds \cup {NoFd} -> Conns \cup {None}]
    BY <1>6 DEF ReceiveFails, TypeOK, FileName
  <2>4. /\ pc' = [pc EXCEPT ![t] = "done"] /\ "done" \in Labels
        /\ UNCHANGED <<main, newsockfd, fd, result, up, exe, output, backlog, unread, answer>>
    BY <1>6 DEF ReceiveFails, Goto, Labels
  <2> QED
    BY <2>2, <2>3, <2>4 DEF TypeOK
<1>7. ASSUME NEW t \in Conns, Compile(t) PROVE TypeOK'
  <2>1. /\ exe' \in [Fds \cup {NoFd} -> Conns \cup {None}]
        /\ (Goto(t, "run") /\ result' = result) \/ ReplyWith(t, "COMPILER ERROR")
    BY <1>7 DEF Compile, TypeOK, FileName
  <2>2. /\ pc' \in [Conns -> Labels] /\ result' \in [Conns -> Verdicts \cup {NoAnswer}]
        /\ \A c \in Conns : pc'[c] \in {"reply", "details"} => result'[c] \in Verdicts
    BY <2>1, <1>v, GotoTypes, ReplyWithTypes
  <2> QED
    BY <1>7, <2>1, <2>2 DEF Compile, TypeOK
<1>8. ASSUME NEW t \in Conns, Run(t) PROVE TypeOK'
  <2>1. /\ output' \in [Fds \cup {NoFd} -> Conns \cup {None}]
        /\ (Goto(t, "compare") /\ result' = result) \/ ReplyWith(t, "RUNTIME ERROR")
    BY <1>8 DEF Run, TypeOK, FileName
  <2>2. /\ pc' \in [Conns -> Labels] /\ result' \in [Conns -> Verdicts \cup {NoAnswer}]
        /\ \A c \in Conns : pc'[c] \in {"reply", "details"} => result'[c] \in Verdicts
    BY <2>1, <1>v, GotoTypes, ReplyWithTypes
  <2> QED
    BY <1>8, <2>1, <2>2 DEF Run, TypeOK
<1>9. ASSUME NEW t \in Conns, Compare(t) PROVE TypeOK'
  <2>1. \E verdict \in Verdicts : ReplyWith(t, verdict)
    BY <1>9, <1>v DEF Compare
  <2>2. /\ pc' \in [Conns -> Labels] /\ result' \in [Conns -> Verdicts \cup {NoAnswer}]
        /\ \A c \in Conns : pc'[c] \in {"reply", "details"} => result'[c] \in Verdicts
    BY <2>1, ReplyWithTypes
  <2> QED
    BY <1>9, <2>2 DEF Compare, TypeOK
<1>10. ASSUME NEW t \in Conns, Reply(t) PROVE TypeOK'
  <2>1. CASE Terminate
    BY <2>1, TerminateTypes
  <2>2. CASE ~Terminate
    <3>1. /\ \E label \in {"details", "close"} : Goto(t, label)
          /\ UNCHANGED <<main, newsockfd, fd, result, up, peer, files, backlog, client, unread>>
          /\ result[t] \in Verdicts
      BY <1>10, <2>2 DEF Reply, TypeOK
    <3>2. /\ pc' \in [Conns -> Labels] /\ result' \in [Conns -> Verdicts \cup {NoAnswer}]
          /\ \A c \in Conns : pc'[c] \in {"reply", "details"} => result'[c] \in Verdicts
      BY <1>v, <3>1, GotoTypes
    <3>3. answer' \in [Conns -> Verdicts \cup {NoAnswer}]
      BY <1>10, <2>2, <3>1 DEF Reply, TypeOK
    <3> QED
      BY <3>1, <3>2, <3>3 DEF TypeOK
  <2> QED
    BY <2>1, <2>2
<1>11. ASSUME NEW t \in Conns, ReplyDetails(t) PROVE TypeOK'
  BY <1>11 DEF ReplyDetails, Goto, TypeOK, Labels
<1>12. ASSUME NEW t \in Conns, ReplyDetailsFatal(t) PROVE TypeOK'
  BY <1>12, TerminateTypes DEF ReplyDetailsFatal
<1>13. ASSUME NEW t \in Conns, CloseAndExit(t) PROVE TypeOK'
  <2>1. peer \in [Fds -> Conns \cup {None, SourceFile}]
    BY DEF TypeOK
  <2>2. Close(fd[t], peer)
    BY <1>13 DEF CloseAndExit
  <2> QED
    BY <1>13, <2>1, <2>2, CloseTypes DEF CloseAndExit, Goto, TypeOK, Labels
<1>14. ASSUME NEW c \in Conns, Connect(c) \/ ConnectOnly(c) \/ Leave(c) PROVE TypeOK'
  <2>1. Append(backlog, c) \in Seq(Conns)
    BY DEF TypeOK
  <2>2. client' \in [Conns -> {"new", "open", "gone", "closed"}]
    BY <1>14 DEF Connect, ConnectOnly, Leave, TypeOK
  <2>3. backlog' \in Seq(Conns) /\ unread' \in SUBSET Conns
    BY <1>14, <2>1 DEF Connect, ConnectOnly, Leave, TypeOK
  <2> QED
    BY <1>14, <2>2, <2>3 DEF Connect, ConnectOnly, Leave, TypeOK
<1>15. CASE UNCHANGED vars
  BY <1>15 DEF vars, TypeOK
<1> QED
  BY <1>1, <1>2, <1>3, <1>4, <1>5, <1>6, <1>7, <1>8, <1>9, <1>10, <1>11, <1>12,
     <1>13, <1>14, <1>15 DEF Next, MainStep, ThreadStep

LEMMA TypeInit == Init => TypeOK
BY ThreadPerRequestAssumption DEF Init, TypeOK, Labels

\* Every variable keeps its type, and a thread has a verdict before it sends
\* one.
THEOREM RequestTypeCorrect == Spec => []TypeOK
BY TypeInit, TypeStep, PTL DEF Spec

-----------------------------------------------------------------------------
(* Descriptors.                                                            *)

Active(t) == pc[t] \notin {"none", "done"}

\* A socket is open once, and while its thread is at work, or while main
\* sleeps on it; in the backlog and before connecting there is none, and no
\* thread.  When main accepts, no thread is yet to read newsockfd, or to open
\* a file that it keeps.
Waiting(c) == client[c] = "new" \/ \E i \in DOMAIN backlog : backlog[i] = c

Fresh ==
    /\ \A c \in Conns : Waiting(c) => pc[c] = "none" /\ \A d \in Fds : peer[d] # c
    /\ \A i \in DOMAIN backlog : client[backlog[i]] # "new"
    /\ \A i, j \in DOMAIN backlog : backlog[i] = backlog[j] => i = j

Sockets ==
    up => /\ main = "sleep" => newsockfd \in Fds
          /\ main = "accept" =>
                /\ Free # {}
                /\ \A t \in Conns : pc[t] \notin {"start", "receive"}
          /\ \A d \in Fds : peer[d] \in Conns =>
                IF Active(peer[d])
                THEN d = IF pc[peer[d]] = "start" THEN newsockfd ELSE fd[peer[d]]
                ELSE main = "sleep" /\ d = newsockfd

SocketInv == TypeOK /\ Fresh /\ Sockets

LEMMA SocketInit == Fds # {} /\ Init => SocketInv
BY TypeInit, ThreadPerRequestAssumption
DEF Init, SocketInv, Fresh, Sockets, Waiting, Free, Active

\* What Fresh rests on: no step but the accept's takes a connection out of
\* the backlog or gives it a descriptor.
LEMMA FreshSame ==
    ASSUME TypeOK, Fresh, backlog' = backlog,
           \A c \in Conns : pc[c] = "none" => pc'[c] = "none",
           \A c \in Conns : client'[c] = "new" <=> client[c] = "new",
           \A d \in Fds : peer'[d] \in Conns => peer'[d] = peer[d]
    PROVE  Fresh'
BY DEF Fresh, Waiting, TypeOK

LEMMA FreshStep == TypeOK /\ Fresh /\ [Next]_vars => Fresh'
<1> SUFFICES ASSUME TypeOK, Fresh, [Next]_vars PROVE Fresh'
  OBVIOUS
<1> USE ThreadPerRequestAssumption
<1>1. CASE Accept
  <2>0. PICK k \in Conns : k = Head(backlog)
    BY <1>1 DEF Accept, TypeOK
  <2>1. /\ backlog \in Seq(Conns) /\ backlog # <<>> /\ backlog[1] = k
        /\ DOMAIN backlog = 1 .. Len(backlog) /\ 1 \in DOMAIN backlog
        /\ DOMAIN backlog' = 1 .. Len(backlog) - 1
        /\ \A i \in DOMAIN backlog' : backlog'[i] = backlog[i + 1] /\ i + 1 \in DOMAIN backlog
    BY <1>1, <2>0 DEF Accept, TypeOK
  <2>2. /\ client' = client
        /\ \A c \in Conns : c # k => pc'[c] = pc[c]
        /\ \A d \in Fds : peer'[d] = peer[d] \/ peer'[d] = k
    BY <1>1, <2>0 DEF Accept, TypeOK, Free
  <2>3. ~Waiting(k)' /\ \A c \in Conns : Waiting(c)' => Waiting(c)
    <3>1. client[k] # "new" /\ \A i \in DOMAIN backlog' : backlog'[i] # k
      <4>1. \A i \in DOMAIN backlog' : i + 1 # 1
        BY <2>1
      <4> QED
        BY <2>1, <4>1 DEF Fresh
    <3>2. \A c \in Conns : Waiting(c)' => Waiting(c)
      BY <2>1, <2>2 DEF Waiting
    <3> QED
      BY <2>2, <3>1, <3>2 DEF Waiting
  <2>4. \A i \in DOMAIN backlog' : client'[backlog'[i]] # "new"
    BY <2>1, <2>2 DEF Fresh
  <2>5. \A i, j \in DOMAIN backlog' : backlog'[i] = backlog'[j] => i = j
    BY <2>1 DEF Fresh
  <2>6. ASSUME NEW c \in Conns, Waiting(c)'
        PROVE  pc'[c] = "none" /\ \A d \in Fds : peer'[d] # c
    <3>1. c # k /\ Waiting(c)
      BY <2>1, <2>3, <2>6
    <3>2. pc[c] = "none" /\ \A d \in Fds : peer[d] # c
      BY <3>1 DEF Fresh
    <3> QED
      BY <2>2, <3>1, <3>2
  <2> QED
    BY <2>4, <2>5, <2>6 DEF Fresh
<1>2. CASE AcceptError
  <2>1. /\ DOMAIN backlog' = 1 .. Len(backlog) - 1
        /\ \A i \in DOMAIN backlog' : backlog'[i] = backlog[i + 1] /\ i + 1 \in DOMAIN backlog
    BY <1>2 DEF AcceptError, TypeOK
  <2>2. UNCHANGED <<pc, client, peer>>
    BY <1>2 DEF AcceptError
  <2> QED
    BY <2>1, <2>2 DEF Fresh, Waiting
<1>3. CASE CloseAfterSleep
  BY <1>3, FreshSame DEF CloseAfterSleep, Close, TypeOK
<1>4. ASSUME NEW t \in Conns, ThreadStep(t) PROVE Fresh'
  <2>1. pc[t] # "none" /\ backlog' = backlog
    BY <1>4 DEF ThreadStep, PickUp, Receive, ReceiveFails, Compile, Run, Compare,
       Reply, ReplyDetails, ReplyDetailsFatal, CloseAndExit, Terminate
  <2>2. \A c \in Conns : c # t => pc'[c] = pc[c]
    <3>1. pc' = pc \/ \E label : Goto(t, label)
      BY <1>4 DEF ThreadStep, PickUp, Receive, ReceiveFails, Compile, Run, Compare, Reply,
         ReplyDetails, ReplyDetailsFatal, CloseAndExit, Terminate, ReplyWith
    <3> QED
      BY <3>1 DEF Goto, TypeOK
  <2>3. /\ \A c \in Conns : client'[c] = "new" <=> client[c] = "new"
        /\ \A d \in Fds : peer'[d] \in Conns => peer'[d] = peer[d]
    <3>1. CASE Receive(t)
      BY <3>1 DEF Receive, Free, TypeOK
    <3>2. CASE ReceiveFails(t)
      BY <3>2 DEF ReceiveFails, Close, Free, TypeOK
    <3>3. CASE CloseAndExit(t)
      BY <3>3 DEF CloseAndExit, Close, TypeOK
    <3>4. CASE Terminate
      BY <3>4 DEF Terminate, TypeOK
    <3>5. CASE UNCHANGED <<client, peer>>
      BY <3>5
    <3> QED
      BY <1>4, <3>1, <3>2, <3>3, <3>4, <3>5
      DEF ThreadStep, PickUp, Compile, Run, Compare, Reply, ReplyDetails, ReplyDetailsFatal
  <2> QED
    BY <2>1, <2>2, <2>3, FreshSame
<1>5. ASSUME NEW c \in Conns, Connect(c) \/ ConnectOnly(c) PROVE Fresh'
  <2>1. /\ client[c] = "new" /\ client'[c] # "new"
        /\ \A k \in Conns : k # c => client'[k] = client[k]
        /\ UNCHANGED <<pc, peer>>
    BY <1>5 DEF Connect, ConnectOnly, TypeOK
  <2>2. /\ DOMAIN backlog' = 1 .. Len(backlog) + 1 /\ Len(backlog) \in Nat
        /\ DOMAIN backlog = 1 .. Len(backlog)
        /\ \A i \in DOMAIN backlog : backlog'[i] = backlog[i] /\ backlog[i] \in Conns
        /\ backlog'[Len(backlog) + 1] = c
    <3>1. backlog' = Append(backlog, c) /\ backlog \in Seq(Conns)
      BY <1>5 DEF Connect, ConnectOnly, TypeOK
    <3> QED
      BY <3>1
  <2>3. \A k \in Conns : Waiting(k)' => Waiting(k)
    BY <2>1, <2>2 DEF Waiting
  <2>4. \A i \in DOMAIN backlog' : client'[backlog'[i]] # "new"
    BY <2>1, <2>2 DEF Fresh
  <2>5. \A i, j \in DOMAIN backlog' : backlog'[i] = backlog'[j] => i = j
    BY <2>1, <2>2 DEF Fresh
  <2> QED
    BY <2>1, <2>3, <2>4, <2>5 DEF Fresh
<1>6. ASSUME NEW c \in Conns, Leave(c) PROVE Fresh'
  BY <1>6, FreshSame DEF Leave, TypeOK
<1>7. CASE UNCHANGED vars
  BY <1>7, FreshSame DEF vars
<1> QED
  BY <1>1, <1>2, <1>3, <1>4, <1>5, <1>6, <1>7 DEF Next, MainStep

\* A thread that goes on grading leaves the descriptors as they are.
LEMMA SocketsSame ==
    ASSUME TypeOK, Sockets, NEW t \in Conns, pc[t] \notin {"none", "start", "done"},
           NEW label \in Labels \ {"none", "start", "receive", "done"},
           pc' = [pc EXCEPT ![t] = label],
           UNCHANGED <<main, newsockfd, up, peer, fd>>
    PROVE  Sockets'
<1>1. \A c \in Conns : /\ Active(c)' <=> Active(c)
                       /\ pc'[c] = "start" <=> pc[c] = "start"
                       /\ pc'[c] = "receive" => pc[c] = "receive"
  BY DEF Active, TypeOK
<1> QED
  BY <1>1 DEF Sockets, Free, TypeOK

LEMMA SocketsStep == SocketInv /\ [Next]_vars => Sockets'
<1> SUFFICES ASSUME SocketInv, [Next]_vars PROVE Sockets'
  OBVIOUS
<1> USE ThreadPerRequestAssumption
<1>a. TypeOK /\ Fresh /\ Sockets
  BY DEF SocketInv
<1>b. CASE up' = FALSE
  BY <1>b DEF Sockets
<1>1. CASE Accept
  <2>0. PICK k \in Conns : k = Head(backlog)
    BY <1>1, <1>a DEF Accept, TypeOK
  <2>1. k = backlog[1] /\ 1 \in DOMAIN backlog
    BY <1>1, <1>a, <2>0 DEF Accept, TypeOK
  <2>2. pc[k] = "none" /\ \A d \in Fds : peer[d] # k
    BY <1>a, <2>1 DEF Fresh, Waiting
  <2>3. PICK d \in Fds : newsockfd' = d /\ peer' = [peer EXCEPT ![d] = k]
    BY <1>1, <2>0 DEF Accept, Free
  <2>4. /\ up' = up /\ up /\ main = "accept" /\ main' = "sleep" /\ fd' = fd
        /\ pc'[k] \in {"none", "start"}
        /\ \A c \in Conns : c # k => pc'[c] = pc[c]
    BY <1>1, <1>a, <2>0, <2>2 DEF Accept, TypeOK
  <2>5. peer'[d] = k /\ \A e \in Fds : e # d => peer'[e] = peer[e]
    BY <1>a, <2>3 DEF TypeOK
  <2>6. ASSUME NEW e \in Fds, peer'[e] \in Conns, e # d
        PROVE  /\ pc'[peer'[e]] \notin {"none", "start", "done"} /\ e = fd'[peer'[e]]
    <3>1. peer'[e] = peer[e] /\ peer[e] # k
      BY <2>2, <2>5, <2>6
    <3>2. Active(peer[e]) /\ pc[peer[e]] # "start" /\ e = fd[peer[e]]
      BY <1>a, <2>4, <2>6, <3>1 DEF Sockets
    <3>3. pc'[peer[e]] = pc[peer[e]]
      BY <2>4, <2>6, <3>1
    <3> QED
      BY <2>4, <3>1, <3>2, <3>3 DEF Active
  <2>7. IF pc'[k] \in {"none", "done"} THEN main' = "sleep" /\ d = newsockfd'
        ELSE pc'[k] = "start" /\ d = newsockfd'
    BY <2>3, <2>4
  <2>8. newsockfd' \in Fds /\ main' = "sleep"
    BY <2>3, <2>4
  <2> QED
    BY <2>5, <2>6, <2>7, <2>8 DEF Sockets, Active
<1>2. CASE AcceptError
  BY <1>2, <1>a DEF AcceptError, Sockets, Active, Free
<1>3. CASE CloseAfterSleep
  <2>1. newsockfd \in Fds /\ UNCHANGED <<newsockfd, pc, fd, up>> /\ up /\ main' = "accept"
    BY <1>3, <1>a DEF CloseAfterSleep, Sockets
  <2>2. \A d \in Fds : peer'[d] = IF d = newsockfd THEN None ELSE peer[d]
    BY <1>3 DEF CloseAfterSleep, Close
  <2>3. \A t \in Conns : pc[t] \notin {"start", "receive"}
    BY <1>3 DEF CloseAfterSleep, SleepIsOver
  <2>4. Free' # {}
    BY <2>1, <2>2 DEF Free
  <2> QED
    BY <1>a, <2>1, <2>2, <2>3, <2>4 DEF Sockets, Active
<1>4. ASSUME NEW t \in Conns, PickUp(t) PROVE Sockets'
  <2>1. /\ up /\ pc[t] = "start" /\ UNCHANGED <<main, newsockfd, up, peer>>
        /\ pc'[t] = "receive" /\ fd'[t] = newsockfd
        /\ \A c \in Conns : c # t => pc'[c] = pc[c] /\ fd'[c] = fd[c]
    BY <1>4, <1>a DEF PickUp, Goto, TypeOK
  <2>2. main = "sleep"
    BY <1>a, <2>1 DEF Sockets, TypeOK
  <2> QED
    BY <1>a, <2>1, <2>2 DEF Sockets, Active
<1>5. ASSUME NEW t \in Conns, Receive(t) PROVE Sockets'
  <2>1. /\ up /\ pc[t] = "receive" /\ UNCHANGED <<main, newsockfd, up, fd>>
        /\ pc'[t] = "compile" /\ \A c \in Conns : c # t => pc'[c] = pc[c]
        /\ \A d \in Fds : peer'[d] = peer[d] \/ peer'[d] = SourceFile
    BY <1>5, <1>a DEF Receive, Goto, TypeOK
  <2>2. main = "sleep"
    BY <1>a, <2>1 DEF Sockets, TypeOK
  <2> QED
    BY <1>a, <2>1, <2>2 DEF Sockets, Active
<1>6. ASSUME NEW t \in Conns, ReceiveFails(t) \/ CloseAndExit(t) PROVE Sockets'
  <2>1. /\ up /\ pc[t] \notin {"none", "start", "done"}
        /\ UNCHANGED <<main, newsockfd, up, fd>>
        /\ pc'[t] = "done" /\ \A c \in Conns : c # t => pc'[c] = pc[c]
    BY <1>6, <1>a DEF ReceiveFails, CloseAndExit, Goto, TypeOK
  <2>2. \A d \in Fds : IF d = fd[t] THEN peer'[d] = None
                       ELSE peer'[d] = peer[d] \/ peer'[d] = SourceFile
    BY <1>6, <1>a DEF ReceiveFails, CloseAndExit, Close, TypeOK
  <2>3. main = "accept" => Free' # {}
    <3>1. main = "accept" => pc[t] # "receive" /\ Free # {}
      BY <1>a, <2>1 DEF Sockets
    <3>2. main = "accept" => \A d \in Fds : peer'[d] = peer[d] \/ peer'[d] = None
      BY <1>6, <3>1 DEF ReceiveFails, CloseAndExit, Close
    <3> QED
      BY <3>1, <3>2 DEF Free
  <2> QED
    BY <1>a, <2>1, <2>2, <2>3 DEF Sockets, Active
<1>7. ASSUME NEW t \in Conns,
             Compile(t) \/ Run(t) \/ Compare(t) \/ Reply(t) \/ ReplyDetails(t)
      PROVE  Sockets'
  <2>1. CASE Terminate
    BY <2>1, <1>b DEF Terminate
  <2>2. CASE ~Terminate
    <3>1. /\ pc[t] \notin {"none", "start", "done"}
          /\ UNCHANGED <<main, newsockfd, up, peer, fd>>
      BY <1>7, <2>2 DEF Compile, Run, Compare, Reply, ReplyDetails
    <3>2. PICK label \in Labels \ {"none", "start", "receive", "done"} :
              pc' = [pc EXCEPT ![t] = label]
      BY <1>7, <2>2 DEF Compile, Run, Compare, Reply, ReplyDetails, ReplyWith, Goto, Labels
    <3> QED
      BY <1>a, <3>1, <3>2, SocketsSame
  <2> QED
    BY <2>1, <2>2
<1>8. ASSUME NEW t \in Conns, ReplyDetailsFatal(t) PROVE Sockets'
  BY <1>8, <1>b DEF ReplyDetailsFatal, Terminate
<1>9. ASSUME NEW c \in Conns, Connect(c) \/ ConnectOnly(c) \/ Leave(c) PROVE Sockets'
  BY <1>9, <1>a DEF Connect, ConnectOnly, Leave, Sockets, Active, Free
<1>10. CASE UNCHANGED vars
  BY <1>10, <1>a DEF vars, Sockets, Active, Free
<1> QED
  BY <1>1, <1>2, <1>3, <1>4, <1>5, <1>6, <1>7, <1>8, <1>9, <1>10
  DEF Next, MainStep, ThreadStep

\* However long gradings last, whatever fails and whoever leaves: when main
\* accepts, every open socket is that of a thread at work, and accept finds a
\* descriptor, if the process may have any at all.
THEOREM SocketsAlwaysComeBack ==
    ASSUME Fds # {}
    PROVE  Spec => []SocketsComeBack
<1>1. Init => SocketInv
  BY SocketInit
<1>2. SocketInv /\ [Next]_vars => SocketInv'
  BY TypeStep, FreshStep, SocketsStep DEF SocketInv
<1>3. SocketInv => SocketsComeBack
  BY DEF SocketInv, Sockets, SocketsComeBack, Active
<1> QED
  BY <1>1, <1>2, <1>3, PTL DEF Spec

-----------------------------------------------------------------------------
(* Gradings that a second is enough for.                                   *)

\* One connection at a time: whoever's thread is at work, main sleeps on it.
Turn ==
    up => \A t \in Conns : Active(t) =>
            /\ main = "sleep" /\ newsockfd \in Fds /\ peer[newsockfd] = t
            /\ pc[t] # "start" => fd[t] = newsockfd

\* What a thread has written so far is about its own client's program.
Graded(t) ==
    /\ pc[t] = "compile" => code[fd[t]] = t
    /\ pc[t] = "run" => exe[fd[t]] = t /\ ProgramOf(t) # "uncompilable"
    /\ pc[t] = "compare" => /\ output[fd[t]] = t
                            /\ ProgramOf(t) \notin {"uncompilable", "failing"}
    /\ pc[t] \in {"reply", "details"} => result[t] = VerdictOf(t)

Grading == up => \A t \in Conns : Graded(t)

Answers ==
    /\ VerdictForTheRightClient
    /\ \A c \in Conns : client[c] = "new" => answer[c] = NoAnswer

GradingInv == TypeOK /\ Turn /\ Grading /\ Answers

LEMMA GradingInit == Init => GradingInv
BY TypeInit DEF Init, GradingInv, Turn, Active, Grading, Graded, Answers,
   VerdictForTheRightClient

LEMMA Alone ==
    ASSUME Turn, up, NEW t \in Conns, Active(t)
    PROVE  /\ \A c \in Conns : Active(c) => c = t
           /\ main = "sleep" /\ newsockfd \in Fds /\ peer[newsockfd] = t
           /\ pc[t] # "start" => fd[t] = newsockfd /\ Opened(fd[t]) = t
BY DEF Turn, Opened

\* A thread that goes on, on the socket it has, leaves everyone's turn as it is.
LEMMA TurnSame ==
    ASSUME TypeOK, Turn, up, NEW t \in Conns, Active(t), NEW label \in Labels \ {"start"},
           pc' = [pc EXCEPT ![t] = label],
           pc[t] # "start" => fd'[t] = fd[t],
           pc[t] = "start" => fd'[t] = newsockfd,
           peer'[newsockfd] = t \/ label = "done",
           UNCHANGED <<main, newsockfd, up>>
    PROVE  Turn'
<1>1. pc'[t] = label /\ \A c \in Conns : c # t => pc'[c] = pc[c]
  BY DEF TypeOK
<1>2. \A c \in Conns : c # t => ~Active(c)'
  BY <1>1, Alone DEF Active
<1>3. main = "sleep" /\ newsockfd \in Fds /\ fd'[t] = newsockfd
  BY Alone
<1> QED
  BY <1>1, <1>2, <1>3 DEF Turn, Active

LEMMA TurnStep ==
    ASSUME Slow = {}, TypeOK, Turn, [Next]_vars
    PROVE  Turn'
<1> USE ThreadPerRequestAssumption
<1>a. CASE up' = FALSE
  BY <1>a DEF Turn
<1>b. up /\ main = "accept" => \A t \in Conns : ~Active(t)
  BY DEF Turn
<1>1. CASE Accept
  <2>0. PICK k \in Conns : k = Head(backlog)
    BY <1>1 DEF Accept, TypeOK
  <2>1. PICK d \in Fds : newsockfd' = d /\ peer' = [peer EXCEPT ![d] = k]
    BY <1>1, <2>0 DEF Accept, Free
  <2>2. /\ up /\ main = "accept" /\ main' = "sleep"
        /\ pc' = pc \/ pc' = [pc EXCEPT ![k] = "start"]
    BY <1>1, <2>0 DEF Accept
  <2>3. /\ \A c \in Conns : Active(c)' => c = k /\ pc'[c] = "start"
        /\ peer'[d] = k
    BY <1>b, <2>1, <2>2 DEF Active, TypeOK
  <2> QED
    BY <2>1, <2>2, <2>3 DEF Turn
<1>2. CASE AcceptError
  BY <1>2, <1>b DEF AcceptError, Turn, Active
<1>3. CASE CloseAfterSleep
  BY <1>3 DEF CloseAfterSleep, SleepIsOver, Turn, Active
<1>4. ASSUME NEW t \in Conns, PickUp(t) PROVE Turn'
  <2>1. /\ up /\ Active(t) /\ pc[t] = "start" /\ UNCHANGED <<main, newsockfd, up, peer>>
        /\ pc' = [pc EXCEPT ![t] = "receive"] /\ fd'[t] = newsockfd
    BY <1>4 DEF PickUp, Goto, TypeOK, Active
  <2>2. "receive" \in Labels \ {"start"}
    BY DEF Labels
  <2>3. peer'[newsockfd] = t
    BY <2>1, Alone
  <2> QED
    BY <2>1, <2>2, <2>3, TurnSame
<1>5. ASSUME NEW t \in Conns, Receive(t) PROVE Turn'
  <2>1. /\ up /\ Active(t) /\ pc[t] # "start" /\ UNCHANGED <<main, newsockfd, up, fd>>
        /\ pc' = [pc EXCEPT ![t] = "compile"]
    BY <1>5 DEF Receive, Goto, Active
  <2>2. "compile" \in Labels \ {"start"}
    BY DEF Labels
  <2>3. peer'[newsockfd] = t
    <3>1. peer[newsockfd] = t /\ newsockfd \in Fds
      BY <2>1, Alone
    <3> QED
      BY <1>5, <3>1 DEF Receive, Free, TypeOK
  <2> QED
    BY <2>1, <2>2, <2>3, TurnSame
<1>6. ASSUME NEW t \in Conns, ReceiveFails(t) \/ CloseAndExit(t) PROVE Turn'
  <2>1. /\ up /\ Active(t) /\ pc[t] # "start" /\ UNCHANGED <<main, newsockfd, up, fd>>
        /\ pc' = [pc EXCEPT ![t] = "done"]
    BY <1>6 DEF ReceiveFails, CloseAndExit, Goto, Active
  <2>2. "done" \in Labels \ {"start"}
    BY DEF Labels
  <2> QED
    BY <2>1, <2>2, TurnSame
<1>7. ASSUME NEW t \in Conns,
             Compile(t) \/ Run(t) \/ Compare(t) \/ Reply(t) \/ ReplyDetails(t)
      PROVE  Turn'
  <2>1. CASE Terminate
    BY <2>1, <1>a DEF Terminate
  <2>2. CASE ~Terminate
    <3>1. /\ up /\ Active(t) /\ pc[t] # "start"
          /\ UNCHANGED <<main, newsockfd, up, peer, fd>>
      BY <1>7, <2>2 DEF Compile, Run, Compare, Reply, ReplyDetails, Active
    <3>2. PICK label \in Labels \ {"start"} : pc' = [pc EXCEPT ![t] = label]
      BY <1>7, <2>2 DEF Compile, Run, Compare, Reply, ReplyDetails, ReplyWith, Goto, Labels
    <3>3. peer'[newsockfd] = t
      BY <3>1, Alone
    <3> QED
      BY <3>1, <3>2, <3>3, TurnSame
  <2> QED
    BY <2>1, <2>2
<1>8. ASSUME NEW t \in Conns, ReplyDetailsFatal(t) PROVE Turn'
  BY <1>8, <1>a DEF ReplyDetailsFatal, Terminate
<1>9. ASSUME NEW c \in Conns, Connect(c) \/ ConnectOnly(c) \/ Leave(c) PROVE Turn'
  BY <1>9 DEF Connect, ConnectOnly, Leave, Turn, Active
<1>10. CASE UNCHANGED vars
  BY <1>10 DEF vars, Turn, Active
<1> QED
  BY <1>1, <1>2, <1>3, <1>4, <1>5, <1>6, <1>7, <1>8, <1>9, <1>10
  DEF Next, MainStep, ThreadStep

\* A step of the one thread at work disturbs no other's files.
LEMMA GradingOfOne ==
    ASSUME TypeOK, Turn, up, NEW t \in Conns, Active(t), NEW label \in Labels,
           pc' = [pc EXCEPT ![t] = label], Graded(t)'
    PROVE  Grading'
<1>1. \A c \in Conns : c # t => pc'[c] = pc[c] /\ ~Active(c)
  BY Alone DEF TypeOK
<1>2. \A c \in Conns : c # t => Graded(c)'
  BY <1>1 DEF Active, Graded
<1> QED
  BY <1>2 DEF Grading

\* What the client of a thread about to reply is told.
LEMMA GradingStep == TypeOK /\ Turn /\ Grading /\ [Next]_vars => Grading'
<1> SUFFICES ASSUME TypeOK, Turn, Grading, [Next]_vars PROVE Grading'
  OBVIOUS
<1> USE ThreadPerRequestAssumption
<1>a. CASE up' = FALSE
  BY <1>a DEF Grading
<1>1. CASE Accept
  <2>1. /\ up /\ UNCHANGED <<fd, code, exe, output, result>>
        /\ \A t \in Conns : pc'[t] = pc[t] \/ pc'[t] = "start"
    BY <1>1 DEF Accept, TypeOK
  <2> QED
    BY <2>1 DEF Grading, Graded
<1>2. CASE AcceptError \/ CloseAfterSleep
  BY <1>2 DEF AcceptError, CloseAfterSleep, Grading, Graded
<1>3. ASSUME NEW t \in Conns, PickUp(t) PROVE Grading'
  <2>1. up /\ Active(t) /\ pc' = [pc EXCEPT ![t] = "receive"] /\ "receive" \in Labels
    BY <1>3 DEF PickUp, Goto, Active, Labels
  <2>2. Graded(t)'
    BY <2>1 DEF Graded, TypeOK
  <2> QED
    BY <2>1, <2>2, GradingOfOne
<1>4. ASSUME NEW t \in Conns, Receive(t) PROVE Grading'
  <2>1. /\ up /\ Active(t) /\ pc[t] # "start" /\ fd' = fd
        /\ pc' = [pc EXCEPT ![t] = "compile"] /\ "compile" \in Labels
    BY <1>4 DEF Receive, Goto, Active, Labels
  <2>2. Opened(fd[t]) = t
    BY <2>1, Alone
  <2>3. code'[fd[t]] = t
    BY <1>4, <2>2 DEF Receive, FileName, TypeOK
  <2>4. Graded(t)'
    BY <2>1, <2>3 DEF Graded, TypeOK
  <2> QED
    BY <2>1, <2>4, GradingOfOne
<1>5. ASSUME NEW t \in Conns, ReceiveFails(t) \/ CloseAndExit(t) PROVE Grading'
  <2>1. up /\ Active(t) /\ pc' = [pc EXCEPT ![t] = "done"] /\ "done" \in Labels
    BY <1>5 DEF ReceiveFails, CloseAndExit, Goto, Active, Labels
  <2>2. Graded(t)'
    BY <2>1 DEF Graded, TypeOK
  <2> QED
    BY <2>1, <2>2, GradingOfOne
<1>6. ASSUME NEW t \in Conns, Compile(t) PROVE Grading'
  <2>1. /\ up /\ Active(t) /\ fd' = fd /\ code[fd[t]] = t /\ t # None
        /\ fd[t] \in Fds \cup {NoFd}
    BY <1>6 DEF Compile, FileName, Active, Grading, Graded, TypeOK
  <2>2. CASE ProgramOf(t) # "uncompilable"
    <3>1. /\ pc' = [pc EXCEPT ![t] = "run"] /\ "run" \in Labels
          /\ exe' = [exe EXCEPT ![fd[t]] = t]
      BY <1>6, <2>1, <2>2 DEF Compile, FileName, Goto, Labels
    <3>2. Graded(t)'
      BY <2>1, <2>2, <3>1 DEF Graded, TypeOK
    <3> QED
      BY <2>1, <3>1, <3>2, GradingOfOne
  <2>3. CASE ProgramOf(t) = "uncompilable"
    <3>1. /\ pc' = [pc EXCEPT ![t] = "reply"] /\ "reply" \in Labels
          /\ result' = [result EXCEPT ![t] = "COMPILER ERROR"]
      BY <1>6, <2>1, <2>3 DEF Compile, FileName, ReplyWith, Goto, Labels
    <3>2. Graded(t)'
      BY <2>3, <3>1 DEF Graded, TypeOK, VerdictOf
    <3> QED
      BY <2>1, <3>1, <3>2, GradingOfOne
  <2> QED
    BY <2>2, <2>3
<1>7. ASSUME NEW t \in Conns, Run(t) PROVE Grading'
  <2>1. /\ up /\ Active(t) /\ fd' = fd /\ exe[fd[t]] = t
        /\ ProgramOf(t) # "uncompilable" /\ fd[t] \in Fds \cup {NoFd}
        /\ output' = [output EXCEPT ![fd[t]] = t]
    BY <1>7 DEF Run, FileName, Active, Grading, Graded, TypeOK
  <2>2. CASE ProgramOf(t) # "failing"
    <3>1. pc' = [pc EXCEPT ![t] = "compare"] /\ "compare" \in Labels
      BY <1>7, <2>1, <2>2 DEF Run, FileName, Goto, Labels
    <3>2. Graded(t)'
      BY <2>1, <2>2, <3>1 DEF Graded, TypeOK
    <3> QED
      BY <2>1, <3>1, <3>2, GradingOfOne
  <2>3. CASE ProgramOf(t) = "failing"
    <3>1. /\ pc' = [pc EXCEPT ![t] = "reply"] /\ "reply" \in Labels
          /\ result' = [result EXCEPT ![t] = "RUNTIME ERROR"]
      BY <1>7, <2>1, <2>3 DEF Run, FileName, ReplyWith, Goto, Labels
    <3>2. Graded(t)'
      BY <2>3, <3>1 DEF Graded, TypeOK, VerdictOf
    <3> QED
      BY <2>1, <3>1, <3>2, GradingOfOne
  <2> QED
    BY <2>2, <2>3
<1>8. ASSUME NEW t \in Conns, Compare(t) PROVE Grading'
  <2>1. /\ up /\ Active(t) /\ output[fd[t]] = t
        /\ ProgramOf(t) \in {"wrong", "right"}
    BY <1>8 DEF Compare, Active, Grading, Graded, Programs
  <2>2. /\ pc' = [pc EXCEPT ![t] = "reply"] /\ "reply" \in Labels
        /\ result' = [result EXCEPT ![t] = IF ProgramOf(t) = "right"
                                           THEN "PASSED" ELSE "Wrong output"]
    BY <1>8, <2>1 DEF Compare, FileName, ReplyWith, Goto, Labels
  <2>3. VerdictOf(t) = IF ProgramOf(t) = "right" THEN "PASSED" ELSE "Wrong output"
    BY <2>1 DEF VerdictOf
  <2>4. Graded(t)'
    BY <2>2, <2>3 DEF Graded, TypeOK
  <2> QED
    BY <2>1, <2>2, <2>4, GradingOfOne
<1>9. ASSUME NEW t \in Conns, Reply(t) \/ ReplyDetails(t) PROVE Grading'
  <2>1. CASE Terminate
    BY <2>1, <1>a DEF Terminate
  <2>2. CASE ~Terminate
    <3>1. /\ up /\ Active(t) /\ result[t] = VerdictOf(t) /\ result' = result
      BY <1>9, <2>2 DEF Reply, ReplyDetails, Active, Grading, Graded
    <3>2. PICK label \in {"details", "close"} : pc' = [pc EXCEPT ![t] = label]
      BY <1>9, <2>2 DEF Reply, ReplyDetails, Goto
    <3>3. label \in Labels /\ Graded(t)'
      BY <3>1, <3>2 DEF Graded, TypeOK, Labels
    <3> QED
      BY <3>1, <3>2, <3>3, GradingOfOne
  <2> QED
    BY <2>1, <2>2
<1>10. ASSUME NEW t \in Conns, ReplyDetailsFatal(t) PROVE Grading'
  BY <1>10, <1>a DEF ReplyDetailsFatal, Terminate
<1>11. ASSUME NEW c \in Conns, Connect(c) \/ ConnectOnly(c) \/ Leave(c) PROVE Grading'
  BY <1>11 DEF Connect, ConnectOnly, Leave, Grading, Graded
<1>12. CASE UNCHANGED vars
  BY <1>12 DEF vars, Grading, Graded
<1> QED
  BY <1>1, <1>2, <1>3, <1>4, <1>5, <1>6, <1>7, <1>8, <1>9, <1>10, <1>11, <1>12
  DEF Next, MainStep, ThreadStep

-----------------------------------------------------------------------------
(* The clients' side of every step.                                        *)

\* A reply reaches the thread's own client, with its own verdict.
LEMMA ReplyToMine ==
    ASSUME TypeOK, Turn, Grading, NEW t \in Conns, Reply(t)
    PROVE  \/ Terminate
           \/ UNCHANGED <<client, answer>>
           \/ /\ client[t] = "open" /\ answer[t] = NoAnswer
              /\ client' = client
              /\ answer' = [answer EXCEPT ![t] = VerdictOf(t)]
<1>1. up /\ Active(t) /\ pc[t] # "start" /\ result[t] = VerdictOf(t)
  BY DEF Reply, Active, Grading, Graded
<1>2. Opened(fd[t]) = t
  BY <1>1, Alone
<1> QED
  BY <1>1, <1>2 DEF Reply

\* What a step may do to the clients.
LEMMA ClientsStep ==
    ASSUME TypeOK, Turn, Grading, [Next]_vars
    PROVE  \/ \E c \in Conns : /\ client[c] = "new" /\ answer' = answer
                               /\ client' = [client EXCEPT ![c] = "open"]
           \/ \E t \in Conns : /\ client[t] = "open" /\ answer[t] = NoAnswer
                               /\ client' = client
                               /\ answer' = [answer EXCEPT ![t] = VerdictOf(t)]
           \/ /\ answer' = answer
              /\ \A c \in Conns : client'[c] = client[c]
                                  \/ client'[c] \in {"gone", "closed"}
<1> DEFINE
      Quiet == /\ answer' = answer
               /\ \A c \in Conns : client'[c] = client[c] \/ client'[c] \in {"gone", "closed"}
<1>1. CASE UNCHANGED <<client, answer>>
  BY <1>1
<1>2. CASE Terminate
  <2>1. Quiet
    BY <1>2 DEF Terminate, TypeOK
  <2> QED
    BY <2>1
<1>3. ASSUME NEW c \in Conns, Connect(c) \/ ConnectOnly(c) \/ Leave(c)
      PROVE  Quiet \/ (/\ client[c] = "new" /\ answer' = answer
                       /\ client' = [client EXCEPT ![c] = "open"])
  BY <1>3 DEF Connect, ConnectOnly, Leave, TypeOK
<1>4. CASE CloseAfterSleep
  <2>1. Quiet
    BY <1>4 DEF CloseAfterSleep, Close, TypeOK
  <2> QED
    BY <2>1
<1>5. ASSUME NEW t \in Conns, ReceiveFails(t) \/ CloseAndExit(t) PROVE Quiet
  BY <1>5 DEF ReceiveFails, CloseAndExit, Close, TypeOK
<1>6. ASSUME NEW t \in Conns, PickUp(t) \/ Receive(t) \/ Compile(t) \/ Run(t)
                              \/ Compare(t) \/ ReplyDetails(t)
      PROVE  UNCHANGED <<client, answer>>
  BY <1>6 DEF PickUp, Receive, Compile, Run, Compare, ReplyDetails
<1>7. CASE Accept \/ AcceptError \/ UNCHANGED vars
  BY <1>1, <1>7 DEF Accept, AcceptError, vars
<1>8. ASSUME NEW t \in Conns, ReplyDetailsFatal(t) PROVE Terminate
  BY <1>8 DEF ReplyDetailsFatal
<1> HIDE DEF Quiet
<1>9. CASE Quiet
  BY <1>9 DEF Quiet
<1> QED
  BY <1>1, <1>2, <1>3, <1>4, <1>5, <1>6, <1>7, <1>8, <1>9, ReplyToMine
  DEF Next, MainStep, ThreadStep

LEMMA AnswersStep == TypeOK /\ Turn /\ Grading /\ Answers /\ [Next]_vars => Answers'
BY ClientsStep DEF Answers, VerdictForTheRightClient, TypeOK

LEMMA GradingInvariant ==
    ASSUME Slow = {}
    PROVE  Spec => []GradingInv
<1>1. GradingInv /\ [Next]_vars => GradingInv'
  BY TypeStep, TurnStep, GradingStep, AnswersStep DEF GradingInv
<1> QED
  BY GradingInit, <1>1, PTL DEF Spec

\* As long as no grading outlasts main's second: a thread never works on
\* another client's connection, although it reads its descriptor from main's
\* variable and main closes it unasked.
THEOREM SocketsStayMine ==
    ASSUME Slow = {}
    PROVE  Spec => []SocketIsMine
<1>1. GradingInv => SocketIsMine
  BY DEF GradingInv, Turn, Active, SocketIsMine, Opened
<1> QED
  BY <1>1, GradingInvariant, PTL

\* As long as no grading outlasts main's second: every verdict a client reads
\* is the one its own program deserves.
THEOREM QuickVerdictsAreDeserved ==
    ASSUME Slow = {}
    PROVE  Spec => []VerdictForTheRightClient
<1>1. GradingInv => VerdictForTheRightClient
  BY DEF GradingInv, Answers
<1> QED
  BY <1>1, GradingInvariant, PTL

\* As long as no grading outlasts main's second: with threads, descriptors and
\* files hidden, a client submits, gets its own verdict at most once, or gives up.
THEOREM QuickRequestsImplementService ==
    ASSUME Slow = {}
    PROVE  Spec => ImplementsService
<1> DEFINE waiting == {c \in Conns : client[c] = "open" /\ answer[c] = NoAnswer}
<1> USE ThreadPerRequestAssumption
<1>1. Init => Service!ServiceInit
  BY DEF Init, Service!ServiceInit
<1>2. GradingInv /\ [Next]_vars => [Service!ServiceNext]_Service!serviceVars
  <2> SUFFICES ASSUME GradingInv, [Next]_vars
               PROVE  [Service!ServiceNext]_Service!serviceVars
    OBVIOUS
  <2>a. TypeOK /\ Turn /\ Grading /\ Answers
    BY DEF GradingInv
  <2>1. ASSUME NEW c \in Conns, client[c] = "new", answer' = answer,
               client' = [client EXCEPT ![c] = "open"]
        PROVE  Service!ServiceNext
    <3>1. c \notin waiting /\ waiting' = waiting \cup {c} /\ answer[c] = NoAnswer
      BY <2>1, <2>a DEF TypeOK, Answers
    <3> QED
      BY <2>1, <3>1 DEF Service!ServiceNext, Service!Submit
  <2>2. ASSUME NEW t \in Conns, client[t] = "open", answer[t] = NoAnswer,
               client' = client, answer' = [answer EXCEPT ![t] = VerdictOf(t)]
        PROVE  Service!ServiceNext
    <3>1. t \in waiting /\ waiting' = waiting \ {t}
      BY <2>2, <2>a, VerdictTypes DEF TypeOK
    <3> QED
      BY <2>2, <3>1 DEF Service!ServiceNext, Service!Answer
  <2>3. ASSUME answer' = answer,
               \A c \in Conns : client'[c] = client[c] \/ client'[c] \in {"gone", "closed"}
        PROVE  Service!ServiceNext
    <3>1. waiting' \subseteq waiting
      BY <2>3
    <3>2. waiting \ waiting' \in SUBSET waiting /\ waiting' = waiting \ (waiting \ waiting')
      BY <3>1
    <3> QED
      BY <2>3, <3>2 DEF Service!ServiceNext, Service!GiveUp
  <2> QED
    BY <2>a, <2>1, <2>2, <2>3, ClientsStep
<1> QED
  BY <1>1, <1>2, GradingInvariant, PTL DEF Spec, ImplementsService, Service!ServiceSpec
=============================================================================
