-------------------------- MODULE AsyncServerProofs --------------------------
(***************************************************************************)
(* The asynchronous server, for any number of workers, requests, crashes   *)
(* and status_check threads: the types and the locks, and that a result is *)
(* never another request's.  As long as no two removals overlap in         *)
(* temp.txt, which they never do without status_check threads, also that a *)
(* request is graded at most once and is in the process queue meanwhile,   *)
(* and that what its client is told goes forward.                          *)
(***************************************************************************)
EXTENDS AsyncServer, SequenceTheorems, FiniteSetTheorems, TLAPS

USE DEF queues, workers, handlers, clients

-----------------------------------------------------------------------------
(* Removing a line.                                                        *)

\* A set of numbers has a least one.
LEMMA LeastIs ==
    ASSUME NEW I \in SUBSET Nat, I # {}
    PROVE  Min(I) \in I
<1> DEFINE Below == {0 .. k : k \in I}
           R     == StrictSubsetOrdering(Nat)
<1>1. Below \subseteq FiniteSubsetsOf(Nat) /\ Below # {}
  <2>1. \A k \in I : IsFiniteSet(0 .. k) /\ 0 .. k \in SUBSET Nat
    BY FS_Interval
  <2>2. \A k \in I : 0 .. k \in FiniteSubsetsOf(Nat)
    BY <2>1 DEF FiniteSubsetsOf
  <2> QED
    BY <2>2
<1>2. PICK x \in Below : \A y \in Below : <<y, x>> \notin R
  <2>1. IsWellFoundedOn(R, FiniteSubsetsOf(Nat))
    BY FS_StrictSubsetOrderingWellFounded
  <2> QED
    BY <1>1, <2>1, WFMin
<1>3. PICK m \in I : x = 0 .. m
  OBVIOUS
<1>4. ASSUME NEW j \in I PROVE m <= j
  <2>1. <<0 .. j, 0 .. m>> \notin R
    BY <1>2, <1>3
  <2>2. j < m => <<0 .. j, 0 .. m>> \in R
    <3>1. j < m => 0 .. j \subseteq 0 .. m /\ m \in 0 .. m /\ m \notin 0 .. j
      OBVIOUS
    <3> QED
      BY <3>1 DEF StrictSubsetOrdering
  <2> QED
    BY <2>1, <2>2
<1>5. \E n \in I : \A j \in I : n <= j
  BY <1>4
<1> QED
  BY <1>5 DEF Min

\* What removeElement copies: all lines but one.
LEMMA RemoveFirstIs ==
    ASSUME NEW S, NEW s \in Seq(S), NEW e, Contains(s, e)
    PROVE  \E i \in DOMAIN s :
              /\ s[i] = e
              /\ RemoveFirst(s, e) \in Seq(S)
              /\ Len(RemoveFirst(s, e)) = Len(s) - 1
              /\ \A j \in 1 .. Len(s) - 1 :
                    RemoveFirst(s, e)[j] = IF j < i THEN s[j] ELSE s[j + 1]
<1> DEFINE I == {j \in 1 .. Len(s) : s[j] = e}
<1>1. I \in SUBSET Nat /\ I # {}
  BY DEF Contains
<1>2. PICK i \in I : i = Min(I)
  BY <1>1, LeastIs
<1>3. RemoveFirst(s, e) = SubSeq(s, 1, i-1) \o SubSeq(s, i+1, Len(s))
  BY <1>1, <1>2 DEF RemoveFirst, RemoveAt, SelectInSeq
<1>4. i \in 1 .. Len(s) /\ Len(s) \in Nat
  OBVIOUS
<1> DEFINE a == SubSeq(s, 1, i-1)
           b == SubSeq(s, i+1, Len(s))
<1>5. /\ a \in Seq(S) /\ Len(a) = i - 1 /\ \A j \in 1 .. i - 1 : a[j] = s[j]
      /\ b \in Seq(S) /\ Len(b) = Len(s) - i /\ \A j \in 1 .. Len(s) - i : b[j] = s[i + j]
  BY <1>4, SubSeqProperties
<1> HIDE DEF a, b
<1>6. /\ a \o b \in Seq(S) /\ Len(a \o b) = Len(a) + Len(b)
      /\ \A j \in 1 .. Len(a) + Len(b) : (a \o b)[j] = IF j <= Len(a) THEN a[j] ELSE b[j - Len(a)]
  BY <1>5, ConcatProperties
<1>7. RemoveFirst(s, e) = a \o b
  BY <1>3 DEF a, b
<1>8. Len(a) + Len(b) = Len(s) - 1 /\ i \in DOMAIN s /\ s[i] = e
  <2>1. Len(a) + Len(b) = Len(s) - 1
    BY <1>4, <1>5
  <2> QED
    BY <1>2, <1>4, <2>1
<1>9. ASSUME NEW j \in 1 .. Len(s) - 1
      PROVE  (a \o b)[j] = IF j < i THEN s[j] ELSE s[j + 1]
  <2>1. (a \o b)[j] = IF j <= i - 1 THEN a[j] ELSE b[j - (i - 1)]
    BY <1>5, <1>6, <1>8
  <2>2. CASE j < i
    <3>1. j \in 1 .. i - 1 /\ j <= i - 1
      BY <1>4, <2>2
    <3>2. a[j] = s[j]
      BY <1>5, <3>1
    <3> QED
      BY <2>1, <2>2, <3>1, <3>2
  <2>3. CASE ~(j < i)
    <3>1. j - (i - 1) \in 1 .. Len(s) - i /\ i + (j - (i - 1)) = j + 1 /\ ~(j <= i - 1)
      BY <1>4, <2>3
    <3>2. b[j - (i - 1)] = s[i + (j - (i - 1))]
      BY <1>5, <3>1
    <3> QED
      BY <2>1, <2>3, <3>1, <3>2
  <2> QED
    BY <2>2, <2>3
<1> QED
  BY <1>6, <1>7, <1>8, <1>9

-----------------------------------------------------------------------------
(* The types, with the locks they depend on.                               *)

\* All files have only lines of S.
FilesIn(S) ==
    /\ file \in [Queues -> Seq(S) \cup {Missing}]
    /\ temp \in Seq(S) \cup {Missing}

FilesOK == FilesIn(Lines)

ThreadsOK ==
    /\ size \in [{"request", "process"} -> Nat]
    /\ pc \in [Workers -> WorkerLabels]
    /\ line \in [Workers -> Lines]
    /\ seen \in [Workers -> Nat]
    /\ new_request \in [Requests -> {"new", "push", "read", "count", "accepted", "failed"}]
    /\ counted \in [Requests -> Nat]
    /\ graded \in SUBSET Requests
    /\ crashes \in 0 .. MaxCrashes

ClientsOK ==
    /\ poll \in [Pollers -> [at: PollLabels, req: Requests \cup {NoRequest},
                             verdict: Verdicts \cup {NoAnswer}]]
    /\ told \in [Requests -> {"nothing", "queued", "processing", "not found", "done"}]
    /\ answer \in [Requests -> Verdicts \cup {NoAnswer}]

\* Inside a section of Lock, and only one worker is; in the middle of a pop
\* the counter is not 0.
Locked == {"no data", "remove request", "rename request", "count", "list",
           "remove process", "rename process"}
Popping == {"remove request", "rename request"}

Locks ==
    /\ \A v, w \in Workers : pc[v] \in Locked /\ pc[w] \in Locked => v = w
    /\ \A w \in Workers : /\ pc[w] \in Popping => size["request"] > 0
                          /\ pc[w] = "count" => seen[w] > 0

AsyncTypes == FilesOK /\ ThreadsOK /\ ClientsOK /\ Locks /\ overlapped \in BOOLEAN

LEMMA LabelTypes ==
    /\ \A r \in Requests : VerdictOf(r) \in Verdicts
    /\ \A l \in Lines : StatusFor(l) \in Lines
    /\ EmptyLine \in Lines /\ Requests \subseteq Lines /\ StatusLines \subseteq Lines
<1>1. \A r \in Requests : VerdictOf(r) \in Verdicts
  BY AsyncServerAssumption DEF VerdictOf, Verdicts, Programs
<1>2. ASSUME NEW l \in Lines PROVE StatusFor(l) \in Lines
  <2>1. CASE l \in Requests
    <3>1. [req |-> l, verdict |-> VerdictOf(l)] \in StatusLines
      BY <1>1, <2>1 DEF StatusLines
    <3> QED
      BY <2>1, <3>1 DEF StatusFor, Lines
  <2>2. CASE l = EmptyLine
    <3>1. [req |-> EmptyLine, verdict |-> "COMPILER ERROR"] \in StatusLines
      BY DEF StatusLines, Verdicts
    <3> QED
      BY <2>2, <3>1, AsyncServerAssumption DEF StatusFor, Lines
  <2>3. CASE l \notin Requests /\ l # EmptyLine
    BY <2>3 DEF StatusFor
  <2> QED
    BY <2>1, <2>2, <2>3
<1> QED
  BY <1>1, <1>2 DEF Lines

\* A file that is there has lines, and is not a missing one.
LEMMA ContentIs ==
    ASSUME NEW S \in SUBSET Lines, FilesIn(S), NEW q \in Queues
    PROVE  /\ Content(q) \in Seq(S)
           /\ file[q] # Missing => Content(q) = file[q]
           /\ \A s \in Seq(S) : s # Missing
BY AsyncServerAssumption DEF FilesIn, Content

\* What a step does to the files.
LEMMA FileEffect ==
    ASSUME [Next]_vars
    PROVE  \/ UNCHANGED <<file, temp>>
           \/ \E r \in Requests : AppendLine("request", r) /\ temp' = temp
           \/ \E w \in Workers : AppendLine("process", line[w]) /\ temp' = temp
           \/ \E w \in Workers : AppendLine("status", StatusFor(line[w])) /\ temp' = temp
           \/ Content("request") # <<>> /\ CopyAllButFirst("request") /\ file' = file
           \/ \E q \in Queues : \/ CopyNothing(q) /\ file' = file
                                \/ RemoveFile(q) /\ temp' = temp
                                \/ RenameTemp(q)
                                \/ \E e : Find(q, e) /\ CopyAllBut(q, e) /\ file' = file
<1>1. ASSUME NEW r \in Requests, Submit(r) \/ SubmitFails(r) \/ RequestStep(r)
      PROVE  \/ UNCHANGED <<file, temp>>
             \/ AppendLine("request", r) /\ temp' = temp
  BY <1>1 DEF Submit, SubmitFails, RequestStep, Push, ReadSize, CountAndSignal
<1>2. ASSUME NEW w \in Workers,
             PassGate(w) \/ Pop(w) \/ FindNoData(w) \/ WaitForData(w) \/ RemoveRequest(w)
             \/ RenameRequest(w) \/ CountDown(w) \/ List(w)
      PROVE  \/ UNCHANGED <<file, temp>>
             \/ AppendLine("process", line[w]) /\ temp' = temp
             \/ Content("request") # <<>> /\ CopyAllButFirst("request") /\ file' = file
             \/ RemoveFile("request") /\ temp' = temp
             \/ RenameTemp("request")
  BY <1>2 DEF PassGate, Pop, FindNoData, WaitForData, RemoveRequest, RenameRequest,
              CountDown, List
<1>3. ASSUME NEW w \in Workers,
             Grade(w) \/ Unlist(w) \/ RemoveProcess(w) \/ RenameProcess(w)
      PROVE  \/ AppendLine("status", StatusFor(line[w])) /\ temp' = temp
             \/ Find("process", line[w]) /\ CopyAllBut("process", line[w]) /\ file' = file
             \/ CopyNothing("process") /\ file' = file
             \/ RemoveFile("process") /\ temp' = temp
             \/ RenameTemp("process")
  BY <1>3 DEF Grade, Unlist, RemoveProcess, RenameProcess
<1>4. ASSUME NEW p \in Pollers, PollStep(p)
      PROVE  \/ UNCHANGED <<file, temp>>
             \/ \E e : Find("status", e) /\ CopyAllBut("status", e) /\ file' = file
             \/ CopyNothing("status") /\ file' = file
             \/ RemoveFile("status") /\ temp' = temp
             \/ RenameTemp("status")
  BY <1>4 DEF PollStep, CheckRequests, CheckProcess, CheckStatus, TakeStatus,
              RemoveStatus, RenameStatus, SendResult
<1>5. ASSUME NEW p \in Pollers, NEW r \in Requests, StartPoll(p, r)
      PROVE  UNCHANGED <<file, temp>>
  BY <1>5 DEF StartPoll
<1>6. Crash => UNCHANGED <<file, temp>>
  BY DEF Crash
<1>7. UNCHANGED vars => UNCHANGED <<file, temp>>
  BY DEF vars
<1>8. "request" \in Queues /\ "process" \in Queues /\ "status" \in Queues
  BY DEF Queues
<1>w. ASSUME NEW w \in Workers, WorkerStep(w)
      PROVE  \/ UNCHANGED <<file, temp>>
             \/ AppendLine("process", line[w]) /\ temp' = temp
             \/ AppendLine("status", StatusFor(line[w])) /\ temp' = temp
             \/ Content("request") # <<>> /\ CopyAllButFirst("request") /\ file' = file
             \/ \E q \in Queues : \/ CopyNothing(q) /\ file' = file
                                  \/ RemoveFile(q) /\ temp' = temp
                                  \/ RenameTemp(q)
                                  \/ \E e : Find(q, e) /\ CopyAllBut(q, e) /\ file' = file
  BY <1>w, <1>2, <1>3, <1>8 DEF WorkerStep
<1> QED
  BY <1>1, <1>w, <1>4, <1>5, <1>6, <1>7, <1>8 DEF Next

\* Lines only move between files, and statuses are made of them.
LEMMA FilesStep ==
    ASSUME NEW S \in SUBSET Lines, FilesIn(S), line \in [Workers -> S],
           Requests \subseteq S, \A l \in S : StatusFor(l) \in S, [Next]_vars
    PROVE  FilesIn(S)'
<1>a. ASSUME NEW q \in Queues, NEW e \in S, AppendLine(q, e), temp' = temp
      PROVE  FilesIn(S)'
  <2>1. Append(Content(q), e) \in Seq(S)
    BY <1>a, ContentIs
  <2> QED
    BY <1>a, <2>1 DEF AppendLine, FilesIn
<1>q. "request" \in Queues /\ "process" \in Queues /\ "status" \in Queues
  BY DEF Queues
<1>1. CASE UNCHANGED <<file, temp>>
  BY <1>1 DEF FilesIn
<1>2. ASSUME NEW r \in Requests, AppendLine("request", r), temp' = temp PROVE FilesIn(S)'
  BY <1>a, <1>q, <1>2
<1>3. ASSUME NEW w \in Workers, AppendLine("process", line[w]), temp' = temp PROVE FilesIn(S)'
  BY <1>a, <1>q, <1>3
<1>4. ASSUME NEW w \in Workers, AppendLine("status", StatusFor(line[w])), temp' = temp
      PROVE  FilesIn(S)'
  BY <1>a, <1>q, <1>4
<1>5. ASSUME Content("request") # <<>>, CopyAllButFirst("request"), file' = file
      PROVE  FilesIn(S)'
  <2>1. Tail(Content("request")) \in Seq(S)
    BY <1>q, <1>5, ContentIs
  <2> QED
    BY <1>5, <2>1 DEF CopyAllButFirst, FilesIn
<1>6. ASSUME NEW q \in Queues, CopyNothing(q), file' = file PROVE FilesIn(S)'
  BY <1>6 DEF CopyNothing, FilesIn
<1>7. ASSUME NEW q \in Queues, RemoveFile(q), temp' = temp PROVE FilesIn(S)'
  BY <1>7 DEF RemoveFile, FilesIn
<1>8. ASSUME NEW q \in Queues, RenameTemp(q) PROVE FilesIn(S)'
  BY <1>8 DEF RenameTemp, FilesIn
<1>9. ASSUME NEW q \in Queues, NEW e, Find(q, e), CopyAllBut(q, e), file' = file
      PROVE  FilesIn(S)'
  <2>1. RemoveFirst(Content(q), e) \in Seq(S)
    BY <1>9, ContentIs, RemoveFirstIs DEF Find
  <2> QED
    BY <1>9, <2>1 DEF CopyAllBut, FilesIn
<1> QED
  BY <1>1, <1>2, <1>3, <1>4, <1>5, <1>6, <1>7, <1>8, <1>9, FileEffect

\* What a worker's step does to it, and to nobody else.
LEMMA WorkerEffect ==
    ASSUME ThreadsOK, NEW w \in Workers, WorkerStep(w)
    PROVE  /\ \A v \in Workers \ {w} : pc'[v] = pc[v] /\ line'[v] = line[v] /\ seen'[v] = seen[v]
           /\ pc'[w] \in Locked => pc[w] \in Locked \/ ~Lock
           /\ UNCHANGED <<handlers, clients, crashes>>
<1>t. pc \in [Workers -> WorkerLabels] /\ line \in [Workers -> Lines] /\ seen \in [Workers -> Nat]
  BY DEF ThreadsOK
<1>1. /\ UNCHANGED <<handlers, clients, crashes>>
      /\ line' = line \/ \E l : line' = [line EXCEPT ![w] = l]
      /\ seen' = seen \/ \E n : seen' = [seen EXCEPT ![w] = n]
  BY DEF WorkerStep, PassGate, Pop, FindNoData, WaitForData, RemoveRequest, RenameRequest,
         CountDown, List, Grade, Unlist, RemoveProcess, RenameProcess
<1>2. \E label : pc' = [pc EXCEPT ![w] = label] /\ (label \in Locked => pc[w] \in Locked \/ ~Lock)
  BY DEF WorkerStep, PassGate, Pop, FindNoData, WaitForData, RemoveRequest, RenameRequest,
         CountDown, List, Grade, Unlist, RemoveProcess, RenameProcess, Goto, Locked
<1> QED
  BY <1>t, <1>1, <1>2

LEMMA WorkerTypes ==
    ASSUME FilesOK, ThreadsOK, Locks, NEW w \in Workers, WorkerStep(w)
    PROVE  ThreadsOK'
<1>t. /\ size \in [{"request", "process"} -> Nat] /\ pc \in [Workers -> WorkerLabels]
      /\ line \in [Workers -> Lines] /\ seen \in [Workers -> Nat] /\ graded \in SUBSET Requests
  BY DEF ThreadsOK
<1>1. pc' \in [Workers -> WorkerLabels]
  <2>1. \E label \in WorkerLabels : pc' = [pc EXCEPT ![w] = label]
    BY DEF WorkerStep, PassGate, Pop, FindNoData, WaitForData, RemoveRequest, RenameRequest,
           CountDown, List, Grade, Unlist, RemoveProcess, RenameProcess, Goto, WorkerLabels
  <2> QED
    BY <1>t, <2>1
<1>2. line' \in [Workers -> Lines]
  <2>1. CASE line' = line
    BY <1>t, <2>1
  <2>2. CASE line' = [line EXCEPT ![w] = EmptyLine]
    BY <1>t, <2>2, LabelTypes
  <2>3. CASE line' = [line EXCEPT ![w] = FirstLine("request")]
    <3>1. Content("request") \in Seq(Lines)
      BY ContentIs DEF Queues, FilesOK
    <3>2. FirstLine("request") \in Lines
      BY <3>1, LabelTypes DEF FirstLine
    <3> QED
      BY <1>t, <2>3, <3>2
  <2> QED
    BY <2>1, <2>2, <2>3
    DEF WorkerStep, PassGate, Pop, FindNoData, WaitForData, RemoveRequest, RenameRequest,
        CountDown, List, Grade, Unlist, RemoveProcess, RenameProcess
<1>3. seen' \in [Workers -> Nat]
  <2>1. seen' = seen \/ seen' = [seen EXCEPT ![w] = size["request"]]
    BY DEF WorkerStep, PassGate, Pop, FindNoData, WaitForData, RemoveRequest, RenameRequest,
           CountDown, List, Grade, Unlist, RemoveProcess, RenameProcess
  <2> QED
    BY <1>t, <2>1
<1>4. size' \in [{"request", "process"} -> Nat]
  <2>1. CASE size' = size
    BY <1>t, <2>1
  <2>2. CASE CountDown(w)
    <3>1. seen[w] - 1 \in Nat
      BY <1>t, <2>2 DEF CountDown, Locks
    <3> QED
      BY <1>t, <2>2, <3>1 DEF CountDown
  <2>3. CASE List(w)
    BY <1>t, <2>3 DEF List
  <2> QED
    BY <2>1, <2>2, <2>3
    DEF WorkerStep, PassGate, Pop, FindNoData, WaitForData, RemoveRequest, RenameRequest,
        Grade, Unlist, RemoveProcess, RenameProcess
<1>5. graded' \in SUBSET Requests
  <2>1. graded' = graded \/ graded' = graded \cup ({line[w]} \cap Requests)
    BY DEF WorkerStep, PassGate, Pop, FindNoData, WaitForData, RemoveRequest, RenameRequest,
           CountDown, List, Grade, Unlist, RemoveProcess, RenameProcess
  <2> QED
    BY <1>t, <2>1
<1> QED
  BY <1>1, <1>2, <1>3, <1>4, <1>5, WorkerEffect DEF ThreadsOK

LEMMA WorkerLocks ==
    ASSUME ThreadsOK, Locks, NEW w \in Workers, WorkerStep(w)
    PROVE  Locks'
<1>t. /\ size \in [{"request", "process"} -> Nat] /\ pc \in [Workers -> WorkerLabels]
      /\ seen \in [Workers -> Nat]
  BY DEF ThreadsOK
<1>e. /\ \A v \in Workers \ {w} : pc'[v] = pc[v] /\ seen'[v] = seen[v]
      /\ pc'[w] \in Locked => pc[w] \in Locked \/ ~Lock
  BY WorkerEffect
<1>1. ASSUME NEW v \in Workers \ {w}, pc[v] \in Locked PROVE pc'[w] \notin Locked
  BY <1>1, <1>e DEF Locks, Lock, Locked
<1>2. \A u, v \in Workers : pc'[u] \in Locked /\ pc'[v] \in Locked => u = v
  BY <1>1, <1>e DEF Locks
<1>3. pc'[w] \in Popping => size'["request"] > 0
  <2>1. pc'[w] \in Popping => Pop(w) \/ RemoveRequest(w)
    BY <1>t DEF WorkerStep, PassGate, Pop, FindNoData, WaitForData, RemoveRequest,
       RenameRequest, CountDown, List, Grade, Unlist, RemoveProcess, RenameProcess, Goto, Popping
  <2>2. Pop(w) \/ RemoveRequest(w) => size' = size /\ size["request"] > 0
    <3>1. size["request"] \in Nat
      BY <1>t
    <3>2. CASE Pop(w)
      <4>1. size' = size /\ size["request"] # 0
        BY <3>2 DEF Pop
      <4> QED
        BY <3>1, <4>1
    <3> QED
      BY <3>2 DEF RemoveRequest, Locks, Popping
  <2> QED
    BY <2>1, <2>2
<1>4. pc'[w] = "count" => seen'[w] > 0
  <2>1. pc'[w] = "count" => RenameRequest(w)
    BY <1>t DEF WorkerStep, PassGate, Pop, FindNoData, WaitForData, RemoveRequest,
       RenameRequest, CountDown, List, Grade, Unlist, RemoveProcess, RenameProcess, Goto
  <2>2. RenameRequest(w) => seen'[w] = size["request"] /\ size["request"] > 0
    BY <1>t DEF RenameRequest, Locks, Popping
  <2> QED
    BY <2>1, <2>2
<1>5. ASSUME NEW v \in Workers \ {w}, pc[v] \in Popping PROVE size'["request"] = size["request"]
  <2>1. pc[w] \notin {"count", "list"}
    BY <1>5 DEF Locks, Locked, Popping
  <2> QED
    BY <1>t, <2>1 DEF WorkerStep, PassGate, Pop, FindNoData, WaitForData, RemoveRequest,
       RenameRequest, CountDown, List, Grade, Unlist, RemoveProcess, RenameProcess
<1>6. \A v \in Workers \ {w} : /\ pc'[v] \in Popping => size'["request"] > 0
                               /\ pc'[v] = "count" => seen'[v] > 0
  BY <1>5, <1>e DEF Locks
<1> QED
  BY <1>2, <1>3, <1>4, <1>6 DEF Locks

LEMMA RequestTypes ==
    ASSUME ThreadsOK, Locks, NEW r \in Requests, Submit(r) \/ SubmitFails(r) \/ RequestStep(r)
    PROVE  ThreadsOK' /\ Locks'
<1>t. /\ size \in [{"request", "process"} -> Nat] /\ pc \in [Workers -> WorkerLabels]
      /\ new_request \in [Requests -> {"new", "push", "read", "count", "accepted", "failed"}]
      /\ counted \in [Requests -> Nat]
  BY DEF ThreadsOK
<1>1. CASE Submit(r) \/ SubmitFails(r)
  BY <1>1 DEF Submit, SubmitFails, ThreadsOK, Locks
<1>2. CASE Push(r)
  BY <1>2 DEF Push, ThreadsOK, Locks
<1>4. CASE ReadSize(r)
  <2>1. counted' \in [Requests -> Nat]
    BY <1>t, <1>4 DEF ReadSize
  <2> QED
    BY <1>4, <2>1 DEF ReadSize, ThreadsOK, Locks
<1>3. CASE CountAndSignal(r)
  <2>1. size' = [size EXCEPT !["request"] = counted[r] + 1] /\ counted[r] + 1 \in Nat
        /\ counted[r] + 1 > 0
    BY <1>t, <1>3 DEF CountAndSignal
  <2>2. size' \in [{"request", "process"} -> Nat] /\ size'["request"] > 0
    BY <1>t, <2>1
  <2>3. pc' = pc \/ \E w \in Workers : pc[w] = "asleep" /\ pc' = [pc EXCEPT ![w] = "fetch"]
    BY <1>3 DEF CountAndSignal, Sleeping
  <2>4. pc' \in [Workers -> WorkerLabels]
        /\ \A w \in Workers : pc'[w] = pc[w] \/ pc'[w] = "fetch"
    BY <1>t, <2>3 DEF WorkerLabels
  <2>5. /\ new_request' = [new_request EXCEPT ![r] = "accepted"]
        /\ UNCHANGED <<line, seen, counted, graded, crashes>>
    BY <1>3 DEF CountAndSignal
  <2>6. ThreadsOK'
    BY <2>2, <2>4, <2>5 DEF ThreadsOK
  <2> QED
    BY <2>2, <2>4, <2>5, <2>6 DEF Locks, Locked, Popping
<1> QED
  BY <1>1, <1>2, <1>3, <1>4 DEF RequestStep

LEMMA CrashTypes ==
    ASSUME FilesOK, ThreadsOK, Crash
    PROVE  ThreadsOK' /\ Locks'
<1>1. size' \in [{"request", "process"} -> Nat]
  <2>1. DOMAIN size = {"request", "process"}
    BY DEF ThreadsOK
  <2>2. \A q \in {"request", "process"} : CountLines(q) \in Nat
    BY ContentIs DEF CountLines, Queues, FilesOK
  <2> QED
    BY <2>1, <2>2 DEF Crash
<1>2. /\ pc' = [w \in Workers |-> "gate"] /\ line' = [w \in Workers |-> EmptyLine]
      /\ seen' = [w \in Workers |-> 0] /\ UNCHANGED <<counted, graded>>
  BY DEF Crash
<1>3. new_request' \in [Requests -> {"new", "push", "read", "count", "accepted", "failed"}]
  BY DEF Crash, ThreadsOK
<1>4. crashes' \in 0 .. MaxCrashes
  <2>1. MaxCrashes \in Nat
    BY AsyncServerAssumption
  <2> QED
    BY <2>1 DEF Crash, ThreadsOK
<1> QED
  BY <1>1, <1>2, <1>3, <1>4, LabelTypes DEF ThreadsOK, Locks, Locked, Popping, WorkerLabels

\* The results that status_check finds.
LEMMA FoundIs ==
    ASSUME FilesOK, NEW r, ResultsOf(r) # {}
    PROVE  \E i \in DOMAIN Content("status") :
              /\ i = Min(ResultsOf(r)) /\ Content("status")[i] \in StatusLines
              /\ Content("status")[i].req = r
<1>1. Content("status") \in Seq(Lines)
  BY ContentIs DEF Queues, FilesOK
<1>2. ResultsOf(r) \in SUBSET Nat
  BY <1>1 DEF ResultsOf
<1> QED
  BY <1>2, LeastIs DEF ResultsOf

LEMMA PollTypes ==
    ASSUME FilesOK, ClientsOK, NEW p \in Pollers, PollStep(p)
    PROVE  ClientsOK'
<1>t. /\ poll \in [Pollers -> [at: PollLabels, req: Requests \cup {NoRequest},
                               verdict: Verdicts \cup {NoAnswer}]]
      /\ told \in [Requests -> {"nothing", "queued", "processing", "not found", "done"}]
      /\ answer \in [Requests -> Verdicts \cup {NoAnswer}]
  BY DEF ClientsOK
<1>1. ASSUME NEW label \in PollLabels, PollAt(p, label)
      PROVE  poll' \in [Pollers -> [at: PollLabels, req: Requests \cup {NoRequest},
                                    verdict: Verdicts \cup {NoAnswer}]]
  BY <1>1, <1>t DEF PollAt
<1>2. ASSUME NEW what \in {"queued", "processing", "not found", "done"}, Report(p, what)
      PROVE  /\ poll' \in [Pollers -> [at: PollLabels, req: Requests \cup {NoRequest},
                                       verdict: Verdicts \cup {NoAnswer}]]
             /\ told' \in [Requests -> {"nothing", "queued", "processing", "not found", "done"}]
  BY <1>2, <1>t DEF Report, NotPolling, PollLabels
<1>3. CASE CheckRequests(p)
  BY <1>1, <1>2, <1>3, <1>t DEF CheckRequests, ClientsOK, PollLabels
<1>4. CASE CheckProcess(p)
  BY <1>1, <1>2, <1>4, <1>t DEF CheckProcess, ClientsOK, PollLabels
<1>5. CASE CheckStatus(p)
  <2>1. CASE ResultsOf(poll[p].req) = {}
    BY <1>2, <1>5, <1>t, <2>1 DEF CheckStatus, ClientsOK
  <2>2. CASE ResultsOf(poll[p].req) # {}
    <3>1. PICK v \in Verdicts : v = Content("status")[Min(ResultsOf(poll[p].req))].verdict
      BY <2>2, FoundIs DEF StatusLines
    <3>2. poll' = [poll EXCEPT ![p].at = "take", ![p].verdict = v] /\ UNCHANGED <<told, answer>>
      BY <1>5, <2>2, <3>1 DEF CheckStatus
    <3>3. "take" \in PollLabels /\ v \in Verdicts \cup {NoAnswer}
      BY DEF PollLabels
    <3>4. poll' \in [Pollers -> [at: PollLabels, req: Requests \cup {NoRequest},
                                verdict: Verdicts \cup {NoAnswer}]]
      <4>1. ASSUME NEW q \in Pollers
            PROVE  poll'[q] = IF q = p THEN [poll[p] EXCEPT !.at = "take", !.verdict = v] ELSE poll[q]
        BY <1>t, <3>2
      <4>2. [poll[p] EXCEPT !.at = "take", !.verdict = v]
              \in [at: PollLabels, req: Requests \cup {NoRequest}, verdict: Verdicts \cup {NoAnswer}]
        BY <1>t, <3>3
      <4>3. poll' = [q \in Pollers |-> poll'[q]]
        BY <1>t, <3>2
      <4> QED
        BY <1>t, <4>1, <4>2, <4>3
    <3> QED
      BY <1>t, <3>2, <3>4 DEF ClientsOK
  <2> QED
    BY <2>1, <2>2
<1>6. CASE TakeStatus(p) \/ RemoveStatus(p) \/ RenameStatus(p)
  BY <1>1, <1>6, <1>t DEF TakeStatus, RemoveStatus, RenameStatus, ClientsOK, PollLabels
<1>7. CASE SendResult(p)
  <2>1. poll[p].verdict \in Verdicts \cup {NoAnswer}
    BY <1>t
  <2>2. answer' \in [Requests -> Verdicts \cup {NoAnswer}]
    BY <1>7, <1>t, <2>1 DEF SendResult
  <2> QED
    BY <1>2, <1>7, <2>2 DEF SendResult, ClientsOK
<1> QED
  BY <1>3, <1>4, <1>5, <1>6, <1>7 DEF PollStep

LEMMA AsyncTypesInit == Init => AsyncTypes
<1> SUFFICES ASSUME Init PROVE AsyncTypes
  OBVIOUS
<1>1. FilesOK
  BY DEF Init, FilesOK, FilesIn
<1>2. ThreadsOK
  BY AsyncServerAssumption, LabelTypes DEF Init, ThreadsOK, WorkerLabels
<1>3. ClientsOK
  BY DEF Init, ClientsOK, NotPolling, PollLabels
<1>4. Locks
  BY DEF Init, Locks, Locked, Popping
<1>5. overlapped \in BOOLEAN
  BY DEF Init
<1> QED
  BY <1>1, <1>2, <1>3, <1>4, <1>5 DEF AsyncTypes

\* Only the copies to temp.txt change the history of them.
LEMMA OverlappedEffect ==
    ASSUME [Next]_vars
    PROVE  \/ overlapped' = overlapped
           \/ /\ \E w \in Workers : Pop(w) \/ Unlist(w)
              /\ overlapped' = (overlapped \/ StatusFileLock)
           \/ /\ \E p \in Pollers : TakeStatus(p)
              /\ overlapped' = (overlapped \/ Rewriting)
<1>1. ASSUME NEW r \in Requests, Submit(r) \/ SubmitFails(r) \/ RequestStep(r)
      PROVE  overlapped' = overlapped
  BY <1>1 DEF Submit, SubmitFails, RequestStep, Push, ReadSize, CountAndSignal
<1>2. ASSUME NEW w \in Workers, WorkerStep(w)
      PROVE  \/ overlapped' = overlapped
             \/ /\ Pop(w) \/ Unlist(w)
                /\ overlapped' = (overlapped \/ StatusFileLock)
  BY <1>2, Zenon DEF WorkerStep, PassGate, Pop, FindNoData, WaitForData, RemoveRequest,
     RenameRequest, CountDown, List, Grade, Unlist, RemoveProcess, RenameProcess
<1>3. ASSUME NEW p \in Pollers, PollStep(p)
      PROVE  \/ overlapped' = overlapped
             \/ TakeStatus(p) /\ overlapped' = (overlapped \/ Rewriting)
  BY <1>3, Zenon DEF PollStep, CheckRequests, CheckProcess, CheckStatus, TakeStatus,
     RemoveStatus, RenameStatus, SendResult
<1>4. ASSUME NEW p \in Pollers, NEW r \in Requests, StartPoll(p, r)
      PROVE  overlapped' = overlapped
  BY <1>4 DEF StartPoll
<1>5. Crash \/ UNCHANGED vars => overlapped' = overlapped
  BY DEF Crash, vars
<1> QED
  BY <1>1, <1>2, <1>3, <1>4, <1>5, Zenon DEF Next

LEMMA AsyncTypesStep == AsyncTypes /\ [Next]_vars => AsyncTypes'
<1> SUFFICES ASSUME FilesOK, ThreadsOK, ClientsOK, Locks, overlapped \in BOOLEAN, [Next]_vars
             PROVE  AsyncTypes'
  BY DEF AsyncTypes
<1>o. overlapped' \in BOOLEAN
  BY OverlappedEffect, Zenon
<1>0. FilesOK'
  BY FilesStep, LabelTypes DEF ThreadsOK, FilesOK
<1>1. ASSUME NEW r \in Requests, Submit(r) \/ SubmitFails(r) \/ RequestStep(r)
      PROVE  ThreadsOK' /\ Locks' /\ ClientsOK'
  <2>1. UNCHANGED clients
    BY <1>1 DEF Submit, SubmitFails, RequestStep, Push, ReadSize, CountAndSignal
  <2> QED
    BY <1>1, <2>1, RequestTypes DEF ClientsOK
<1>2. ASSUME NEW w \in Workers, WorkerStep(w)
      PROVE  ThreadsOK' /\ Locks' /\ ClientsOK'
  BY <1>2, WorkerTypes, WorkerLocks, WorkerEffect DEF ClientsOK
<1>3. ASSUME NEW p \in Pollers, NEW r \in Requests, StartPoll(p, r)
      PROVE  ThreadsOK' /\ Locks' /\ ClientsOK'
  <2>1. UNCHANGED <<size, workers, handlers, told, answer, graded, crashes>>
        /\ poll' = [poll EXCEPT ![p] = [at |-> "request", req |-> r, verdict |-> NoAnswer]]
    BY <1>3 DEF StartPoll
  <2> QED
    BY <2>1 DEF ThreadsOK, Locks, ClientsOK, PollLabels
<1>4. ASSUME NEW p \in Pollers, PollStep(p)
      PROVE  ThreadsOK' /\ Locks' /\ ClientsOK'
  <2>1. UNCHANGED <<size, workers, handlers, graded, crashes>>
    BY <1>4 DEF PollStep, CheckRequests, CheckProcess, CheckStatus, TakeStatus,
       RemoveStatus, RenameStatus, SendResult
  <2> QED
    BY <1>4, <2>1, PollTypes DEF ThreadsOK, Locks
<1>5. ASSUME Crash PROVE ThreadsOK' /\ Locks' /\ ClientsOK'
  <2>1. poll' = [p \in Pollers |-> NotPolling] /\ UNCHANGED <<told, answer>>
    BY <1>5 DEF Crash
  <2>2. ClientsOK'
    BY <2>1 DEF ClientsOK, NotPolling, PollLabels
  <2> QED
    BY <1>5, <2>2, CrashTypes
<1>6. ASSUME UNCHANGED vars PROVE ThreadsOK' /\ Locks' /\ ClientsOK'
  BY <1>6 DEF vars, ThreadsOK, Locks, ClientsOK
<1> QED
  BY <1>o, <1>0, <1>1, <1>2, <1>3, <1>4, <1>5, <1>6 DEF Next, AsyncTypes

LEMMA AsyncTypesInvariant == Spec => []AsyncTypes
BY AsyncTypesInit, AsyncTypesStep, PTL DEF Spec

\* The types, for any number of workers, requests, status_check threads and
\* crashes; that size_ never goes below 0 takes the exclusion of Lock.
THEOREM AsyncTypeCorrect == Spec => []TypeOK
<1>1. AsyncTypes => TypeOK
  <2> SUFFICES ASSUME AsyncTypes PROVE TypeOK
    OBVIOUS
  <2>1. \A q \in Queues : ToSet(Content(q)) \subseteq Lines
    BY ContentIs DEF AsyncTypes, FilesOK, ToSet
  <2>2. temp = Missing \/ ToSet(temp) \subseteq Lines
    BY DEF AsyncTypes, FilesOK, FilesIn, ToSet
  <2> QED
    BY <2>1, <2>2 DEF AsyncTypes, ThreadsOK, ClientsOK, TypeOK
<1> QED
  BY AsyncTypesInvariant, <1>1, PTL

-----------------------------------------------------------------------------
(* Results.                                                                *)

\* The lines that are not a wrong result.
Right == {l \in Lines : l \in StatusLines /\ l.req \in Requests => l.verdict = VerdictOf(l.req)}

Sending == {"take", "remove status", "rename status", "send"}

Results ==
    /\ FilesIn(Right) /\ line \in [Workers -> Right]
    /\ \A p \in Pollers :
          /\ poll[p].at # "idle" => poll[p].req \in Requests
          /\ poll[p].at \in Sending => poll[p].verdict = VerdictOf(poll[p].req)
    /\ VerdictForTheRightClient

LEMMA RightIs ==
    /\ Right \subseteq Lines /\ Requests \subseteq Right /\ EmptyLine \in Right
    /\ \A l \in Right : StatusFor(l) \in Right
<1>1. Requests \subseteq Right /\ EmptyLine \in Right
  BY AsyncServerAssumption, LabelTypes DEF Right
<1>2. ASSUME NEW l \in Right PROVE StatusFor(l) \in Right
  <2>1. StatusFor(l) \in Lines
    BY <1>2, LabelTypes DEF Right
  <2>2. CASE l \in Requests
    BY <2>1, <2>2 DEF StatusFor, Right
  <2>3. CASE l = EmptyLine
    BY <2>1, <2>3, AsyncServerAssumption DEF StatusFor, Right
  <2>4. CASE l \notin Requests /\ l # EmptyLine
    BY <2>4 DEF StatusFor
  <2> QED
    BY <2>2, <2>3, <2>4
<1> QED
  BY <1>1, <1>2 DEF Right

LEMMA ResultsInit == Init => Results
<1> SUFFICES ASSUME Init PROVE Results
  OBVIOUS
<1>1. FilesIn(Right)
  BY DEF Init, FilesIn
<1>2. line \in [Workers -> Right]
  BY RightIs DEF Init
<1>3. \A p \in Pollers : poll[p].at = "idle"
  BY DEF Init, NotPolling
<1>4. VerdictForTheRightClient
  BY DEF Init, VerdictForTheRightClient
<1> QED
  BY <1>1, <1>2, <1>3, <1>4 DEF Results, Sending

LEMMA ResultsPoll ==
    ASSUME ClientsOK, Results, NEW p \in Pollers, PollStep(p)
    PROVE  /\ \A q \in Pollers :
                 /\ poll'[q].at # "idle" => poll'[q].req \in Requests
                 /\ poll'[q].at \in Sending => poll'[q].verdict = VerdictOf(poll'[q].req)
           /\ VerdictForTheRightClient'
<1>t. /\ poll \in [Pollers -> [at: PollLabels, req: Requests \cup {NoRequest},
                               verdict: Verdicts \cup {NoAnswer}]]
      /\ answer \in [Requests -> Verdicts \cup {NoAnswer}]
  BY DEF ClientsOK
<1>1. ASSUME NEW label \in PollLabels, PollAt(p, label)
      PROVE  /\ \A q \in Pollers \ {p} : poll'[q] = poll[q]
             /\ poll'[p].at = label /\ poll'[p].req = poll[p].req
             /\ poll'[p].verdict = poll[p].verdict
  BY <1>1, <1>t DEF PollAt
<1>2. ASSUME NEW what, Report(p, what)
      PROVE  poll'[p].at = "idle" /\ \A q \in Pollers \ {p} : poll'[q] = poll[q]
  BY <1>2, <1>t DEF Report, NotPolling
<1>3. CASE CheckRequests(p) \/ CheckProcess(p)
  BY <1>1, <1>2, <1>3 DEF CheckRequests, CheckProcess, Results, Sending, PollLabels,
     VerdictForTheRightClient
<1>4. CASE CheckStatus(p) /\ ResultsOf(poll[p].req) = {}
  BY <1>2, <1>4 DEF CheckStatus, Results, Sending, VerdictForTheRightClient
<1>5. CASE CheckStatus(p) /\ ResultsOf(poll[p].req) # {}
  <2>1. poll[p].req \in Requests /\ UNCHANGED answer
    BY <1>5 DEF CheckStatus, Results
  <2>2. PICK i \in DOMAIN Content("status") :
            /\ i = Min(ResultsOf(poll[p].req)) /\ Content("status")[i] \in StatusLines
            /\ Content("status")[i].req = poll[p].req
    <3>1. FilesOK
      <4>1. \A s \in Seq(Right) : s \in Seq(Lines)
        BY RightIs
      <4> QED
        BY <4>1 DEF Results, FilesOK, FilesIn
    <3> QED
      BY <1>5, <3>1, FoundIs
  <2>3. Content("status") \in Seq(Right)
    BY RightIs, ContentIs DEF Results, Queues
  <2>4. PICK v : v = Content("status")[i].verdict /\ v = VerdictOf(poll[p].req)
    BY <2>1, <2>2, <2>3 DEF Right
  <2>5. poll' = [poll EXCEPT ![p].at = "take", ![p].verdict = v]
    BY <1>5, <2>2, <2>4 DEF CheckStatus
  <2>6. /\ poll'[p].at = "take" /\ poll'[p].verdict = v /\ poll'[p].req = poll[p].req
        /\ \A q \in Pollers \ {p} : poll'[q] = poll[q]
    BY <1>t, <2>5
  <2> QED
    BY <2>1, <2>4, <2>6 DEF Results, VerdictForTheRightClient
<1>6. CASE TakeStatus(p) \/ RemoveStatus(p) \/ RenameStatus(p)
  BY <1>1, <1>6 DEF TakeStatus, RemoveStatus, RenameStatus, Results, Sending, PollLabels,
     VerdictForTheRightClient
<1>7. CASE SendResult(p)
  <2>1. answer' = answer \/ answer' = [answer EXCEPT ![poll[p].req] = poll[p].verdict]
    BY <1>7 DEF SendResult
  <2>2. poll[p].req \in Requests /\ poll[p].verdict = VerdictOf(poll[p].req)
    BY <1>7 DEF SendResult, Results, Sending
  <2>3. VerdictForTheRightClient'
    BY <1>t, <2>1, <2>2 DEF Results, VerdictForTheRightClient
  <2> QED
    BY <1>2, <1>7, <2>3 DEF SendResult, Results, Sending
<1> QED
  BY <1>3, <1>4, <1>5, <1>6, <1>7 DEF PollStep

LEMMA ResultsStep == AsyncTypes /\ Results /\ [Next]_vars => Results'
<1> SUFFICES ASSUME AsyncTypes, Results, [Next]_vars PROVE Results'
  OBVIOUS
<1>t. FilesOK /\ ThreadsOK /\ ClientsOK
  BY DEF AsyncTypes
<1>f. FilesIn(Right)'
  BY RightIs, FilesStep DEF Results
<1> DEFINE Polled == /\ \A p \in Pollers :
                           /\ poll[p].at # "idle" => poll[p].req \in Requests
                           /\ poll[p].at \in Sending => poll[p].verdict = VerdictOf(poll[p].req)
                     /\ VerdictForTheRightClient
<1>0. Polled
  BY DEF Results
<1>k. UNCHANGED <<poll, answer>> => Polled'
  BY <1>0 DEF VerdictForTheRightClient
<1>1. ASSUME NEW r \in Requests, Submit(r) \/ SubmitFails(r) \/ RequestStep(r)
      PROVE  Results'
  <2>1. UNCHANGED <<poll, answer, line>>
    BY <1>1 DEF Submit, SubmitFails, RequestStep, Push, ReadSize, CountAndSignal
  <2> QED
    BY <1>f, <1>k, <2>1 DEF Results
<1>2. ASSUME NEW w \in Workers, WorkerStep(w) PROVE Results'
  <2>1. \/ line' = line
        \/ line' = [line EXCEPT ![w] = EmptyLine]
        \/ line' = [line EXCEPT ![w] = FirstLine("request")]
    BY <1>2 DEF WorkerStep, PassGate, Pop, FindNoData, WaitForData, RemoveRequest,
       RenameRequest, CountDown, List, Grade, Unlist, RemoveProcess, RenameProcess
  <2>2. Content("request") \in Seq(Right)
    BY RightIs, ContentIs DEF Results, Queues
  <2>3. FirstLine("request") \in Right
    BY <2>2, RightIs DEF FirstLine
  <2>4. line' \in [Workers -> Right]
    BY <2>1, <2>3, RightIs DEF Results
  <2>5. UNCHANGED <<poll, answer>>
    BY <1>2, <1>t, WorkerEffect
  <2> QED
    BY <1>f, <1>k, <2>4, <2>5 DEF Results
<1>3. ASSUME NEW p \in Pollers, NEW r \in Requests, StartPoll(p, r) PROVE Results'
  <2>1. /\ poll' = [poll EXCEPT ![p] = [at |-> "request", req |-> r, verdict |-> NoAnswer]]
        /\ UNCHANGED <<answer, line>>
    BY <1>3 DEF StartPoll
  <2>2. Polled'
    BY <1>0, <1>t, <2>1 DEF ClientsOK, Sending, VerdictForTheRightClient
  <2> QED
    BY <1>f, <2>1, <2>2 DEF Results
<1>4. ASSUME NEW p \in Pollers, PollStep(p) PROVE Results'
  <2>1. line' = line
    BY <1>4 DEF PollStep, CheckRequests, CheckProcess, CheckStatus, TakeStatus,
       RemoveStatus, RenameStatus, SendResult
  <2> QED
    BY <1>4, <1>f, <1>t, <2>1, ResultsPoll DEF Results
<1>5. ASSUME Crash PROVE Results'
  <2>1. /\ poll' = [p \in Pollers |-> NotPolling] /\ line' = [w \in Workers |-> EmptyLine]
        /\ answer' = answer
    BY <1>5 DEF Crash
  <2> QED
    BY <1>f, <2>1, RightIs DEF Results, NotPolling, Sending, VerdictForTheRightClient
<1>6. ASSUME UNCHANGED vars PROVE Results'
  BY <1>6, <1>f, <1>k DEF vars, Results
<1> QED
  BY <1>1, <1>2, <1>3, <1>4, <1>5, <1>6 DEF Next

\* Files get mixed up, lines are lost and come back, but a line about a
\* request always has the request's own verdict, and so has every answer:
\* for any number of status_check threads, with crashes.
THEOREM ResultsAreTheRequests == Spec => []VerdictForTheRightClient
<1>1. Init => AsyncTypes /\ Results
  BY AsyncTypesInit, ResultsInit
<1>2. AsyncTypes /\ Results /\ [Next]_vars => (AsyncTypes /\ Results)'
  BY AsyncTypesStep, ResultsStep
<1>3. Results => VerdictForTheRightClient
  BY DEF Results
<1> QED
  BY <1>1, <1>2, <1>3, PTL DEF Spec

-----------------------------------------------------------------------------
(* As long as no two removals overlap, temp.txt belongs to one thread.     *)

Separate == ~overlapped => ~(StatusFileLock /\ Rewriting)

\* What a status_check thread does to the files and to temp.txt.
LEMMA PollEffect ==
    ASSUME NEW p \in Pollers, PollStep(p) \/ \E r \in Requests : StartPoll(p, r)
    PROVE  /\ UNCHANGED <<size, workers, handlers, graded, crashes>>
           /\ file' = file \/ RemoveFile("status") \/ RenameTemp("status")
           /\ temp' = temp \/ TakeStatus(p) \/ RenameStatus(p)
BY DEF StartPoll, PollStep, CheckRequests, CheckProcess, CheckStatus, TakeStatus,
       RemoveStatus, RenameStatus, SendResult

\* A status_check that changes temp.txt changes no worker's copy.
LEMMA PollKeepsCopies ==
    ASSUME AsyncTypes, Separate, ~overlapped', [Next]_vars,
           NEW p \in Pollers, PollStep(p) \/ \E r \in Requests : StartPoll(p, r),
           temp' # temp
    PROVE  ~Rewriting
<1>1. CASE TakeStatus(p)
  <2>1. overlapped' = (overlapped \/ Rewriting)
    BY <1>1 DEF TakeStatus
  <2> QED
    BY <2>1
<1>2. CASE RenameStatus(p)
  <2>1. ~overlapped
    BY OverlappedEffect, Zenon
  <2>2. StatusFileLock
    BY <1>2 DEF RenameStatus, StatusFileLock
  <2> QED
    BY <2>1, <2>2 DEF Separate
<1> QED
  BY <1>1, <1>2, PollEffect

\* The lock of the results is taken before the copy.
LEMMA StatusLockTaken ==
    ASSUME ClientsOK, ~StatusFileLock, StatusFileLock',
           NEW p \in Pollers, PollStep(p) \/ \E r \in Requests : StartPoll(p, r)
    PROVE  TakeStatus(p)
<1>t. poll \in [Pollers -> [at: PollLabels, req: Requests \cup {NoRequest},
                            verdict: Verdicts \cup {NoAnswer}]]
  BY DEF ClientsOK
<1> DEFINE Held == {"remove status", "rename status"}
<1>0. \A label \in {"idle", "request", "process", "status", "take", "send"} : label \notin Held
  BY Zenon
<1>1. PICK q \in Pollers : poll'[q].at \in Held
  BY DEF StatusFileLock
<1>2. poll[q].at \notin Held
  BY DEF StatusFileLock
<1> HIDE DEF Held
<1>3. ASSUME NEW label, PollAt(p, label)
      PROVE  poll'[q].at \in {label, poll[q].at}
  BY <1>t, <1>3 DEF PollAt
<1>4. ASSUME NEW what, Report(p, what) PROVE poll'[q].at \in {"idle", poll[q].at}
  BY <1>t, <1>4 DEF Report, NotPolling
<1>5. ASSUME NEW r \in Requests PROVE ~StartPoll(p, r)
  BY <1>t, <1>0, <1>1, <1>2 DEF StartPoll
<1>6. ~CheckRequests(p) /\ ~CheckProcess(p)
  <2>1. CheckRequests(p) => (\E what : Report(p, what)) \/ PollAt(p, "process")
    BY Zenon DEF CheckRequests
  <2>2. CheckProcess(p) => (\E what : Report(p, what)) \/ PollAt(p, "status")
    BY Zenon DEF CheckProcess
  <2> QED
    BY <1>0, <1>1, <1>2, <1>3, <1>4, <2>1, <2>2
<1>7. ~CheckStatus(p)
  <2>1. ASSUME NEW v, poll' = [poll EXCEPT ![p].at = "take", ![p].verdict = v] PROVE FALSE
    BY <1>t, <1>0, <1>1, <1>2, <2>1
  <2>2. CheckStatus(p) => \/ \E what : Report(p, what)
                          \/ \E v : poll' = [poll EXCEPT ![p].at = "take", ![p].verdict = v]
    BY Zenon DEF CheckStatus
  <2> QED
    BY <1>0, <1>1, <1>2, <1>4, <2>1, <2>2
<1>8. ~RenameStatus(p) /\ ~SendResult(p)
  <2>1. RenameStatus(p) => PollAt(p, "send")
    BY Zenon DEF RenameStatus
  <2>2. SendResult(p) => Report(p, "done")
    BY Zenon DEF SendResult
  <2> QED
    BY <1>0, <1>1, <1>2, <1>3, <1>4, <2>1, <2>2
<1>9. ~RemoveStatus(p)
  BY DEF RemoveStatus, StatusFileLock
<1> QED
  BY <1>5, <1>6, <1>7, <1>8, <1>9 DEF PollStep

LEMMA SeparateStep == AsyncTypes /\ Separate /\ [Next]_vars => Separate'
<1> SUFFICES ASSUME AsyncTypes, Separate, [Next]_vars, ~overlapped', StatusFileLock', Rewriting'
             PROVE  FALSE
  BY DEF Separate
<1>t. /\ ThreadsOK /\ pc \in [Workers -> WorkerLabels]
      /\ poll \in [Pollers -> [at: PollLabels, req: Requests \cup {NoRequest},
                               verdict: Verdicts \cup {NoAnswer}]]
  BY DEF AsyncTypes, ThreadsOK, ClientsOK
<1>o. ~overlapped /\ ~(StatusFileLock /\ Rewriting)
  <2>1. ~overlapped
    BY OverlappedEffect, Zenon
  <2> QED
    BY <2>1 DEF Separate
<1>1. ASSUME NEW r \in Requests, Submit(r) \/ SubmitFails(r) \/ RequestStep(r) PROVE FALSE
  <2>1. /\ poll' = poll
        /\ pc' = pc \/ \E w \in Workers : pc[w] = "asleep" /\ pc' = [pc EXCEPT ![w] = "fetch"]
    BY <1>1 DEF Submit, SubmitFails, RequestStep, Push, ReadSize, CountAndSignal, Sleeping
  <2> QED
    BY <1>o, <1>t, <2>1 DEF StatusFileLock, Rewriting
<1>2. ASSUME NEW w \in Workers, WorkerStep(w) PROVE FALSE
  <2>1. /\ \A v \in Workers \ {w} : pc'[v] = pc[v]
        /\ poll' = poll
    BY <1>2, <1>t, WorkerEffect
  <2>2. StatusFileLock
    BY <2>1 DEF StatusFileLock
  <2>3. pc'[w] \in {"remove request", "rename request", "remove process", "rename process"}
    BY <1>o, <2>1, <2>2 DEF Rewriting
  <2>4. Pop(w) \/ Unlist(w) \/ RemoveRequest(w) \/ RemoveProcess(w)
    BY <1>2, <1>t, <2>3 DEF WorkerStep, PassGate, FindNoData, WaitForData, RenameRequest,
       CountDown, List, Grade, RenameProcess, Goto
  <2>5. RemoveRequest(w) \/ RemoveProcess(w) => Rewriting
    BY DEF RemoveRequest, RemoveProcess, Rewriting
  <2>6. Unlist(w) => ~StatusFileLock
    <3>1. Unlist(w) => overlapped' = (overlapped \/ StatusFileLock)
      BY DEF Unlist
    <3> QED
      BY <3>1
  <2>7. Pop(w) => ~StatusFileLock
    <3>1. Pop(w) => pc' = [pc EXCEPT ![w] = "list"] \/ overlapped' = (overlapped \/ StatusFileLock)
      BY Zenon DEF Pop, Goto
    <3>2. pc' = [pc EXCEPT ![w] = "list"] => pc'[w] = "list"
      BY <1>t
    <3> QED
      BY <2>3, <3>1, <3>2
  <2> QED
    BY <1>o, <2>2, <2>4, <2>5, <2>6, <2>7
<1>3. ASSUME NEW p \in Pollers, PollStep(p) \/ \E r \in Requests : StartPoll(p, r) PROVE FALSE
  <2>1. Rewriting
    BY <1>3, PollEffect DEF Rewriting
  <2>2. TakeStatus(p)
    BY <1>3, <1>o, <2>1, StatusLockTaken DEF AsyncTypes
  <2>3. TakeStatus(p) => overlapped' = (overlapped \/ Rewriting)
    BY DEF TakeStatus
  <2> QED
    BY <2>1, <2>2, <2>3
<1>4. CASE Crash
  BY <1>4 DEF Crash, Rewriting
<1>5. CASE UNCHANGED vars
  BY <1>5, <1>o DEF vars, StatusFileLock, Rewriting
<1> QED
  BY <1>1, <1>2, <1>3, <1>4, <1>5 DEF Next

-----------------------------------------------------------------------------
(* Grading, as long as no removals overlap.  A request is in one place at  *)
(* a time: still with its new_request thread, in the request queue or the  *)
(* copy that will replace it, in one worker's hands, or graded.            *)

Handed(r) == new_request[r] \notin {"new", "push"}

Waits(r) == Handed(r) /\ r \notin graded /\ \A w \in Workers : ~Holds(w, r)

QueuedOnce(s) ==
    /\ s \in Seq(Requests)
    /\ \A i, j \in DOMAIN s : s[i] = s[j] => i = j
    /\ \A i \in DOMAIN s : Waits(s[i])

\* The head of the queue has been copied to a worker, the rest to temp.txt.
Popped(w) ==
    /\ temp # Missing /\ QueuedOnce(temp)
    /\ line[w] \in Requests /\ \A i \in DOMAIN temp : temp[i] # line[w]
    /\ pc[w] = "remove request" =>
          /\ Find("request", line[w])
          /\ \A i \in DOMAIN temp : Find("request", temp[i])

Tokens ==
    /\ QueuedOnce(Content("request"))
    /\ \A w \in Workers : pc[w] \in Popping => Popped(w)
    /\ \A r \in Requests :
          /\ \A w \in Workers : Holds(w, r) => Handed(r) /\ r \notin graded
          /\ \A v, w \in Workers : Holds(v, r) /\ Holds(w, r) => v = w
          /\ r \in graded => Handed(r)

\* A step that takes no request into hand and none out of it.
Quiet ==
    /\ graded' = graded
    /\ \A r \in Requests : /\ Handed(r) => Handed(r)'
                           /\ \A w \in Workers : Holds(w, r)' <=> Holds(w, r)

LEMMA QuietKeeps ==
    ASSUME Quiet, Tokens
    PROVE  /\ \A r \in Requests : Waits(r) => Waits(r)'
           /\ \A r \in Requests :
                 /\ \A w \in Workers : Holds(w, r)' => Handed(r)' /\ r \notin graded'
                 /\ \A v, w \in Workers : Holds(v, r)' /\ Holds(w, r)' => v = w
                 /\ r \in graded' => Handed(r)'
BY DEF Quiet, Tokens, Waits

LEMMA RequestQuiet ==
    ASSUME ThreadsOK, NEW r \in Requests, Submit(r) \/ SubmitFails(r) \/ RequestStep(r)
    PROVE  Quiet
<1>1. (\E label \in {"read", "count"} : new_request' = [new_request EXCEPT ![r] = label])
      \/ (new_request[r] = "new" /\ \E label : new_request' = [new_request EXCEPT ![r] = label])
      \/ new_request' = [new_request EXCEPT ![r] = "accepted"]
  BY DEF Submit, SubmitFails, RequestStep, Push, ReadSize, CountAndSignal
<1>2. \A s \in Requests : Handed(s) => Handed(s)'
  BY <1>1 DEF Handed, ThreadsOK
<1>3. /\ line' = line /\ graded' = graded
      /\ pc' = pc \/ \E w \in Workers : pc[w] = "asleep" /\ pc' = [pc EXCEPT ![w] = "fetch"]
  BY DEF Submit, SubmitFails, RequestStep, Push, ReadSize, CountAndSignal, Sleeping
<1>4. \A s \in Requests : \A w \in Workers : Holds(w, s)' <=> Holds(w, s)
  BY <1>3 DEF Holds, ThreadsOK
<1> QED
  BY <1>2, <1>3, <1>4 DEF Quiet

LEMMA WorkerQuiet ==
    ASSUME FilesOK, ThreadsOK, NEW w \in Workers, WorkerStep(w), ~RemoveRequest(w), ~Grade(w)
    PROVE  Quiet
<1>t. pc \in [Workers -> WorkerLabels] /\ line \in [Workers -> Lines]
  BY DEF ThreadsOK
<1>e. /\ \A v \in Workers \ {w} : pc'[v] = pc[v] /\ line'[v] = line[v]
      /\ UNCHANGED handlers
  BY WorkerEffect
<1>1. graded' = graded
  BY DEF WorkerStep, PassGate, Pop, FindNoData, WaitForData, RenameRequest, CountDown,
     List, Unlist, RemoveProcess, RenameProcess
<1>2. ASSUME NEW r \in Requests PROVE Holds(w, r)' <=> Holds(w, r)
  <2>1. CASE PassGate(w) \/ FindNoData(w) \/ WaitForData(w) \/ RenameRequest(w) \/ CountDown(w)
             \/ List(w) \/ Unlist(w) \/ RemoveProcess(w) \/ RenameProcess(w)
    BY <1>t, <2>1 DEF PassGate, FindNoData, WaitForData, RenameRequest, CountDown, List,
       Unlist, RemoveProcess, RenameProcess, Goto, Holds
  <2>2. CASE Pop(w)
    <3>1. /\ pc[w] = "fetch" /\ pc'[w] \in {"list", "remove request"}
          /\ pc'[w] = "list" => line'[w] = EmptyLine
      BY <1>t, <2>2 DEF Pop, Goto, FirstLine
    <3> QED
      BY <3>1, AsyncServerAssumption DEF Holds
  <2> QED
    BY <2>1, <2>2 DEF WorkerStep
<1> QED
  BY <1>1, <1>2, <1>e DEF Quiet, Handed, Holds

\* What the steps on a file make of its lines.
LEMMA ContentNext ==
    ASSUME FilesOK, NEW q \in Queues
    PROVE  /\ file' = file => Content(q)' = Content(q)
           /\ \A e \in Lines : AppendLine(q, e) => Content(q)' = Append(Content(q), e)
           /\ RemoveFile(q) => Content(q)' = <<>>
           /\ RenameTemp(q) /\ temp # Missing => Content(q)' = temp
           /\ \A o \in Queues \ {q} :
                 (RemoveFile(o) \/ RenameTemp(o) \/ \E e : AppendLine(o, e))
                    => Content(q)' = Content(q)
<1>t. file \in [Queues -> Seq(Lines) \cup {Missing}] /\ temp \in Seq(Lines) \cup {Missing}
  BY DEF FilesOK, FilesIn
<1>1. file' = file => Content(q)' = Content(q)
  BY DEF Content
<1>2. ASSUME NEW e \in Lines, AppendLine(q, e) PROVE Content(q)' = Append(Content(q), e)
  <2>1. Append(Content(q), e) \in Seq(Lines)
    BY ContentIs DEF FilesOK
  <2>2. Append(Content(q), e) # Missing
    BY <2>1, AsyncServerAssumption
  <2> QED
    BY <1>2, <1>t, <2>2 DEF AppendLine, Content
<1>3. RemoveFile(q) => Content(q)' = <<>>
  BY <1>t DEF RemoveFile, Content
<1>4. RenameTemp(q) /\ temp # Missing => Content(q)' = temp
  BY <1>t DEF RenameTemp, Content
<1>5. ASSUME NEW o \in Queues \ {q}, RemoveFile(o) \/ RenameTemp(o) \/ \E e : AppendLine(o, e)
      PROVE  Content(q)' = Content(q)
  BY <1>t, <1>5 DEF RemoveFile, RenameTemp, AppendLine, Content
<1> QED
  BY <1>1, <1>2, <1>3, <1>4, <1>5

LEMMA TokensInit == Init => Tokens
<1> SUFFICES ASSUME Init PROVE Tokens
  OBVIOUS
<1>1. Content("request") = <<>> /\ graded = {}
  BY AsyncServerAssumption DEF Init, Queues, Content
<1>2. \A w \in Workers : pc[w] = "gate"
  BY DEF Init
<1>3. QueuedOnce(<<>>)
  BY DEF QueuedOnce
<1> QED
  BY <1>1, <1>2, <1>3 DEF Tokens, Popping, Holds

LEMMA QueuedOnceKeeps ==
    ASSUME NEW s, QueuedOnce(s), \A r \in Requests : Waits(r) => Waits(r)'
    PROVE  QueuedOnce(s)'
<1>1. \A i \in DOMAIN s : s[i] \in Requests
  BY DEF QueuedOnce
<1> QED
  BY <1>1 DEF QueuedOnce

LEMMA ElementIs ==
    ASSUME NEW S, NEW s \in Seq(S)
    PROVE  \A i \in DOMAIN s : s[i] \in S
OBVIOUS

LEMMA PoppedKeeps ==
    ASSUME NEW w, Popped(w), \A r \in Requests : Waits(r) => Waits(r)',
           temp' = temp, line'[w] = line[w],
           pc'[w] = "remove request" =>
              /\ pc[w] = "remove request"
              /\ \A r \in Requests : Find("request", r) => Find("request", r)'
    PROVE  Popped(w)'
<1>1. PICK s : s = temp /\ s # Missing /\ QueuedOnce(s)
  BY DEF Popped
<1>q. s \in Seq(Requests)
  BY <1>1 DEF QueuedOnce
<1>r. \A i \in DOMAIN s : s[i] \in Requests
  BY <1>q, ElementIs
<1>2. QueuedOnce(s)'
  BY <1>1, QueuedOnceKeeps
<1>3. temp' # Missing /\ QueuedOnce(temp)'
  BY <1>1, <1>2 DEF QueuedOnce
<1>4. line'[w] \in Requests /\ \A i \in DOMAIN temp' : temp'[i] # line'[w]
  BY DEF Popped
<1>5. ASSUME pc'[w] = "remove request"
      PROVE  Find("request", line[w])' /\ \A i \in DOMAIN temp' : Find("request", temp[i])'
  <2>1. PICK r \in Requests : r = line[w] /\ Find("request", r)
    BY <1>5 DEF Popped
  <2>2. Find("request", line[w])'
    BY <1>5, <2>1 DEF Find
  <2>3. ASSUME NEW i \in DOMAIN s PROVE Find("request", s[i])'
    <3>1. s[i] \in Requests
      BY <1>r, <2>3
    <3> QED
      BY <1>1, <1>5, <2>3, <3>1 DEF Popped
  <2> QED
    BY <1>1, <2>2, <2>3 DEF Find
<1> QED
  BY <1>3, <1>4, <1>5 DEF Popped

\* A quiet step, by what it makes of the queue.
LEMMA TokensQuiet ==
    ASSUME Tokens, Quiet,
           \/ Content("request")' = Content("request")
           \/ \E r \in Requests :
                 /\ Content("request")' = Append(Content("request"), r)
                 /\ ~Find("request", r) /\ Waits(r)'
           \/ Content("request")' = temp /\ QueuedOnce(temp),
           \A w \in Workers : pc'[w] \in Popping => Popped(w)'
    PROVE  Tokens'
<1>w. \A r \in Requests : Waits(r) => Waits(r)'
  BY QuietKeeps
<1>1. QueuedOnce(Content("request"))'
  <2>1. PICK s : s = Content("request") /\ QueuedOnce(s)
    BY DEF Tokens
  <2>q. s \in Seq(Requests)
    BY <2>1 DEF QueuedOnce
  <2>2. QueuedOnce(s)'
    BY <2>1, <1>w, QueuedOnceKeeps
  <2>3. CASE Content("request")' = Content("request")
    BY <2>1, <2>2, <2>3 DEF QueuedOnce
  <2>4. CASE Content("request")' = temp /\ QueuedOnce(temp)
    <3>1. PICK t : t = temp /\ QueuedOnce(t)
      BY <2>4
    <3>2. QueuedOnce(t)'
      BY <3>1, <1>w, QueuedOnceKeeps
    <3> QED
      BY <2>4, <3>1, <3>2 DEF QueuedOnce
  <2>5. ASSUME NEW r \in Requests, Content("request")' = Append(Content("request"), r),
               ~Find("request", r), Waits(r)'
        PROVE  QueuedOnce(Content("request"))'
    <3> DEFINE t == Append(s, r)
    <3>1. /\ t \in Seq(Requests) /\ DOMAIN t = 1 .. Len(s) + 1 /\ Len(s) \in Nat
          /\ t[Len(s) + 1] = r /\ \A i \in 1 .. Len(s) : t[i] = s[i]
      BY <2>q
    <3>2. \A i \in 1 .. Len(s) : s[i] # r
      BY <2>1, <2>5 DEF Find, Contains
    <3>3. \A i, j \in 1 .. Len(s) : s[i] = s[j] => i = j
      BY <2>1, <2>q DEF QueuedOnce
    <3>4. \A i \in 1 .. Len(s) : Waits(s[i])'
      BY <2>2, <2>q DEF QueuedOnce
    <3> HIDE DEF t
    <3>5. ASSUME NEW i \in DOMAIN t, NEW j \in DOMAIN t, t[i] = t[j] PROVE i = j
      BY <3>1, <3>2, <3>3, <3>5
    <3>6. ASSUME NEW i \in DOMAIN t PROVE Waits(t[i])'
      <4>1. CASE i \in 1 .. Len(s)
        <5>1. PICK k : k = s[i] /\ Waits(k)'
          BY <3>4, <4>1 DEF Waits
        <5>2. t[i] = k
          BY <3>1, <4>1, <5>1
        <5> QED
          BY <5>1, <5>2
      <4>2. CASE i = Len(s) + 1
        <5>1. t[i] = r
          BY <3>1, <4>2
        <5> QED
          BY <2>5, <5>1
      <4> QED
        BY <3>1, <4>1, <4>2
    <3>7. QueuedOnce(t)'
      BY <3>1, <3>5, <3>6 DEF QueuedOnce
    <3>8. Content("request")' = t
      BY <2>1, <2>5 DEF t
    <3> QED
      BY <3>7, <3>8 DEF QueuedOnce
  <2> QED
    BY <2>3, <2>4, <2>5
<1> QED
  BY <1>1, QuietKeeps DEF Tokens

LEMMA TokensRequest ==
    ASSUME AsyncTypes, Tokens, NEW r \in Requests, Submit(r) \/ SubmitFails(r) \/ RequestStep(r)
    PROVE  Tokens'
<1>t. /\ FilesOK /\ pc \in [Workers -> WorkerLabels] /\ "request" \in Queues
      /\ new_request \in [Requests -> {"new", "push", "read", "count", "accepted", "failed"}]
      /\ Requests \subseteq Lines
  BY LabelTypes DEF AsyncTypes, ThreadsOK, Queues
<1>q. Quiet
  BY RequestQuiet DEF AsyncTypes
<1>w. \A s \in Requests : Waits(s) => Waits(s)'
  BY <1>q, QuietKeeps
<1>1. /\ temp' = temp /\ line' = line
      /\ \A w \in Workers : pc'[w] \in Popping => pc'[w] = pc[w]
  BY <1>t DEF Submit, SubmitFails, RequestStep, Push, ReadSize, CountAndSignal, Popping, Sleeping
<1>2. CASE Submit(r) \/ SubmitFails(r) \/ ReadSize(r) \/ CountAndSignal(r)
  <2>1. Content("request")' = Content("request")
    BY <1>2, <1>t, ContentNext DEF Submit, SubmitFails, ReadSize, CountAndSignal
  <2>2. \A w \in Workers : pc'[w] \in Popping => Popped(w)'
    BY <1>1, <1>w, <2>1, PoppedKeeps DEF Tokens, Find
  <2> QED
    BY <1>q, <2>1, <2>2, TokensQuiet
<1>3. CASE Push(r)
  <2>1. Content("request")' = Append(Content("request"), r)
    BY <1>3, <1>t, ContentNext DEF Push
  <2>2. ~Handed(r) /\ Handed(r)'
    BY <1>3, <1>t DEF Push, Handed
  <2>3. ~Find("request", r)
    BY <2>2 DEF Tokens, QueuedOnce, Waits, Find, Contains
  <2>4. Waits(r)'
    BY <2>2, <1>q DEF Tokens, Quiet, Waits
  <2>5. \A e \in Requests : Find("request", e) => Find("request", e)'
    <3>1. Content("request") \in Seq(Requests)
      BY DEF Tokens, QueuedOnce
    <3> QED
      BY <2>1, <3>1 DEF Find, Contains
  <2>6. \A w \in Workers : pc'[w] \in Popping => Popped(w)'
    BY <1>1, <1>w, <2>5, PoppedKeeps DEF Tokens
  <2> QED
    BY <1>q, <2>1, <2>3, <2>4, <2>6, TokensQuiet
<1> QED
  BY <1>2, <1>3 DEF RequestStep

\* temp.txt changes under Lock only, if only workers change it.
LEMMA TempIsLocked ==
    ASSUME AsyncTypes, NEW w \in Workers, WorkerStep(w), temp' # temp,
           NEW v \in Workers \ {w}
    PROVE  pc'[v] \notin Locked
<1>t. ThreadsOK /\ Locks
  BY DEF AsyncTypes
<1>1. pc[w] \in Locked \/ ~Lock
  <2>1. CASE PassGate(w) \/ FindNoData(w) \/ WaitForData(w) \/ RemoveRequest(w)
             \/ CountDown(w) \/ List(w) \/ Grade(w) \/ RemoveProcess(w)
    BY <2>1 DEF PassGate, FindNoData, WaitForData, RemoveRequest, CountDown, List, Grade,
       RemoveProcess
  <2>2. CASE Pop(w) \/ Unlist(w) \/ RenameRequest(w) \/ RenameProcess(w)
    BY <2>2 DEF Pop, Unlist, RenameRequest, RenameProcess, Locked
  <2> QED
    BY <2>1, <2>2 DEF WorkerStep
<1>2. pc[v] \notin Locked
  BY <1>1, <1>t DEF Locks, Lock, Locked
<1> QED
  BY <1>2, <1>t, WorkerEffect

LEMMA TokensPop ==
    ASSUME AsyncTypes, Tokens, NEW w \in Workers, Pop(w), Content("request") # <<>>
    PROVE  Tokens'
<1>t. /\ FilesOK /\ ThreadsOK /\ "request" \in Queues /\ pc \in [Workers -> WorkerLabels]
      /\ line \in [Workers -> Lines] /\ Requests \subseteq Lines
  BY LabelTypes DEF AsyncTypes, ThreadsOK, Queues
<1>0. WorkerStep(w) /\ ~RemoveRequest(w) /\ ~Grade(w)
  BY DEF WorkerStep, Pop, RemoveRequest, Grade
<1>q. Quiet
  BY <1>0, <1>t, WorkerQuiet
<1>1. PICK s : s = Content("request") /\ QueuedOnce(s)
  BY DEF Tokens
<1>2. s \in Seq(Requests) /\ s # <<>>
  BY <1>1 DEF QueuedOnce
<1>3. /\ temp' = Tail(s) /\ line' = [line EXCEPT ![w] = Head(s)] /\ file' = file
      /\ pc' = [pc EXCEPT ![w] = "remove request"] /\ ~Lock
  BY <1>1, <1>2 DEF Pop, CopyAllButFirst, FirstLine, Goto
<1>4. PICK t : t = Tail(s)
  OBVIOUS
<1>5. /\ t \in Seq(Requests) /\ Len(t) = Len(s) - 1 /\ Len(s) \in Nat \ {0}
      /\ \A i \in 1 .. Len(t) : t[i] = s[i + 1]
      /\ Head(s) = s[1] /\ s[1] \in Requests
  BY <1>2, <1>4
<1>6. \A i, j \in 1 .. Len(s) : s[i] = s[j] => i = j
  BY <1>1, <1>2 DEF QueuedOnce
<1>7. QueuedOnce(s)'
  BY <1>1, <1>q, QuietKeeps, QueuedOnceKeeps
<1>8. ASSUME NEW i \in 1 .. Len(t) PROVE i + 1 \in 1 .. Len(s) /\ t[i] = s[i + 1] /\ t[i] # s[1]
  <2>1. i + 1 \in 1 .. Len(s) /\ 1 \in 1 .. Len(s) /\ i + 1 # 1
    BY <1>5
  <2> QED
    BY <1>5, <1>6, <2>1
<1>9. QueuedOnce(t)'
  <2>1. ASSUME NEW i \in DOMAIN t, NEW j \in DOMAIN t, t[i] = t[j] PROVE i = j
    <3>1. i \in 1 .. Len(t) /\ j \in 1 .. Len(t)
      BY <1>5
    <3>2. i + 1 = j + 1
      BY <1>6, <1>8, <2>1, <3>1
    <3> QED
      BY <3>1, <3>2
  <2>2. ASSUME NEW i \in DOMAIN t PROVE Waits(t[i])'
    <3>1. i \in 1 .. Len(t)
      BY <1>5
    <3>2. PICK k : k = s[i + 1] /\ i + 1 \in DOMAIN s /\ t[i] = k
      BY <1>2, <1>8, <3>1
    <3>3. Waits(k)'
      BY <1>7, <3>2 DEF QueuedOnce
    <3> QED
      BY <3>2, <3>3
  <2> QED
    BY <1>5, <2>1, <2>2 DEF QueuedOnce
<1>10. Content("request")' = s
  BY <1>1, <1>3, <1>t, ContentNext
<1>11. Popped(w)'
  <2>1. line'[w] = s[1] /\ temp' = t
    BY <1>t, <1>3, <1>4, <1>5
  <2>2. t # Missing
    <3>1. t \in Seq(Lines)
      BY <1>5, <1>t
    <3> QED
      BY <3>1, AsyncServerAssumption
  <2>3. QueuedOnce(temp)'
    BY <1>9, <2>1 DEF QueuedOnce
  <2>4. Find("request", s[1])' /\ \A i \in DOMAIN t : Find("request", t[i])'
    <3>1. \A i \in 1 .. Len(s) : Contains(s, s[i])
      BY DEF Contains
    <3>2. 1 \in 1 .. Len(s) /\ \A i \in DOMAIN t : i + 1 \in 1 .. Len(s) /\ t[i] = s[i + 1]
      BY <1>5, <1>8
    <3> QED
      BY <1>10, <3>1, <3>2 DEF Find
  <2>5. \A i \in DOMAIN t : t[i] # s[1]
    BY <1>5, <1>8
  <2>6. Find("request", line[w])' /\ \A i \in DOMAIN temp' : Find("request", temp[i])'
    BY <2>1, <2>4 DEF Find
  <2> QED
    BY <1>5, <2>1, <2>2, <2>3, <2>5, <2>6 DEF Popped
<1>12. \A v \in Workers \ {w} : pc'[v] \notin Popping
  BY <1>t, <1>3 DEF Lock, Popping
<1> QED
  BY <1>1, <1>q, <1>10, <1>11, <1>12, TokensQuiet

LEMMA TokensRemove ==
    ASSUME AsyncTypes, Tokens, NEW w \in Workers, RemoveRequest(w)
    PROVE  Tokens'
<1>t. /\ FilesOK /\ ThreadsOK /\ Locks /\ "request" \in Queues
      /\ pc \in [Workers -> WorkerLabels] /\ line \in [Workers -> Lines]
  BY DEF AsyncTypes, ThreadsOK, Queues
<1>1. /\ pc[w] = "remove request" /\ pc' = [pc EXCEPT ![w] = "rename request"]
      /\ UNCHANGED <<temp, line, graded, new_request>> /\ Content("request")' = <<>>
  BY <1>t, ContentNext DEF RemoveRequest, Goto
<1>2. PICK r \in Requests : r = line[w] /\ Popped(w)
  BY <1>1 DEF Tokens, Popped, Popping
<1>3. Waits(r)
  <2>1. Find("request", r)
    BY <1>1, <1>2 DEF Popped, Find
  <2> QED
    BY <2>1 DEF Find, Contains, Tokens, QueuedOnce
<1>4. \A e \in Requests, v \in Workers : Holds(v, e)' <=> (Holds(v, e) \/ (v = w /\ e = r))
  BY <1>1, <1>2, <1>t DEF Holds
<1>5. \A e \in Requests \ {r} : Waits(e) => Waits(e)'
  BY <1>1, <1>4 DEF Waits, Handed
<1>6. Popped(w)'
  <2>1. PICK t : t = temp /\ t # Missing /\ QueuedOnce(t) /\ \A i \in DOMAIN t : t[i] # r
    BY <1>2 DEF Popped
  <2>2. t \in Seq(Requests) /\ \A i \in DOMAIN t : t[i] \in Requests \ {r} /\ Waits(t[i])
    <3>1. t \in Seq(Requests)
      BY <2>1 DEF QueuedOnce
    <3> QED
      BY <2>1, <3>1, ElementIs DEF QueuedOnce
  <2>3. \A i \in DOMAIN t : Waits(t[i])'
    BY <1>5, <2>2
  <2>4. QueuedOnce(t)'
    BY <2>1, <2>2, <2>3 DEF QueuedOnce
  <2>5. QueuedOnce(temp)'
    BY <1>1, <2>1, <2>4 DEF QueuedOnce
  <2>6. pc'[w] = "rename request" /\ line'[w] = r /\ temp' = t
    BY <1>1, <1>2, <1>t, <2>1
  <2> QED
    BY <2>1, <2>5, <2>6 DEF Popped
<1>7. \A v \in Workers \ {w} : pc'[v] \notin Popping
  BY <1>t, <1>1 DEF Locks, Locked, Popping
<1>8. QueuedOnce(Content("request"))'
  <2>1. QueuedOnce(<<>>)'
    BY DEF QueuedOnce
  <2> QED
    BY <1>1, <2>1 DEF QueuedOnce
<1>9. ASSUME NEW e \in Requests
      PROVE  /\ \A v \in Workers : Holds(v, e)' => Handed(e)' /\ e \notin graded'
             /\ \A u, v \in Workers : Holds(u, e)' /\ Holds(v, e)' => u = v
             /\ e \in graded' => Handed(e)'
  <2>1. (Handed(e)' <=> Handed(e)) /\ (e \in graded' <=> e \in graded)
    BY <1>1 DEF Handed
  <2>2. /\ \A v \in Workers : Holds(v, e) => Handed(e) /\ e \notin graded
        /\ \A u, v \in Workers : Holds(u, e) /\ Holds(v, e) => u = v
        /\ e \in graded => Handed(e)
    BY DEF Tokens
  <2>3. CASE e = r
    <3>1. \A v \in Workers : Holds(v, e)' => v = w
      BY <1>3, <1>4, <2>3 DEF Waits
    <3> QED
      BY <1>3, <2>1, <2>3, <3>1 DEF Waits
  <2>4. CASE e # r
    BY <1>4, <2>1, <2>2, <2>4
  <2> QED
    BY <2>3, <2>4
<1> QED
  BY <1>6, <1>7, <1>8, <1>9 DEF Tokens

LEMMA TokensGrade ==
    ASSUME AsyncTypes, Tokens, NEW w \in Workers, Grade(w)
    PROVE  Tokens'
<1>t. /\ FilesOK /\ ThreadsOK /\ "request" \in Queues /\ "status" \in Queues \ {"request"}
      /\ pc \in [Workers -> WorkerLabels] /\ line \in [Workers -> Lines]
  BY DEF AsyncTypes, ThreadsOK, Queues
<1>1. /\ pc[w] = "grade" /\ pc' = [pc EXCEPT ![w] = "unlist"]
      /\ UNCHANGED <<temp, line, new_request>>
      /\ graded' = graded \cup ({line[w]} \cap Requests)
      /\ AppendLine("status", StatusFor(line[w]))
  BY DEF Grade, Goto
<1>2. Content("request")' = Content("request")
  BY <1>1, <1>t, ContentNext
<1>3. \A e \in Requests, v \in Workers : Holds(v, e)' <=> (Holds(v, e) /\ v # w)
  BY <1>1, <1>t DEF Holds
<1>4. \A e \in Requests : e \in graded' <=> (e \in graded \/ Holds(w, e))
  BY <1>1, <1>t DEF Holds
<1>h. \A e \in Requests : Handed(e)' <=> Handed(e)
  BY <1>1 DEF Handed
<1>5. \A e \in Requests : Waits(e) => Waits(e)'
  BY <1>3, <1>4, <1>h DEF Waits
<1>6. \A v \in Workers : pc'[v] \in Popping => Popped(v)'
  <2>1. ASSUME NEW v \in Workers, pc'[v] \in Popping PROVE Popped(v)'
    <3>1. pc'[v] = pc[v] /\ line'[v] = line[v] /\ Popped(v)
      BY <1>1, <1>t, <2>1 DEF Popping, Tokens
    <3> QED
      BY <1>1, <1>2, <1>5, <3>1, PoppedKeeps DEF Find
  <2> QED
    BY <2>1
<1>7. QueuedOnce(Content("request"))'
  <2>1. PICK s : s = Content("request") /\ QueuedOnce(s)
    BY DEF Tokens
  <2>2. QueuedOnce(s)'
    BY <1>5, <2>1, QueuedOnceKeeps
  <2> QED
    BY <1>2, <2>1, <2>2 DEF QueuedOnce
<1>8. ASSUME NEW e \in Requests
      PROVE  /\ \A v \in Workers : Holds(v, e)' => Handed(e)' /\ e \notin graded'
             /\ \A u, v \in Workers : Holds(u, e)' /\ Holds(v, e)' => u = v
             /\ e \in graded' => Handed(e)'
  BY <1>3, <1>4, <1>h DEF Tokens
<1> QED
  BY <1>6, <1>7, <1>8 DEF Tokens

LEMMA TokensWorker ==
    ASSUME AsyncTypes, Tokens, NEW w \in Workers, WorkerStep(w)
    PROVE  Tokens'
<1>t. /\ FilesOK /\ ThreadsOK /\ Locks /\ "request" \in Queues /\ "process" \in Queues \ {"request"}
      /\ pc \in [Workers -> WorkerLabels] /\ line \in [Workers -> Lines]
  BY DEF AsyncTypes, ThreadsOK, Queues
<1>e. \A v \in Workers \ {w} : pc'[v] = pc[v] /\ line'[v] = line[v]
  BY <1>t, WorkerEffect
<1>1. CASE RemoveRequest(w)
  BY <1>1, TokensRemove
<1>2. CASE Grade(w)
  BY <1>2, TokensGrade
<1>3. CASE Pop(w) /\ Content("request") # <<>>
  BY <1>3, TokensPop
<1>4. CASE RenameRequest(w)
  <2>q. Quiet
    BY <1>4, <1>t, WorkerQuiet DEF RenameRequest, RemoveRequest, Grade
  <2>1. /\ pc[w] = "rename request" /\ pc' = [pc EXCEPT ![w] = "count"] /\ RenameTemp("request")
    BY <1>4 DEF RenameRequest, Goto
  <2>2. temp # Missing /\ QueuedOnce(temp)
    BY <2>1 DEF Tokens, Popped, Popping
  <2>3. Content("request")' = temp
    BY <1>t, <2>1, <2>2, ContentNext
  <2>4. \A v \in Workers : pc'[v] \notin Popping
    BY <1>t, <2>1 DEF Locks, Locked, Popping
  <2> QED
    BY <2>q, <2>2, <2>3, <2>4, TokensQuiet
<1>5. CASE \/ PassGate(w) \/ FindNoData(w) \/ WaitForData(w) \/ CountDown(w) \/ List(w)
           \/ Unlist(w) \/ RemoveProcess(w) \/ RenameProcess(w)
           \/ Pop(w) /\ Content("request") = <<>>
  <2>1. pc'[w] \notin Popping
    BY <1>5, <1>t DEF PassGate, FindNoData, WaitForData, CountDown, List, Unlist,
       RemoveProcess, RenameProcess, Pop, Goto, Popping
  <2>2. \/ file' = file \/ RemoveFile("process") \/ RenameTemp("process")
        \/ \E l : AppendLine("process", l)
    BY <1>5 DEF PassGate, FindNoData, WaitForData, CountDown, List, Unlist, RemoveProcess,
       RenameProcess, Pop
  <2>3. Content("request")' = Content("request")
    BY <1>t, <2>2, ContentNext
  <2>q. Quiet
    <3>1. ~RemoveRequest(w) /\ ~Grade(w)
      BY <1>5 DEF PassGate, FindNoData, WaitForData, CountDown, List, Unlist,
         RemoveProcess, RenameProcess, Pop, RemoveRequest, Grade
    <3> QED
      BY <3>1, <1>t, WorkerQuiet
  <2>4. ASSUME NEW v \in Workers, pc'[v] \in Popping PROVE Popped(v)'
    <3>1. v # w /\ pc'[v] = pc[v] /\ line'[v] = line[v] /\ Popped(v)
      BY <1>e, <2>1, <2>4 DEF Tokens
    <3>2. temp' = temp
      BY <2>4, <3>1, TempIsLocked DEF Popping, Locked
    <3>3. \A r \in Requests : Waits(r) => Waits(r)'
      BY <2>q, QuietKeeps
    <3> QED
      BY <2>3, <3>1, <3>2, <3>3, PoppedKeeps DEF Find
  <2> QED
    BY <2>q, <2>3, <2>4, TokensQuiet
<1> QED
  BY <1>1, <1>2, <1>3, <1>4, <1>5 DEF WorkerStep

LEMMA TokensCrash ==
    ASSUME AsyncTypes, Tokens, Crash
    PROVE  Tokens'
<1>1. /\ \A w \in Workers : pc'[w] = "gate"
      /\ UNCHANGED <<file, graded>>
      /\ \A r \in Requests : new_request'[r] = IF new_request[r] \in {"push", "read", "count"}
                                               THEN "failed" ELSE new_request[r]
  BY DEF Crash
<1>2. Content("request")' = Content("request")
  BY <1>1 DEF Content
<1>3. \A r \in Requests : Handed(r) => Handed(r)'
  BY <1>1 DEF Handed
<1>4. \A r \in Requests, w \in Workers : ~Holds(w, r)'
  BY <1>1 DEF Holds
<1>5. \A r \in Requests : Waits(r) => Waits(r)'
  BY <1>1, <1>3, <1>4 DEF Waits
<1>6. QueuedOnce(Content("request"))'
  <2>1. PICK s : s = Content("request") /\ QueuedOnce(s)
    BY DEF Tokens
  <2>2. QueuedOnce(s)'
    BY <1>5, <2>1, QueuedOnceKeeps
  <2> QED
    BY <1>2, <2>1, <2>2 DEF QueuedOnce
<1> QED
  BY <1>1, <1>3, <1>4, <1>6 DEF Tokens, Popping

LEMMA TokensPoll ==
    ASSUME AsyncTypes, Separate, Tokens, ~overlapped', [Next]_vars,
           NEW p \in Pollers, PollStep(p) \/ \E r \in Requests : StartPoll(p, r)
    PROVE  Tokens' /\ Quiet /\ Content("request")' = Content("request")
<1>t. FilesOK /\ "request" \in Queues /\ "status" \in Queues \ {"request"}
  BY DEF AsyncTypes, Queues
<1>1. /\ UNCHANGED <<pc, line, new_request, graded>>
      /\ file' = file \/ RemoveFile("status") \/ RenameTemp("status")
  BY PollEffect
<1>2. \A r \in Requests, w \in Workers : (Holds(w, r)' <=> Holds(w, r))
  BY <1>1 DEF Holds
<1>3. Quiet
  BY <1>1, <1>2 DEF Quiet, Handed
<1>4. Content("request")' = Content("request")
  BY <1>1, <1>t, ContentNext
<1>5. ASSUME NEW w \in Workers, pc'[w] \in Popping PROVE Popped(w)'
  <2>1. pc'[w] = pc[w] /\ line'[w] = line[w] /\ Popped(w)
    BY <1>1, <1>5 DEF Tokens
  <2>2. temp' = temp
    BY <1>5, <2>1, PollKeepsCopies DEF Rewriting, Popping
  <2> QED
    BY <1>3, <1>4, <2>1, <2>2, QuietKeeps, PoppedKeeps DEF Find
<1> QED
  BY <1>3, <1>4, <1>5, TokensQuiet

LEMMA TokensStep == AsyncTypes /\ Separate /\ Tokens /\ ~overlapped' /\ [Next]_vars => Tokens'
<1> SUFFICES ASSUME AsyncTypes, Separate, Tokens, ~overlapped', [Next]_vars PROVE Tokens'
  OBVIOUS
<1>1. CASE UNCHANGED vars
  <2>1. \A r \in Requests, w \in Workers : (Holds(w, r)' <=> Holds(w, r))
    BY <1>1 DEF vars, Holds
  <2>2. Quiet
    BY <1>1, <2>1 DEF Quiet, vars, Handed
  <2>3. Content("request")' = Content("request")
    BY <1>1 DEF vars, Content
  <2>4. ASSUME NEW v \in Workers, pc'[v] \in Popping PROVE Popped(v)'
    <3>1. pc'[v] = pc[v] /\ line'[v] = line[v] /\ Popped(v) /\ temp' = temp
      BY <1>1, <2>4 DEF Tokens, vars
    <3> QED
      BY <2>2, <2>3, <3>1, QuietKeeps, PoppedKeeps DEF Find
  <2> QED
    BY <2>2, <2>3, <2>4, TokensQuiet
<1> QED
  BY <1>1, TokensRequest, TokensWorker, TokensCrash, TokensPoll DEF Next

Orderly == AsyncTypes /\ Separate /\ (~overlapped => Tokens)

LEMMA TokensInvariant == Spec => []Orderly
<1>1. Init => Orderly
  <2>1. Init => ~overlapped /\ ~Rewriting
    BY DEF Init, Rewriting
  <2> QED
    BY <2>1, AsyncTypesInit, TokensInit DEF Orderly, Separate
<1>2. Orderly /\ [Next]_vars => Orderly'
  <2> SUFFICES ASSUME Orderly, [Next]_vars PROVE Orderly'
    OBVIOUS
  <2>1. ~overlapped' => ~overlapped
    BY OverlappedEffect, Zenon
  <2> QED
    BY <2>1, AsyncTypesStep, SeparateStep, TokensStep DEF Orderly
<1> QED
  BY <1>1, <1>2, PTL DEF Spec

\* server.cpp:112 (version 4): as long as no two removals overlap, and
\* whatever is lost between the locks and in crashes, no request is graded
\* twice; for any number of workers, requests and status_check threads.
THEOREM RequestsAreGradedOnce == Spec => []GradedOnce
<1>1. Orderly => GradedOnce
  BY DEF Orderly, Tokens, GradedOnce
<1> QED
  BY <1>1, TokensInvariant, PTL

-----------------------------------------------------------------------------
(* The process queue, as long as no removals overlap: every worker that    *)
(* grades has a line of its own in the queue, or in the copy that is about *)
(* to replace it.                                                          *)

Graders == {w \in Workers : pc[w] \in {"grade", "unlist"}}
Removing == {"remove process", "rename process"}

ListedIn(s) ==
    \E f \in [Workers -> Nat] : \A v \in Graders :
        /\ f[v] \in DOMAIN s /\ s[f[v]] = line[v]
        /\ \A u \in Graders : f[u] = f[v] => u = v

Listed ==
    IF \E w \in Workers : pc[w] \in Removing
    THEN temp # Missing /\ ListedIn(temp)
    ELSE ListedIn(Content("process"))

LEMMA ListedInit == Init => Listed
<1> SUFFICES ASSUME Init PROVE Listed
  OBVIOUS
<1>1. \A w \in Workers : pc[w] = "gate"
  BY DEF Init
<1>2. [w \in Workers |-> 0] \in [Workers -> Nat]
  OBVIOUS
<1>3. \A s : ListedIn(s)
  BY <1>1, <1>2 DEF ListedIn, Graders
<1> QED
  BY <1>1, <1>3 DEF Listed, Removing

LEMMA ListedInKeeps ==
    ASSUME NEW s, ListedIn(s), \A v \in Graders' : v \in Graders /\ line'[v] = line[v]
    PROVE  ListedIn(s)'
<1>1. PICK f \in [Workers -> Nat] : \A v \in Graders :
        /\ f[v] \in DOMAIN s /\ s[f[v]] = line[v]
        /\ \A u \in Graders : f[u] = f[v] => u = v
  BY DEF ListedIn
<1> QED
  BY <1>1 DEF ListedIn

\* A step that changes neither what is listed nor who grades what.
LEMMA ListedQuiet ==
    ASSUME Listed, \A v \in Graders' : v \in Graders /\ line'[v] = line[v],
           (\E v \in Workers : pc'[v] \in Removing) <=> (\E v \in Workers : pc[v] \in Removing),
           (\E v \in Workers : pc'[v] \in Removing) => temp' = temp,
           (\E v \in Workers : pc'[v] \in Removing) \/ Content("process")' = Content("process")
    PROVE  Listed'
<1>1. CASE \E v \in Workers : pc'[v] \in Removing
  <2>1. PICK s : s = temp /\ s # Missing /\ ListedIn(s)
    BY <1>1 DEF Listed
  <2>2. ListedIn(s)'
    BY <2>1, ListedInKeeps
  <2>3. ListedIn(temp)'
    BY <1>1, <2>1, <2>2 DEF ListedIn
  <2> QED
    BY <1>1, <2>1, <2>3 DEF Listed
<1>2. CASE ~\E v \in Workers : pc'[v] \in Removing
  <2>1. PICK s : s = Content("process") /\ ListedIn(s)
    BY <1>2 DEF Listed
  <2>2. ListedIn(s)'
    BY <2>1, ListedInKeeps
  <2>3. ListedIn(Content("process"))'
    BY <1>2, <2>1, <2>2 DEF ListedIn
  <2> QED
    BY <1>2, <2>3 DEF Listed
<1> QED
  BY <1>1, <1>2

LEMMA ListedList ==
    ASSUME AsyncTypes, Listed, NEW w \in Workers, List(w)
    PROVE  Listed'
<1>t. /\ FilesOK /\ ThreadsOK /\ Locks /\ "process" \in Queues
      /\ pc \in [Workers -> WorkerLabels] /\ line \in [Workers -> Lines]
  BY DEF AsyncTypes, ThreadsOK, Queues
<1>1. /\ pc[w] = "list" /\ pc' = [pc EXCEPT ![w] = "grade"] /\ line' = line
      /\ AppendLine("process", line[w])
  BY DEF List, Goto
<1>2. \A v \in Workers : pc[v] \notin Removing /\ pc'[v] \notin Removing
  BY <1>1, <1>t DEF Locks, Locked, Removing
<1>3. PICK s : s = Content("process") /\ ListedIn(s)
  BY <1>2 DEF Listed
<1>4. PICK f \in [Workers -> Nat] : \A v \in Graders :
        /\ f[v] \in DOMAIN s /\ s[f[v]] = line[v]
        /\ \A u \in Graders : f[u] = f[v] => u = v
  BY <1>3 DEF ListedIn
<1>5. PICK l \in Lines : l = line[w]
  BY <1>t
<1>6. s \in Seq(Lines)
  BY <1>3, <1>t, ContentIs DEF FilesOK
<1>7. PICK t : t = Append(s, l)
  OBVIOUS
<1>8. /\ DOMAIN t = 1 .. Len(s) + 1 /\ DOMAIN s = 1 .. Len(s) /\ Len(s) \in Nat
      /\ t[Len(s) + 1] = l /\ \A i \in 1 .. Len(s) : t[i] = s[i]
  BY <1>6, <1>7
<1>9. Content("process")' = t
  BY <1>1, <1>3, <1>5, <1>7, <1>t, ContentNext
<1>10. Graders' = Graders \cup {w} /\ w \notin Graders
  BY <1>1, <1>t DEF Graders
<1>n. Len(s) + 1 \in Nat
  BY <1>8
<1>11. PICK g \in [Workers -> Nat] : g = [f EXCEPT ![w] = Len(s) + 1]
  BY <1>n
<1>12. g[w] = Len(s) + 1 /\ \A v \in Graders : g[v] = f[v] /\ v \in Workers
  BY <1>10, <1>11 DEF Graders
<1>13. ASSUME NEW v \in Graders' PROVE g[v] \in DOMAIN t /\ t[g[v]] = line'[v]
  BY <1>1, <1>4, <1>5, <1>8, <1>10, <1>12
<1>14. ASSUME NEW v \in Graders', NEW u \in Graders', g[u] = g[v] PROVE u = v
  <2>1. \A x \in Graders : g[x] \in 1 .. Len(s)
    BY <1>4, <1>8, <1>12
  <2>2. g[w] \notin 1 .. Len(s)
    BY <1>8, <1>12
  <2> QED
    BY <1>4, <1>10, <1>12, <1>14, <2>1, <2>2
<1>15. ListedIn(t)'
  BY <1>13, <1>14 DEF ListedIn
<1>16. ListedIn(Content("process"))'
  BY <1>9, <1>15 DEF ListedIn
<1> QED
  BY <1>2, <1>16 DEF Listed

LEMMA ListedUnlist ==
    ASSUME AsyncTypes, Listed, NEW w \in Workers, Unlist(w)
    PROVE  Listed'
<1>t. /\ FilesOK /\ ThreadsOK /\ "process" \in Queues
      /\ pc \in [Workers -> WorkerLabels] /\ line \in [Workers -> Lines]
  BY DEF AsyncTypes, ThreadsOK, Queues
<1>1. pc[w] = "unlist" /\ line' = line /\ \A v \in Workers : pc[v] \notin Removing
  BY DEF Unlist, Lock, Removing
<1>3. PICK s : s = Content("process") /\ ListedIn(s)
  BY <1>1 DEF Listed
<1>4. PICK f \in [Workers -> Nat] : \A v \in Graders :
        /\ f[v] \in DOMAIN s /\ s[f[v]] = line[v]
        /\ \A u \in Graders : f[u] = f[v] => u = v
  BY <1>3 DEF ListedIn
<1>5. PICK l \in Lines : l = line[w]
  BY <1>t
<1>6. s \in Seq(Lines) /\ DOMAIN s = 1 .. Len(s) /\ Len(s) \in Nat
  BY <1>3, <1>t, ContentIs DEF FilesOK
<1>7. w \in Graders
  BY <1>1 DEF Graders
<1>8. Contains(s, l)
  BY <1>4, <1>5, <1>6, <1>7 DEF Contains
<1>9. /\ pc' = [pc EXCEPT ![w] = "remove process"]
      /\ temp' = RemoveFirst(s, l)
  BY <1>3, <1>5, <1>8 DEF Unlist, Find, CopyAllBut, Goto
<1>10. PICK t : t = RemoveFirst(s, l)
  OBVIOUS
<1>r. \E i \in DOMAIN s :
         /\ s[i] = l
         /\ RemoveFirst(s, l) \in Seq(Lines)
         /\ Len(RemoveFirst(s, l)) = Len(s) - 1
         /\ \A j \in 1 .. Len(s) - 1 : RemoveFirst(s, l)[j] = IF j < i THEN s[j] ELSE s[j + 1]
  <2>1. s \in Seq(Lines)
    BY <1>6
  <2> QED
    BY <2>1, <1>8, RemoveFirstIs
<1>11. PICK i \in DOMAIN s :
          /\ s[i] = l /\ t \in Seq(Lines) /\ Len(t) = Len(s) - 1
          /\ \A j \in 1 .. Len(s) - 1 : t[j] = IF j < i THEN s[j] ELSE s[j + 1]
  BY <1>10, <1>r
<1>12. t # Missing
  BY <1>11, AsyncServerAssumption
<1>13. Graders' = Graders \ {w} /\ Graders \subseteq Workers
  BY <1>1, <1>9, <1>t DEF Graders
\* The line removed may be another's, who then has this worker's.
<1> DEFINE own(v) == IF f[v] = i THEN f[w] ELSE f[v]
           g == [v \in Workers |-> IF own(v) <= i THEN own(v) ELSE own(v) - 1]
<1>14. ASSUME NEW v \in Graders \ {w}
       PROVE  own(v) \in 1 .. Len(s) /\ own(v) # i /\ s[own(v)] = line[v]
  BY <1>4, <1>5, <1>6, <1>7, <1>11
<1>15. ASSUME NEW v \in Graders \ {w}, NEW u \in Graders \ {w}, own(u) = own(v) PROVE u = v
  BY <1>4, <1>7, <1>15
<1>16. g \in [Workers -> Nat]
  <2>1. \A v \in Workers : own(v) \in Nat /\ i \in Nat
    BY <1>6, <1>11
  <2> HIDE DEF own
  <2> QED
    BY <2>1
<1>17. ASSUME NEW v \in Graders \ {w} PROVE g[v] \in 1 .. Len(t) /\ t[g[v]] = line[v]
  <2>1. g[v] = IF own(v) <= i THEN own(v) ELSE own(v) - 1
    BY <1>13
  <2>2. own(v) \in 1 .. Len(s) /\ own(v) # i /\ s[own(v)] = line[v] /\ i \in 1 .. Len(s)
    BY <1>6, <1>11, <1>14
  <2> HIDE DEF own, g
  <2>3. CASE own(v) < i
    <3>1. g[v] = own(v) /\ own(v) \in 1 .. Len(s) - 1
      BY <1>6, <2>1, <2>2, <2>3
    <3> QED
      BY <1>6, <1>11, <2>2, <2>3, <3>1
  <2>4. CASE own(v) > i
    <3>1. /\ g[v] = own(v) - 1 /\ own(v) - 1 \in 1 .. Len(s) - 1 /\ ~(own(v) - 1 < i)
          /\ (own(v) - 1) + 1 = own(v)
      BY <1>6, <2>1, <2>2, <2>4
    <3>2. t[own(v) - 1] = s[(own(v) - 1) + 1]
      BY <1>11, <3>1
    <3> QED
      BY <1>11, <2>2, <3>1, <3>2
  <2> QED
    BY <1>6, <2>2, <2>3, <2>4
<1>18. ASSUME NEW v \in Graders \ {w}, NEW u \in Graders \ {w}, g[u] = g[v] PROVE u = v
  <2>1. /\ g[v] = IF own(v) <= i THEN own(v) ELSE own(v) - 1
        /\ g[u] = IF own(u) <= i THEN own(u) ELSE own(u) - 1
    BY <1>13
  <2>2. own(v) \in Nat /\ own(u) \in Nat /\ own(v) # i /\ own(u) # i /\ i \in Nat
    BY <1>6, <1>11, <1>14
  <2>3. own(u) = own(v)
    <3> HIDE DEF own, g
    <3> QED
      BY <1>18, <2>1, <2>2
  <2> QED
    BY <1>15, <2>3
<1> HIDE DEF g
<1>19. ListedIn(t)'
  <2>1. DOMAIN t = 1 .. Len(t)
    BY <1>11
  <2> QED
    BY <1>1, <1>13, <1>16, <1>17, <1>18, <2>1 DEF ListedIn
<1>20. temp' = t
  BY <1>9, <1>10
<1>21. ListedIn(temp)'
  BY <1>19, <1>20 DEF ListedIn
<1>22. pc'[w] \in Removing
  BY <1>9, <1>t DEF Removing
<1> QED
  BY <1>12, <1>20, <1>21, <1>22 DEF Listed

LEMMA ListedRename ==
    ASSUME AsyncTypes, Listed, NEW w \in Workers, RenameProcess(w)
    PROVE  Listed'
<1>t. /\ FilesOK /\ Locks /\ "process" \in Queues
      /\ pc \in [Workers -> WorkerLabels] /\ line \in [Workers -> Lines]
  BY DEF AsyncTypes, ThreadsOK, Queues
<1>1. /\ pc[w] = "rename process" /\ pc' = [pc EXCEPT ![w] = "gate"]
      /\ RenameTemp("process") /\ line' = [line EXCEPT ![w] = EmptyLine]
  BY DEF RenameProcess, Goto
<1>2. PICK s : s = temp /\ s # Missing /\ ListedIn(s)
  BY <1>1 DEF Listed, Removing
<1>3. Content("process")' = s
  BY <1>1, <1>2, <1>t, ContentNext
<1>4. \A v \in Workers : pc'[v] \notin Removing
  BY <1>1, <1>t DEF Locks, Locked, Removing
<1>5. \A v \in Graders' : v \in Graders /\ line'[v] = line[v]
  BY <1>1, <1>t DEF Graders
<1>6. ListedIn(s)'
  BY <1>2, <1>5, ListedInKeeps
<1>7. ListedIn(Content("process"))'
  BY <1>3, <1>6 DEF ListedIn
<1> QED
  BY <1>4, <1>7 DEF Listed

LEMMA ListedWorker ==
    ASSUME AsyncTypes, Listed, NEW w \in Workers, WorkerStep(w)
    PROVE  Listed'
<1>t. /\ FilesOK /\ ThreadsOK /\ Locks /\ "process" \in Queues
      /\ "request" \in Queues \ {"process"} /\ "status" \in Queues \ {"process"}
      /\ pc \in [Workers -> WorkerLabels] /\ line \in [Workers -> Lines]
  BY DEF AsyncTypes, ThreadsOK, Queues
<1>e. \A v \in Workers \ {w} : pc'[v] = pc[v] /\ line'[v] = line[v]
  BY <1>t, WorkerEffect
<1>1. CASE List(w)
  BY <1>1, ListedList
<1>2. CASE Unlist(w)
  BY <1>2, ListedUnlist
<1>3. CASE RenameProcess(w)
  BY <1>3, ListedRename
<1>4. CASE RemoveProcess(w)
  <2>1. /\ pc[w] = "remove process" /\ pc' = [pc EXCEPT ![w] = "rename process"]
        /\ UNCHANGED <<temp, line>>
    BY <1>4 DEF RemoveProcess, Goto
  <2>2. pc[w] \in Removing /\ pc'[w] \in Removing
    BY <2>1, <1>t DEF Removing
  <2>3. \A v \in Graders' : v \in Graders /\ line'[v] = line[v]
    BY <2>1, <1>t DEF Graders
  <2> QED
    BY <2>1, <2>2, <2>3, ListedQuiet
<1>5. CASE PassGate(w) \/ Pop(w) \/ FindNoData(w) \/ WaitForData(w) \/ RemoveRequest(w)
           \/ RenameRequest(w) \/ CountDown(w) \/ Grade(w)
  <2>1. pc[w] \notin Removing /\ pc'[w] \notin Removing
    BY <1>5, <1>t DEF PassGate, Pop, FindNoData, WaitForData, RemoveRequest, RenameRequest,
       CountDown, Grade, Goto, Removing
  <2>2. w \in Graders' => w \in Graders /\ line'[w] = line[w]
    BY <1>5, <1>t DEF PassGate, Pop, FindNoData, WaitForData, RemoveRequest, RenameRequest,
       CountDown, Grade, Goto, Graders
  <2>3. \A v \in Graders' : v \in Graders /\ line'[v] = line[v]
    BY <1>e, <2>2 DEF Graders
  <2>4. (\E v \in Workers : pc'[v] \in Removing) <=> (\E v \in Workers : pc[v] \in Removing)
    BY <1>e, <2>1
  <2>5. (\E v \in Workers : pc'[v] \in Removing) => temp' = temp
    BY <1>e, <2>1, TempIsLocked DEF Removing, Locked
  <2>6. \/ file' = file \/ RemoveFile("request") \/ RenameTemp("request")
        \/ \E l : AppendLine("status", l)
    BY <1>5 DEF PassGate, Pop, FindNoData, WaitForData, RemoveRequest, RenameRequest,
       CountDown, Grade
  <2>7. Content("process")' = Content("process")
    BY <1>t, <2>6, ContentNext
  <2> QED
    BY <2>3, <2>4, <2>5, <2>7, ListedQuiet
<1> QED
  BY <1>1, <1>2, <1>3, <1>4, <1>5 DEF WorkerStep

LEMMA ListedStep == AsyncTypes /\ Separate /\ Listed /\ ~overlapped' /\ [Next]_vars => Listed'
<1> SUFFICES ASSUME AsyncTypes, Separate, Listed, ~overlapped', [Next]_vars PROVE Listed'
  OBVIOUS
<1>t. /\ FilesOK /\ "process" \in Queues /\ "request" \in Queues \ {"process"}
      /\ "status" \in Queues \ {"process"}
      /\ pc \in [Workers -> WorkerLabels]
  BY DEF AsyncTypes, ThreadsOK, Queues
<1>1. ASSUME NEW r \in Requests, Submit(r) \/ SubmitFails(r) \/ RequestStep(r) PROVE Listed'
  <2>1. /\ temp' = temp /\ line' = line
        /\ file' = file \/ \E l : AppendLine("request", l)
        /\ pc' = pc \/ \E w \in Workers : pc[w] = "asleep" /\ pc' = [pc EXCEPT ![w] = "fetch"]
    BY <1>1 DEF Submit, SubmitFails, RequestStep, Push, ReadSize, CountAndSignal, Sleeping
  <2>2. Content("process")' = Content("process")
    BY <1>t, <2>1, ContentNext
  <2>3. \A v \in Workers : /\ pc'[v] \in Removing <=> pc[v] \in Removing
                           /\ pc'[v] \in {"grade", "unlist"} <=> pc[v] \in {"grade", "unlist"}
    BY <1>t, <2>1 DEF Removing
  <2>4. \A v \in Graders' : v \in Graders /\ line'[v] = line[v]
    BY <2>1, <2>3 DEF Graders
  <2> QED
    BY <2>1, <2>2, <2>3, <2>4, ListedQuiet
<1>2. ASSUME Crash PROVE Listed'
  <2>1. \A w \in Workers : pc'[w] = "gate"
    BY <1>2 DEF Crash
  <2>2. [w \in Workers |-> 0] \in [Workers -> Nat]
    OBVIOUS
  <2>3. Graders' = {}
    BY <2>1 DEF Graders
  <2>4. ListedIn(Content("process"))'
    BY <2>2, <2>3 DEF ListedIn
  <2> QED
    BY <2>1, <2>4 DEF Listed, Removing
<1>3. ASSUME UNCHANGED vars PROVE Listed'
  <2>1. /\ UNCHANGED <<pc, line, temp>> /\ Content("process")' = Content("process")
    BY <1>3 DEF vars, Content
  <2> QED
    BY <2>1, ListedQuiet DEF Graders
<1>4. ASSUME NEW p \in Pollers, PollStep(p) \/ \E r \in Requests : StartPoll(p, r) PROVE Listed'
  <2>1. /\ UNCHANGED <<pc, line>>
        /\ file' = file \/ RemoveFile("status") \/ RenameTemp("status")
    BY <1>4, PollEffect
  <2>2. Content("process")' = Content("process")
    BY <1>t, <2>1, ContentNext
  <2>3. (\E v \in Workers : pc[v] \in Removing) => temp' = temp
    BY <1>4, PollKeepsCopies DEF Rewriting, Removing
  <2> QED
    BY <2>1, <2>2, <2>3, ListedQuiet DEF Graders
<1> QED
  BY <1>1, <1>2, <1>3, <1>4, ListedWorker DEF Next

\* The comment at server.cpp:112 (version 4), as long as no two removals
\* overlap: what a worker grades is in the process queue, whenever no other
\* worker is rewriting that queue.
THEOREM GradingIsListed == Spec => []ListedWhileGraded
<1> DEFINE Inv == ~overlapped => Listed
<1>1. Init => Inv
  BY ListedInit
<1>2. Orderly /\ Inv /\ [Next]_vars => Inv'
  <2> SUFFICES ASSUME Orderly, Inv, [Next]_vars, ~overlapped' PROVE Listed'
    OBVIOUS
  <2>1. ~overlapped
    BY OverlappedEffect, Zenon
  <2> QED
    BY <2>1, ListedStep DEF Orderly
<1>3. Orderly /\ Inv => ListedWhileGraded
  <2> SUFFICES ASSUME AsyncTypes, Listed, ~Lock, NEW w \in Workers, pc[w] = "grade"
               PROVE  Find("process", line[w])
    BY DEF ListedWhileGraded, Orderly
  <2>1. ListedIn(Content("process")) /\ w \in Graders
    BY DEF Listed, Lock, Removing, Graders
  <2>2. Content("process") \in Seq(Lines)
    BY ContentIs DEF AsyncTypes, FilesOK, Queues
  <2> QED
    BY <2>1, <2>2 DEF ListedIn, Find, Contains
<1> HIDE DEF Inv
<1> QED
  BY <1>1, <1>2, <1>3, TokensInvariant, PTL DEF Spec

-----------------------------------------------------------------------------
(* The life of a request.                                                  *)

InQueue(r) == Find("request", r) \/ \E w \in Workers : InTempOf(w, r)

\* A step moves a request on only from the place where it was before.
Forward(r) ==
    /\ Handed(r) => Handed(r)'
    /\ r \in graded => r \in graded'
    /\ r \in graded' => r \in graded \/ \E w \in Workers : Holds(w, r)
    /\ (\E w \in Workers : Holds(w, r)') => InQueue(r) \/ \E w \in Workers : Holds(w, r)
    /\ InQueue(r)' => InQueue(r) \/ ~Handed(r)

\* With the tokens, a request's stage is where it is.
LEMMA QueuedWaits == Tokens => \A r \in Requests : InQueue(r) => Waits(r)
<1> SUFFICES ASSUME Tokens, NEW r \in Requests, InQueue(r) PROVE Waits(r)
  OBVIOUS
<1>1. ASSUME NEW s, QueuedOnce(s), Contains(s, r) PROVE Waits(r)
  BY <1>1 DEF QueuedOnce, Contains
<1>2. CASE Find("request", r)
  <2>1. PICK s : s = Content("request")
    OBVIOUS
  <2> QED
    BY <1>1, <1>2, <2>1 DEF Tokens, Find
<1>3. ASSUME NEW w \in Workers, InTempOf(w, r) PROVE Waits(r)
  <2>1. PICK s : s = temp
    OBVIOUS
  <2>2. QueuedOnce(s) /\ Contains(s, r)
    BY <1>3, <2>1 DEF InTempOf, Tokens, Popped, Popping
  <2> QED
    BY <1>1, <2>2
<1> QED
  BY <1>2, <1>3 DEF InQueue

\* A request's stage tells where it is.
StageTells(r) ==
    /\ Stage(r) = "done" <=> r \in graded
    /\ Stage(r) = "running" <=> \E w \in Workers : Holds(w, r)
    /\ Stage(r) = "queued" <=> InQueue(r)
    /\ Stage(r) = "new" <=> ~Handed(r)
    /\ Stage(r) \in {"done", "running", "queued", "new", "lost"}

AllTell == \A r \in Requests : StageTells(r)

LEMMA StageIs == Tokens => AllTell
<1> SUFFICES ASSUME Tokens, NEW r \in Requests PROVE StageTells(r)
  BY DEF AllTell
<1>1. InQueue(r) => Waits(r)
  BY QueuedWaits
<1>2. /\ r \in graded => Handed(r)
      /\ \A w \in Workers : Holds(w, r) => Handed(r) /\ r \notin graded
  BY DEF Tokens
<1>3. Stage(r) = IF r \in graded THEN "done"
                 ELSE IF \E w \in Workers : Holds(w, r) THEN "running"
                 ELSE IF InQueue(r) THEN "queued"
                 ELSE IF ~Handed(r) THEN "new" ELSE "lost"
  BY DEF Stage, InQueue, Handed
<1> QED
  BY <1>1, <1>2, <1>3 DEF Waits, StageTells

LEMMA StageIsNext == Tokens' => AllTell'
BY StageIs, PTL

LEMMA ForwardMoves ==
    ASSUME Tokens, Tokens', NEW r \in Requests, Forward(r)
    PROVE  /\ Stage(r)' # Stage(r) => <<Stage(r), Stage(r)'>> \in Life!Moves
           /\ Stage(r)' \in {m[2] : m \in Life!Moves} \cup {"new"}
<1>1. StageTells(r)
  BY StageIs DEF AllTell
<1>2. StageTells(r)'
  BY StageIsNext DEF AllTell
<1>3. Stage(r)' # Stage(r) => <<Stage(r), Stage(r)'>> \in Life!Moves
  BY <1>1, <1>2 DEF Forward, StageTells, Life!Moves
<1>4. Stage(r)' \in {m[2] : m \in Life!Moves} \cup {"new"}
  <2>1. Stage(r)' \in {"done", "running", "queued", "new", "lost"}
    BY <1>2 DEF StageTells
  <2>2. \A x \in {"done", "running", "queued", "lost"} : \E m \in Life!Moves : m[2] = x
    BY DEF Life!Moves
  <2> QED
    BY <2>1, <2>2
<1> QED
  BY <1>3, <1>4

\* What all steps but the pushes, the pops and the renames share.
LEMMA QueueShrinks ==
    ASSUME Content("request")' = Content("request"),
           \A v \in Workers : pc'[v] = "rename request" => pc[v] = "rename request" /\ temp' = temp
    PROVE  \A r \in Requests : InQueue(r)' => InQueue(r)
BY DEF InQueue, InTempOf, Find

LEMMA QuietForward ==
    ASSUME Quiet, NEW r \in Requests, InQueue(r)' => InQueue(r) \/ ~Handed(r)
    PROVE  Forward(r)
BY DEF Quiet, Forward

LEMMA RequestForward ==
    ASSUME AsyncTypes, Tokens, NEW q \in Requests, Submit(q) \/ SubmitFails(q) \/ RequestStep(q),
           NEW r \in Requests
    PROVE  Forward(r)
<1>t. /\ FilesOK /\ pc \in [Workers -> WorkerLabels] /\ "request" \in Queues /\ Requests \subseteq Lines
      /\ new_request \in [Requests -> {"new", "push", "read", "count", "accepted", "failed"}]
  BY LabelTypes DEF AsyncTypes, ThreadsOK, Queues
<1>q. Quiet
  BY RequestQuiet DEF AsyncTypes
<1>1. CASE Submit(q) \/ SubmitFails(q) \/ ReadSize(q) \/ CountAndSignal(q)
  <2>1. Content("request")' = Content("request")
    BY <1>1, <1>t, ContentNext DEF Submit, SubmitFails, ReadSize, CountAndSignal
  <2>2. \A v \in Workers : pc'[v] = "rename request" => pc[v] = "rename request" /\ temp' = temp
    BY <1>1, <1>t DEF Submit, SubmitFails, ReadSize, CountAndSignal, Sleeping
  <2> QED
    BY <1>q, <2>1, <2>2, QueueShrinks, QuietForward
<1>2. CASE Push(q)
  <2>1. /\ Content("request")' = Append(Content("request"), q) /\ UNCHANGED <<pc, temp>>
        /\ ~Handed(q)
    BY <1>2, <1>t, ContentNext DEF Push, Handed
  <2>2. Content("request") \in Seq(Requests)
    BY DEF Tokens, QueuedOnce
  <2>3. Find("request", r)' => Find("request", r) \/ r = q
    BY <2>1, <2>2 DEF Find, Contains
  <2>4. InQueue(r)' => InQueue(r) \/ ~Handed(r)
    BY <2>1, <2>3 DEF InQueue, InTempOf
  <2> QED
    BY <1>q, <2>4, QuietForward
<1> QED
  BY <1>1, <1>2 DEF RequestStep

LEMMA WorkerForward ==
    ASSUME AsyncTypes, Tokens, NEW w \in Workers, WorkerStep(w), NEW r \in Requests
    PROVE  Forward(r)
<1>t. /\ FilesOK /\ ThreadsOK /\ Locks /\ "request" \in Queues
      /\ "process" \in Queues \ {"request"} /\ "status" \in Queues \ {"request"}
      /\ pc \in [Workers -> WorkerLabels] /\ line \in [Workers -> Lines]
  BY DEF AsyncTypes, ThreadsOK, Queues
<1>e. \A v \in Workers \ {w} : pc'[v] = pc[v] /\ line'[v] = line[v]
  BY <1>t, WorkerEffect
<1>h. new_request' = new_request
  BY <1>t, WorkerEffect
<1>0. \A v \in Workers \ {w} :
         pc'[v] = "rename request" => pc[v] = "rename request" /\ temp' = temp
  BY <1>e, TempIsLocked DEF Locked
<1>1. CASE RemoveRequest(w)
  <2>1. /\ pc[w] = "remove request" /\ pc' = [pc EXCEPT ![w] = "rename request"]
        /\ UNCHANGED <<temp, line, graded>> /\ Content("request")' = <<>>
    BY <1>1, <1>t, ContentNext DEF RemoveRequest, Goto
  <2>2. Popped(w)
    BY <2>1 DEF Tokens, Popping
  <2>3. ASSUME NEW v \in Workers, Holds(v, r)' PROVE InQueue(r) \/ Holds(v, r)
    <3>1. CASE v = w
      BY <2>1, <2>2, <2>3, <3>1 DEF Holds, Popped, InQueue
    <3>2. CASE v # w
      BY <1>e, <2>3, <3>2 DEF Holds
    <3> QED
      BY <3>1, <3>2
  <2>4. ~Find("request", r)'
    <3>1. ~Contains(<<>>, r)
      BY DEF Contains
    <3> QED
      BY <2>1, <3>1 DEF Find
  <2>5. ASSUME NEW v \in Workers, InTempOf(v, r)' PROVE InQueue(r)
    <3>1. CASE v = w
      <4>1. temp # Missing /\ temp \in Seq(Requests) /\ Contains(temp, r)
        BY <2>1, <2>2, <2>5 DEF InTempOf, Popped, QueuedOnce
      <4>2. PICK i \in DOMAIN temp : temp[i] = r
        BY <4>1 DEF Contains
      <4>3. Find("request", temp[i])
        BY <2>1, <2>2 DEF Popped
      <4> QED
        BY <4>2, <4>3 DEF InQueue
    <3>2. CASE v # w
      BY <1>0, <2>5, <3>2 DEF InTempOf, InQueue
    <3> QED
      BY <3>1, <3>2
  <2> QED
    BY <1>h, <2>1, <2>3, <2>4, <2>5 DEF Forward, InQueue, Handed
<1>2. CASE Grade(w)
  <2>1. /\ pc[w] = "grade" /\ pc' = [pc EXCEPT ![w] = "unlist"] /\ UNCHANGED <<temp, line>>
        /\ graded' = graded \cup ({line[w]} \cap Requests)
        /\ Content("request")' = Content("request")
    BY <1>2, <1>t, ContentNext DEF Grade, Goto
  <2>2. InQueue(r)' => InQueue(r)
    BY <1>t, <2>1, QueueShrinks
  <2>3. r \in graded' => r \in graded \/ Holds(w, r)
    BY <2>1 DEF Holds
  <2>4. \A v \in Workers : Holds(v, r)' => Holds(v, r)
    BY <1>t, <2>1 DEF Holds
  <2> QED
    BY <1>h, <2>1, <2>2, <2>3, <2>4 DEF Forward, Handed
<1>3. CASE ~RemoveRequest(w) /\ ~Grade(w)
  <2>q. Quiet
    BY <1>3, <1>t, WorkerQuiet
  <2>1. CASE RenameRequest(w)
    <3>1. /\ pc[w] = "rename request" /\ pc' = [pc EXCEPT ![w] = "count"] /\ RenameTemp("request")
      BY <2>1 DEF RenameRequest, Goto
    <3>2. temp # Missing
      BY <3>1 DEF Tokens, Popped, Popping
    <3>3. Content("request")' = temp
      BY <1>t, <3>1, <3>2, ContentNext
    <3>4. \A v \in Workers : pc'[v] # "rename request"
      BY <1>t, <3>1 DEF Locks, Locked
    <3>5. InQueue(r)' => InTempOf(w, r)
      BY <3>1, <3>2, <3>3, <3>4 DEF InQueue, InTempOf, Find
    <3> QED
      BY <2>q, <3>5, QuietForward DEF InQueue
  <2>2. CASE ~RenameRequest(w)
    <3>1. pc'[w] # "rename request"
      BY <1>3, <1>t, <2>2 DEF WorkerStep, PassGate, Pop, FindNoData, WaitForData, CountDown, List,
         Unlist, RemoveProcess, RenameProcess, Goto
    <3>2. \/ file' = file \/ RemoveFile("process") \/ RenameTemp("process")
          \/ \E l : AppendLine("process", l)
      BY <1>3, <2>2 DEF WorkerStep, PassGate, FindNoData, WaitForData, CountDown, List, Unlist,
         RemoveProcess, RenameProcess, Pop
    <3>3. Content("request")' = Content("request")
      BY <1>t, <3>2, ContentNext
    <3>4. InQueue(r)' => InQueue(r)
      BY <1>0, <3>1, <3>3, QueueShrinks
    <3> QED
      BY <2>q, <3>4, QuietForward
  <2> QED
    BY <2>1, <2>2
<1> QED
  BY <1>1, <1>2, <1>3

LEMMA AllForward ==
    ASSUME AsyncTypes, Separate, Tokens, ~overlapped', [Next]_vars, NEW r \in Requests
    PROVE  Forward(r)
<1>1. CASE \E q \in Requests : Submit(q) \/ SubmitFails(q) \/ RequestStep(q)
  BY <1>1, RequestForward
<1>2. CASE \E w \in Workers : WorkerStep(w)
  BY <1>2, WorkerForward
<1>3. ASSUME NEW p \in Pollers, PollStep(p) \/ \E q \in Requests : StartPoll(p, q)
      PROVE  Forward(r)
  <2>1. Quiet /\ Content("request")' = Content("request")
    BY <1>3, TokensPoll
  <2>2. pc' = pc
    BY <1>3, PollEffect
  <2>3. \A v \in Workers : pc'[v] = "rename request" => pc[v] = "rename request" /\ temp' = temp
    BY <1>3, <2>2, PollKeepsCopies DEF Rewriting
  <2> QED
    BY <2>1, <2>3, QueueShrinks, QuietForward
<1>4. CASE Crash
  <2>1. /\ \A w \in Workers : pc'[w] = "gate"
        /\ UNCHANGED <<file, graded>>
        /\ new_request'[r] = IF new_request[r] \in {"push", "read", "count"}
                             THEN "failed" ELSE new_request[r]
    BY <1>4 DEF Crash
  <2>2. Content("request")' = Content("request")
    BY <2>1 DEF Content
  <2>3. InQueue(r)' => InQueue(r)
    BY <2>1, <2>2, QueueShrinks
  <2>4. \A w \in Workers : ~Holds(w, r)'
    BY <2>1 DEF Holds
  <2> QED
    BY <2>1, <2>3, <2>4 DEF Forward, Handed
<1>5. CASE UNCHANGED vars
  BY <1>5 DEF vars, Forward, Handed, Holds, InQueue, InTempOf, Find, Content
<1> QED
  BY <1>1, <1>2, <1>3, <1>4, <1>5 DEF Next

LEMMA LifeStep ==
    ASSUME AsyncTypes, Separate, Tokens, Tokens', ~overlapped', [Next]_vars
    PROVE  [Life!JobNext]_[r \in Requests |-> Stage(r)]
<1>1. \A r \in Requests :
         /\ Stage(r)' # Stage(r) => <<Stage(r), Stage(r)'>> \in Life!Moves
         /\ Stage(r)' \in {m[2] : m \in Life!Moves} \cup {"new"}
  BY AllForward, ForwardMoves
<1> DEFINE stage == [r \in Requests |-> Stage(r)']
<1>2. stage \in [Requests -> {m[2] : m \in Life!Moves} \cup {"new"}]
  BY <1>1
<1>3. \A r \in Requests : stage[r] # [q \in Requests |-> Stage(q)][r]
                          => <<[q \in Requests |-> Stage(q)][r], stage[r]>> \in Life!Moves
  BY <1>1
<1>4. [r \in Requests |-> Stage(r)]' = stage
  OBVIOUS
<1> QED
  BY <1>2, <1>3, <1>4 DEF Life!JobNext

\* As long as no two removals overlap, the queues, the workers and the crashes
\* implement the abstract life of a request (JobQueue): no request goes back
\* to an earlier stage, and what is lost stays lost.
THEOREM RequestsHaveOneLife == Spec /\ []~overlapped => ImplementsJobQueue
<1>1. Init => Life!JobInit
  <2> SUFFICES ASSUME Init PROVE Life!JobInit
    OBVIOUS
  <2>1. Tokens /\ \A r \in Requests : ~Handed(r)
    BY TokensInit DEF Init, Handed
  <2>2. \A r \in Requests : Stage(r) = "new"
    BY <2>1, StageIs DEF AllTell, StageTells
  <2> QED
    BY <2>2 DEF Life!JobInit
<1>2. Orderly /\ Orderly' /\ ~overlapped /\ ~overlapped' /\ [Next]_vars
        => [Life!JobNext]_[r \in Requests |-> Stage(r)]
  BY LifeStep DEF Orderly
<1> QED
  BY <1>1, <1>2, TokensInvariant, PTL DEF Spec, ImplementsJobQueue, Life!JobSpec

\* Without status_check threads no two removals ever overlap: all workers use
\* temp.txt under Lock.
THEOREM WorkersNeverOverlap == ASSUME Pollers = {} PROVE Spec => []~overlapped
<1>1. Init => ~overlapped
  BY DEF Init
<1>2. ~overlapped /\ [Next]_vars => ~overlapped'
  <2>1. ~StatusFileLock
    BY DEF StatusFileLock
  <2> QED
    BY <2>1, OverlappedEffect
<1> QED
  BY <1>1, <1>2, PTL DEF Spec

\* So without them a request has one life, whatever the workers, new_request
\* threads and crashes do.
THEOREM WorkersImplementJobQueue == ASSUME Pollers = {} PROVE Spec => ImplementsJobQueue
BY WorkersNeverOverlap, RequestsHaveOneLife, PTL

-----------------------------------------------------------------------------
(* What clients are told.  A request whose name is in the process queue or *)
(* in a result was taken from the request queue once, and as long as no    *)
(* removals overlap it does not get back there.                            *)

Taken(r) == Handed(r) /\ ~InQueue(r)

\* The requests that a line is about.
About(l, r) == l = r \/ (l \in StatusLines /\ l.req = r)

AllTaken(s) == \A i \in DOMAIN s : \A r \in Requests : About(s[i], r) => Taken(r)

Rewritten == StatusFileLock \/ \E w \in Workers : pc[w] \in Removing

\* The worker has read a line, which is in the file still.
Reads(w) == pc[w] = "remove request"

\* Lines that have left the request queue.
LinesSettled ==
    /\ AllTaken(Content("process")) /\ AllTaken(Content("status"))
    /\ Rewritten /\ temp # Missing => AllTaken(temp)
    /\ \A w \in Workers : ~Reads(w) => \A r \in Requests : About(line[w], r) => Taken(r)

\* Threads and clients that have seen such a line.
PollsSettled ==
    \A p \in Pollers : poll[p].at \in Sending => Taken(poll[p].req)

ToldSettled ==
    \A r \in Requests : told[r] \in {"processing", "done"} => Taken(r)

Settled == LinesSettled /\ PollsSettled /\ ToldSettled

\* A request that has been taken stays so.
LEMMA TakenStays ==
    ASSUME AsyncTypes, Separate, Tokens, ~overlapped', [Next]_vars, NEW r \in Requests
    PROVE  Taken(r) => Taken(r)'
BY AllForward DEF Forward, Taken

LEMMA AllTakenStays ==
    ASSUME AsyncTypes, Separate, Tokens, ~overlapped', [Next]_vars, NEW s, AllTaken(s)
    PROVE  AllTaken(s)'
BY TakenStays DEF AllTaken

HeldTaken == \A w \in Workers, r \in Requests : Holds(w, r) => Taken(r)

LEMMA HeldIsTaken == Tokens => HeldTaken
BY QueuedWaits DEF Tokens, Waits, Taken, HeldTaken

LEMMA HeldIsTakenNext == Tokens' => HeldTaken'
BY HeldIsTaken, PTL

\* What a status or an empty line is about.
LEMMA AboutIs ==
    /\ \A r \in Requests : ~About(EmptyLine, r)
    /\ \A l \in Lines, r \in Requests : About(StatusFor(l), r) => About(l, r)
    /\ \A q, r \in Requests : About(q, r) => q = r
<1>1. \A r \in Requests : ~About(EmptyLine, r)
  BY AsyncServerAssumption DEF About
<1>2. \A q, r \in Requests : About(q, r) => q = r
  BY AsyncServerAssumption DEF About
<1>3. ASSUME NEW l \in Lines, NEW r \in Requests, About(StatusFor(l), r) PROVE About(l, r)
  <2>1. CASE l \in Requests
    <3>1. PICK v \in Verdicts : v = VerdictOf(l)
      BY <2>1, LabelTypes
    <3>2. StatusFor(l) = [req |-> l, verdict |-> v] /\ StatusFor(l) \in StatusLines
      BY <2>1, <3>1 DEF StatusFor, StatusLines
    <3>3. StatusFor(l) # r
      BY <3>2, AsyncServerAssumption
    <3> QED
      BY <1>3, <3>2, <3>3 DEF About
  <2>2. CASE l = EmptyLine
    <3>1. PICK v \in Verdicts : v = "COMPILER ERROR"
      BY Zenon DEF Verdicts
    <3>2. StatusFor(l) = [req |-> EmptyLine, verdict |-> v]
      BY <2>2, <3>1, AsyncServerAssumption, Zenon DEF StatusFor
    <3>3. StatusFor(l) \in StatusLines /\ StatusFor(l).req = EmptyLine
      BY <3>2 DEF StatusLines
    <3>4. StatusFor(l) # r /\ EmptyLine # r
      BY <3>3, AsyncServerAssumption
    <3> QED
      BY <1>3, <3>3, <3>4 DEF About
  <2>3. CASE l \notin Requests /\ l # EmptyLine
    <3>1. StatusFor(l) = l
      BY <2>3 DEF StatusFor
    <3> QED
      BY <1>3, <3>1
  <2> QED
    BY <2>1, <2>2, <2>3
<1> QED
  BY <1>1, <1>2, <1>3

LEMMA AppendTaken ==
    ASSUME NEW s \in Seq(Lines), NEW l \in Lines, AllTaken(s),
           \A r \in Requests : About(l, r) => Taken(r)
    PROVE  AllTaken(Append(s, l))
<1>1. /\ Len(s) \in Nat /\ DOMAIN s = 1 .. Len(s) /\ DOMAIN Append(s, l) = 1 .. Len(s) + 1
      /\ Append(s, l)[Len(s) + 1] = l /\ \A i \in 1 .. Len(s) : Append(s, l)[i] = s[i]
  OBVIOUS
<1>2. ASSUME NEW i \in 1 .. Len(s) + 1, NEW r \in Requests, About(Append(s, l)[i], r)
      PROVE  Taken(r)
  <2>1. CASE i \in 1 .. Len(s)
    BY <1>1, <1>2, <2>1 DEF AllTaken
  <2>2. CASE i = Len(s) + 1
    BY <1>1, <1>2, <2>2
  <2> QED
    BY <1>1, <2>1, <2>2
<1> QED
  BY <1>1, <1>2 DEF AllTaken

LEMMA RemoveTaken ==
    ASSUME NEW s \in Seq(Lines), NEW e, Contains(s, e), AllTaken(s)
    PROVE  AllTaken(RemoveFirst(s, e))
<1>1. PICK i \in DOMAIN s :
         /\ RemoveFirst(s, e) \in Seq(Lines)
         /\ Len(RemoveFirst(s, e)) = Len(s) - 1
         /\ \A j \in 1 .. Len(s) - 1 :
               RemoveFirst(s, e)[j] = IF j < i THEN s[j] ELSE s[j + 1]
  BY RemoveFirstIs
<1>2. PICK t : t = RemoveFirst(s, e)
  OBVIOUS
<1>3. \A j \in DOMAIN t : \E k \in DOMAIN s : t[j] = s[k]
  <2>1. /\ DOMAIN t = 1 .. Len(s) - 1 /\ DOMAIN s = 1 .. Len(s) /\ Len(s) \in Nat
        /\ \A j \in 1 .. Len(s) - 1 : t[j] = s[j] \/ t[j] = s[j + 1]
    BY <1>1, <1>2
  <2>2. \A j \in 1 .. Len(s) - 1 : j \in 1 .. Len(s) /\ j + 1 \in 1 .. Len(s)
    BY <2>1
  <2> QED
    BY <2>1, <2>2
<1> QED
  BY <1>2, <1>3 DEF AllTaken

LEMMA SettledInit == Init => Settled
<1> SUFFICES ASSUME Init PROVE Settled
  OBVIOUS
<1>1. Content("process") = <<>> /\ Content("status") = <<>>
  BY AsyncServerAssumption DEF Init, Queues, Content
<1>2. AllTaken(<<>>)
  BY DEF AllTaken
<1>3. temp = Missing /\ \A w \in Workers : line[w] = EmptyLine
  BY DEF Init
<1>4. LinesSettled
  <2>1. AllTaken(Content("process")) /\ AllTaken(Content("status"))
    BY <1>1, <1>2
  <2>2. \A w \in Workers, r \in Requests : ~About(line[w], r)
    BY <1>3, AboutIs
  <2> QED
    BY <1>3, <2>1, <2>2, Zenon DEF LinesSettled
<1>5. PollsSettled
  <2>1. \A p \in Pollers : poll[p].at = "idle"
    BY DEF Init, NotPolling
  <2>2. "idle" \notin Sending
    BY Zenon DEF Sending
  <2> QED
    BY <2>1, <2>2, Zenon DEF PollsSettled
<1>6. ToldSettled
  BY DEF Init, ToldSettled
<1> QED
  BY <1>4, <1>5, <1>6 DEF Settled

\* A step that moves no line about requests but leaves them where they are.
LEMMA SettledQuiet ==
    ASSUME AsyncTypes, Separate, Tokens, ~overlapped', [Next]_vars, LinesSettled,
           Content("process")' = Content("process") \/ AllTaken(Content("process"))',
           Content("status")' = Content("status") \/ AllTaken(Content("status"))',
           Rewritten' => (Rewritten /\ temp' = temp) \/ temp' = Missing \/ AllTaken(temp)',
           \A w \in Workers : \/ Reads(w)'
                              \/ line'[w] = line[w] /\ ~Reads(w)
                              \/ \A r \in Requests : About(line'[w], r) => Taken(r)'
    PROVE  LinesSettled'
<1>1. AllTaken(Content("process"))' /\ AllTaken(Content("status"))'
  <2>1. PICK s : s = Content("process") /\ AllTaken(s)
    BY DEF LinesSettled
  <2>2. PICK t : t = Content("status") /\ AllTaken(t)
    BY DEF LinesSettled
  <2>3. AllTaken(s)' /\ AllTaken(t)'
    BY <2>1, <2>2, AllTakenStays
  <2> QED
    BY <2>1, <2>2, <2>3 DEF AllTaken
<1>2. ASSUME Rewritten', temp' # Missing PROVE AllTaken(temp)'
  <2>1. CASE Rewritten /\ temp' = temp
    <3>1. PICK s : s = temp /\ AllTaken(s)
      BY <1>2, <2>1 DEF LinesSettled
    <3>2. AllTaken(s)'
      BY <3>1, AllTakenStays
    <3> QED
      BY <2>1, <3>1, <3>2 DEF AllTaken
  <2> QED
    BY <1>2, <2>1
<1>3. ASSUME NEW w \in Workers, ~Reads(w)', NEW r \in Requests, About(line'[w], r)
      PROVE  Taken(r)'
  <2>1. CASE line'[w] = line[w] /\ ~Reads(w)
    <3>1. Taken(r)
      BY <1>3, <2>1, Zenon DEF LinesSettled
    <3> QED
      BY <3>1, TakenStays
  <2> QED
    BY <1>3, <2>1, Zenon
<1>4. \A w \in Workers : ~Reads(w)' =>
         \A r \in Requests : About(line[w], r)' => Taken(r)'
  BY <1>3, Zenon DEF About
<1>5. (Rewritten /\ temp # Missing => AllTaken(temp))'
  BY <1>2
<1> QED
  BY <1>1, <1>4, <1>5, Zenon DEF LinesSettled

LEMMA SettledRequest ==
    ASSUME AsyncTypes, Separate, Tokens, ~overlapped', [Next]_vars, LinesSettled,
           NEW r \in Requests, Submit(r) \/ SubmitFails(r) \/ RequestStep(r)
    PROVE  LinesSettled'
<1>t. /\ FilesOK /\ "request" \in Queues /\ "process" \in Queues \ {"request"}
      /\ "status" \in Queues \ {"request"} /\ pc \in [Workers -> WorkerLabels]
  BY DEF AsyncTypes, ThreadsOK, Queues
<1>1. /\ UNCHANGED <<temp, line, poll>>
      /\ file' = file \/ \E l : AppendLine("request", l)
      /\ pc' = pc \/ \E w \in Workers : pc[w] = "asleep" /\ pc' = [pc EXCEPT ![w] = "fetch"]
  BY DEF Submit, SubmitFails, RequestStep, Push, ReadSize, CountAndSignal, Sleeping
<1>2. UNCHANGED <<Content("process"), Content("status")>>
  BY <1>1, <1>t, ContentNext
<1>3. \A w \in Workers : /\ Reads(w) => Reads(w)'
                         /\ pc'[w] \in Removing => pc[w] \in Removing
  BY <1>1, <1>t, Zenon DEF Reads, Removing
<1>4. Rewritten' => Rewritten
  BY <1>1, <1>3 DEF Rewritten, StatusFileLock
<1> QED
  BY <1>1, <1>2, <1>3, <1>4, SettledQuiet

\* While a worker changes temp.txt, no status_check is using it.
LEMMA WorkerTemp ==
    ASSUME AsyncTypes, Separate, ~overlapped', [Next]_vars, NEW w \in Workers, WorkerStep(w),
           temp' # temp
    PROVE  ~StatusFileLock' /\ \A v \in Workers \ {w} : pc'[v] \notin Removing
<1>1. poll' = poll /\ ~overlapped
  <2>1. ~overlapped
    BY OverlappedEffect, Zenon
  <2> QED
    BY <2>1, WorkerEffect DEF AsyncTypes
<1>2. ~StatusFileLock
  <2>1. Pop(w) => ~StatusFileLock
    <3>1. Pop(w) => temp' = temp \/ overlapped' = (overlapped \/ StatusFileLock)
      BY DEF Pop
    <3> QED
      BY <3>1
  <2>2. Unlist(w) => ~StatusFileLock
    <3>1. Unlist(w) => overlapped' = (overlapped \/ StatusFileLock)
      BY DEF Unlist
    <3> QED
      BY <3>1
  <2>3. RenameRequest(w) \/ RenameProcess(w) => ~StatusFileLock
    BY <1>1 DEF RenameRequest, RenameProcess, Rewriting, Separate
  <2>4. Pop(w) \/ Unlist(w) \/ RenameRequest(w) \/ RenameProcess(w)
    BY DEF WorkerStep, PassGate, FindNoData, WaitForData, RemoveRequest, CountDown, List, Grade,
       RemoveProcess
  <2> QED
    BY <2>1, <2>2, <2>3, <2>4
<1> QED
  BY <1>1, <1>2, TempIsLocked DEF StatusFileLock, Removing, Locked

LEMMA SettledUnlist ==
    ASSUME AsyncTypes, Separate, Tokens, ~overlapped', [Next]_vars, LinesSettled,
           NEW w \in Workers, Unlist(w)
    PROVE  LinesSettled'
<1>t. /\ FilesOK /\ "process" \in Queues /\ pc \in [Workers -> WorkerLabels]
  BY DEF AsyncTypes, ThreadsOK, Queues
<1>1. /\ file' = file /\ line' = line /\ \A v \in Workers : pc[v] \notin Removing /\ ~Reads(v)
      /\ poll' = poll
  BY DEF Unlist, Lock, Removing, Reads
<1>2. UNCHANGED <<Content("process"), Content("status")>>
  BY <1>1 DEF Content
<1>3. ~StatusFileLock'
  <2>1. overlapped' = (overlapped \/ StatusFileLock)
    BY DEF Unlist
  <2> QED
    BY <1>1, <2>1 DEF StatusFileLock
<1>4. CASE Find("process", line[w])
  <2>1. PICK s : s = Content("process") /\ AllTaken(s)
    BY DEF LinesSettled
  <2>2. s \in Seq(Lines)
    BY <2>1, <1>t, ContentIs DEF FilesOK
  <2>3. temp' = RemoveFirst(s, line[w]) /\ Contains(s, line[w])
    BY <1>4, <2>1 DEF Unlist, CopyAllBut, Find
  <2>4. PICK t : t = RemoveFirst(s, line[w]) /\ AllTaken(t)
    BY <2>1, <2>2, <2>3, RemoveTaken
  <2>5. AllTaken(t)'
    BY <2>4, AllTakenStays
  <2>6. AllTaken(temp)'
    BY <2>3, <2>4, <2>5 DEF AllTaken
  <2> QED
    BY <1>1, <1>2, <2>6, SettledQuiet
<1>5. CASE ~Find("process", line[w])
  <2>1. pc' = [pc EXCEPT ![w] = "gate"]
    BY <1>5 DEF Unlist, Goto
  <2>2. \A v \in Workers : pc'[v] \notin Removing
    BY <1>1, <1>t, <2>1 DEF Removing
  <2>3. ~Rewritten'
    BY <1>3, <2>2 DEF Rewritten
  <2> QED
    BY <1>1, <1>2, <2>3, SettledQuiet
<1> QED
  BY <1>4, <1>5

\* The steps of a worker but the copies and the grading, on the lines.
LEMMA SettledWorker ==
    ASSUME AsyncTypes, Separate, Tokens, Tokens', ~overlapped', [Next]_vars, LinesSettled,
           NEW w \in Workers, WorkerStep(w)
    PROVE  LinesSettled'
<1>t. /\ FilesOK /\ ThreadsOK /\ pc \in [Workers -> WorkerLabels] /\ line \in [Workers -> Lines]
  BY DEF AsyncTypes, ThreadsOK
<1>q. /\ "request" \in Queues \ {"process", "status"} /\ "process" \in Queues \ {"status"}
      /\ "status" \in Queues \ {"process"}
  BY DEF Queues
<1>e. /\ \A v \in Workers \ {w} : pc'[v] = pc[v] /\ line'[v] = line[v]
      /\ poll' = poll
  BY <1>t, WorkerEffect
<1>v. ASSUME NEW v \in Workers \ {w} PROVE Reads(v)' \/ (line'[v] = line[v] /\ ~Reads(v))
  BY <1>e DEF Reads
<1>r. ASSUME ~Unlist(w) PROVE Rewritten' => Rewritten /\ temp' = temp
  <2>1. pc'[w] \in Removing => pc[w] \in Removing /\ temp' = temp
    BY <1>r, <1>t DEF WorkerStep, PassGate, Pop, FindNoData, WaitForData, RemoveRequest,
       RenameRequest, CountDown, List, Grade, RemoveProcess, RenameProcess, Goto, Removing
  <2>2. Rewritten' => Rewritten
    BY <1>e, <2>1 DEF Rewritten, StatusFileLock
  <2>3. temp' # temp => ~Rewritten'
    BY <2>1, WorkerTemp DEF Rewritten
  <2> QED
    BY <2>2, <2>3
<1>1. CASE Unlist(w)
  BY <1>1, SettledUnlist
<1>2. CASE PassGate(w) \/ FindNoData(w) \/ WaitForData(w) \/ RenameRequest(w) \/ CountDown(w)
  <2>1. /\ line' = line /\ ~Reads(w)
        /\ file' = file \/ RenameTemp("request")
    BY <1>2 DEF PassGate, FindNoData, WaitForData, RenameRequest, CountDown, Reads
  <2>2. UNCHANGED <<Content("process"), Content("status")>>
    BY <1>q, <1>t, <2>1, ContentNext
  <2>3. ~Unlist(w)
    BY <1>2 DEF PassGate, FindNoData, WaitForData, RenameRequest, CountDown, Unlist
  <2> QED
    BY <1>v, <1>r, <2>1, <2>2, <2>3, SettledQuiet
<1>3. CASE Pop(w)
  <2>1. Reads(w)' \/ line'[w] = EmptyLine
    BY <1>3, <1>t DEF Pop, Goto, FirstLine, Reads
  <2>2. UNCHANGED <<Content("process"), Content("status")>>
    BY <1>3 DEF Pop, Content
  <2>3. ~Unlist(w)
    BY <1>3 DEF Pop, Unlist
  <2>4. Reads(w)' \/ \A r \in Requests : About(line'[w], r) => Taken(r)'
    BY <2>1, AboutIs
  <2> QED
    BY <1>v, <1>r, <2>2, <2>3, <2>4, SettledQuiet
<1>4. CASE RemoveRequest(w)
  <2>1. /\ Popped(w) /\ line' = line /\ pc' = [pc EXCEPT ![w] = "rename request"]
        /\ RemoveFile("request")
    BY <1>4 DEF RemoveRequest, Goto, Tokens, Popping
  <2>2. PICK q \in Requests : q = line[w]
    BY <2>1 DEF Popped
  <2>3. Holds(w, q)'
    BY <1>t, <2>1, <2>2 DEF Holds
  <2>4. Taken(q)'
    BY <2>3, HeldIsTakenNext DEF HeldTaken
  <2>5. \A r \in Requests : About(line'[w], r) => Taken(r)'
    <3>1. \A r \in Requests : About(q, r) => Taken(r)'
      BY <2>4, AboutIs
    <3> QED
      BY <2>1, <2>2, <3>1
  <2>6. UNCHANGED <<Content("process"), Content("status")>>
    BY <1>q, <1>t, <2>1, ContentNext
  <2>7. ~Unlist(w)
    BY <1>4 DEF RemoveRequest, Unlist
  <2> QED
    BY <1>v, <1>r, <2>5, <2>6, <2>7, SettledQuiet
<1>5. CASE List(w) \/ Grade(w)
  <2>1. line' = line /\ ~Reads(w) /\ ~Unlist(w)
    BY <1>5 DEF List, Grade, Reads, Unlist
  <2>2. PICK l \in Lines : l = line[w]
    BY <1>t
  <2>3. \A r \in Requests : About(l, r) => Taken(r)
    BY <2>1, <2>2, Zenon DEF LinesSettled
  <2>4. CASE List(w)
    <3>1. AppendLine("process", l)
      BY <2>2, <2>4 DEF List
    <3>2. PICK s : s = Content("process") /\ s \in Seq(Lines) /\ AllTaken(s)
      BY <1>t, <1>q, ContentIs DEF LinesSettled, FilesOK
    <3>3. AllTaken(Append(s, l))
      BY <2>3, <3>2, AppendTaken
    <3>4. PICK t : t = Append(s, l) /\ AllTaken(t)
      BY <3>3
    <3>5. AllTaken(t)'
      BY <3>4, AllTakenStays
    <3>6. Content("process")' = t /\ Content("status")' = Content("status")
      BY <1>q, <1>t, <3>1, <3>2, <3>4, ContentNext
    <3>7. AllTaken(Content("process"))'
      BY <3>5, <3>6 DEF AllTaken
    <3> QED
      BY <1>v, <1>r, <2>1, <3>6, <3>7, SettledQuiet
  <2>5. CASE Grade(w)
    <3>0. PICK k \in Lines : k = StatusFor(l)
      BY LabelTypes
    <3>1. AppendLine("status", k)
      BY <2>2, <2>5, <3>0 DEF Grade
    <3>2. PICK s : s = Content("status") /\ s \in Seq(Lines) /\ AllTaken(s)
      BY <1>t, <1>q, ContentIs DEF LinesSettled, FilesOK
    <3>3. AllTaken(Append(s, k))
      <4>1. \A r \in Requests : About(k, r) => Taken(r)
        BY <2>3, <3>0, AboutIs
      <4> QED
        BY <3>2, <4>1, AppendTaken
    <3>4. PICK t : t = Append(s, k) /\ AllTaken(t)
      BY <3>3
    <3>5. AllTaken(t)'
      BY <3>4, AllTakenStays
    <3>6. Content("status")' = t /\ Content("process")' = Content("process")
      BY <1>q, <1>t, <3>1, <3>2, <3>4, ContentNext
    <3>7. AllTaken(Content("status"))'
      BY <3>5, <3>6 DEF AllTaken
    <3> QED
      BY <1>v, <1>r, <2>1, <3>6, <3>7, SettledQuiet
  <2> QED
    BY <1>5, <2>4, <2>5
<1>6. CASE RemoveProcess(w) \/ RenameProcess(w)
  <2>1. /\ \/ line' = line /\ ~Reads(w)
           \/ line' = [line EXCEPT ![w] = EmptyLine]
        /\ ~Unlist(w) /\ pc[w] \in Removing
    BY <1>6 DEF RemoveProcess, RenameProcess, Reads, Unlist, Removing
  <2>2. (line'[w] = line[w] /\ ~Reads(w)) \/ \A r \in Requests : About(line'[w], r) => Taken(r)'
    BY <1>t, <2>1, AboutIs
  <2>3. Content("status")' = Content("status")
    BY <1>6, <1>q, <1>t, ContentNext DEF RemoveProcess, RenameProcess
  <2>4. Content("process")' = Content("process") \/ AllTaken(Content("process"))'
    <3>1. CASE RemoveProcess(w)
      <4>1. Content("process")' = <<>>
        BY <1>q, <1>t, <3>1, ContentNext DEF RemoveProcess
      <4> QED
        BY <4>1 DEF AllTaken
    <3>2. CASE RenameProcess(w) /\ temp = Missing
      BY <3>2 DEF RenameProcess, RenameTemp, Content
    <3>3. CASE RenameProcess(w) /\ temp # Missing
      <4>1. PICK s : s = temp /\ AllTaken(s)
        BY <2>1, <3>3 DEF LinesSettled, Rewritten
      <4>2. AllTaken(s)'
        BY <4>1, AllTakenStays
      <4>3. Content("process")' = s
        BY <1>q, <1>t, <3>3, <4>1, ContentNext DEF RenameProcess
      <4> QED
        BY <4>2, <4>3 DEF AllTaken
    <3> QED
      BY <1>6, <3>1, <3>2, <3>3
  <2> QED
    BY <1>v, <1>r, <2>1, <2>2, <2>3, <2>4, SettledQuiet
<1> QED
  BY <1>1, <1>2, <1>3, <1>4, <1>5, <1>6 DEF WorkerStep

LEMMA SettledPoll ==
    ASSUME AsyncTypes, Separate, Tokens, ~overlapped', [Next]_vars, LinesSettled,
           NEW p \in Pollers, PollStep(p) \/ \E r \in Requests : StartPoll(p, r)
    PROVE  LinesSettled'
<1>t. FilesOK /\ ClientsOK
  BY DEF AsyncTypes
<1>q. "process" \in Queues \ {"status"} /\ "status" \in Queues
  BY DEF Queues
<1>1. /\ UNCHANGED <<pc, line>>
      /\ file' = file \/ RemoveFile("status") \/ RenameTemp("status")
      /\ temp' = temp \/ TakeStatus(p) \/ RenameStatus(p)
  BY PollEffect
<1>2. Content("process")' = Content("process")
  BY <1>1, <1>q, <1>t, ContentNext
<1>3. \A w \in Workers : Reads(w)' \/ (line'[w] = line[w] /\ ~Reads(w))
  BY <1>1 DEF Reads
<1>4. CASE TakeStatus(p)
  <2>1. /\ file' = file /\ ~StatusFileLock
        /\ overlapped' = (overlapped \/ Rewriting)
    BY <1>4 DEF TakeStatus
  <2>2. Content("status")' = Content("status")
    BY <2>1 DEF Content
  <2> DEFINE entry == [req |-> poll[p].req, verdict |-> poll[p].verdict]
  <2>3. CASE Find("status", entry)
    <3>1. PICK s : s = Content("status") /\ s \in Seq(Lines) /\ AllTaken(s)
      BY <1>t, <1>q, ContentIs DEF LinesSettled, FilesOK
    <3>2. temp' = RemoveFirst(s, entry) /\ Contains(s, entry)
      BY <1>4, <2>3, <3>1 DEF TakeStatus, CopyAllBut, Find
    <3>3. PICK t : t = RemoveFirst(s, entry) /\ AllTaken(t)
      BY <3>1, <3>2, RemoveTaken
    <3>4. AllTaken(t)'
      BY <3>3, AllTakenStays
    <3>5. AllTaken(temp)'
      BY <3>2, <3>3, <3>4 DEF AllTaken
    <3> QED
      BY <1>2, <1>3, <2>2, <3>5, SettledQuiet
  <2>4. CASE ~Find("status", entry)
    <3>1. temp' = temp \/ temp' = Missing
      BY <1>4, <2>4 DEF TakeStatus, CopyNothing
    <3>2. PollAt(p, "send")
      BY <1>4, <2>4, Zenon DEF TakeStatus
    <3>3. poll'[p].at = "send" /\ \A q \in Pollers \ {p} : poll'[q] = poll[q]
      BY <1>t, <3>2 DEF PollAt, ClientsOK
    <3>4. ~StatusFileLock'
      BY <2>1, <3>3, Zenon DEF StatusFileLock
    <3>5. Rewritten' => Rewritten
      BY <1>1, <3>4 DEF Rewritten
    <3> QED
      BY <1>2, <1>3, <2>2, <3>1, <3>5, SettledQuiet
  <2> QED
    BY <2>3, <2>4
<1>5. CASE RenameStatus(p)
  <2>1. RenameTemp("status") /\ StatusFileLock
    BY <1>5, Zenon DEF RenameStatus, StatusFileLock
  <2>2. CASE temp = Missing
    <3>1. temp' = temp /\ Content("status")' = Content("status")
      BY <2>1, <2>2 DEF RenameTemp, Content
    <3> QED
      BY <1>2, <1>3, <2>1, <3>1, SettledQuiet DEF Rewritten
  <2>3. CASE temp # Missing
    <3>1. PICK s : s = temp /\ AllTaken(s)
      BY <2>1, <2>3 DEF LinesSettled, Rewritten
    <3>2. AllTaken(s)'
      BY <3>1, AllTakenStays
    <3>3. Content("status")' = s /\ temp' = Missing
      BY <1>q, <1>t, <2>1, <2>3, <3>1, ContentNext DEF RenameTemp
    <3>4. AllTaken(Content("status"))'
      BY <3>2, <3>3 DEF AllTaken
    <3> QED
      BY <1>2, <1>3, <3>3, <3>4, SettledQuiet
  <2> QED
    BY <2>2, <2>3
<1>6. CASE ~TakeStatus(p) /\ ~RenameStatus(p)
  <2>1. temp' = temp
    BY <1>1, <1>6
  <2>2. Rewritten' => Rewritten
    BY <1>1, <1>6, <1>t, StatusLockTaken DEF Rewritten
  <2>3. CASE RemoveStatus(p)
    <3>1. Content("status")' = <<>>
      BY <1>q, <1>t, <2>3, ContentNext DEF RemoveStatus
    <3>2. AllTaken(Content("status"))'
      BY <3>1 DEF AllTaken
    <3> QED
      BY <1>2, <1>3, <2>1, <2>2, <3>2, SettledQuiet
  <2>4. CASE ~RemoveStatus(p)
    <3>1. file' = file
      BY <1>6, <2>4 DEF PollStep, StartPoll, CheckRequests, CheckProcess, CheckStatus, SendResult
    <3>2. Content("status")' = Content("status")
      BY <3>1 DEF Content
    <3> QED
      BY <1>2, <1>3, <2>1, <2>2, <3>2, SettledQuiet
  <2> QED
    BY <2>3, <2>4
<1> QED
  BY <1>4, <1>5, <1>6

\* What is found in a settled file has been taken.
LEMMA FoundIsTaken ==
    ASSUME FilesOK, LinesSettled, NEW r \in Requests
    PROVE  /\ Find("process", r) => Taken(r)
           /\ ResultsOf(r) # {} => Taken(r)
<1>1. Find("process", r) => Taken(r)
  BY DEF LinesSettled, AllTaken, Find, Contains, About
<1>2. ASSUME ResultsOf(r) # {} PROVE Taken(r)
  BY <1>2, FoundIs DEF LinesSettled, AllTaken, About
<1> QED
  BY <1>1, <1>2

\* Who has been shown such a line.
LEMMA SeenPoll ==
    ASSUME AsyncTypes, Separate, Tokens, ~overlapped', [Next]_vars, Results, Settled,
           NEW p \in Pollers, PollStep(p)
    PROVE  PollsSettled' /\ ToldSettled'
<1>t. /\ poll \in [Pollers -> [at: PollLabels, req: Requests \cup {NoRequest},
                               verdict: Verdicts \cup {NoAnswer}]]
      /\ told \in [Requests -> {"nothing", "queued", "processing", "not found", "done"}]
      /\ FilesOK
  BY DEF AsyncTypes, ClientsOK
<1>p. PICK r : r = poll[p].req
  OBVIOUS
<1>r. poll[p].at # "idle" => r \in Requests
  BY <1>p DEF Results
<1>s. \A q \in Requests : Taken(q) => Taken(q)'
  BY TakenStays
<1>o. ASSUME NEW q \in Pollers, poll[q].at \in Sending
      PROVE  \E x \in Requests : x = poll[q].req /\ Taken(x)'
  <2>1. "idle" \notin Sending
    BY Zenon DEF Sending
  <2>2. PICK x : x = poll[q].req
    OBVIOUS
  <2>3. x \in Requests
    BY <1>o, <2>1, <2>2 DEF Results
  <2>4. Taken(x)
    BY <1>o, <2>2, Zenon DEF Settled, PollsSettled
  <2> QED
    BY <1>s, <2>2, <2>3, <2>4
<1>d. \A q \in Requests : told[q] \in {"processing", "done"} => Taken(q)'
  BY <1>s, Zenon DEF Settled, ToldSettled
\* A report of something taken, or of nothing such.
<1>1. ASSUME NEW what, Report(p, what), r \in Requests,
             what \in {"processing", "done"} => Taken(r)'
      PROVE  PollsSettled' /\ ToldSettled'
  <2>1. told' = [told EXCEPT ![r] = what] /\ poll' = [poll EXCEPT ![p] = NotPolling]
    BY <1>1, <1>p DEF Report
  <2>2. \A q \in Requests : told'[q] = IF q = r THEN what ELSE told[q]
    BY <1>t, <2>1
  <2>3. ASSUME NEW q \in Requests, told'[q] \in {"processing", "done"} PROVE Taken(q)'
    BY <1>1, <1>d, <2>2, <2>3
  <2>4. ASSUME NEW q \in Pollers, poll'[q].at \in Sending PROVE Taken(poll[q].req)'
    <3>1. q # p
      <4>1. poll'[p].at = "idle"
        BY <1>t, <2>1 DEF NotPolling
      <4>2. "idle" \notin Sending
        BY Zenon DEF Sending
      <4> QED
        BY <2>4, <4>1, <4>2
    <3>2. poll'[q] = poll[q]
      BY <1>t, <2>1, <3>1
    <3>3. PICK x \in Requests : x = poll[q].req /\ Taken(x)'
      BY <1>o, <2>4, <3>2
    <3>4. poll'[q].req = x
      BY <3>2, <3>3
    <3> QED
      BY <3>3, <3>4 DEF Taken, Handed, InQueue, Find, InTempOf
  <2> QED
    BY <2>3, <2>4, Zenon DEF PollsSettled, ToldSettled
\* A poll that goes on.
<1>2. ASSUME NEW q, q = poll'[p], q.req = r, q.at \in Sending => r \in Requests /\ Taken(r)',
             \A x \in Pollers \ {p} : poll'[x] = poll[x], told' = told
      PROVE  PollsSettled' /\ ToldSettled'
  <2>1. ASSUME NEW x \in Pollers, poll'[x].at \in Sending PROVE Taken(poll[x].req)'
    <3>1. CASE x = p
      <4>1. poll'[x].req = r /\ Taken(r)'
        BY <1>2, <2>1, <3>1
      <4> QED
        BY <4>1 DEF Taken, Handed, InQueue, Find, InTempOf
    <3>2. CASE x # p
      <4>1. PICK y \in Requests : y = poll[x].req /\ Taken(y)'
        BY <1>2, <1>o, <2>1, <3>2
      <4>2. poll'[x].req = y
        BY <1>2, <3>2, <4>1
      <4> QED
        BY <4>1, <4>2 DEF Taken, Handed, InQueue, Find, InTempOf
    <3> QED
      BY <3>1, <3>2
  <2> QED
    BY <1>2, <1>d, <2>1, Zenon DEF PollsSettled, ToldSettled
<1>3. ASSUME NEW label, PollAt(p, label), told' = told,
             label \in Sending => r \in Requests /\ Taken(r)'
      PROVE  PollsSettled' /\ ToldSettled'
  <2>1. /\ poll'[p].at = label /\ poll'[p].req = r
        /\ \A x \in Pollers \ {p} : poll'[x] = poll[x]
    BY <1>3, <1>t, <1>p DEF PollAt
  <2> QED
    BY <1>2, <1>3, <2>1
<1>4. CASE CheckRequests(p)
  <2>1. r \in Requests
    BY <1>4, <1>p, <1>r, Zenon DEF CheckRequests
  <2>2. (told' = told /\ PollAt(p, "process")) \/ Report(p, "queued")
    BY <1>4, Zenon DEF CheckRequests
  <2>3. "process" \notin Sending /\ "queued" \notin {"processing", "done"}
    BY Zenon DEF Sending
  <2> QED
    BY <1>1, <1>3, <2>1, <2>2, <2>3
<1>5. CASE CheckProcess(p)
  <2>1. r \in Requests
    BY <1>5, <1>p, <1>r, Zenon DEF CheckProcess
  <2>2. \/ told' = told /\ PollAt(p, "status")
        \/ Find("process", r) /\ Report(p, "processing")
    BY <1>5, <1>p, Zenon DEF CheckProcess
  <2>3. Find("process", r) => Taken(r)'
    BY <1>s, <1>t, <2>1, FoundIsTaken DEF Settled
  <2>4. "status" \notin Sending
    BY Zenon DEF Sending
  <2> QED
    BY <1>1, <1>3, <2>1, <2>2, <2>3, <2>4
<1>6. CASE CheckStatus(p)
  <2>1. r \in Requests
    BY <1>6, <1>p, <1>r, Zenon DEF CheckStatus
  <2>2. \/ Report(p, "not found")
        \/ /\ ResultsOf(r) # {} /\ told' = told
           /\ \E v : poll' = [poll EXCEPT ![p].at = "take", ![p].verdict = v]
    BY <1>6, <1>p, Zenon DEF CheckStatus
  <2>3. ResultsOf(r) # {} => Taken(r)'
    BY <1>s, <1>t, <2>1, FoundIsTaken DEF Settled
  <2>4. ASSUME NEW v, poll' = [poll EXCEPT ![p].at = "take", ![p].verdict = v], told' = told,
               Taken(r)'
        PROVE  PollsSettled' /\ ToldSettled'
    <3>1. poll'[p].req = r /\ \A x \in Pollers \ {p} : poll'[x] = poll[x]
      BY <1>t, <1>p, <2>4
    <3> QED
      BY <1>2, <2>1, <2>4, <3>1
  <2>5. "not found" \notin {"processing", "done"}
    BY Zenon
  <2> QED
    BY <1>1, <2>1, <2>2, <2>3, <2>4, <2>5, Zenon
<1>7. CASE TakeStatus(p) \/ RemoveStatus(p) \/ RenameStatus(p)
  <2>1. /\ told' = told /\ poll[p].at \in Sending
        /\ \E label : PollAt(p, label)
    BY <1>7, Zenon DEF TakeStatus, RemoveStatus, RenameStatus, Sending
  <2>2. r \in Requests /\ Taken(r)'
    BY <1>o, <1>p, <2>1
  <2> QED
    BY <1>3, <2>1, <2>2
<1>8. CASE SendResult(p)
  <2>1. Report(p, "done") /\ poll[p].at \in Sending
    BY <1>8, Zenon DEF SendResult, Sending
  <2>2. r \in Requests /\ Taken(r)'
    BY <1>o, <1>p, <2>1
  <2> QED
    BY <1>1, <2>1, <2>2
<1> QED
  BY <1>4, <1>5, <1>6, <1>7, <1>8 DEF PollStep

LEMMA SettledStep ==
    Orderly /\ Results /\ (~overlapped => Settled) /\ [Next]_vars /\ Orderly'
        => (~overlapped' => Settled')
<1> SUFFICES ASSUME Orderly, Results, ~overlapped => Settled, [Next]_vars, Orderly', ~overlapped'
             PROVE  Settled'
  OBVIOUS
<1>t. ~overlapped /\ AsyncTypes /\ Separate /\ Tokens /\ Tokens' /\ Settled /\ LinesSettled
  <2>1. ~overlapped
    BY OverlappedEffect, Zenon
  <2> QED
    BY <2>1 DEF Orderly, Settled
<1>s. \A r \in Requests : Taken(r) => Taken(r)'
  BY <1>t, TakenStays
<1>p. \A p \in Pollers : poll[p].at # "idle" => poll[p].req \in Requests
  BY DEF Results
<1>i. "idle" \notin Sending
  BY Zenon DEF Sending
<1>d. told' = told => ToldSettled'
  BY <1>s, <1>t, Zenon DEF Settled, ToldSettled
\* Polls that are idle, at the same place, or have not yet found anything.
<1>k. ASSUME \A p \in Pollers : poll'[p].at \in Sending => poll'[p] = poll[p]
      PROVE  PollsSettled'
  <2>1. ASSUME NEW p \in Pollers, poll'[p].at \in Sending PROVE Taken(poll[p].req)'
    <3>1. PICK x : x = poll[p].req /\ poll'[p].req = x /\ poll[p].at \in Sending
      BY <1>k, <2>1
    <3>2. x \in Requests
      BY <1>p, <1>i, <3>1
    <3>3. Taken(x)
      BY <1>t, <3>1, Zenon DEF Settled, PollsSettled
    <3>4. Taken(x)'
      BY <1>s, <3>2, <3>3
    <3> QED
      BY <3>1, <3>4 DEF Taken, Handed, InQueue, Find, InTempOf
  <2> QED
    BY <2>1, Zenon DEF PollsSettled
<1>1. ASSUME NEW r \in Requests, Submit(r) \/ SubmitFails(r) \/ RequestStep(r) PROVE Settled'
  <2>1. UNCHANGED <<poll, told>>
    BY <1>1 DEF Submit, SubmitFails, RequestStep, Push, ReadSize, CountAndSignal
  <2> QED
    BY <1>1, <1>t, <1>d, <1>k, <2>1, SettledRequest DEF Settled
<1>2. ASSUME NEW w \in Workers, WorkerStep(w) PROVE Settled'
  <2>1. UNCHANGED <<poll, told>>
    BY <1>2, <1>t, WorkerEffect DEF AsyncTypes
  <2> QED
    BY <1>2, <1>t, <1>d, <1>k, <2>1, SettledWorker DEF Settled
<1>3. ASSUME NEW p \in Pollers, NEW r \in Requests, StartPoll(p, r) PROVE Settled'
  <2>1. /\ poll' = [poll EXCEPT ![p] = [at |-> "request", req |-> r, verdict |-> NoAnswer]]
        /\ told' = told
    BY <1>3 DEF StartPoll
  <2>2. "request" \notin Sending
    BY Zenon DEF Sending
  <2>3. \A q \in Pollers : poll'[q] = poll[q] \/ poll'[q].at = "request"
    BY <1>t, <2>1 DEF AsyncTypes, ClientsOK
  <2> QED
    BY <1>3, <1>t, <1>d, <1>k, <2>1, <2>2, <2>3, SettledPoll DEF Settled
<1>4. ASSUME NEW p \in Pollers, PollStep(p) PROVE Settled'
  BY <1>4, <1>t, SettledPoll, SeenPoll DEF Settled
<1>5. ASSUME Crash PROVE Settled'
  <2>1. /\ poll' = [p \in Pollers |-> NotPolling] /\ UNCHANGED <<file, temp, told>>
        /\ \A w \in Workers : line'[w] = EmptyLine /\ pc'[w] = "gate"
    BY <1>5 DEF Crash
  <2>2. \A p \in Pollers : poll'[p].at = "idle"
    BY <2>1 DEF NotPolling
  <2>3. ~Rewritten'
    BY <2>1, <2>2, Zenon DEF Rewritten, StatusFileLock, Removing
  <2>4. UNCHANGED <<Content("process"), Content("status")>>
    BY <2>1 DEF Content
  <2>5. \A w \in Workers, r \in Requests : ~About(line'[w], r)
    BY <2>1, AboutIs
  <2> QED
    BY <1>t, <1>d, <1>k, <1>i, <2>1, <2>2, <2>3, <2>4, <2>5, SettledQuiet DEF Settled
<1>6. ASSUME UNCHANGED vars PROVE Settled'
  <2>1. UNCHANGED <<file, temp, pc, line, poll, told>>
    BY <1>6 DEF vars
  <2>2. UNCHANGED <<Content("process"), Content("status")>>
    BY <2>1 DEF Content
  <2>3. Rewritten' => Rewritten
    BY <2>1 DEF Rewritten, StatusFileLock
  <2>4. \A w \in Workers : Reads(w)' \/ (line'[w] = line[w] /\ ~Reads(w))
    BY <2>1 DEF Reads
  <2> QED
    BY <1>t, <1>d, <1>k, <2>1, <2>2, <2>3, <2>4, SettledQuiet DEF Settled
<1> QED
  BY <1>1, <1>2, <1>3, <1>4, <1>5, <1>6 DEF Next

\* server.cpp:202-230 (version 4): a client that was told that its request is
\* being processed, or done, is not told later that it is queued, as long as
\* no two removals overlap; for any number of status_check threads, and
\* although they read the three files without a lock.
THEOREM ReportsAreInOrder == Spec => ReportsGoForward
<1> DEFINE Inv == ~overlapped => Settled
<1>1. Init => Results /\ Inv
  BY ResultsInit, SettledInit
<1>2. Orderly /\ Orderly' /\ Results /\ Inv /\ [Next]_vars => (Results /\ Inv)'
  BY SettledStep, ResultsStep DEF Orderly
<1>3. ASSUME Orderly, Results, Inv, [Next]_vars, ~overlapped,
             NEW r \in Requests, told[r] \in {"processing", "done"}
      PROVE  told'[r] # "queued"
  <2>1. ~Find("request", r)
    BY <1>3, Zenon DEF Settled, ToldSettled, Taken, InQueue
  <2>2. told \in [Requests -> {"nothing", "queued", "processing", "not found", "done"}]
    BY <1>3 DEF Orderly, AsyncTypes, ClientsOK
  <2>3. told[r] # "queued"
    BY <1>3, Zenon
  <2>4. CASE told' = told
    BY <2>3, <2>4
  <2>5. ASSUME NEW p \in Pollers, PollStep(p) PROVE told'[r] # "queued"
    <3>1. ASSUME NEW what, Report(p, what), what # "queued" PROVE told'[r] # "queued"
      <4>1. told' = [told EXCEPT ![poll[p].req] = what]
        BY <3>1 DEF Report
      <4> QED
        BY <2>2, <2>3, <3>1, <4>1
    <3>2. CASE CheckRequests(p)
      <4>1. PICK q : q = poll[p].req
        OBVIOUS
      <4>2. told' = told \/ (Find("request", q) /\ told' = [told EXCEPT ![q] = "queued"])
        BY <3>2, <4>1, Zenon DEF CheckRequests, Report
      <4>3. Find("request", q) => q # r
        BY <2>1
      <4> QED
        BY <2>2, <2>3, <4>2, <4>3
    <3>3. CASE ~CheckRequests(p)
      <4>1. told' = told \/ \E what \in {"processing", "not found", "done"} : Report(p, what)
        BY <2>5, <3>3, Zenon DEF PollStep, CheckProcess, CheckStatus, TakeStatus, RemoveStatus,
           RenameStatus, SendResult
      <4>2. \A what \in {"processing", "not found", "done"} : what # "queued"
        BY Zenon
      <4> QED
        BY <2>3, <3>1, <4>1, <4>2, Zenon
    <3> QED
      BY <3>2, <3>3
  <2>6. told' = told \/ \E p \in Pollers : PollStep(p)
    <3>1. ASSUME NEW q \in Requests, Submit(q) \/ SubmitFails(q) \/ RequestStep(q) PROVE told' = told
      BY <3>1 DEF Submit, SubmitFails, RequestStep, Push, ReadSize, CountAndSignal
    <3>2. ASSUME NEW w \in Workers, WorkerStep(w) PROVE told' = told
      BY <1>3, <3>2, WorkerEffect DEF Orderly, AsyncTypes
    <3>3. ASSUME NEW p \in Pollers, NEW q \in Requests, StartPoll(p, q) PROVE told' = told
      BY <3>3 DEF StartPoll
    <3>4. Crash \/ UNCHANGED vars => told' = told
      BY DEF Crash, vars
    <3> QED
      BY <1>3, <3>1, <3>2, <3>3, <3>4 DEF Next
  <2> QED
    BY <2>4, <2>5, <2>6
<1> HIDE DEF Inv
<1>4. Orderly /\ Results /\ Inv /\ [Next]_vars
        => [~overlapped => \A r \in Requests :
              told[r] \in {"processing", "done"} => told'[r] # "queued"]_vars
  BY <1>3, Zenon
<1> QED
  BY <1>1, <1>2, <1>4, TokensInvariant, PTL DEF Spec, ReportsGoForward
=============================================================================
