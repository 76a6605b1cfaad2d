----------------------------- MODULE AsyncServer -----------------------------
(***************************************************************************)
(* The asynchronous server, version 4/server.cpp: a thread per connection  *)
(* that either stores a request (new_request) or answers where a request   *)
(* is (status_check), a pool of workers that grade, and between them three *)
(* file-backed queues: requests to be graded, requests being graded, and   *)
(* results.  Workers use the first two under Lock, new_request pushes on   *)
(* the first under fileLock, results change under StatusFileLock, and      *)
(* status_check reads all three without any.                               *)
(*                                                                         *)
(* A lock is held exactly while some thread is at a step inside one of its *)
(* sections, so locks are predicates here.  A crash loses everything but   *)
(* the files, and the restarted server counts their lines.                 *)
(***************************************************************************)
EXTENDS FileQueue, FiniteSets

CONSTANTS
    Workers,        \* the pool; its size is the variable Size of the code
    Requests,       \* requests, each a file ./submissions/<id>.cpp
    Pollers,        \* status_check threads that may run at a time
    ProgramOf(_),   \* what becomes of a request's program
    NoAnswer, NoRequest,
    ResultsDir,     \* ./results/ exists; the server does not create it
    MaxCrashes,     \* bound: crashes
    MaxPushes       \* bound: pushes on the process queue, ever

Programs == {"uncompilable", "failing", "wrong", "right"}
Verdicts == {"COMPILER ERROR", "RUNTIME ERROR", "OUTPUT ERROR", "PROGRAM RAN"}

Size == Cardinality(Workers)
Queues == {"request", "process", "status"}

\* The verdict a request deserves.
VerdictOf(r) == CASE ProgramOf(r) = "uncompilable" -> "COMPILER ERROR"
                  [] ProgramOf(r) = "failing"      -> "RUNTIME ERROR"
                  [] ProgramOf(r) = "wrong"        -> "OUTPUT ERROR"
                  [] ProgramOf(r) = "right"        -> "PROGRAM RAN"

\* A line "filename,message,details", and what any line can be.
StatusLines == [req: Requests \cup {EmptyLine}, verdict: Verdicts]
Lines == Requests \cup {EmptyLine} \cup StatusLines

ASSUME AsyncServerAssumption ==
    /\ IsFiniteSet(Workers) /\ Workers # {}
    /\ \A r \in Requests : ProgramOf(r) \in Programs
    /\ NoAnswer \notin Verdicts /\ NoRequest \notin Requests
    /\ EmptyLine \notin Requests
    /\ \A r \in Requests \cup {EmptyLine} : r \notin StatusLines
    /\ Missing \notin Seq(Lines)
    /\ ResultsDir \in BOOLEAN
    /\ MaxCrashes \in Nat /\ MaxPushes \in Nat

\* The status a worker writes for a line it has popped.  An empty name does
\* not compile; nor does a status line taken for a name, but the new line
\* then begins with the old one, which is all that findResult reads.
StatusFor(line) ==
    IF line \in Requests THEN [req |-> line, verdict |-> VerdictOf(line)]
    ELSE IF line = EmptyLine THEN [req |-> EmptyLine, verdict |-> "COMPILER ERROR"]
    ELSE line

VARIABLES
    pc, line,       \* each worker: where it is, the entry it works on
    seen,           \* each worker: size_ as read by size_--
    new_request,    \* each request's new_request thread: where it is
    counted,        \* each new_request thread: size_ as read by size_++
    poll,           \* each status_check thread: where it is, for which
                    \* request, and the verdict it has found
    told,           \* what a client was last told about its request
    answer,         \* the verdict each client has got
    graded,         \* requests that have been graded (history)
    crashes,        \* number of crashes so far
    overlapped      \* two threads have used temp.txt at a time (history)

queues   == <<file, temp, size>>
workers  == <<pc, line, seen>>
handlers == <<new_request, counted>>
clients  == <<poll, told, answer>>
vars     == <<file, temp, size, pc, line, seen, new_request, counted,
              poll, told, answer, graded, crashes, overlapped>>

NotPolling == [at |-> "idle", req |-> NoRequest, verdict |-> NoAnswer]

Init ==
    /\ file = [q \in Queues |-> <<>>] /\ temp = Missing
    /\ size = [q \in {"request", "process"} |-> 0]
    /\ pc = [w \in Workers |-> "gate"]
    /\ line = [w \in Workers |-> EmptyLine]
    /\ seen = [w \in Workers |-> 0]
    /\ new_request = [r \in Requests |-> "new"]
    /\ counted = [r \in Requests |-> 0]
    /\ poll = [p \in Pollers |-> NotPolling]
    /\ told = [r \in Requests |-> "nothing"]
    /\ answer = [r \in Requests |-> NoAnswer]
    /\ graded = {} /\ crashes = 0 /\ overlapped = FALSE

\* The sections of Lock, fileLock and StatusFileLock.
Lock == \E w \in Workers : pc[w] \in
            {"no data", "remove request", "rename request", "count", "list",
             "remove process", "rename process"}
fileLock == \E r \in Requests : new_request[r] \in {"read", "count"}
StatusFileLock == \E p \in Pollers : poll[p].at \in {"remove status", "rename status"}

\* A worker is between its copy to temp.txt and the rename.
Rewriting == \E w \in Workers : pc[w] \in {"remove request", "rename request",
                                         "remove process", "rename process"}
-----------------------------------------------------------------------------
(* new_request, the thread of a connection that brings a request.          *)

\* recv_file has stored the source.
Submit(r) ==
    /\ new_request[r] = "new"
    /\ new_request' = [new_request EXCEPT ![r] = "push"]
    /\ UNCHANGED <<queues, workers, counted, clients, graded, crashes, overlapped>>

\* recv_file has failed: close and exit.
SubmitFails(r) ==
    /\ new_request[r] = "new"
    /\ new_request' = [new_request EXCEPT ![r] = "failed"]
    /\ UNCHANGED <<queues, workers, counted, clients, graded, crashes, overlapped>>

\* fileQueue.push, under fileLock: the line, and size_++ in two steps.
Push(r) ==
    /\ new_request[r] = "push" /\ ~fileLock
    /\ AppendLine("request", r)
    /\ new_request' = [new_request EXCEPT ![r] = "read"]
    /\ UNCHANGED <<temp, size, workers, counted, clients, graded, crashes, overlapped>>

ReadSize(r) ==
    /\ new_request[r] = "read"
    /\ counted' = [counted EXCEPT ![r] = size["request"]]
    /\ new_request' = [new_request EXCEPT ![r] = "count"]
    /\ UNCHANGED <<queues, workers, clients, graded, crashes, overlapped>>

Sleeping == {w \in Workers : pc[w] = "asleep"}

\* The signal, the unlock, and the request id to the client.
CountAndSignal(r) ==
    /\ new_request[r] = "count"
    /\ size' = [size EXCEPT !["request"] = counted[r] + 1]
    /\ IF Sleeping = {} THEN UNCHANGED pc
       ELSE \E w \in Sleeping : pc' = [pc EXCEPT ![w] = "fetch"]
    /\ new_request' = [new_request EXCEPT ![r] = "accepted"]
    /\ UNCHANGED <<file, temp, line, seen, counted, clients, graded, crashes, overlapped>>

-----------------------------------------------------------------------------
(* thread_function, a worker.                                              *)

Goto(w, label) == pc' = [pc EXCEPT ![w] = label]

\* The wait for space in the process queue, which nobody ever signals.
PassGate(w) ==
    /\ pc[w] = "gate" /\ ~Lock
    /\ Goto(w, IF size["process"] = Size THEN "no space" ELSE "fetch")
    /\ UNCHANGED <<queues, line, seen, handlers, clients, graded, crashes, overlapped>>

\* Mutant: the first line stays in the file.
PopWithoutRemoving(w) ==
    /\ pc[w] = "fetch" /\ ~Lock
    /\ size["request"] # 0 /\ size["process"] < MaxPushes
    /\ line' = [line EXCEPT ![w] = FirstLine("request")]
    /\ Goto(w, "list")
    /\ UNCHANGED <<queues, seen, handlers, clients, graded, crashes, overlapped>>

\* Mutant: the counter is not tested.
PopAnyway(w) ==
    /\ pc[w] = "fetch" /\ ~Lock
    /\ size["process"] < MaxPushes
    /\ line' = [line EXCEPT ![w] = FirstLine("request")]
    /\ IF Content("request") = <<>>
       THEN Goto(w, "list") /\ UNCHANGED <<temp, overlapped>>
       ELSE /\ Goto(w, "remove request") /\ CopyAllButFirst("request")
            /\ overlapped' = (overlapped \/ StatusFileLock)
    /\ UNCHANGED <<file, size, seen, handlers, clients, graded, crashes>>

\* pop, as far as the copy: the head of the file, or, although size_ is not
\* 0, nothing.
Pop(w) ==
    /\ pc[w] = "fetch" /\ ~Lock
    /\ size["request"] # 0 /\ size["process"] < MaxPushes
    /\ line' = [line EXCEPT ![w] = FirstLine("request")]
    /\ IF Content("request") = <<>>
       THEN Goto(w, "list") /\ UNCHANGED <<temp, overlapped>>
       ELSE /\ Goto(w, "remove request") /\ CopyAllButFirst("request")
            /\ overlapped' = (overlapped \/ StatusFileLock)
    /\ UNCHANGED <<file, size, seen, handlers, clients, graded, crashes>>

FindNoData(w) ==
    /\ pc[w] = "fetch" /\ ~Lock
    /\ size["request"] = 0
    /\ Goto(w, "no data")
    /\ UNCHANGED <<queues, line, seen, handlers, clients, graded, crashes, overlapped>>

\* pthread_cond_wait.  The signal is not sent under the lock that this
\* releases, and so can come between the test and the wait.
WaitForData(w) ==
    /\ pc[w] = "no data"
    /\ Goto(w, "asleep")
    /\ UNCHANGED <<queues, line, seen, handlers, clients, graded, crashes, overlapped>>

RemoveRequest(w) ==
    /\ pc[w] = "remove request"
    /\ RemoveFile("request")
    /\ Goto(w, "rename request")
    /\ UNCHANGED <<temp, size, line, seen, handlers, clients, graded, crashes, overlapped>>

RenameRequest(w) ==
    /\ pc[w] = "rename request"
    /\ RenameTemp("request")
    /\ seen' = [seen EXCEPT ![w] = size["request"]]
    /\ Goto(w, "count")
    /\ UNCHANGED <<size, line, handlers, clients, graded, crashes, overlapped>>

\* size_--
CountDown(w) ==
    /\ pc[w] = "count"
    /\ size' = [size EXCEPT !["request"] = seen[w] - 1]
    /\ Goto(w, "list")
    /\ UNCHANGED <<file, temp, line, seen, handlers, clients, graded, crashes, overlapped>>

\* Mutant: the entry is not put on the process queue.
ListNot(w) ==
    /\ pc[w] = "list"
    /\ size' = [size EXCEPT !["process"] = @ + 1]
    /\ Goto(w, "grade")
    /\ UNCHANGED <<file, temp, line, seen, handlers, clients, graded, crashes, overlapped>>

\* Mutant: the two queues are mixed up.
ListOnRequests(w) ==
    /\ pc[w] = "list"
    /\ AppendLine("request", line[w])
    /\ size' = [size EXCEPT !["process"] = @ + 1]
    /\ Goto(w, "grade")
    /\ UNCHANGED <<temp, line, seen, handlers, clients, graded, crashes, overlapped>>

\* Queue.push, and the end of the section.
List(w) ==
    /\ pc[w] = "list"
    /\ AppendLine("process", line[w])
    /\ size' = [size EXCEPT !["process"] = @ + 1]
    /\ Goto(w, "grade")
    /\ UNCHANGED <<temp, line, seen, handlers, clients, graded, crashes, overlapped>>

\* The grading, in files named after the request, and statusQueue.push.
Grade(w) ==
    /\ pc[w] = "grade" /\ ~StatusFileLock
    /\ AppendLine("status", StatusFor(line[w]))
    /\ graded' = graded \cup ({line[w]} \cap Requests)
    /\ Goto(w, "unlist")
    /\ UNCHANGED <<temp, size, line, seen, handlers, clients, crashes, overlapped>>

\* Queue.removeElement; the counter of the queue is left as it is.
Unlist(w) ==
    /\ pc[w] = "unlist" /\ ~Lock
    /\ IF Find("process", line[w])
       THEN CopyAllBut("process", line[w]) /\ Goto(w, "remove process")
       ELSE CopyNothing("process") /\ Goto(w, "gate")
    /\ overlapped' = (overlapped \/ StatusFileLock)
    /\ UNCHANGED <<file, size, line, seen, handlers, clients, graded, crashes>>

RemoveProcess(w) ==
    /\ pc[w] = "remove process"
    /\ RemoveFile("process")
    /\ Goto(w, "rename process")
    /\ UNCHANGED <<temp, size, line, seen, handlers, clients, graded, crashes, overlapped>>

RenameProcess(w) ==
    /\ pc[w] = "rename process"
    /\ RenameTemp("process")
    /\ line' = [line EXCEPT ![w] = EmptyLine]
    /\ Goto(w, "gate")
    /\ UNCHANGED <<size, seen, handlers, clients, graded, crashes, overlapped>>

-----------------------------------------------------------------------------
(* status_check.                                                           *)

PollAt(p, label) == poll' = [poll EXCEPT ![p].at = label]
Report(p, what) == /\ told' = [told EXCEPT ![poll[p].req] = what]
                   /\ poll' = [poll EXCEPT ![p] = NotPolling]

\* A client asks about a request it has the id of, even one it was answered.
StartPoll(p, r) ==
    /\ poll[p].at = "idle" /\ new_request[r] = "accepted"
    /\ poll' = [poll EXCEPT ![p] = [at |-> "request", req |-> r, verdict |-> NoAnswer]]
    /\ UNCHANGED <<queues, workers, handlers, told, answer, graded, crashes, overlapped>>

CheckRequests(p) ==
    /\ poll[p].at = "request"
    /\ IF Find("request", poll[p].req)
       THEN Report(p, "queued")
       ELSE PollAt(p, "process") /\ UNCHANGED told
    /\ UNCHANGED <<queues, workers, handlers, answer, graded, crashes, overlapped>>

CheckProcess(p) ==
    /\ poll[p].at = "process"
    /\ IF Find("process", poll[p].req)
       THEN Report(p, "processing")
       ELSE PollAt(p, "status") /\ UNCHANGED told
    /\ UNCHANGED <<queues, workers, handlers, answer, graded, crashes, overlapped>>

\* Mutant: the name is not compared.
AnyResult(r) == {i \in DOMAIN Content("status") : Content("status")[i] \in StatusLines}

\* Where in the status queue the results of a request are.
ResultsOf(r) == {i \in DOMAIN Content("status") :
                    Content("status")[i] \in StatusLines /\ Content("status")[i].req = r}

\* findResult: the first of them.
CheckStatus(p) ==
    LET r == poll[p].req
    IN  /\ poll[p].at = "status"
        /\ IF ResultsOf(r) = {}
           THEN Report(p, "not found")
           ELSE /\ poll' = [poll EXCEPT ![p].at = "take",
                                        ![p].verdict = Content("status")[Min(ResultsOf(r))].verdict]
                /\ UNCHANGED told
        /\ UNCHANGED <<queues, workers, handlers, answer, graded, crashes, overlapped>>

\* statusQueue.removeElement, under StatusFileLock.
TakeStatus(p) ==
    LET entry == [req |-> poll[p].req, verdict |-> poll[p].verdict]
    IN  /\ poll[p].at = "take" /\ ~StatusFileLock
        /\ IF Find("status", entry)
           THEN CopyAllBut("status", entry) /\ PollAt(p, "remove status")
           ELSE CopyNothing("status") /\ PollAt(p, "send")
        /\ overlapped' = (overlapped \/ Rewriting)
        /\ UNCHANGED <<file, size, workers, handlers, told, answer, graded, crashes>>

RemoveStatus(p) ==
    /\ poll[p].at = "remove status"
    /\ RemoveFile("status")
    /\ PollAt(p, "rename status")
    /\ UNCHANGED <<temp, size, workers, handlers, told, answer, graded, crashes, overlapped>>

RenameStatus(p) ==
    /\ poll[p].at = "rename status"
    /\ RenameTemp("status")
    /\ PollAt(p, "send")
    /\ UNCHANGED <<size, workers, handlers, told, answer, graded, crashes, overlapped>>

\* "2", and the result file, which could be written only if ResultsDir.
SendResult(p) ==
    /\ poll[p].at = "send"
    /\ Report(p, "done")
    /\ answer' = IF ResultsDir THEN [answer EXCEPT ![poll[p].req] = poll[p].verdict]
                 ELSE answer
    /\ UNCHANGED <<queues, workers, handlers, graded, crashes, overlapped>>

-----------------------------------------------------------------------------
\* The process dies and is started again: the files stay, temp.txt too, the
\* counters are counted anew, whatever threads were doing is forgotten.
Crash ==
    /\ crashes < MaxCrashes
    /\ crashes' = crashes + 1
    /\ size' = [q \in DOMAIN size |-> CountLines(q)]
    /\ pc' = [w \in Workers |-> "gate"]
    /\ line' = [w \in Workers |-> EmptyLine]
    /\ seen' = [w \in Workers |-> 0]
    /\ new_request' = [r \in Requests |->
            IF new_request[r] \in {"push", "read", "count"} THEN "failed" ELSE new_request[r]]
    /\ poll' = [p \in Pollers |-> NotPolling]
    /\ UNCHANGED <<file, temp, counted, told, answer, graded, overlapped>>

RequestStep(r) == Push(r) \/ ReadSize(r) \/ CountAndSignal(r)

WorkerStep(w) ==
    \/ PassGate(w) \/ Pop(w) \/ FindNoData(w) \/ WaitForData(w)
    \/ RemoveRequest(w) \/ RenameRequest(w) \/ CountDown(w) \/ List(w)
    \/ Grade(w) \/ Unlist(w) \/ RemoveProcess(w) \/ RenameProcess(w)

PollStep(p) ==
    \/ CheckRequests(p) \/ CheckProcess(p) \/ CheckStatus(p) \/ TakeStatus(p)
    \/ RemoveStatus(p) \/ RenameStatus(p) \/ SendResult(p)

Next ==
    \/ \E r \in Requests : Submit(r) \/ SubmitFails(r) \/ RequestStep(r)
    \/ \E w \in Workers : WorkerStep(w)
    \/ \E p \in Pollers, r \in Requests : StartPoll(p, r)
    \/ \E p \in Pollers : PollStep(p)
    \/ Crash

Spec == Init /\ [][Next]_vars

\* The operating system runs every thread that can run.
FairSpec == /\ Spec
            /\ \A r \in Requests : WF_vars(RequestStep(r))
            /\ \A w \in Workers : SF_vars(WorkerStep(w))
            /\ \A p \in Pollers : WF_vars(PollStep(p))
-----------------------------------------------------------------------------
WorkerLabels == {"gate", "no space", "fetch", "no data", "asleep",
                 "remove request", "rename request", "count", "list", "grade",
                 "unlist", "remove process", "rename process"}
PollLabels == {"idle", "request", "process", "status", "take",
               "remove status", "rename status", "send"}

\* Every variable holds a value of its type.
TypeOK ==
    /\ \A q \in Queues : ToSet(Content(q)) \subseteq Lines
    /\ temp = Missing \/ ToSet(temp) \subseteq Lines
    /\ size \in [{"request", "process"} -> Nat]
    /\ pc \in [Workers -> WorkerLabels]
    /\ line \in [Workers -> Lines]
    /\ seen \in [Workers -> Nat]
    /\ new_request \in [Requests -> {"new", "push", "read", "count", "accepted", "failed"}]
    /\ counted \in [Requests -> Nat]
    /\ poll \in [Pollers -> [at: PollLabels, req: Requests \cup {NoRequest},
                             verdict: Verdicts \cup {NoAnswer}]]
    /\ told \in [Requests -> {"nothing", "queued", "processing", "not found", "done"}]
    /\ answer \in [Requests -> Verdicts \cup {NoAnswer}]
    /\ graded \in SUBSET Requests
    /\ crashes \in 0 .. MaxCrashes
    /\ overlapped \in BOOLEAN

Holds(w, r) == /\ line[w] = r
               /\ pc[w] \in {"rename request", "count", "list", "grade"}

\* As long as no two removals have overlapped in temp.txt, a request is
\* graded at most once, whatever is lost in a crash or between the locks: it
\* is never in two workers' hands, and never back in one after it has been
\* graded.  (A status_check that renames another queue's copy, or has its own
\* renamed, can bring a graded request back.)
GradedOnce ==
    ~overlapped =>
        \A r \in Requests :
            /\ \A v, w \in Workers : Holds(v, r) /\ Holds(w, r) => v = w
            /\ r \in graded => \A w \in Workers : ~Holds(w, r)

\* server.cpp:112 (version 4): the worker "takes file from fileQueue and places
\* in Process Queue, processes it and push into StatusQueue and pop from
\* ProcessQueue".  While it is graded, a request is in the process queue's
\* file, unless another worker is rewriting that file just now; again as long
\* as no two removals have overlapped.
ListedWhileGraded ==
    ~overlapped /\ ~Lock =>
        \A w \in Workers : pc[w] = "grade" => Find("process", line[w])

\* A client that is told the result is told the one of its own program.
VerdictForTheRightClient ==
    \A r \in Requests : answer[r] \in {NoAnswer, VerdictOf(r)}

\* As long as no two removals have overlapped, so always without status_check
\* threads, queues, workers and crashes implement the abstract life of a
\* request.
InTempOf(w, r) == pc[w] = "rename request" /\ temp # Missing /\ Contains(temp, r)

Stage(r) ==
    IF r \in graded THEN "done"
    ELSE IF \E w \in Workers : Holds(w, r) THEN "running"
    ELSE IF Find("request", r) \/ \E w \in Workers : InTempOf(w, r) THEN "queued"
    ELSE IF new_request[r] \in {"new", "push"} THEN "new"
    ELSE "lost"

Life == INSTANCE JobQueue WITH
            Jobs <- Requests, job <- [r \in Requests |-> Stage(r)]
ImplementsJobQueue == Life!JobSpec

\* The reports a client gets one after the other go forward: a request that
\* was said to be in process or done is not said to be queued again, as long
\* as no two removals have overlapped.  (When a worker's copy of the process
\* queue has become the status file, a later status_check's copy of that can
\* become the request queue.)
ReportsGoForward ==
    [][~overlapped => \A r \in Requests :
         told[r] \in {"processing", "done"} => told'[r] # "queued"]_vars

\* readme:37, "The client sends the requests periodically until it's request
\* is completed at the server side": it is completed.
EveryRequestIsGraded ==
    \A r \in Requests : new_request[r] = "accepted" ~> r \in graded
=============================================================================
