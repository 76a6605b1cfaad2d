# The autograder in TLA+

This directory specifies, model-checks and proves properties of the autograding
servers of this repository. A client sends a C program over TCP; the server
compiles it, runs it, compares its output with an expected one and sends back a
verdict. The repository keeps several generations of that server: single
threaded, a thread per request, a thread pool, and an asynchronous one whose
clients poll for the result. What is hard is not the grading but its sharing:
threads that grade side by side in one directory and one descriptor table, a
queue with two condition variables, clients that leave, processes that fail
half way.

## 1. Inventory

### Thread-pool server: `threadpool/multiserver.c` (also `version 3/server.c`)

- State: a circular queue of accepted descriptors (`front`, `rear`, `size`,
  `max_size`, an array); one mutex `lock`; two condition variables `it_avail`
  and `sp_avail`; the process's descriptor table; per grading a dozen files
  named after the descriptor (`received_code4.c`, `compiler_error4.txt`, ...).
- Operations: main accepts, waits for room, pushes, signals. A worker waits for
  an item, pops, signals, then receives, compiles, runs, compares, replies,
  closes, and starts again.
- Interaction: main and workers through the queue and the condition variables;
  workers with each other only through files and descriptors; with clients over
  sockets.
- Hard: lost or spurious wakeups; `if` instead of `while` around main's wait;
  reuse of descriptors and hence of file names; running out of descriptors;
  programs that fail silently, never end or print a lot; clients that are gone.
- Correct when: no accepted socket is dropped or shared, the queue is FIFO, no
  wakeup is lost, a client gets the verdict of its own program, every client
  that stays gets one.

### Thread-per-request server: `version 2/server.c`

- State: main's `newsockfd`, whose address every new thread gets; the
  descriptor table; files named after the descriptor.
- Operations: main accepts, creates a thread, sleeps one second, closes the
  descriptor. The thread reads `*fd`, creates the source file, receives, grades,
  replies, closes the descriptor again.
- Hard: what happens when a thread is not finished after the second; the source
  descriptor that is never closed; failures of `pthread_create`, `accept`,
  `send`; `recv`'s -1 in an unsigned variable.
- Correct when: a thread keeps its socket until it has replied, verdicts go to
  the right clients, descriptors come back.

### Servers with fixed file names: `version8/server.c`, `MultiThreading/server.c`

- Drafts of the same design: threads that grade into `file.c`, `file`, `out.txt`,
  whoever submitted. The second neither sleeps nor closes in main.
- State: as above, with one set of files for all threads.
- Hard: gradings that overlap; a descriptor that main closes under a thread and
  that the thread's own `fopen` then gets; `exit(1)` in a thread ends them all.
- Correct when: a verdict is the client's own, the server stays up, and what the
  load test counts is what happened.

### Asynchronous server: `Asynchronous/` (also `version 4/`)

- State: a request queue, a process queue and a status queue, each an object
  with a size and a file behind it (`FileQueue.cpp`), all rewritten through the
  one file `temp.txt`; three locks (`Lock`, `fileLock`, `StatusFileLock`); a
  condition variable; one directory of files per request id.
- Operations: `new_request` stores the source and queues an id; worker threads
  move ids from the request queue to the process queue, grade, append to the
  status queue, remove from the process queue; `status_check` looks an id up in
  the three queues and answers its place or its result.
- Hard: each queue is read and written under different locks; `pop`,
  `removeElement` and the counters disagree (`removeElement` never decreases
  `size_`, while workers wait for the process queue's size to differ from the
  pool's); files survive a crash, counters do not; an id can be in two queues
  or in none while it moves.
- Correct when: an accepted request is always in exactly one place and is
  eventually done, polling reports states in order, a result is delivered once.

### Asynchronous client: `version 4/client.cpp` (also `Asynchronous/`)

- State: its type (0 submits and asks on one connection, 1 asks about an earlier
  id), the connection, the last `receive_type`.
- Operations: connect with retries, send the type, send the file or the id,
  receive a type and then a position or a file, and again.
- Hard: messages without boundaries, in which a receive takes two at once or
  half of one; a server that closes after one answer under a client that goes on
  asking; results of `recv` and `send` that nobody looks at.
- Correct when: it ends, gets the result if there is one, and is told where its
  request is.

### File transfer: `utility.cpp`, and `send_file`/`recv_file` elsewhere

A four-byte size and then the content, in chunks of one byte more than was read,
over a byte stream that may deliver any fragmentation. Correct when the file
received is the one sent and the next message is not eaten.

### Single-threaded servers: `version7/server.c` (also `version1/lab 7`), `version 1/lab 6/server.c`

- State: one connection, `file.c`, the program `file` and its outputs, used for
  every request in turn; the descriptor table.
- Operations: accept, receive with `recv_file`, compile, run, compare, send a
  verdict and a page of details, sleep a second, close; every failure is a
  `continue`, with or without a close, or an `exit(1)`.
- Hard: a client that leaves during its upload or its answer; `recv`'s -1 in a
  `size_t`; files left over from the request before.
- Correct when: what is graded is what was sent, a client that leaves harms
  nobody else, each client gets through.

### TAILQ thread pool: `threadpool/client.c`

- In spite of its name a server: an earlier thread pool. State: a TAILQ of
  connections, a mutex, a condition variable, a file of details per thread.
- Operations: main creates the threads, then initialises list, mutex and
  condition variable, then accepts, inserts and signals, if the list was empty.
  A thread takes one connection, grades it and ends.
- Hard: threads that use the mutex and the condition variable before they are
  initialised; the signal that is left out; details in files that nobody writes.
- Correct when: the list is only touched under the mutex, a connection is in one
  pair of hands, and each is served while there are threads left.

### Load-test clients and scripts

The clients connect, send, wait with a timeout, sleep, repeat and count
successes, timeouts and errors. Those of version 7 and version 8 are modelled
whole, together with their servers; of `multiclient.c` and version 2's client,
the part in the protocol is the environment of the server models. Correct when
each round is counted once and as what it was. The shell scripts start clients
and average what they print.

## 2. Modules

| Module | Models | Lines of code |
| --- | --- | --- |
| `CircularQueue` | `CircularQueue` of the thread pool: `initializeQueue`, `isEmpty`, `isFull`, `push`, `pop` as operators on a record | multiserver.c 15-84 |
| `BoundedFifo` | abstract: a FIFO queue with a capacity | |
| `GradingService` | abstract: what every server promises its clients | |
| `ThreadPool` | main, workers, clients, descriptors and files of the thread pool | multiserver.c 86-284, multiclient.c 66-147 |
| `ThreadPerRequest` | main, threads, clients, descriptors and files of version 2 | version 2/server.c 16-182 |
| `FileQueue` | `FileQueue` of version 4: a file, a counter and the shared temp.txt, cut into the steps other threads can see | FileQueue.cpp |
| `JobQueue` | abstract: the life of a request, forward only, at most once | |
| `AsyncServer` | workers, `new_request`, `status_check`, three locks, crash and restart | version 4/server.cpp 29-291 |
| `AsyncFront` | the accept loop, every connection to the asynchronous server from both ends, the client's whole program | version 4/server.cpp 113-290, 372-411, client.cpp, utility.cpp |
| `FileTransfer` | `send_file` and `recv_file`: chunks, pieces, the extra byte, recv's -1 as a length | version7/client.c, version7/server.c |
| `SingleServer` | the single-threaded server and its load-test clients, byte by byte | version7/server.c, version7/client.c |
| `SharedFiles` | the server with fixed file names, its descriptor table, and its load-test clients with their counters | version8/server.c, version8/client.c |
| `TailqPool` | the earlier thread pool, its late initialisation, its condition variable | threadpool/client.c |
| `MCThreadPool`, `MCThreadPerRequest`, `MCAsyncServer`, `MCAsyncFront`, `MCSingleServer`, `MCSharedFiles`, `MCTailqPool` | instances for TLC: the programs submitted, sizes, symmetries | |
| `CircularQueueProofs` | lemmas about the ring buffer | |
| `ThreadPoolProofs` | types, ownership of descriptors, FIFO refinement, signals, verdicts, reports, refinement of the grading service |
| `ThreadPerRequestProofs` | types, descriptors, one connection at a time, verdicts, refinement of the grading service |
| `AsyncServerProofs` | types, results, grading at most once, the process queue, refinement of `JobQueue`, the order of reports |
| `AsyncFrontProofs` | types, leaks, what ends the accept loop, results that are delivered |
| `SingleServerProofs` | file transfer (quotients, what has arrived), what is graded, leaks, verdicts and counters |
| `SharedFilesProofs` | types, overlapping gradings, what ends the server, the client's counters |
| `TailqPoolProofs` | types, the mutex and the list |

`ThreadPool` extends `CircularQueue` and instantiates `BoundedFifo` and
`GradingService`; `ThreadPerRequest` instantiates `GradingService`; `AsyncServer`
extends `FileQueue` and instantiates `JobQueue`; `SingleServer` extends
`FileTransfer`. `AsyncFront` is the other half of the asynchronous server:
`AsyncServer` has the queues and the workers and leaves the connections out,
`AsyncFront` has the connections and keeps of the queues the stage a request is
at. The program's state is their product, but the two halves only meet in a
push, in three look-ups and in the removal of a status, which both have.

### How the thread pool's model corresponds to the code

`threadPool` is the C structure; its array slots hold descriptors or `Junk`,
what `malloc` left there. `pc[t]` says where thread `t` is. A section between
`pthread_mutex_lock` and `pthread_mutex_unlock` is one action, since nothing
else touches what the mutex guards; `pthread_cond_wait` splits it. Main's
section is `Insert` (room), or `WaitForSpace` then `InsertAfterWait` (no room),
with the push that is *not* preceded by a second test of `isFull`. A worker's
is `Take` or `WaitForItem`; its wait is in a loop, so being woken is to be back
at `take`. A thread waiting on a condition variable is one whose `pc` is `full`
or `idle`; `pthread_cond_signal` picks one of those, if any, in the same
action as the push or pop before it. `SpuriousWakeups` lets waits return
unasked.

`peer` is the descriptor table: the connection each descriptor is for. `accept`
returns any free one: usually the lowest, but files that workers open for a
moment take descriptors too. `code`, `exe` and `report` are the files, indexed
by the number in their name. A grading is `Receive`, `Compile`, `Run`,
`Compare`, `Reply`, `ReplyMore`, `Close`, in the order of the code; what a
program does is abstracted to its kind (`Programs`), and the kinds are those the
code tells apart: compilation errors that fit in one buffer or not, failures
with or without text on stderr, endless loops, wrong and right output. `Terminate`
is `exit(1)` or SIGPIPE. The client's connect, send and timeout are `Connect`,
`Send`, `Leave`.

Abstracted: the text of the reports (what is kept is which program they are about
and which verdict they carry); the files a worker opens for a moment, which are
taken to find a descriptor, so that the calls of `error()` after an `open`
(multiserver.c:124, 144, 168, 190) are not reached; sizes of sources (a source
longer than the 5000 bytes of the one `read` is in `Large` and is graded as cut off,
as a segmented one would be); the queue of `listen`. `MaxSize` is at least 1,
although `atoi(argv[2])` may yield 0 on a bad argument. `getFront` and
`compareContent` are never called by the program and are left out.

### How the thread-per-request model corresponds to the code

`newsockfd` is main's variable and `PickUp` is the thread's `*(int *)fd`, which
reads whatever it holds by then. `Close` acts on the descriptor table and on
whatever connection the descriptor is for at that moment, as close(2) does.
Descriptors are a finite set shared by sockets, the source files that `creat`
opens and nobody closes, and the files the code opens for a moment
(`Cardinality(Free) >= 2` in `Receive` is `creat` plus `fopen`).

Time enters in one place, the guard `SleepIsOver` of main's close. A second is
taken to be long enough to start a thread and to receive a source that was sent
on connecting, always, and to compile and run it unless the connection is in
`Slow`. The directory `./grader` is assumed to exist; the code does not create
it. As long as nothing is `Slow` this server in effect grades one request at a
time: main does not accept while it sleeps.

### How the asynchronous server's model corresponds to the code

`file[q]`, `temp` and `size[q]` are the contents of the three queue files and of
temp.txt and the objects' `size_`. A removal is three steps, as in `removeFirstLine`
and `removeElement`: copy all other lines to temp.txt, delete the file, rename.
`pop` reads and writes the counter of `size_--` at the last and in one more
(`CountDown`), `push` is three, the line (`Push`), the reading of `size_`
(`ReadSize`) and its writing (`CountAndSignal`), because these counters are written
under different locks: a read-modify-write of one can swallow the other's. (The
status queue's counter is never read and is left out.) A line is a request, the
empty string that `pop` returns from an empty file, or a status; when temp.txt is
shared a status line can end up in the process queue, and the model follows it.

A lock is held exactly while some thread is at a step of one of its sections, so
`Lock`, `fileLock` and `StatusFileLock` are predicates. A worker is `PassGate` (the
test of the process queue's size, whose wait nobody ends), `Pop` to `CountDown` or
`FindNoData` and `WaitForData`, `List`, `Grade`, `Unlist` to `RenameProcess`. The
test of the request queue and the wait are two steps, because the signal comes under
another lock. `new_request` is `Submit`, `Push`, `ReadSize`, `CountAndSignal`;
`status_check` is `StartPoll` to `SendResult`, in version 4's order (request queue,
process queue, status); `Asynchronous/server.cpp` starts with the process queue.
`Crash` is a crash and the restart after it: the constructors count the lines of the
files, temp.txt stays.

`overlapped` is history: it becomes true when a thread copies a queue to temp.txt
while another is between its own copy and the end of its rename. Workers cannot
do this to each other, since they rewrite files under `Lock` only (`Rewriting`);
`status_check` removes a status under `StatusFileLock` and can
(`TakeStatus` against `Pop` and `Unlist`, FileQueue.cpp:64 and 113). From then
on what is renamed to one queue's file may be another queue's content.

Abstracted: positions in the reports, details of a result, the seconds-and-random
request ids (taken to be unique, as readme:38 says), and the connections, which
`AsyncFront` has. `ProgramOf(r)` is the program as it arrived in the request's
directory, which for a source of a chunk or more need not be the one that was sent:
the NULs described below for `SingleServer` are in it too (utility.cpp:40-43 and
90). `ResultsDir` says whether `./results/` exists, which the server does not
create.

### How the model of the connections corresponds to the code

A connection has the name of its client, and so have the thread that main creates
for it and the request that this thread queues. Which connection a thread works
on is another matter. `pthread_create` is given the address of `client_sockfd`
(server.cpp:392, 404), and `Start` is the thread's first statement, which reads
that variable: it may hold a later connection by then, or a descriptor that has
been closed. From there on the thread has a number, `sockfd[t]`; `fd` says which
connection a number is for, and a number that was closed may be given to a
later connection by `Accept`. So every action of a thread `t` has a second
parameter, the connection `c` that its number stands for (`Uses`), or `Nobody` if
it is closed: two threads may be on one connection and none on the other, and
one may close what the other works on. `strayed` is history: the threads that
have read another connection than their own.

`inbox` and `outbox` are the messages on their way, in order. A `recv` that finds
what it is made for takes it; one that finds something else takes any number of
messages (`LeftOf`). `recv_file` on the server may leave the byte that `send_file`
adds to the last chunk: it is the message `"nul"`, and the `recv` of an id that
finds it first yields an empty id. An upload is two messages, enough for an end
of the connection in its middle, after which utility.cpp tests the sum of the
bytes and not the last `recv`, and the thread spins for ever; so does a client
when the server ends in the middle of a result (`Halfway`, `"spin"`). Otherwise a
result is one message.

`stage[r]` is where a request is: `queued`, `held` between two queues, `listed`,
`done`, `taken` from the status queue. Workers advance it (`Grade`), at any time or
never. A look-up of a waiting request may miss it, because it reads the file
without a lock, between a worker's `remove` and `rename` or while the file has
another queue's copy in it (`CheckRequests`, `CheckProcess`, `CheckStatus`).
`AsyncServer` has the steps in which this happens; here each look-up may simply
fail. The stage goes forward only: what overlapping removals do to it is
`AsyncServer`'s subject.

`MaxFds` bounds connections and the files that `recv_file` holds open during an
upload; up to `Passing` more are open for a moment, for the queues' files and the
workers. A step that needs a descriptor can succeed as long as there is one
(`CanOpen`) and fail when there may be none (`OpenFails`): `accept`, and with it
the loop; the file of an upload; `push`, which then queues nothing and says nothing;
the result file; `removeElement`, which then takes nothing out, or has. `short` is
history: what was wanted and missing, a descriptor, a thread, or `./results/`,
which nobody creates (`NoDirectory`). `pthread_create` may fail when
`SafeThreads` threads exist, and `assert(rc == 0)` (server.cpp:393, 405) then ends
the server (`SpawnFails`). No thread is ever joined, and `pthread_detach(rc)`
(lines 394, 406) is given 0 and not a thread. That is undefined by POSIX; glibc
finds no thread there and returns an error, so that threads that are `over` still
count.

Both ends can close. `open` are the server's descriptors, `peer` the client's
end as the server sees it, `broken` what the client has had back: a first send to
a closed connection succeeds and resets it, the next ends the client with
SIGPIPE. `MayEndServer` is SIGPIPE in a server that sends to a client that has
gone, or a fault in `recv_file` after a `recv` of -1. That a `recv` returns 0
is no error to the client where it waits for a position (client.cpp:101, 114,
160, 173): it goes on. A client of type 0 that reads `2` copies the file name
from `requestId`, a pointer it has not set (client.cpp:128): it may die of that,
or not (`Die` at `"file"`). `left`, `got`, `delivered` are history.

Abstracted: a thread that is blocked in `recv` when another thread closes the
descriptor is woken with the -1 that the next `recv` would return; a number
closed under a thread may be given to a connection but not to a file; and the
locks are taken to be acquired in the end.

### How the single-threaded server's model corresponds to the code

A file is a number of bytes, since what is received is a beginning of what
was sent. `sent[k]` are the bytes a client has sent of its file on a connection,
`total` those the server has received of it, and a `recv` returns any number of
those in between (`Pieces`). `SendChunk` is a turn of `send_file`'s loop, which
sends one byte more than it has read; `Complete` ends `recv_file`'s loop when the
size is reached, so that the extra bytes of the full chunks stand in for as many
bytes of the file that are not waited for. `Arrived` is how many bytes of the file
are among those received. Replies are `avail` bytes, which the client's two
receives take in any pieces; the verdict, of at most 15 bytes and the first thing sent
on its connection, is one unit of them (`VerdictLength`). The four bytes of the
size are taken to come in one piece; they would not only if a segment boundary
fell inside them.

The byte that `send_file` adds to a chunk is a NUL (version7/client.c:46-48), and
`recv_file` writes what it receives (version7/server.c:48). So there is a NUL in
file.c after each `BUFFER_SIZE - 1` bytes of a source of that length or more. What
the compiler makes of it depends on where it falls: white space with a warning
between two tokens, another string inside a literal. `GradedAs` lets such a source,
and one that lacks bytes, be graded as any program at all; `exe` remembers whose
source was compiled and as what. Only a source shorter than a chunk, whose NUL is
not waited for or ends the file, is graded as the program it is.

A killed client's connection is `gone` (recv returns 0) or `reset` (it returns
-1, which is then a length: `ReceiveError` writes memory into file.c, adds -1 to
the sum, which may pass for complete, or ends the process). `open` are the
descriptors: `OpenFails` is the `fopen` that finds none, `ReplyDetailsFails` the
`continue` that forgets to close. `counted` and `answer` are history.

### How the model with fixed file names corresponds to the code

`file_c`, `exe` and `out` are the files and hold the connection they are about.
`table` is the descriptor table; `accept` and `fopen` take the lowest free one,
`Close` closes whatever a descriptor is for by now. A thread that finds no
descriptor for file.c closes its connection and ends (`OpenSource`,
version8/server.c:25-30 and 64-68); one that finds none for the details reads from
NULL, which ends the server (`OpenDetails`, lines 79-81). A descriptor for file.c
that another thread has closed, or has closed and had again, is not `Writable`: what
is written to it does not get there. Time is the guard `SleepIsOver`, as in
`ThreadPerRequest`: the source has come, unless the client has gone; the grading is
over, unless the client is in `Slow`. A receive of the client returns bytes, the
end, a reset or, for an `Impatient` one, a timeout. `errno` are connections reset by
the server and not yet reported to the client, `dead` those reset by the client, the
first send to which goes unnoticed. `success` and `Error` are the client's counters,
by round; `late` (main closed before the thread was done), `timedOut`, `unserved`
(no thread) and `overlapped` are history that the properties speak of. Sources fit
in a chunk. The clients are the load-test program, which leaves a connection on a
timeout and at the end of a round; that it is killed is not modelled.

### How the TAILQ pool's model corresponds to the code

The section of a grader is cut into `Lock`, `Test`, `Wait`, `Take`, because the late
`pthread_mutex_init` can fall into it; `Create` may fail, and `assert(rc == 0)` then
ends the server (`CreateFails`). What an initialisation does to a mutex or a
condition variable in use is undefined; the model follows the memory: the mutex
becomes free whoever holds it (`raced`), those who wait for it may not be woken any
more (`stuck`) or later (`Unstick`), those who sleep on the condition variable are
`forgotten` and may take the place of a later sleeper when a signal comes
(`Signal`), and so will be one that has registered but not yet released the mutex
when `pthread_cond_init` runs (`lost`). `TakeNothing` is `TAILQ_FIRST` of an empty
list, whose result is dereferenced. `DetailsOf(g)` are the endings for which a file
of details with the number that the code builds happens to exist: the program writes
its details to files named after the thread and opens others
(threadpool/client.c:286); `feof(NULL)` then ends it.

Connections and the files of graders share `MaxFds` descriptors (`Held`): without
one `accept` fails and ends the server, `recv_file` returns an error and the
grader closes and ends (threadpool/client.c:57-62), and the details are a NULL again.
A client that leaves can end the server by SIGPIPE, or by a file of details that
is closed after a failed send and read on, and after a reset what is graded may be junk.

## 3. What the runs show

| Run | Instance | Result |
| --- | --- | --- |
| `PoolSafety` | 2 workers, queue of 2, 4 connections, 4 descriptors, right and wrong programs | holds, 99 000 states with symmetry |
| `PoolHostile` | 1 worker, 4 connections, 3 descriptors, spurious wakeups, clients that leave, verbose and silent programs, a source that is too long, no expected output | holds, 464 000 states |
| `PoolLive` | 1 worker, 4 connections, 3 descriptors, fairness | liveness holds |
| `RequestQuick` | 4 connections of four kinds, 4 descriptors, clients that leave, failing `pthread_create`, nothing slow | holds, 62 000 states |
| `RequestSlow` | 2 connections, one slow | violated: a client reads another's verdict |
| `AsyncGrading` | 2 workers, 3 requests, a crash, no polls | holds, 211 000 states with symmetry |
| `AsyncPolling` | 2 workers, 2 requests, 1 poller, a crash | holds, 6 292 000 states |
| `AsyncLiveness` | 1 worker, 1 request, fairness | violated: the signal is lost |
| `AsyncFront` | 1 submitter, 1 asker, both killable, 3 descriptors of which 1 for files in passing, threads that may not be created after the first, with and without ./results/, fairness | holds, 289 000 states |
| `LabServer` | 2 clients, 3 requests, files of 2 and 4 bytes in a buffer of 3, 1 client killable, 2 descriptors, fairness | holds, 270 000 states |
| `SharedFiles` | 2 clients, 3 requests, one slow, one impatient, 2 descriptors, failing `pthread_create` | holds, 2 105 000 states |
| `TailqPool` | 2 graders, 3 clients, one leaves, 3 descriptors, fairness | holds, 336 000 states |

`CHECK_DEADLOCK` is off everywhere: with finitely many connections the system
rightly stops when all have been served. That nothing stops earlier is what
`NoLostSpaceSignal`, `NoLostItemSignal` and the liveness properties check.

**Thread pool.** `QueueWellFormed`: the two indices and the size agree.
`SocketOwnedOnce`: a descriptor is in one thread's hands or in one place in the
queue; every file name of a grading depends on it. `OpenSocketsAreOwned`: an
accepted and not yet closed socket is always somebody's. It rests on the push
after main's wait finding room (`WakeupMeansSpace`), although the code does not
look again; this is so because main is the only producer and a signal is sent
only after a pop. With spurious wakeups it is not so, and then a socket can be
dropped: hence it is checked in `PoolSafety` only, and the theorem
about it assumes `~SpuriousWakeups`. `NoLostSpaceSignal`,
`NoLostItemSignal`: nobody sleeps over work that is there; a signal sent only
when the queue was empty, the classic mistake, breaks the second.
`ReportIsOfTheClient`, `VerdictForTheRightClient`: files left by an earlier
grading under the same descriptor never answer a later client. `QueueIsFifo`,
`ImplementsService`: refinement of the two abstract specifications.
`EveryClientIsAnswered`, `WorkersServeForever`: under fairness every client that
stays is answered and every worker comes back for the next; one descriptor per
worker, per slot and for main are enough for that.

**Thread per request.** `SocketIsMine`: until it has replied, a thread's
descriptor is for its own connection; `SocketsComeBack`: when main accepts, no
socket of a finished or never created thread is open and a descriptor is free,
so `accept` never fails for want of one, however many sources are left open;
`ImplementsService` as above. The first and the last need gradings
shorter than a second, and `RequestSlow` shows why: with a slow one
`VerdictForTheRightClient` is violated.

**Asynchronous server.** The races of this server lose requests and wakeups
(`AsyncLiveness` shows one); the passing runs check what survives them.
`VerdictForTheRightClient` holds whatever happens, crashes and mixed-up files
included: a result carries its request's name and is never another's. Three
properties hold until two removals overlap in temp.txt (`~overlapped`), with
a poller and a crash. `GradedOnce`: no request is in two workers' hands or comes
back after it has been graded. `ListedWhileGraded`: a request being graded is
in the process queue's file. `ReportsGoForward`: who was told that a request is
in process or done is never told later that it is queued, by polls after the
result too. `ImplementsJobQueue`
is checked without pollers, where removals cannot overlap: a request goes from
queued to running to done, or is lost, and never back.

The condition is necessary, for more requests than a run can have: with five
requests, two workers and one `status_check`, the copy a worker makes of the
process queue is renamed to the status queue's file; a later `status_check`
leaves a copy of that in temp.txt, which a worker's `pop` renames to the
request queue; and a request that was said to be in process is queued
again and can be graded twice. This is a behaviour of the model
that TLC was led through step by step; it is too long for a run.

**Connections of the asynchronous server.** The threads read main's variable by its
address, so nothing here is true of every behaviour; the properties say what goes
wrong only then, and what does not go wrong even then. `OnlyResultsLeak`: every path
of `new_request` and `status_check` closes its connection, whatever the client does
and wherever it dies, except the one that delivers a result, which never does (and a
thread that spins in `recv_file` keeps its own); beyond that a descriptor stays open
only for a thread that has read another connection than its own.
`OrderlyClientsHarmless`: the accept loop is "forever" (server.cpp:372) until a
client dies in the middle, a descriptor or a thread is wanting, or a thread has
strayed; nothing else ends it. `NoResultIsLost`: the status is removed before the
result is sent, and yet, as long as no thread has strayed, ./results/ exists and no
descriptor was wanting, a result that is taken is being sent, has been read, or was
for a client that died. `EveryClientEnds`: clients that go on asking on a connection
closed after the first answer end all the same, or spin in `recv_file`; only where a
thread has strayed may a client wait for ever, on a connection that no thread reads.

**Single-threaded server.** `GradedIsSent`: whatever the pieces in which bytes
arrive, what is graded is from the client whose turn it is, is whole if it fits in a
chunk, and otherwise lacks at most one byte per full buffer. `VerdictIsDeserved`:
with one set of files for all requests and results of `recv` that nobody looks at,
what is run for a client was compiled from its own source; the verdict on a source
that fits in a chunk is its own program's, or a compiler error for one that was cut
short by its sender's leaving; and what is counted as a success had its verdict
sent. About the verdict on a longer source, which has NULs in it, the property says
nothing: a right program may be answered "Wrong output". `OneLeakPerLeaver`: only a
client that leaves costs a descriptor, one each, or the server. `EveryClientEnds`:
nobody waits for ever, those behind a leaver too.

**Fixed file names.** `VerdictUnlessOverlapped`: with one `file.c` for all threads a
verdict is wrong only if two gradings overlapped; the reused descriptors alone,
which main closes under a slow thread, do not suffice. `EndsOnlyFor`: the
server ends only for a slow grading or a client that timed out, and not for want of
a descriptor for the details. `CountsAreRight`:
while neither happens a round is counted exactly once, and a success without a
verdict is one the server closed early or had no thread for.

**TAILQ pool.** `QueueIsSafe`: unless the mutex was initialised while held, the list
is only touched under it, no grader takes from an empty list, and every open
connection is in exactly one place. `SignalledIsServed`: a connection inserted with
a signal is served as long as there are graders, unless one of three causes ends the
process (`CanEnd`: a file of details that is not there, a client that has left, the
last descriptor) or the late initialisation did its harm (`raced`, or a grader
`forgotten`). Those inserted into a non-empty list are not: that the property has to
except them is what the missing signal costs. So the property bounds these defects,
and does not find them: that they happen is in the model.

### Bounds

Two workers and four connections let the queue fill, main wait with a third
descriptor in hand while the workers are still to take the first two, and two
gradings overlap;
four descriptors for four connections force every reuse to be of a number whose
files an earlier grading wrote. One worker with one slot is the smallest
instance in which every wait, signal and wakeup happens, and serves two and more
connections one after the other, so that stale files matter. For the queue, the
proofs replace the bound: they hold for every `MaxSize`. For the
thread-per-request server four connections and four descriptors reach a third
leaked source, at which `fopen` fails, and beyond. For the asynchronous server
two workers reach the gate at every size of the process queue from 0 to 3, pops
overlap with pushes and with another worker's removal; three requests leave one
in temp.txt while one is popped and another pushed. One crash can fall between
any two steps; `MaxPushes` only stops workers that pop empty lines for ever.
With a poller, two requests let it ask about one while the other is popped,
listed or removed, before and after the crash, and let both removals overlap.

For the connections, two clients suffice for one to find the request of the other at
every stage, and for the thread of one to read the other's connection, or a number
that has been closed and is in use again. Three descriptors, one of which may be a
file's in passing, let an upload's file, the file of a result and `accept` find
none, and one safe thread lets the second not be created. A buffer of 3 makes a file
of 2 bytes end in its first chunk and one of 4 take two full chunks and an empty
one, so that the extra bytes stand in for a byte of the file; the proofs replace
these bounds too. Two descriptors are a socket and `file.c`: one leak exhausts them.
With fixed file names, three rounds are one before, one under and one after a slow
grading; two descriptors are the fewest with which a lone thread can grade, a socket
and a file, so that a file of details can get the number of a socket main has just
closed, and a thread that overlaps with another finds none. In the TAILQ pool two
graders and three clients let one grader be asleep, forgotten or in the section
while the mutex is initialised, and leave one client more than graders.

### Fairness

`FairSpec` assumes weak fairness of the main thread's next step and of each
thread's next step: the operating system runs a thread that can run, a mutex
that is free is acquired (critical sections are single actions that are enabled
whenever the mutex is not held), and a system call that can return does. A
client that has connected goes on to send its file, which both client programs
do in the next statement. Nothing is assumed about clients connecting or
leaving, or about spurious wakeups. A program that never ends never enables
`Run`, so fairness does not end it. For the workers of the asynchronous server,
whose sections of `Lock` are several steps long, and for the TAILQ pool's graders,
fairness is strong: a thread that waits for a mutex gets it in the end.

`AsyncFront` and `SingleServer` assume weak fairness of main, of each thread and of
each client (the locks of the asynchronous server's threads, left to `AsyncServer`,
are taken to be acquired in the end); of main's failures only the `accept` that
finds no descriptor has to happen; dying, being killed and being graded are not
assumed to happen, so `EveryClientEnds` does not depend on them. In the TAILQ pool
nobody has to connect, send or leave, and `Unstick` and spurious wakeups need not
come. `SharedFiles` is checked for safety only and assumes nothing.

## 4. What is proved

Every invariant and every safety or refinement property that a passing run
checks is a theorem, for all values of the constants that satisfy the
assumption of the module (`ThreadPoolAssumption` and its like: finite sets of
threads or clients, constants that are distinct, naturals where the code has
sizes) and whatever the interleaving. In particular there is no bound on the
number of clients, requests, workers, descriptors, crashes or bytes. Some
theorems have a hypothesis on top; it is named below, with the reason why the
property fails without it.

### Thread pool (`CircularQueueProofs`, `ThreadPoolProofs`)

`CircularQueueProofs` has slot arithmetic modulo `MaxSize`; `push` and `pop`
preserve `WellFormed`; `PushAppends` and `PopTakesHead` give what they do to the
sequence `Contents`.

- `TypeCorrect`, `QueueStaysWellFormed`, `SocketsAreOwnedOnce`. The last is not
  inductive by itself: nothing in it keeps `accept` from returning a descriptor
  that is still held. `Ownership` adds that held and queued descriptors are
  open, and that a thread holds one exactly between accept and push, or pop and
  close.
- `CircularQueueIsFifo`: `Spec => QueueIsFifo`, spurious wakeups or not: a step
  of the server appends to the queue, takes its head or leaves it.
- `NoSocketIsForgotten`, if `~SpuriousWakeups`, by an invariant that has
  `WakeupMeansSpace` in it. After a spurious wakeup main can drop a socket.
- `NoSpaceSignalIsLost`, `NoItemSignalIsLost`, spurious wakeups or not. The
  argument is a count: while a worker sleeps there are at least as many workers
  on their way to the queue (`Coming`) as items in it, since each push wakes one
  and each pop takes one off both sides; a spurious wakeup only adds to the first.
  `FiniteSetTheorems` gives the cardinalities.
- `VerdictsAreDeserved`, `PoolImplementsService`, when sources fit in one read
  (`Large = {}`) and `expected_output.txt` is there; otherwise a cut-off source
  gets a compiler error, or a wrong output PASS. The inductive invariant
  `Grading` says, for each place in the grading, which of the files named after
  the worker's descriptor are about its own connection; it is preserved by the
  *other* workers' steps because of `Ownership`.
- `ReportsAreOfTheClient`, without those two: whatever is cut off or missing, the
  report a worker is about to send is about its own connection. `Traces` keeps only
  whose files they are and drops what is in them.

### Thread per request (`ThreadPerRequestProofs`)

- `RequestTypeCorrect`.
- `SocketsAlwaysComeBack`, if there is a descriptor at all: at each accept no
  finished thread's socket is open, slow gradings or not. `SocketInv` says who
  may still close what (`Sockets`), and that a connection not yet accepted has
  no trace anywhere (`Fresh`).
- `SocketsStayMine`, `QuickVerdictsAreDeserved`, `QuickRequestsImplementService`,
  if `Slow = {}`. Then main's sleep outlasts each grading, and `Turn` can say
  that only the connection main is at has a thread that has not closed;
  `Grading` and `Answers` follow that one thread through the files. `RequestSlow`
  is the counterexample with one slow connection.

### Asynchronous server (`AsyncServerProofs`)

All for any number of pollers and crashes, unless said otherwise.

- `AsyncTypeCorrect`; `AsyncTypes` adds `Locks`: one worker at most is in a section
  of `Lock`, and in the middle of a pop the counter is not 0.
- `ResultsAreTheRequests`: `Spec => []VerdictForTheRightClient`, overlaps included:
  each status line in any file, in temp.txt or in a copy is right for the request it
  names (`Results`).
- `RequestsAreGradedOnce`: while nothing has overlapped (`Tokens`), a request is in
  one of four places only: with its `new_request` thread, once in the request queue
  or in the copy that will replace it, in one worker's hands, or graded. That the
  files are what their names say rests on `Separate`: without an overlap no status
  removal and no worker's rewriting are going on at the same time.
- `GradingIsListed`: `Listed`. Since lines can be there twice, it is not enough that
  each graded request has a line: there is an injection from the workers that hold
  something into the lines of the process queue, or of the copy that will replace
  it.
- `ReportsAreInOrder`: `Spec => ReportsGoForward`. `Settled` says that every line
  about a request in the process or status files, in copies of them, in a worker's
  hands, in a poll under way or told to a client is about one that has left the
  request queue for good; with `Tokens` it cannot be found there again.
- `RequestsHaveOneLife`: `Spec /\ []~overlapped => ImplementsJobQueue`: initial
  states map to initial states and every step to a step of `JobQueue` or a stutter.
  `WorkersNeverOverlap` discharges the hypothesis when there are no pollers, and
  `WorkersImplementJobQueue` is the refinement that the run checks.

### Connections of the asynchronous server (`AsyncFrontProofs`)

- `FrontTypeCorrect`.
- `LeaksAreResults`, strayed threads included. `Places`: a connection is in the
  backlog once, then main's, then its thread's. `Numbers`: no two open connections
  have a number at a time, nobody has that of a connection still to come, and a
  thread that has not strayed has its own connection's. So a thread closes at most
  one connection, and each that stays open is a running thread's, a result's, or one
  a strayed thread left.
- `OnlyDeathsEndServer`: nothing but a dying client, a missing descriptor or thread,
  or a strayed thread ends the loop. `Talks` is the protocol of the two programs and
  holds as long as nobody has strayed: until its thread is over, a client that has
  not died is still going to receive what the thread is going to send, so no send
  goes to a connection the client has closed.
- `ResultsAreDelivered`: from `Talks`, with `Results` (a message that is a result is
  on its way to somebody who waits for it) and `Taken` (a result that was taken is
  being sent, or was, or its client has died).

### File transfer and the single-threaded server (`SingleServerProofs`)

For every fragmentation and every moment at which clients are killed, under
`BUFFER_SIZE > 1`, and sizes that a `size_t` can count:

- `SmallFilesArriveWhole`, `MissingBytesAreBounded`: when `recv_file` has as many
  bytes as the size, a file shorter than the buffer is there in full, and of a
  longer one at most one byte is missing for each full buffer. Quotients enter by
  the inequalities that define them (`Quotient`, `QuotientIs`, `QuotientGrows`).
- `SingleTypeCorrect`, `GradedIsWhatWasSent`. `GradedIsSent` speaks of the moment of
  grading only; `SingleInv` carries it there: `Sending`, the bytes sent so far are
  full chunks of what has been read; `Carried`, no connection still to be graded has
  more on it than its file's stream; `Received`, file.c has what was received of the
  current connection, and after the loop the size is reached; `Fresh` and `InLine`,
  a connection is made once and is in the backlog or with the server but not both,
  without which another client's steps could change what the server is reading.
  `ChunksOfFile` ties `Sending` to the length of the stream. That a reset connection
  reads as ended with junk in file.c is where `Carried` must except junk.
- `LeaksAreOfLeavers`: by `Turns` each leaked descriptor (`Leaked`, which excludes
  the one in use) is of the connection at which its client was killed, and a
  connection that is waiting to be answered is one the client waits at.
- `VerdictsAreDeserved`: `Deserved` is about what is in the files and on the wire,
  `Counted` about the client's side. Needs `MaxFds >= 2`: with a single descriptor
  the `fopen` of file.c always fails, the server closes on an orderly client, and
  that client counts a success (`OpenFails`). `SmallIsItself` is where the length of
  the source enters: what is compiled as a small file is the program it is.

### Fixed file names (`SharedFilesProofs`)

`SharedTypeCorrect`, `VerdictsUnlessOverlapped`, `SharedEndsOnlyFor` and
`SharedCountsAreRight` have one inductive invariant, `IInv`, because each needs
parts of the others: `Made`, a connection is made, queued and accepted once;
`Gradings`, while no gradings have overlapped there is a single one and file_c, exe
and out are about it, and a thread whose descriptor is another's connection by now
overlaps with that one; `Sharing`, until then all that is open is of the connection
accepted last, and gradings overlap only if main closed early on a slow one
(`late`); `Counting`, what each client waits for or was answered, against its two
counters; `Patient`, while nobody has timed out and nothing was late, nothing is on
a connection that its client does not expect. That the server does not end for want
of a descriptor needs the assumption `Cardinality(Fds) > 1`: by `LoneThread` a
thread without overlap has its socket and nothing else, and finds a second one
(`LoneThreadOpens`).

### TAILQ pool (`TailqPoolProofs`)

`TailqTypeCorrect` and `TailqIsSafe`. `QueueIsSafe` is about the states before the
mutex is initialised while held (`raced`). Besides `Safe` (who is in the section has
the mutex, who takes has found the list non-empty, before the initialisation of
the mutex nothing is raced) `IInv` has `Created`, threads not yet created are
nowhere, and `Places`: an open connection is in main's hands, in the list or
with a grader, in one of them, once.

### Only model-checked

Liveness needs fairness and ENABLED, both out of the prover's reach, and stays
with TLC: `EveryClientIsAnswered` and `WorkersServeForever` of the thread pool,
`EveryClientEnds` of `AsyncFront` and of `SingleServer`, `SignalledIsServed` of
`TailqPool`. The two runs that find a violation have no theorem by nature.

## 5. Disagreements between code and text

With a run: the verdict sent to the wrong client (version 2/server.c:177 against
readme:1); the signal lost between two locks (version 4/server.cpp:280 against
readme:37).

Seen while modelling, without a run of their own:

- thread pool: PASS without an expected output (multiserver.c:204 against the
  message on 205); a program that crashes with nothing on stderr is never answered
  (multiserver.c:172); a source longer than one read is cut off while
  multiserver.c:129 reports it received; a spurious wakeup makes main push into a
  full queue, which drops the socket (multiserver.c:278); a program that never ends
  keeps a worker for ever, against readme:25 (multiserver.c:160);
- thread per request: the source's descriptor is never closed (version
  2/server.c:76); a failed send after RUNTIME ERROR ends the server (version
  2/server.c:106);
- asynchronous server: an accepted request can disappear (version 4/server.cpp:279
  against the message on 282); the process queue's size never shrinks, and a pool of
  one never grades a second request (version 4/server.cpp:119); a poll between
  remove and rename answers "not found" for a request that is queued (version
  4/server.cpp:204 against readme:35); results are lost unless ./results/ exists
  (version 4/server.cpp:236); "server will run forever" (version 4/server.cpp:372)
  until a client dies or descriptors run out; a thread can serve another's
  connection and leave its own to nobody (version 4/server.cpp:392 and 404); the
  client of type 0 names its result by a pointer it has not set (version
  4/client.cpp:128);
- file transfer: "a file of any size" (threadpool/client.c:51) lacks bytes at the
  end when it takes several chunks that arrive in one piece, and has NULs in its
  middle (version7/client.c:46-48 against version7/server.c:48);
- TAILQ pool: the file of details that is opened is not the one that is written
  (threadpool/client.c:286);
- load test: the end of a connection counts as a success (version8/client.c:160).

## 6. Not modelled, and what remains

- `version 1/lab 6/server.c`: one `read` and no size, otherwise the server of
  lab 7. `MultiThreading/server.c`: as version 8 without the sleep and the close
  in main.
- In the asynchronous server, two requests with the same id, and
  `Asynchronous/server.cpp`'s order of look-ups, which finds a
  request that moves from the request queue to the process queue in neither.
- The times and averages of the load-test clients (among them
  multiclient.c's assignment in the place of a test of `errno`): they decide
  nothing.
- Load-test clients of version 8 that are killed.
- Shell scripts, sample submissions, recorded data and binaries, which have no
  behaviour of their own.

What is left to reason about is behaviour after an overlap in the asynchronous
server: nothing but the names and verdicts of results is stated about it, since
requests can be lost, repeated and reported backwards from then on. Safety steps
towards the liveness properties (a step that must lead on is possible whenever its
thread is at it) could be stated as theorems without ENABLED.
