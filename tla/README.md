# Verification of ub-server

ub-server is a small HTTP/1.1 server for static files, in C, with one epoll
instance shared by a pool of threads. `public/` holds a downloaded HTML template
it serves, with the only JavaScript of the repository. This directory holds TLA+
models of the server and of the template's two stateful scripts, the TLC
configurations that check them and proofs for TLAPS. Source paths below are
relative to the repository.

A word on size: the program this repository is about is the C code, about 1950
lines under `src/` and `lib/`. A line count that takes JavaScript for the language
of the repository sees only `public/js`, that is the template: 3375 lines in 15
files, of which the models cover about a third. That share says nothing of
the server, which is where most of the models and of the proofs are.

## 1. The system

| Component | Where | State it keeps | Operations |
|---|---|---|---|
| connection queue | `src/queue_connections.c` | per thread: a binary heap of connections by `priorityTime`, `indexQueue` (descriptor -> slot) | create, enqueue (in `getConnectionOrCreateByFd`), update, dequeue, dequeueByFd, peek |
| event loop | `src/accept_client_epoll.c`, `src/accept_client_thread_epoll.c` | the epoll set and the descriptors (shared), `queueMutex`; per thread: event batch, queue | accept, dispatch, expire, re-arm, close |
| connection state machine | `handleEpoll`, `src/request.c`, `src/response.c` | one queue element: state, request buffer and offset, headers, response buffer and offset, `bodyFd` and offset | recvRequest, processRequest, makeResponse, sendResponseHeaders, sendResponseFile |
| request parsing | `src/request.c`, `src/header.c` | header list; `strtok`'s static position | processRequest, getHeader |
| gzip cache | `makeContentEncoding` in `src/response.c` | files under `cache/gzip` | look up, create, open |
| template responses | `sendAll` in `src/helper.c`, called from `src/response.c` | a counter | one loop |
| logger | `lib/logger/logger.c` | one file descriptor and file name for all threads | getLoggerFileDescriptor, logMessage |
| shutdown | `src/main.c`, `acceptClientsThreadEpoll` | `sigintReceived` | signal handler, wake-up of the threads |
| slide show | `public/js/jquery.flexslider.js`, `custom.js` | the slider object, its interval, the position of the container | timers, ends of animations, keys, clicks, touches, commands |
| portfolio filter | `public/js/portfolio/` | the items on the page, a closure per call | click, end of an animation |
| set-up, options, tables | `src/server.c`, `src/options.c`, `include/` | none after start | |

How they interact. All threads run `handleEpoll` on the same epoll descriptor.
Client descriptors are registered with `EPOLLIN | EPOLLET | EPOLLONESHOT`, so
an event disarms its descriptor and the thread that got it re-arms it when the
response is done. The listening socket is edge-triggered without one-shot. The
queue that times connections out is *private* to a thread, while the
descriptors it names are shared: the same connection may be served by another
thread the next time. Each pass of the loop computes the timeout for
`epoll_wait` from the oldest connection in the thread's queue, closes the
connections whose period has run out, waits, and runs the state machine for
every event of the batch.

What is hard here: two threads and one descriptor (a timeout closes what another
thread works on, the number is reused by the next `accept`); stale entries in
private queues; one-shot and edge-triggered events that are reported once;
requests in pieces and sends that take a part or nothing; the heap and its
index array, two copies of one fact; memory and files an element owns along
every path; what threads share without a lock: `strtok`'s position, the
compressed files, the logger's descriptor and its number; a process that ends in
the middle of writing a file; and, in the browser, handlers that come in any
order over one slider object. `PROJECT.json` lists these hazards with their lines.

What makes each part correct:

* queue: heap and index agree, the root is the oldest connection, nothing is
  leaked or freed twice, moving elements does not lose or re-date a connection;
* event loop: no connection is orphaned, the process does not die on `epoll_ctl`,
  an event is processed by one thread at a time, only idle connections expire,
  every request is read and every idle connection closed in the end;
* state machine: only whole requests are processed, a response is sent once and
  complete, what headers announce is kept, nothing leaks;
* parsing and answering: a request keeps its own headers, a template is sent once,
  a compressed file is complete and of the version it stands for;
* logger: one log is open, lines go to it, nobody waits for its lock for ever;
* life of the process: idle connections are closed in time, SIGINT ends it;
* slide show: the screen shows the current slide, a pause holds, the show goes on;
  filter: the page shows what was chosen last.

## 2. Modules

| Module | Models |
|---|---|
| `KeepAliveTable` | what a queue promises: a table descriptor -> start of its keep-alive period |
| `ConnectionQueue` | the heap and the index array, refining `KeepAliveTable` |
| `ConnectionQueueProofs` | the inductive invariant of `ConnectionQueue` and its theorems |
| `Exchange` | what the server owes a client: whole requests, each answered once, in order |
| `EventLoop` | all threads' `handleEpoll` over the shared epoll set, with clients and a clock; one worker's refines `Exchange` |
| `EventLoopProofs` | the inductive invariant of `EventLoop` and its theorems |
| `ConnectionMachine` | one connection's state machine over a socket that takes and gives parts, refining `Exchange` |
| `ConnectionMachineProofs` | the inductive invariant of `ConnectionMachine` and its theorems |
| `Worker` | one request in a thread's hands, the program counter of the next three |
| `HeaderParse` | the header list and `strtok`, whose position all threads share |
| `SendAll` | the write loop of the template responses, with `size_t` arithmetic |
| `GzipCache` | the compressed files threads create and read |
| `Services` | the three composed: threads that parse, answer and log, edits, restarts |
| `ServicesProofs`, `GzipCacheProofs` | theorems about what threads parse and send, and about the compressed files |
| `Logger` | threads in `logMessage`, midnight, descriptors of the process |
| `LoggerProofs` | the inductive invariant of `Logger` and its theorems |
| `Lifecycle` | time in seconds: `epoll_wait`'s timeout, keep-alive, SIGINT and the main thread |
| `LifecycleProofs` | the inductive invariant of `Lifecycle` and its theorems |
| `FlexSlider` | the slide show of the pages |
| `Quicksand` | the portfolio filter |
| `Page` | the two scripts on the pages of the site, with the browser's fairness |
| `PageProofs` | the invariants of the slide show and of the filter, and their theorems |
| `MC...` | small instances for TLC |

A definition `X_Y` that precedes `X` is a mutant of `X`, a plausible bug. No
specification uses it; it is put in the place of `X` to see that a property
notices.

### ConnectionQueue

The variables are the fields of `struct QueueConnectionsType`
(`connections`, `currentSize`, `indexQueue`), the clock, `died` for `die()`, and
`buffers`, the request buffers allocated minus freed per descriptor. A queue is
used by one thread, so operations do not overlap. The shift-up loops and the
recursion of `heapify` are one iteration per step: `loop`, `at` and `who` are the
local variables of the call in progress, and no operation starts before it
returns. `dequeueConnection` and `dequeueConnectionByFd` share `RemoveAt`.
`getConnectionOrCreateByFd` for a descriptor that is in the queue changes nothing
and is no step. `getConnectionByFd` and `updateConnectionByFd` have no caller.
The clock does not go back (see the observations in section 3 for when it does).

### EventLoop

`workers` is the set of threads the main thread created, one per processor: any
number up to that of `Threads`. A thread's step ends at each system call others
can see. `pc` names the place in
`handleEpoll`: `top` (clock and timeout), `expire` and `expireClose` (the loop at
lines 39-58, with `queueMutex` held from `EPOLL_CTL_DEL` to `close`), `wait`,
`dispatch` (the loop over the batch), `accept` and `add` (`acceptEpollConnection`),
`recv`, `send`, `rearm`, `del` and `close` (the state machine). The queue is the
table of `KeepAliveTable`, one per thread: what `ConnectionQueueProofs` shows of
the heap is what justifies this. `epoll` is a registration per descriptor. A
failing `epoll_ctl` is `die()`, with the errors the code accepts accepted.

Abstractions: the order of events in a batch and the number `accept` returns are
arbitrary; the states between the first byte and the last are one receive loop
and one send; the memory behind the request buffer holds no end of a request
(`ConnectionMachine` has that case); a connection is used by one member of
`Clients`, and a client that comes again is another member; the clock stops at
`MaxTime`, which stands for all later times, so a finite timeout may end there;
`Peek` is the exact minimum, which the heap provides for up to five connections
(section 3, `queue_six_fds`); a peer that has closed is always reported with
`EPOLLIN`, as Linux does for TCP.

### ConnectionMachine

One connection, with the fields of the queue element as variables; pointers and
`bodyFd` are reduced to whether they are set, strings to lengths in units. The
client sends a request unit by unit, reads the response unit by unit, asks again
on the same connection when it has an answer, and may close at any time. `room`
is the free part of the socket's send buffer: `send` and `sendfile` take
`min(left, room)` and fail with EAGAIN when there is none. An EAGAIN that leads
back to the same call without any effect is not a step. `leftover` is the
position of a CRLF CRLF in memory that `malloc` returned, an undefined value, so
any member of `Leftovers`. History variables count what is allocated (`paths`
for `path` and `absolutePath`), opened (`files`) and sent (`hdrOut`, `bodyOut`).
The EAGAIN branches that complete a request or a response, and the branch for
`bodyFd == -1`, are not reachable: the same test has been made after the last
successful call. Error pages are assumed to exist. The file is not the
server's alone: `EditFile` lets it have any other length at any moment while it is
open (`fileLength`, with `bodyLength` as `fstat` gave it), since an editor may write it
in place and another thread may create its compressed copy anew. A path may also name a
directory, which `open` and `fstat` accept: `sendfile` then fails, unless the
client takes gzip, for then `read` fails and a compressed copy of nothing is sent.
What libmagic says of a directory is outside the model.

### Exchange

The abstract specification of both `EventLoop` and `ConnectionMachine`. A client has
a phase (`idle`, `recv`, `send`, `done`, `over`) and a request that has been sent not
at all, partly or whole. Only a whole request lets the server go from `recv` to
`send`, an answer ends the request, and nothing follows `over`. The two detailed
modules look at it from two sides. `ConnectionMachine` maps the states of one
connection to the phases (both send states are `send`, `DONE_FOR_CLOSE` is `over`):
`ImplementsExchange`. `EventLoop` maps where the threads are with the descriptor of a
client, for all clients at once: `ExchangeAlone`, for as long as there is one worker.
With two threads it fails: A's stale entry closes the descriptor B is serving, and B
reads or answers on a number that is another client's by then (`loop_reuse` is the
shortest form of it). So the `recv` and `send` of `EventLoop` and the state machine
they stand for keep the same promise.

### Services

`Worker`, `HeaderParse`, `SendAll` and `GzipCache` share `pc` and `request` and are
composed in `Services`; each action changes its own module's variables. A request
is a kind and a sequence of header names. `strtok` is two steps: it reads `olds`
when it is entered and writes it when it returns, and a position points into a
text, to a zero another thread has written, or into a text that is gone (the
array was on the stack of a thread that has returned), where anything may be
found. `sendAll` sends `count` bytes from the beginning of the buffer in every
turn; `leftToWrite` is modulo `SIZE`. The cache has one source file. A version of it
has a number and a length in chunks, and an edit may change both: `EditSource` writes
in place, so that threads that have the file open see the new contents from then on,
and `ReplaceSource` renames another file over it, which they do not see and which
brings an access time of its own. A compressed file is a sequence of chunks, each with the version
it was read from, or a hole where a writer whose file was truncated went on at its
old position. zlib writes what it holds at any time before `gzclose` returns. The
access time follows `relatime`: it changes at most once after each edit, or never
(`noatime`). `Restart` ends the process at any moment and keeps the files. Histories
(`mixed`, `short`, `raced`, `torn`, `blended`) record which disturbance a request
or a file met, so that the properties can say what holds without it.

### Logger

A step ends at each access to what threads share: the comparison of the names
outside the lock, the test of `initialized`, the lock, the second test with the
path of the day, `close` and the new name, `open`, the unlock, and the reading of
`LOGGER.fileFd` behind it. Descriptors are numbers of the process and the kernel
gives out the lowest free one, to `open` as to `accept`; the first call closes
number 2. `aio_write` writes to whatever the number is open on.

### Lifecycle

`age` is the queue of a thread by age in seconds, `left` what is left of its
`epoll_wait`, `events` the rest of its events. The timeout and the connections
that are closed are those of the root of the heap. `Roots` is what the queue offers for
it: the oldest connections as long as there are at most five (`OldestOfFive`), any
connection otherwise (`queue_six_fds`). Serving a request may take seconds, as the
EAGAIN loops wait for the client; `stalled` counts them, up to `MaxStall`. All else is
prompt: a second passes only when every thread waits or serves. A signal interrupts `epoll_wait` (with `SA_RESTART` too) and has no effect on
a thread elsewhere; `pthread_kill` of a detached thread that has ended is
undefined, so it does nothing or ends the process. `usleep(100000)` is over when no thread
has anything to do but wait or serve.

### FlexSlider, Quicksand and Page

The methods of the slider object are operators from slider to slider, an action is
one event of the browser with all its handler calls. Positions are slide widths
along the strip of slides and clones. `moving` is an animation or a transition in
progress; a transition to where the container is does not start and gives no
event, jQuery's `animate` always ends. `leaked` is an interval nobody has the
number of. `Quicksand` keeps the closure of every call: what it wants to show
(`dest`), whether its `postCallback` has run and how many of its animations do;
`stop` ends those of elements on the page and not those of removed ones. `Page` puts
either on its page. Whether the style sheets show the slider (`is(':visible')`) is a
property of the browser that does not change. The slider of the site is `#main-slider` of `index.html`, with
the defaults; the other option sets of `MCPage` are the plug-in's documented ones.
Carousels, `sync`, `asNavFor`, `smoothHeight`, `addSlide` and `removeSlide` are
used by no page and are left out.

## 3. Runs

Bounds are chosen so that each case happens: removal in the middle of the heap
with both children present, descriptors that are reused, a batch of several
events, periods that run out, partial sends in headers and body, two creators of
one file, a midnight between any two steps, a signal at any point of the loop.

| Run | Instance | Checks |
|---|---|---|
| `queue` | 5 descriptors, capacity 6, times 0..3 | `TypeOK`, `IndexCoherent`, `BuffersBalanced`, `PeekIsOldest`, `NeverFull`, `ImplementsTable` (refinement) |
| `queue_six_fds` | 6 descriptors, times 0..1 | `PeekIsOldest` is violated |
| `loop` | 1 or 2 threads, 2 descriptors, 2 clients, 2 pieces, 2 requests | `NoOrphan`, `BacklogWatched`; with one thread `ArmedWhenProcessedAlone`, `NeverDiesAlone`, `OnlyIdleExpireAlone`, `ExchangeAlone` (refinement) |
| `loop_live` | 2 threads, 1 client, 2 requests | `RequestRead`, `ServedIdleClosed` (liveness) |
| `loop_reuse` | 2 threads, 1 descriptor, 2 clients | `ArmedWhenProcessed` is violated |
| `machine` | requests of every kind, directories too, buffer 5, 3 header units, send buffer 2, edits at any time | `TypeOK`, `ResponseWhole`, `FilesBalanced`, `SinglePath`, `KeepAliveKept`, `Answered` (liveness), `ImplementsExchange` (refinement) |
| `machine_leftover` | memory with an old CRLF CRLF | `WholeRequest` is violated |
| `services` | 2 threads, 3 requests, files of 1 or 2 chunks, 1 edit, `size_t` of 2 bits, 4 units sent | `HeadersOwn`, `TemplateOnce`, `CacheWhole`, `BodyWhole` |
| `gzip_stale` | 1 thread, 1 edit | `FreshBody` is violated |
| `logger` | 2 threads, 3 descriptors, 1 client, 2 days | `OneLogFile`, `NameNotAhead`, `LinePlaced`, `CallEnds` and `LogCatchesUp` (liveness) |
| `lifecycle` | 2 threads, 2 connections, 2 seconds of keep-alive, 1 second of serving | `ClosedInTime`, `LeftBehind`, `SigintEnds` (liveness) |
| `page` | 3 slides, 10 option sets, 9 browsers; the 8 items of `portfolio.html`, 3 clicks | `ShownIsCurrent`, `PauseHolds`, `NoWrap`, `AnimationEnds`, `ShowGoesOn`; `FilterShown`, `ClickTakesEffect` |

Why the bounds are enough: two threads are the fewest that race and the shared
state of `Services` and `Logger` has one writer against one reader or writer; two
chunks tell a whole file from a cut one and one with a hole, and with the lengths 1 and 2 an
edit makes the file longer or shorter; of the three requests of `services` one takes
gzip, one has no headers and gets the file as it is, one gets a template; four units are twice
a template and wrap `size_t` once; with two days every step of a call can be on
either side of midnight; in `lifecycle` the bound is proved for up to five
connections, and `MaxAge` lies above it so that a violation is
seen (without a stalled second it is met with two connections, with one it takes
three); three slides give two ends and a middle, and three clicks let two calls be
overtaken.

The type invariants of `EventLoop`, `Logger`, `Services`, `Lifecycle` and `Page` are
in no configuration. Those of `EventLoop`, `Logger` and `Lifecycle` are proved
(section 4), and of the others the parts that matter (the slide number, the counter of `sendAll`, the
contents of a file).

Symmetry is used where descriptors, threads and clients are interchangeable and
no liveness is checked. Deadlock is checked for the queue and the logger. It is
not for the others: an idle server waits for ever, a closed connection is at its
end, a thread may find no bound left (`services`), a process that has ended does
nothing, and a page at rest waits for its visitor.

What the violations say:

* `queue_six_fds`. `dequeueConnectionByFd` puts the last element into the freed
  slot and only sifts it down. When it is older than the slot's new parent it
  has to go up; it does not, and a later removal makes a younger connection the
  root. The loop then looks at the wrong connection first and an expired one
  waits longer. A heap of five is too small for it.
* `loop_reuse`. Thread A answers a request and keeps an entry with that time;
  thread B gets the next one. A's entry runs out and A closes the descriptor while
  B still has the event: the number goes to a new client, is armed, and can be reported while B processes the old event on
  it. The same stale entries can end the whole server, see below.
* `machine_leftover`. The search for the end of a request reads what was in
  memory before. `updateQueueConnection` frees the buffer and allocates one of
  the same size, so it is likely to be the same memory with the last request.
* `gzip_stale`. The name of a compressed copy holds the access time of the file.
  Saving the file does not change it, and reading it changes it at most once and
  only afterwards, so the first request after an edit finds the copy of the old
  version and sends it under the new version's last-modified date.

**With two or more threads the server can kill itself.** A failing `epoll_ctl` is
`die()`, which ends the process for all clients, and the stale entries of the private
queues lead to it without any fault of a client. TLC finds two ways in the model of
`loop_reuse` (two threads, one descriptor) when it is asked for `~died`:

1. Thread A answers on a descriptor and keeps an entry for it; thread B gets the next
   request on it and answers. Before B re-arms the descriptor A's entry runs out, and
   A removes it from the epoll set and closes it. B's `EPOLL_CTL_MOD` fails with
   EBADF (`src/accept_client_epoll.c:141`, `die` at 246). B's own test
   `existsConnection` looks at B's queue, where the entry still is.
2. B closes the descriptor, outside `queueMutex`: between its `EPOLL_CTL_DEL` and its
   `close` A's entry runs out, and A's `EPOLL_CTL_DEL` on the descriptor, open but
   no longer registered, fails with ENOENT (line 53, `die` at 220).

It takes a request that reaches its answer as the keep-alive period of another thread's
entry ends, that is a connection in use for longer than `KEEP_ALIVE_TIMEOUT`. One worker is safe, which
is proved (`NeverDiesAloneHolds`); the server starts one per processor.

What the properties leave open says as much. With one thread (`...Alone`) the
loop's properties hold over reuse of descriptors: the design is sound until the
queue is private and the descriptors shared. The exceptions in the other
properties are what the code does:

* `KeepAliveKept`: a connection whose headers announced keep-alive is closed when
  `sendfile` returns 0, which is taken for a client that has gone: for an empty file,
  and for one that has become shorter since `fstat`, after a body that is too short. It is
  also closed when `sendfile` fails, which it does for a path that is a directory. A request that fills the buffer has its terminating zero written
  behind it (`received = BufferSize`).
* `HeadersOwn`: two threads that parse at the same time get
  headers of each other's clients, of texts that are gone, or too few.
* `TemplateOnce`: after a partial send the template is sent again from its start,
  until the unsigned counter happens to be 0 or the socket would block.
* `CacheWhole`: a process that ends while it creates a compressed file
  leaves a part of it that every later request is given. An edit while the file is
  compressed needs neither a crash nor a second thread: chunks of two versions follow each
  other, or the end of the shorter one is the end of the copy, which stays as it is
  under its name. Two threads that create one name from two versions (the file was
  replaced between their `open`s) may leave a mixture, or the rest of the
  longer behind the shorter.
* `BodyWhole`: a compressed body has these faults too, and is cut when another
  thread creates the file while its length is taken or before it is sent. An uncompressed one
  is cut, or has chunks of two versions, when the file is written in place between
  `fstat` and `sendfile`; a file that is replaced by a rename is sent whole, as the
  version that was opened.
* `LinePlaced`: a thread that has read `LOGGER.fileFd` when another closes it writes
  its line to the next owner of the number, which may be a client.
* `ClosedInTime`: the bound is `3 * (KEEP_ALIVE_TIMEOUT - 1)` seconds (one second
  for a period of one) rather than `KEEP_ALIVE_TIMEOUT`, because the timeout is the age
  of the oldest connection, taken before that one is closed. Each second that the
  thread spends on requests adds two: both ages grow, and the next wait is as long as
  one of them. That is not made up for later. A connection that is late hands its
  age on as the timeout of the next wait, so the seconds add up until the queue is empty once
  (`stalled`); a bound by the longest single stall is false, as TLC shows. The code bounds neither
  how long a request takes nor their sum, so under steady load with slow clients there
  is no fixed bound. And all this is for queues of five at most: beyond that an old
  connection may sit below a younger root (`queue_six_fds`), and nothing is claimed. With a
  connection of the current second the timeout is 0 and the thread does not sleep at all.
* `LeftBehind`: a signal between the test of `sigintReceived` and `epoll_wait` is
  lost for that thread; the process ends all the same (`SigintEnds`), with its
  memory not freed.
* `PauseHolds`: the timeout of `initDelay` plays although the visitor has paused, and
  it or a `"play"` command can leave a second interval that no pause stops.
* `NoWrap` excepts `startAt`: `slider.last` is undefined when `init` computes `atEnd`,
  so a slider that starts at its last slide without a loop goes round once. It
  excepts numeric commands, which use the direction of an earlier step.
* `Draggable` in the slider's properties: on a touch screen with transitions the
  first tap leaves `dx` undefined and the slider set to animate for ever, and a drag
  that becomes scrolling leaves it between two slides. The site's slider fades.

Observed while modelling, and in no run:

* A client that connects and sends nothing is in no queue and is never timed out
  (`src/accept_client_epoll.c:78`).
* A stale entry in the private queue of a thread closes a connection that another
  thread has just answered on, although it is not idle; `loop_reuse` is the worse
  outcome of the same cause.
* A request without headers is processed again after every EAGAIN of
  `sendResponseHeaders` (`requestHeaders == NULL` is taken for "not processed yet"),
  and leaks its paths each time.
* When the wall clock is set back the shift-up loops of the queue turn, and write
  `indexQueue` for the element they move and not for those they displace.
* A slider that the page does not show does not move (`ShowGoesOn` excepts it), its
  interval runs all the same.
* A resize while the slider animates is dropped and not made up for; the pause
  button says "pause" also when `slideshow` is off, and a first click then pauses
  what does not play; data-ids of `portfolio.html` are not unique, so items are
  there several times during an animation.

### Fairness

`EventLoop!FairSpec`: weak fairness of each thread's steps (the scheduler runs a
thread that can run; `epoll_wait` returns when an event is ready or its time is
over) and of the clock. `ConnectionMachine!FairSpec`: weak fairness of the thread,
and of the client's reading, since a client that never reads keeps the thread in
its EAGAIN loop for ever; clients owe nothing else. `Logger!FairSpec`: a call that
was begun runs on, and nobody has to begin one; weak fairness is enough for the
lock since a call that waits for it waits for calls that end, and days are
bounded. `Lifecycle!FairSpec`: threads that can run do, the main thread too, and a
request that is served ends; clients owe nothing. `Page!Fairness`: the browser's
timers, animations and transitions end; nothing of the visitor. `RequestRead` is checked for
requests that arrive whole: a client that stops in the middle of a request keeps
its thread in `recvRequest` (EAGAIN leaves the state at RECV and the state machine
repeats), and the other clients of the batch wait with it. `BacklogWatched` is
checked with a descriptor for every client: when `accept` fails with EMFILE the
edge is consumed and the backlog waits for the next connection.

## 4. Proofs

### ConnectionQueue

`ConnectionQueueProofs` proves, for every finite set of descriptors and every
capacity above its cardinality:

| Theorem | Statement |
|---|---|
| `TypeCorrect` | `Spec => []TypeOK` |
| `Coherence` | `Spec => []IndexCoherent` |
| `Balance` | `Spec => []BuffersBalanced` |
| `Room` | `Spec => []NeverFull` |
| `Refinement` | `Spec => ImplementsTable` |
| `OldestUnlessMisplaced` | `Init /\ [][Next /\ ~Misplaces]_queueVars => []PeekIsOldest` |
| `OldestOfFive` | at most five descriptors imply `Spec => []PeekIsOldest` |

The only assumption is `QueueAssumption`: finitely many descriptors, fewer than
`Capacity` (both arrays have `MAX_EPOLL_EVENTS` entries, and `indexQueue` is
indexed by descriptor, 0 not being a client).

`IndexCoherent` is not inductive: it speaks of the moments between operations,
and a call in progress is between two of them. `IndInv` is about every state:
every element is a client with a time of at most `now` (`Elements`); the only
shift-up is that of a new element, in the last slot and without an entry
(`Enqueuing`); `heapify` is at a slot of the heap (`Sifting`); every slot but the
one being enqueued is where its descriptor's entry says (`SlotIndexed`), every
entry names a slot of its descriptor (`EntryFilled`), and the buffers are those of
the descriptors with an entry and of the one being enqueued (`BufferOwned`). The clock is what makes `Coherence`
true: as all queued times are at most `now`, a new element is never earlier than
its parent, the shift-up loop does not turn (`ShiftUpStays`), and its missing
writes to `indexQueue` do no harm. `Room`
counts: queued slots map one to one to descriptors, so there are fewer than
`Capacity`. `Refinement` maps a descriptor to the time of the element its entry
names; a new element joins the table when its entry is written, at the end of
the shift-up, heapify steps change nothing.

`PeekIsOldest` is false from six descriptors on (`queue_six_fds`). The two theorems
about it say why, and that nothing else is wrong with the order of the heap. A
removal *misplaces* when the last element, put into the freed slot, is earlier than
that slot's parent (`Misplaces`): it would have to go up, and
`dequeueConnectionByFd` only sifts down. Without such a step the order survives every
operation. `HeapOrder` is the order in the middle of `heapify` too: no slot is
earlier than its parent, except that the slots below `at` are compared with the
parent of `at`, since the element at `at` is still on its way down. `RootIsEarliest`
turns the order between neighbours into one about the root: of the slots earlier
than the root take the first; its parent is not earlier than the root, so it is
earlier than its parent, which the order excludes (the least such slot exists since
`<` on the naturals is well founded; no induction over the heap is needed). With
at most five elements no removal misplaces (`FiveInOrder`): the freed slot is below
the root, which is the earliest, or it shares its parent with the last slot.

### ConnectionMachine

`ConnectionMachineProofs` proves, for every set of requests and all sizes of the
buffers, the headers and the bodies:

| Theorem | Statement |
|---|---|
| `TypeCorrect` | `Spec => []TypeOK`: the offsets stay inside their buffers and the file |
| `WholeResponses` | `Spec => []ResponseWhole` |
| `FileBalance` | `Spec => []FilesBalanced` |
| `PathOnce` | `Spec => []SinglePath` |
| `KeepAlivePromise` | `Spec => []KeepAliveKept` |
| `WholeRequests` | `Leftovers = {0}` implies `Spec => []WholeRequest` |
| `MachineExchange` | `Leftovers = {0}` implies `Spec => ImplementsExchange` |

They assume `MachineAssumption`: sizes are not 0, a request is at least as long as
its first line, and one without headers asks neither for keep-alive nor for gzip.
It may be longer than the buffer. None needs fairness. `WholeRequests` and
`MachineExchange` need that `malloc` returns no memory with the end of an older
request in it, which the code does not ensure: `machine_leftover` is the run without
it.

`IndInv` says for each state which fields of the connection can be set. A
connection in `STATE_CONNECTION_RECV` or freed is as `emptyConnection` made it
(`InRecv`, `Places`). In `STATE_CONNECTION_SEND_HEADERS` the file is open exactly
when there are headers to send, and the offset is below their length and equal to
what has been sent (`InSendHeaders`); `InSendBody` and `InDone` continue this for the
file. These four make `ResponseWhole` and `FilesBalanced` inductive: alone, they say
nothing of how much is sent half way through. `Conserved` accounts for each unit of
a request: it is with the client, in the socket or in the buffer. So a thread that
reads something reads it of a request, and never more than that request.
`KeptWhole` says that only a whole request can ask for keep-alive, and `PathsMade`
when a path has been made before: both carry what `processRequest` did in an
earlier turn to the turn in which it is used.

`MachineExchange` is by steps: each action moves the one client as an action of
`Exchange` does, or leaves its phase and request alone (`MachineServes`). The step that
needs an invariant is the one into `send`. The abstract guard asks for a whole
request and the code has only the buffer to look at; `Conserved` says that what is
in the buffer has been sent, and `WholeSent` that the request stays whole until
it is answered.

### Logger

`LoggerProofs` proves, for any threads, any finite set of descriptors and any
number of days:

| Theorem | Statement |
|---|---|
| `LoggerTyped` | `Spec => []TypeOK` |
| `OneLogFileHolds` | `Spec => []OneLogFile` |
| `NameNotAheadHolds` | `Spec => []NameNotAhead` |
| `LinePlacedHolds` | `Spec => []LinePlaced` |

`LoggerAssumption` asks for a descriptor more than the clients and the log can
hold: `open` is never refused for want of a number.

The properties speak of the moments in which nobody opens the log; the invariant
says what holds in between. The lock is held exactly by the thread at one of the
labels inside it (`LockOwned`), so at most one is between `close` and `open`.
There no descriptor is the log's, and otherwise the one in `LOGGER` is and no
other (`Placed`); this rests on a free number for `open` (`LowestFree`), which
`FewClients` guarantees by counting. `FlagDown` says why the unlocked test of
`initialized` is harmless: while a thread is between `close` and `open` the flag
is down. `Dated` orders the name of a call, the path it computes later and the
clock. `Uncrossed` carries from a thread's test of the flag to its write that the
log is not older than its name, as long as no other thread opened the log
meanwhile.

### Services

`ServicesProofs` and `GzipCacheProofs` prove, for any threads and requests:

| Theorem | Statement |
|---|---|
| `TemplateOnceHolds` | `ServicesSpec => []TemplateOnce`, for any length, range of `size_t` and sends |
| `HeadersOwnHolds` | `ServicesSpec => []HeadersOwn`, for any number of headers |
| `CacheWholeHolds` | `ServicesSpec => []CacheWhole`, for any lengths, edits and touches |
| `BodyWholeHolds` | `ServicesSpec => []BodyWhole`, likewise |

Assumed: a template is not empty and shorter than the range of `size_t`
(`SendAllAssumption`), lengths are natural numbers, 0 among them or not (`GzipCacheAssumption`), requests
have a kind and a sequence of names (`WorkerAssumption`).

*sendAll*: `leftToWrite + delivered` is `Count` modulo `SIZE` (`Balance`), whatever
`send` takes and however often the counter wraps; a thread without a partial send has sent all
or nothing (`AllOrNothing`).

*strtok*: of two threads that parse at the same time both are marked
(`BothMixed`). One that is not marked is therefore alone with `strtok`'s
position, which is where its own last call left it, and its list is what it has
walked over so far, backwards (`Walking`).

*Compressed files*: several threads may create one file, each emptying what
another has written. The invariant follows the last one to empty it. All that one
has written since is still there, whatever the others write at their old
positions (`Leader`, with `WriteAtResult` for what a write behind the end leaves).
When it closes the file it has read its source to the end and written all of it. That
the others have not written *more*, or something else, needs the versions:
threads that compress the file under one name have the same version open (`OneSource`), and
what they hold and have written is of that version (`OneVersion`), unless an edit came
between, in which case the name is in `blended`. So all positions are within one
length, and the file is the copy of that version. `FullLength` is what `fstat` found for a
response that nobody raced.

### Lifecycle

`LifecycleProofs` proves, for any threads, connections and period:

| Theorem | Statement |
|---|---|
| `LifecycleTyped` | `Spec => []TypeOK` |
| `ClosedInTimeHolds` | `Cardinality(Conns) <= 5` implies `Spec => []ClosedInTime` |
| `LeftBehindHolds` | `Spec => []LeftBehind` |

`LifecycleAssumption`: connections are finitely many, the period is at least a second and
the bound `MaxAge` of the model lies above the age the property allows for `MaxStall`
stalled seconds, so it hides nothing; `MaxStall` is any number.

The bound was found by the proof, and corrected by TLC when serving was given time: one with
the longest stall in place of their sum was violated. The argument: with at most
five connections the loop closes all that are due (`AllDueClosed`), so what is in the queue
when a wait begins is younger than a period, and two ages differ by at most
`KEEP_ALIVE_TIMEOUT - 1` from then on (`Waiting`). The next timeout is the age of
the oldest, taken before the old ones are closed; without stalls that is at most twice
`KEEP_ALIVE_TIMEOUT - 1`, or the age of one that was late, and then the others have
just been used. A connection that stays and any other are together at most three times that
old (`Awake`), so the wait ends before the first is older. A stalled second
adds one to both. `Warned` says that a thread signalled and about to wait
missed the signal.

### EventLoop

`EventLoopProofs` proves, for any threads, descriptors, clients, requests, pieces
and times:

| Theorem | Statement |
|---|---|
| `EventLoopTyped` | `Spec => []TypeOK` |
| `NoOrphanHolds` | `Spec => []NoOrphan` |
| `ArmedWhenProcessedAloneHolds` | `Spec => []ArmedWhenProcessedAlone` |
| `NeverDiesAloneHolds` | `Spec => []NeverDiesAlone` |
| `OnlyIdleExpireAloneHolds` | `Spec => OnlyIdleExpireAlone` (an action property) |
| `ExchangeAloneHolds` | `Spec => ExchangeAlone` (a refinement) |
| `BacklogWatchedHolds` | `Enough` implies `Spec => []BacklogWatched` |

`EventLoopAssumption`: sets of threads and descriptors are finite, sizes and the
period are positive. `Enough` says that there are finitely many clients and a
descriptor for each. `BacklogWatched` needs it: with fewer, `accept` fails with
EMFILE, and the edge of the listening socket is spent.

`Typed` adds to the types that a thread at work has a descriptor (`Owned`), that
it has no events left when it begins another turn (`Turned`), and that nothing is
noted in the future (`Past`, which makes the timeout a natural number). `NoOrphan`
is then inductive by itself: the step of a thread changes no other thread's hands
(`OthersStay`) and does not let go of a descriptor that it neither re-arms nor
closes (`NotDropped`). What holds of a single worker is `Sole`: registered are the
open descriptors but the one it is about to add or to close (`Registered`), the
events it has are of disarmed ones, of each once (`Disarmed`), its queue has only open
ones (`QueueOpen`) with the time of their last response (`QueueRecent`). Each of
these fails as soon as a second thread closes a descriptor (`loop_reuse`).
`OneSocket`, a client has at most one descriptor, is needed for all of them, and
with `Enough` it yields a free descriptor for every client in the backlog
(`DescriptorFree`, by counting), so that a thread that accepts goes on until the
backlog is empty.

`ExchangeAloneHolds` needs one more fact. The worker decides by what is in its
buffer (`got`), the abstract guard is about what the client has sent (`asked`), and
the descriptor between them may have had another owner. `AccountedFor` says that a
piece of an unanswered request is in the client's socket or in the buffer of the
worker that reads it, and that nothing is left of a request that is being answered.
It is inductive for a single worker with `Sole`. Then each step of the worker changes
the phase of the client it works on and of no other (`PhaseOfAttended`,
`PhaseOfOthers`), the client's by one move (`WorkerServes`), and the clients' own steps
are sends or the end of a connection (`ClientServed`).

### The page

`PageProofs` proves, for any number of slides from two on, any options and
browsers, any items and any number of clicks:

| Theorem | Statement |
|---|---|
| `ShownIsCurrentHolds` | `Spec => []ShownIsCurrent` |
| `PauseHoldsHolds` | `Spec => []PauseHolds` |
| `NoWrapHolds` | `Spec => NoWrap` (an action property) |
| `FilterShownHolds` | `Spec => []FilterShown` |

`SlidesAssumption` and `QuicksandAssumption` give the constants their types; the
type of an item is one of the filters.

`SliderInv` says of the slider object that without an animation the current slide
is the one animated to last (`Rests`), that `atEnd` is right about it (`EndsKnown`), and
where the container is: at its slide, at the slide it animates to, or, when it
goes round an end, perhaps at the clone (`Placed`). `EndsKnown` is what `NoWrap` rests on.
`ShowInv` says of a show without `initDelay` and commands that the interval runs exactly when
it plays (`Silent`), and why `play` is not called twice: nothing plays when the
button offers to play, nor under the mouse when nobody has used the button. Each method has a lemma
(`FlexAnimate`, `WrapupKeeps`, `PauseStops`, `PlayStarts` and others), each handler
composes them. `FilterInv`: a call that was overtaken has no animation left that
could run its callback, unless it has run, and the last call holds the items of
the highlighted entry.

### Only model-checked

* All liveness: `RequestRead`, `ServedIdleClosed`, `Answered`, `CallEnds`,
  `LogCatchesUp`, `SigintEnds`, `AnimationEnds`, `ShowGoesOn`, `ClickTakesEffect`.
  Fairness is out of the prover's reach.
* The type invariants of `Services` and `Page` as they are written: the proofs use the
  parts they need (`SendAllTypeOK`, `ParseTyped`, `CacheTyped`, `SliderObject`).
* What `SelectSeq` and `FlattenSeq` compute: they are opaque to the prover. `FilterShown` is proved
  of `filteredData` whatever it selects, and TLC evaluates it on the items of
  `portfolio.html`.

## 5. Not modelled

Socket set-up, option parsing, status and MIME tables, `die` and colours are
straight-line code or constants. `writeAll`, `readAll`, `getConnectionByFd` and
`updateConnectionByFd` have no caller. The alternative servers kept as `.txt` files
are not compiled. The text of requests, responses and log lines is reduced to what
the properties tell apart.

Of the template in `public/`, the rest of `js/` is left out: jQuery, Bootstrap and
fancybox are libraries (minified), `jquery.easing.1.3.js` is a table of formulas,
`jquery.fancybox-media.js` of address patterns, `animate.js` and the first half of
`custom.js` set classes and one-line effects. `validate.js` is loaded by
`contact.html` but binds to `form.validateform`, which no page has. The directories
`js/flexslider` and `js/quicksand` are other copies that no page loads. `#post-slider`
is on no page either; its options are among those checked.

## 6. State of the work

Every safety property that the runs check and find true is proved for all values of
the constants, four under a condition the section above justifies (`PeekIsOldest` and
`ClosedInTime` for at most five descriptors, `BacklogWatched` with `Enough`, `ImplementsExchange`
with `Leftovers = {0}`). Of the properties that are violated, three have a theorem about the case in which they do hold
(`OldestUnlessMisplaced`, `WholeRequests`, `ArmedWhenProcessedAloneHolds`). What is left:

1. `ExchangeAlone` and the other properties of a single worker are false for several
   threads (`loop_reuse`). A queue shared under `queueMutex`, or a test that the
   entry is still that of the connection, is what they would need in the code.
2. Liveness stays with TLC.
3. The alternatives of the slider that no page uses (section 5).
