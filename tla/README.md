# A verification project for the file storage server

The repository is a file storage server: clients connect over a UNIX socket,
open, lock, read, write, append to and remove named files that live in the
server's memory, and the server evicts the least recently used files when it is
full.  This directory holds TLA+ modules translated from its C sources, TLC
configurations that check them on small instances, and proofs that TLAPS checks
for every instance.

| file | what it is |
|---|---|
| `FileServer.tla` | the worker pool, the stored files, the LRU order, the client table and the mutexes |
| `Dispatcher.tla` | the select loop, the FIFO and the pipe between it and the workers, connections and their descriptors, signals and shutdown |
| `FifoList.tla` | the blocking list between dispatcher, workers and log thread: mutex, condition variable, pointers, `malloc` |
| `FifoQueue.tla` | the queue that `FifoList` implements |
| `TreeFile.tla` | the file store with its pointers: search tree and doubly linked LRU list |
| `LRUStore.tla` | the store in the order of use that `TreeFile` implements |
| `Session.tla` | the client library against the worker that serves it, over two streams |
| `RemoteCall.tla` | what `api.h` promises of a call, implemented by `Session` |
| `MC*.tla`, `*.cfg` | workloads and instances for TLC |
| `FileServer_proofs.tla`, `FileServer_requests.tla`, `FileServer_use.tla`, `FileServer_table.tla`, `Dispatcher_proofs.tla`, `FifoList_proofs.tla`, `TreeFile_proofs.tla`, `Session_proofs.tla` | inductive invariants, theorems and three refinements, with their proofs |
| `PROJECT.json` | the components, runs, mutants, hazards, findings, theorems and the map from definitions to source lines |

Definitions keep the names of the C functions where they have one
(`TryUse`, `AppendToFile`, `MakeSpace`, `DisconnectClient`).  A definition with a
remark after an underscore (`GivesUp_Always`) is a faulty variant of the
definition that follows it: no action uses it, and `PROJECT.json` pairs each
checked property with a variant that breaks it.

## Inventory

**Worker pool** (`server.c`: `worker`, `manageRequest`, `tryUse`, the ten
operations).  Every worker pops a ready socket, reads a request, searches the
tree for the file, and either becomes the file's *handler* by setting `flagUse`
or parks the request in the file's `requestList`.  A handler runs its request,
answers, and goes on with the parked requests (`COMPLETED_CONT`, `FAILED_CONT`)
until the queue is empty or the file became locked (`COMPLETED_STOP`,
`FAILED_STOP`).  *Hard*: the node found under the tree's mutex is used after the
mutex is released; `flagUse`, the lock and the queue are changed by different
workers in different critical sections; a file can be evicted or removed under
everybody's feet; a client can vanish at any reply or payload.  *Correct when*:
one handler per file, every request run and answered once, nothing run on a file
somebody else has locked, no removed file dereferenced, every request answered.

**File tree and LRU replacement** (`tree.c`).  A binary search tree of nodes that
are never freed; a node without an `sFile` stands for a removed file.  The live
nodes are linked from least to most recently used; `fileCount` and `filedim`
account for them.  Operations: insert (with eviction at `maxFileNum`), find,
remove, `makeSpace`, `getNElement`, move to front.  *Hard*: a move to front that
comes after the file was removed or taken by another worker; a victim that goes
back when the insertion fails.  *Correct when*: the list holds exactly the live
files, once each; both counters are exact and within the configured capacity.

**Stored files** (`files.c`, `files.h`).  `flagUse`, `flagO_lock`, `lockOwner`,
`creator`, `openList`, `requestList`, size and data.

**Client table** (`clientTable.c`).  For each connection the nodes it has open and
the nodes it has locked: the other side of `openList` and of `lockOwner`.
Operations: `newClient`, `clientOpen`, `clientLock`, `clientClose`,
`clientUnlock`, `disconnectClient`, `clientFileDel`.  *Hard*: the two sides are
updated in different critical sections.  *Correct when*: they agree outside the
windows of an update in progress, and a disconnected client holds nothing.

**Dispatcher and signals** (`server.c`: `dispatcher`, `collectThreads`, signal
handlers).  Accepts connections, removes a ready socket from the select mask and
inserts it into the FIFO, puts it back (or closes it) when a worker says so
through a pipe; SIGHUP stops accepting, SIGINT and SIGQUIT stop the loop; the
workers are stopped with NULL entries.  *Hard*: descriptors closed twice and
reused; a signal between the test of `serverStatus` and `select`; workers blocked
in a read at shutdown.

**FIFO** (`FifoList.c`).  A linked queue under a mutex and a condition variable;
`pop` blocks; it carries ready sockets to the workers and records to the log
thread.  *Hard*: one signal for each insertion while consumers come and go; a
failing `malloc` that returns with the mutex held; the tail pointer when the last
node leaves.  *Correct when*: it is a queue, nobody sleeps over an element, and
what was inserted before the last NULL is popped before the consumers end.

**Client library** (`api.c`).  Keeps the socket of the connection and the `errno` it
gives its caller.  Operations: `openConnection` (which tries again until a time),
`closeConnection`, and one function per request, some of which receive files the
server expels.  *Hard*: neither stream has message boundaries, and what is read
next depends on what was read before, at both ends; a client may die, and the
server stop, between any two words.  *Correct when*: the two ends stay in step,
0 and -1 mean that the server did or did not, an error is fatal exactly when the
server closes, and every call returns.

**Log thread** (`logFun.c`, `logThread`).  A consumer of a second FIFO that ends with
the record `endLog` and then walks the LRU list once.

**General list** (`generalList.c`), **mutex and socket helpers** (`utils.c`),
**requests and their encoding** (`request.c`, `request.h`), **client programs**
(`client.c`, `ilClient.c`, `testClient.c`), **configuration and scripts**.

How they interact:

    client -- socket --> dispatcher -- FIFO --> workers -- pipe --> dispatcher
                                                  |
                         tree (mutex) > node (mutex), client table (mutex) > node
                                                  |
                                             FIFO --> log thread

## The core model: FileServer

State: for each name the `sFile` of its node or `NULL` (`file`), the LRU order as a
sequence (`lru`), the two counters, the client table (`nodeInUse`,
`nodeLocked`), for each client whether it is listened to, served or closed
(`conn`) and whether its process is there (`alive`), and for each worker where it
is (`pc`), its `nodePtr`, its request, where it goes after the reply, the victims
it evicts and the removed file it cleans up.

A step is one critical section of the code with the thread-local work around it,
so workers interleave at every point where the code lets go of a mutex.  A mutex
is a variable only where a worker keeps it across steps: `treeLock` while
`appendToFileW` evicts, and while a worker that holds the tree waits for a node
(`HoldTree`); `nodeLock` because `readFileW` on a locked file keeps the node's
mutex (below).  The mutexes are of the error-checking kind and
`Pthread_mutex_lock` treats EDEADLK as success, so `NodeFree` lets the owner in.

| steps | code |
|---|---|
| `Take`, `TakeEOF`, `Find`, `AbsentError`, `AbsentFatal`, `TryUse`, `Park` | `worker`, `getFileFromSocket`, `tryUse` |
| `InsertNew`, `InsertExists`, `InsertNoMemory`, `Opened`, `Release` | `openFileW` creating a file, `TreeFileinsert` |
| `OpenFile`, `SetLock`, `Refuse`, `ReadFile`, `ReadNFiles`, `LockFile`, `TableLock`, `UnlockFile`, `CloseFile`, `RemoveFile`, `TreeRemove` | the operations of that name |
| `WriteFile`, `AppendToFile`, `Discard`, `PayloadCut`, `Payload`, `RoomEnough`, `MakeRoom`, `Unmark`, `NoRoom`, `Evict`, `Evicted`, `Finish` | `writeFileW`, `appendToFileW`, `makeSpace`, `fakeFree` |
| `FileDel`, `InformReply`, `InformAppend`, `InformWrite`, `InformDone` | `clientFileDel`, `informClientDelete` |
| `Reply`, `NextRequest`, `NoNextRequest`, `Touch` | `sendClientResult`, the loop and the end of `manageRequest` |
| `Die` | a client process that ends without closing anything |
| `Crash` | a `nodePtr->sFile` followed although it is NULL |

What is abstracted: contents (a file has a size, every append has `AppendDim`
bytes), names (a member of `Names`, one node each), the search tree, the log, the
bits of a request, the path from the socket to the worker (`conn`), and a
connection's descriptor (a client is one connection, its descriptor is not
reused).  A client that dies between the first word of a request and the name is
the case `TakeEOF`: the worker disconnects it and holds nothing.  A payload is
there, or its client is dead and the read ends.  The client table's operations
are atomic.  `appendToFileW` disconnects a client twice when its payload is cut;
the second time does nothing to this state: it is a subject of `Dispatcher`.
Failures of the server's `malloc` and of the mutex functions are left out.  An insertion that
meets its name in a tree that is not full passes a NULL mutex, gets -1 and
answers an error: `InsertExists`.

## The round trip of a connection: Dispatcher

State: the mask of `select` and what is left of its last result (`set`, `rdSet`),
`maxFD`, `clientNum`, `serverStatus`, where the loop is (`dpc`), the FIFO (`toServe`)
and the pipe (`doneReq`), for each worker where it is and the descriptor it
serves, the descriptors whose request waits in the queue of a file (`parked`),
those whose parked request was destroyed with its file (`dropped`, history: no
step reads it), the connections not accepted yet, who is behind each descriptor
(`owner`), and for each client what the server did with its connection (`link`),
how far its request is (`talk`) and whether it is there (`alive`).

| steps | code |
|---|---|
| `Test`, `MaskSocket`, `Select`, `ScanEnds` | the loop of `dispatcher`, one step for each thing it looks at |
| `Accept`, `AcceptFails`, `FromPipe` (`Reset`, `Close`), `FromClient` | the branches for a ready descriptor, in ascending order |
| `Signal` | `sigIntQuit`, `sigHup`: `select` is interrupted, or the signal comes just before it |
| `Collect`, `Join` | `collectThreads` |
| `Pop`, `ReadRequest`, `ReadFails` | `worker` |
| `Use`, `Park` | `tryUse`: the worker becomes the file's handler, or leaves the request in its queue |
| `Answer`, `AnswerFatal`, `PayloadCut`, `DisconnectAgain`, `NextRequest` | what a request does to its client's descriptor: `sendClientResult`, `sendClientError`, `sendClientFatalError`, `appendToFileW`, the loop of `manageRequest` |
| `InformClientDelete` | `informClientDelete`: a request in the queue of a removed or evicted file is answered, or destroyed without a word in the pipe |
| `Connect`, `Ask`, `Leave` | client processes |

The two modules meet at the descriptor: what is `conn` in `FileServer` is the round
trip here, and what the operations do there is here one of their outcomes, chosen
freely.  `tryUse` parks a request when the file has a handler, and also when it is
locked by another client, with no worker on it at all: so `Park` has no condition.
Only a handler that has answered looks into a queue (`Finishes`).  Files are not told
apart, so which parked request it finds there is a choice, and it may find none;
whether anybody ever takes a given request is left open.  A worker that has a
file may remove it or evict others (`InformClientDelete`); a parked request is then
answered, but for a WRITE, which disappears: its descriptor stays open, in no place.
A descriptor is the lowest one free, so it is
reused at once.  `accept` may fail at any time in the three ways the code tells
apart.  Each client connects once; FIFO and pipe have no limit (a pipe holds
thousands of descriptors); the clients in `Cut` may leave in the middle of a
payload.  Errors of `select` and of the pipe other than an interruption, and a
failing `malloc`, are left out; so is the request CLOSE_CONNECTION, which the
client library never sends.

## The blocking list: FifoList

State: the fields of the list and of its nodes (`dim`, `headPtr`, `queuePtr`,
`nextPtr`, `data`), the nodes that are allocated (`heap`), who holds the mutex, who
sleeps in `pthread_cond_wait`, where each thread is and what it has in hand, and
how many ENDs the closer has inserted.  `chain` (the nodes from head to tail) and
`failed` (malloc has failed) are history: no step reads them.

| steps | code |
|---|---|
| `CallInsert`, `LockInsert`, `LinkIn`, `MallocNull`, `Signal`, `UnlockInsert` | `insert` |
| `CallPop`, `LockPop`, `Wait`, `Woken`, `Take`, `UnlockPop` | `pop`; `Spurious` is a wake-up without a signal |
| `CallInsert(closer, END)`, `Leave` | `collectThreads`, and the end of the log: one END for each consumer when no producer is left |

`Pthread_mutex_lock` lets the owner of the mutex in again (EDEADLK).  It matters
here: `insert` returns with the mutex held when `malloc` fails, the others block,
and the same thread's next insertion gets in and releases it.  So `Lock` admits
the owner, and `MallocNull` leaves the mutex where it is.  A freed node's pointer
and contents are NULL, and it may be allocated again at once.

`FifoQueue` is what the users of the list believe: a sequence, an insertion and a
pop that take place at one instant between call and return.  Under the mapping
`LinkIn` is `Put`, `Take` is `Take`, a failing `malloc` is `Refuse`, the two unlocks
are `Return`, and locking, sleeping, waking and signalling stutter.

## The store with its pointers: TreeFile

One variable, the record `tree`: the fields of the `TreeFile` and of all its nodes.
Every operation runs under the tree's mutex, so each is one step:
`TreeFileinsert` (with `newTreeNode`, the descent, the eviction of a victim, and the
victim that comes back when the name exists), `TreeFileRemove`, `Touch`
(`moveToFrontLRU`), `AppendToFile` (`makeSpace` with `fakeFree`, the evictions and the
accounts), `SetUse` (workers that begin and stop using a file); `getNElement` and
`noMutexGetNode` are operators.  Names are numbers, so that a tree can have any
shape; an address is the first free one, because addresses are not compared.

`LRUStore` is the store without pointers: the names in the order of use, the sizes,
who is in use.  It says which files are evicted: the oldest idle ones, no more than
needed.  `FileServer` uses the same order as a sequence, under the interleavings
of the workers; `TreeFile` shows that the pointers provide it.

## The two ends of a connection: Session

State: on the client's side where it is in a call (`pc`), the call, what it still has
to read of an answer (`rest`), what the last call returned (`outcome`); on the
server's side the process (`serving`), what it does with this connection (`spc`) and
the request it serves; two streams of tokens; and, as history, how often the
server carried out the latest call (`done`) and the rare events of the connection
(`odd`).  A token is a word of a request, an int, a name or contents.  Whether the
file exists, is busy, has room or is removed is a free choice of the worker.

| steps | code |
|---|---|
| `openConnection`, `Connect`, `ConnectFails`, `Clock`, `closeConnection` | the functions of that name, with the retries until `abstime` |
| `Ask`, `SendRequest`, `SendPayload`, `GetResult`, `GetSize`, `GetData` | the other functions of `api.c`: request, payload, result, contents |
| `ChangeDir`, `GetNameLen`, `GetName`, `GetDim`, `GetContents`, `Slip` | `saveExFile`, and its local failures |
| `Send`, `ReadEOF`, `Astray`, `Die` | SIGPIPE on a closed connection, end of file, a token that is not what was expected, a process that ends |
| `Accept`, `Refuse`, `GetRequest`, `GetFileName`, `Hangup` | `dispatcher` and `worker` as this connection sees them |
| `Absent`, `Present`, `Park`, `NextRequest`, `Run` | `manageRequest` and the operations without a payload |
| `RunUpload`, `ReceiveSize`, `ReceiveData`, `Store`, `RefuseWrite` | `writeFileW`, `appendToFileW` |
| `FileRemoved`, `Overdrain` | `informClientDelete`: the file goes while the request is parked |
| `Stop`, `Close` | the server ends; the dispatcher closes the descriptor |

Four events are marked in `odd`, because the properties do not hold after them:
`slip` (`saveExFile` or `readFile` fails locally and leaves part of the answer in the
socket), `refused` (a `writeFile` of a file that is not new is answered with a code
that is not shifted by 24 bits, server.c:1406), `drained` (a parked APPEND on a
removed file is drained with one byte too many, server.c:1801) and `dropped` (a
parked WRITE on a removed file gets no answer, server.c:1806).  A client that has
slipped may leave `MaxLeft` tokens unread; when it takes one token for another it is
`astray` and the model follows it no further.

Left out: a failing `malloc` or mutex of the server; a second `openConnection` on
an open connection (which overwrites the socket); `closeConnection` with another
name; an append of no bytes and `readNFiles(0)`, for which the library returns 0
without asking the server (api.c:597, api.c:437); other errors of `connect`;
a local file that cannot be written, which is skipped; checks of NULL arguments;
the second disconnection of a client whose payload is cut (`Dispatcher`'s subject).

## Runs

The bounds of `FileServer` are two or three clients, one or two workers, one to
three names, a capacity of one or two files and one unit of data.  They are the smallest at
which the cases happen: a queue with two waiters, a worker that finds a file
while another takes it, an eviction for count and one for space, an eviction
whose victim has parked requests.  A client has one request at a time, so there
is no counter to bound: queue lengths, sizes and the LRU list are bounded by
the constants.  `CHECK_DEADLOCK FALSE` is set where every client may have died,
or wait for the owner of a lock who is free not to ask for anything any more.

| run | instance | shows |
|---|---|---|
| `full` | 2 clients, 2 workers, 1 name, every operation | types, the accounts of the tree (`FilesAccounted`), every request in one place (`RequestsUnique`), also where the defects below strike |
| `filling` | 2 clients, 2 workers, 3 names, room for 2 files and 1 unit | `filedim` exact and within capacity under concurrent inserts, appends, evictions; requests of evicted files |
| `sharing` | 3 clients, 2 workers, 1 file that is never removed; c1 may die | the use token (`UseToken`), the lock (`LockExclusion`), the queue (`WaitsForOwner`), the client table (`TableExact`), no lost request |
| `evicting` | 3 clients, 1 worker, 2 names, room for 1 file; anyone may die | the same facts when files are evicted and removed while open, locked, queued for |
| `lockfree` | 3 clients, 2 workers, 1 name, no locks, no removals, fairness | every request is answered, and the system never stops while work is left (deadlock is checked) |

`full` and `filling` check what holds whatever the clients do.  The other
properties are false in general: the code has the defects listed below.  The workloads of `sharing`, `evicting` and `lockfree` are
the largest found that avoid them:

* `sharing`: a locker never opens with O_CREATE (a refused request of the lock's
  owner lets the queue run), the client that may die never locks, and nothing is
  removed;
* `evicting`: one worker, so that nothing comes between the search for a node and
  its use; nobody may WRITE.  An APPEND parked on a removed file is part of it: its
  worker is blocked until the client is gone (`InformAppend`);
* `lockfree`: a client without the lock may wait for its owner as long as the owner
  likes, so liveness is stated without locks.

Of the dispatcher:

| run | instance | shows |
|---|---|---|
| `dispatch` | 3 clients, 2 workers, descriptors 2 to 4 of which `select` takes 2 and 3 | a descriptor is in one place (in none only after its parked request was destroyed), `clientNum` and `maxFD` are exact, nobody is cut off, the slow close waits for the clients, the shutdown leaves no request behind |
| `slowclose` | 2 clients, one of which may leave in the middle of a payload, 1 worker, fairness | a slow close ends when the clients leave, provided no request is stranded in a queue or destroyed; requests are read |

Three clients and two descriptors below the limit give a reused descriptor, a
third connection that is refused, and a FIFO, a pipe and a queue with more than
one entry.  `Cut` is empty in `dispatch`: a client cut in the middle of an APPEND is
disconnected twice (server.c:1417 after `readFormSocket`), which decrements
`clientNum` twice and may close a reused descriptor.  `slowclose` lets that happen
and shows that the close still ends.  Its one worker parks requests, takes them up
again and destroys them.  A parked request that nobody takes up, or that is
destroyed, leaves its descriptor outside the mask: that its client leaves is never
heard, `clientNum` stays above 0 and a slow close does not end.  `SlowCloseEnds`
therefore has two premises (below), and is false of the model without either.

Of the list, the store and the session:

| run | instance | shows |
|---|---|---|
| `fifo` | 1 producer, 2 consumers, the closer, 2 elements, 3 nodes, a failing `malloc`, fairness | pointers and allocation (`Linked`), no consumer sleeps over work (`NoSleepOnWork`), a clean end (`JoinedEmpty`, `CloseEnds`), the list implements `FifoQueue`, with the queue's liveness (`ServesQueue`) |
| `store` | 4 names, 5 nodes, room for 3 files and 2 bytes | both structures well formed (`WellFormed`), exact accounts, reads in the order of use, the pointers implement `LRUStore` |
| `session` | answers with up to 2 files of up to 1 byte, up to 2 tokens left unread, fairness | the two ends stay in step (`InStep`), fatal errors are those after which the server closes (`FatalCloses`), calls mean what `api.h` says (`ImplementsCall`), they return, and the server notices a client that is gone |

Two consumers and the closer are the smallest set in which a signal can go to one
consumer while the other takes the element, and in which both must be ended;
three nodes let one be freed and allocated again while another is in the list.
Three files are the first list with a middle node, and the fourth name makes an
eviction; five nodes are one for each name and the one that `TreeFileinsert` creates
before it looks.  Answers with two files have a first and a last one, a size of 0
or 1 is the difference between contents that are sent and none.  In `fifo` and
`session` deadlock is not checked: the server ends and clients may be gone.

Two runs expect a violation and correspond to `findings`:

| run | what happens |
|---|---|
| `stolen_lock` | a refused OPEN of the owner (`FAILED_CONT`) makes its worker run parked requests of others on the locked file |
| `evicted_in_use` | a file found by `TreeFileFind` is evicted before `tryUse`, which follows a NULL pointer |

### Other disagreements met while modelling

They have no run of their own; the models follow the code, and the workloads and
premises above are what keeps a property apart from them.

* A READ by the owner of a lock: the test of `Pthread_mutex_lock` is inverted
  (server.c:1325), so `flagUse` stays set and the node's mutex locked until the same
  worker happens to take it again.
* The owner of a lock disconnects: `disconnectClient` frees the lock and nobody serves
  the requests parked for it (clientTable.c:251); the same after a `makeSpace` that
  gives up (tree.c:587).  The clients of these requests are not heard any more, not
  even when they leave, so `clientNum` stays above 0 and a slow close (SIGHUP) never
  ends; the same for the client of a WRITE destroyed with its file (server.c:1806).
* A client cut in the middle of an APPEND is disconnected twice (server.c:1417).
* The victim of an insertion that finds its name comes back with the `flagUse` that
  `makeSpace` set (tree.c:201).
* The lock is recorded in the client table after `flagUse` is released
  (server.c:1671).
* `openFileW` resets the `flagUse` of a file it created with its lock and never set
  it: meanwhile `makeSpace` may have marked the file as a victim (server.c:1201).
* A refused `writeFile`, a parked APPEND and a parked WRITE on a removed file: see
  `Session`.
* `api.h` says of `readNFiles` that N <= 0 reads all files (api.h:49).  For N = 0 the
  library returns 0 and asks for nothing (api.c:437); only N < 0 is sent, as 0, and it
  is the 0 that arrives for which the server's `getNElement` reads all.
* `readNFiles` packs N without a mask (api.c:447); a realloc that fails answers with
  a code that is not shifted (server.c:1590); `filedim + size` may overflow
  (server.c:1476); `newClient` overwrites the head of a bucket (clientTable.c:116).

### Fairness

`FairSpec` assumes of every worker weak fairness of its step (a thread that can run
is scheduled) and strong fairness where it waits for the tree's mutex, which
others take again and again (a mutex that is released infinitely often is
eventually obtained).  Nothing is assumed of clients: they need not ask, so
`RequestsAnswered` is about what was asked.

In `Dispatcher`, `FairSpec` assumes weak fairness of the dispatcher and of each
worker: none of them waits for something that others take away again.  Clients
and signals are free; where a property needs more it says so.  Both liveness
properties suppose that signals do not interrupt `select` for ever.  `SlowCloseEnds`
supposes that the clients all leave in the end, that every parked request is
taken up (`Served`) and that none is destroyed (`NothingDropped`).  The code ensures
neither of the last two (clientTable.c:251, tree.c:587, server.c:1806), which is why
they are premises and not fairness.  That a worker comes to the end of each request
is fairness here: the mutexes and payloads it may wait for are `FileServer`'s and
`Session`'s subject.

In `FifoList` each thread has weak fairness, and strong fairness where it acquires
the mutex; the closer calls for every END and consumers come back for more, as
`collectThreads` and the loops of the consumers do; producers call when they like.
`ServesQueue` and `CloseEnds` are about executions in which `malloc` does not fail:
after a failure the others wait for the thread that failed to insert again.

In `Session` a call in progress goes on, its clock too, and the server takes every
step it can; clients call, die and disconnect when they like.  That a parked request
is taken up again depends on other clients and is a premise (`Served`) of both
liveness properties, not an assumption of the specification.  `CallReturns` also
excludes the odd events, `ConnectionEnds` a request that was dropped.

## Proofs

`FileServer_proofs` proves for any number of clients, workers and names, any
workload and any capacity that satisfy the module's assumptions:

* `Invariance`: `Spec => []IInv`, where `IInv == TypeOK /\ Placed /\ FilesAccounted`;
* `TypeCorrect`: `Spec => []TypeOK`;
* `FilesAreCounted`: `Spec => []FilesAccounted`;
* `BytesAreCounted`: `Spec => []BytesAccounted`.

`FilesAccounted` is not inductive.  `Evict` takes the least recently used of the
worker's victims out of the list, which decrements `fileCount` by one whether or
not the victim is there; so the victims must still be stored.  `Placed` says so
(`WellPlaced(w)` for every worker: what it has at hand at each `pc`): a worker with
victims holds the tree's mutex, its victims are live files, and it has a request,
a node and a removed file exactly where the code needs them.  That other workers
do not disturb it is lemma `OthersKept`: a step that removes a file needs the
tree's mutex, which the evicting worker holds.  The proof has one lemma per group
of actions for each of the three conjuncts; lemmas on sequences without
repetition (`RemoveFirst`, `Append`) carry the accounts of the LRU list.  The
assumptions are those of `FileServer`; `WorkloadAssumption` and
`CapacityAssumption` give types, `NULLAssumption` separates NULL from names,
requests and files.

`BytesAccounted` compares a counter with the sum of the sizes of a set of files, a
fold.  A sum over a finite set is characterised without induction over data: from
the well-foundedness of the numbers, the fold is shown to be a function that adds
the elements one by one, and from that come the few facts the steps need (the sum
without an element, sums of equal sizes).  That the capacity is not exceeded is
inductive only with `RoomComing`: a worker that is evicting has victims enough for
what it will store.

`FileServer_requests` proves `OneRequestEach`, `Spec => []RequestsUnique`, from the
same assumptions.  `RequestsUnique` is inductive together with `IInv`, which says
that a worker has a request exactly where the code uses one, and that a removed
file is in its worker's hand and no longer in the tree.  A request that is parked
while its file is evicted changes place three times (worker, queue of the file,
queue of the removed file, worker that informs its client), by three functions.
Each step is of one of five kinds, with a lemma each: a request is taken from the
socket of a client that had none, parked, taken up again, moved with the queue of
its file, or it disappears; all other steps leave every request where it is.

Some properties of `FileServer` are false in general, because the code breaks them
in places.  For these the theorems say that it does so nowhere else: the premise
excludes named steps, and everything else, all interleavings, evictions, removals
and vanishing clients, is covered.

* `OnlyInformWriteLoses`: `[]NoRequestLost` in the executions without `InformWrite`
  (server.c:1806).  `RequestsKept` has the premise in terms of the constants: nobody
  may WRITE.  The strengthening is `HandsFree`, a worker between two requests has
  none and no removed file whose queue is still to be informed; and `AskedFor`, every
  request is in its client's workload.
* `FileServer_use` is about `flagUse`.  `TokenInv`: who handles a file, or has marked it
  as a victim, is one worker; the file is stored and `flagUse` is set; a handler's
  file is not among its own victims.  Each step leaves a file's token alone, takes it
  when it is free, or gives it up when it holds it (`Turn`).  `OnlyReleaseShares`
  proves `[]UseExclusion` but for `ReleasesOthers`: `openFileW` resets the `flagUse` of
  the file it created with its lock and had not marked, when `makeSpace` may have.
  `OnlyTheseLeaveInUse` proves `[]UseToken` but for this and `LeavesInUse`: a READ by the
  owner of a lock, and an insertion that puts a victim back.  `TokenKept` gives
  instances in which none of these happens: nobody creates a file with its lock,
  nobody reads or nobody locks, and there is one worker, one name, or room for all
  names.  The instances of `evicting` and `lockfree` are among them, that of `sharing`
  is not: there a READ never meets a locked file for reasons the premise does not
  give.
* `OnlyNextRequestIntrudes`: `[]LockExclusion` in the executions in which, besides,
  no handler goes on with a request that waits for the lock of another client
  (`Intrudes`, the finding of `stolen_lock`).  A file's lock is set by its handler
  only (`LockIsHandlers`), and everybody else can only lift it (`NoNewLock`).
* `FileServer_table` is about the client table against the files.
  `OnlyTheseLoseEntries` proves `[]TableExact` but for `ReleasesOthers` and `Intrudes`
  and two steps more.  `Outruns`: a file that nobody uses is taken out of the tree
  while the worker that created or locked it has not yet told the table
  (server.c:1207, 1676); the table then learns of a file that is gone.  `Recreates`:
  a name is created before the table has forgotten the file that was removed
  (server.c:1562, 1765); it then forgets the new one.
* `OnlyTheseStrand` proves `[]WaitsForOwner` but for these four and two more.
  `Strands`: `fakeFree` resets the `flagUse` of a victim that goes back (tree.c:545), and
  does not look at who was parked in the meantime.  `Abandons`: `disconnectClient` lifts
  a lock that others wait for (clientTable.c:251) and wakes nobody.
* `OnlyOwnersEndLocks` is an action property: in the executions of
  `OnlyTheseLoseEntries` a lock ends with its file or by its owner, who unlocks or
  closes the file or is disconnected; nobody else lifts it or takes it over.

`TableExact` excuses a name while a worker updates it, and says nothing of it then, so
it is not inductive.  `TableInv` says, name by name (`Entries`), what each side may
lack of the other while a worker is between the two updates: who has opened a file
and still has to call `clientOpen` (`Opening`), has locked it and still has to call
`clientLock` (`Locking`), has told the table and still has to lock (`Claiming`, the
opposite order in `openFileW`), or has taken the file out and still has to call
`clientFileDel` (`Removing`).  It needs `RequestsUnique`, for a client that is answered
or disconnected must not be one whose entry is being made; `TokenInv`, so that the file
stays while its handler is at it; and `HandlersPermitted`, what `LockExclusion` says of
every handler and not only of one that begins an operation.  A step disturbs at most
the names it works on (`Undisturbed`), and the rest is one lemma per kind of update.
`ClosedOut` adds that the table has no entry of a disconnected client.  `WaitsForOwner`
needs `StrandInv`: everybody in the queue of a free file is kept out by its lock
(`LockedOut`), the owner of a lock is a client (`Owned`), `openFileW` releases a locked file
only for the owner (`Owns`), and who goes on after a cut payload has no lock left
(`Loses`).  Without the last two a worker could release a file with requests in its
queue that the lock does not keep out.

`TableKept` and `WaitersKept` give instances in which no excluded step is ever taken, so
the premises are no empty ones: nobody locks, and for the table one worker serves all,
with evictions, disconnections and every other operation; or, for both, any number of
workers, room for all names and no `WRITE` or `APPEND`, so that nothing is evicted.
The instances of `sharing` and `evicting` have locks and are not among them; that these
hold `TableExact`, and `sharing` also `WaitsForOwner`, is what the runs show.

`FifoList_proofs` proves for any number of producers and consumers, any set of nodes
and elements, whether or not `malloc` may fail:

* `Invariance`: `Spec => []IInv`, and from it `ListTyped`, `ListLinked`, `NobodySleeps`
  (`TypeOK`, `Linked`, `NoSleepOnWork`);
* `QueueRefined`: `Spec => ImplementsQueue`;
* `CloseLeavesNothing`: `Spec => []JoinedEmpty`, when there is a consumer.

`IInv` adds `Exclusive` to the three invariants: who is between lock and unlock owns
the mutex.  Without it two threads could change the pointers.  Its converse is
false, because `malloc` may fail; this is why it is not stated as mutual exclusion
of critical sections.  `EmptyHanded` says who has no element in hand; the
refinement needs it, as a call that has not begun must not carry an element.
`NoSleepOnWork` compares `dim` with the cardinality of two sets of threads; each step
adds or removes one thread, and the proof follows the counts with the library's
facts on finite sets, for which the set of consumers must be finite
(`ThreadsAssumption`) and the threads about to signal are at most one
(`Exclusive`).  The refinement has one step per action, with the instance of
`FifoQueue` it maps to.  For `JoinedEmpty`, `EndsCounted` follows each END from the
closer through the list to the consumer that pops it, `EndsLast` keeps them behind
all other elements, and `InHand` says that no one else makes one.  A `malloc` that
fails loses an END and may leave the mutex with the closer; then fewer consumers end
than the closer waits for, and the end is not reached.  The premise is needed: with
no consumer the closer has nothing to wait for and a producer may be at work.

`Dispatcher_proofs` proves for any number of clients, workers and descriptors:

* with no premise, `CoreInvariance`, `DispatcherTyped` (`TypeOK`) and `MaskIsHeard`
  (`MaskHeard`): `Core` adds `HasJob` (a worker has a descriptor exactly while it
  serves) and `PipeReady` (what `select` found in the pipe is still there);
* with at least one worker, `CloseIsClean` (`JoinedClean`): `Ends` counts the NULLs
  in the FIFO against the workers that have not ended, and keeps a NULL last;
* when no client leaves in the middle of a payload (`Cut = {}`), `FairInvariance`,
  and from it `DescriptorsOnePlace` (`OnePlace`), `ClientsCounted` (`ClientNumExact`),
  `NobodyIsCutOff` (`NobodyCutOff`) and `CloseWaits` (`SlowCloseWaits`).

The premise `Cut = {}` is not a convenience: with a client in `Cut` these properties
are false (server.c:1417).  `OnePlace` is a sum of five counts; each action moves a
descriptor from one place to another, and the lemmas say by how much each count
changes.  A parked request that is destroyed takes its descriptor out of all five, so
what is counted (`Balanced`) adds a sixth place for it, `Lost`; `DescriptorsOnePlace`
also says that such a descriptor is open.  It is inductive only with `Scanned` (a descriptor `select` returned is still
in the mask when its turn comes) and `NoAgain` (nobody disconnects twice).  That a
closed descriptor is in no place is what makes `clientNum` exact.  For `NobodyCutOff`
the messages in the pipe must have a reason (`AllExcused`): a disconnection on its
way is about a client that has left or was refused; this holds because `OnePlace`
keeps a new connection from inheriting a message about the old one with the same
descriptor.  `CloseWaits` follows because the loop ends on `clientNum = 0`.

`Session_proofs` proves for any `MaxFiles` below 2^24, `MaxSize`
and `MaxLeft`:

* `SessionInvariance`: `Spec => []IInv`, and from it `TypesKept`, `KeptInStep`,
  `FatalErrorsClose` (`TypeOK`, `InStep`, `FatalCloses`);
* `CallsRefined`: `Spec => ImplementsCall`.

That a number of files fits in 24 bits is an assumption of `Session`: a result has
no more (`nFile`), and the proof uses it where the code is taken out of the result.
`InStep` says nothing about the streams while a call is in progress, so it is far
from inductive.  `IInv` says what each stream holds at each place of each end:

* `Placed`: which request or call can be in progress there;
* `UpFits`: what the worker will read next (the rest of a request, its payload, or
  the next request) is a sequence in the form in which it is read;
* `UpWaits`: a payload is missing exactly when the client is about to send it;
* `Sync`: what the client will read next is an answer to its call, or the part of it
  that is left (the files from a name, a length or contents on); the worker has done
  the call as often as the answer says, and has it no longer;
* `Stuck`: or the client has left part of an answer.  Then the first thing in the
  stream stops it, or is a length of 1 that it takes for a result: this is why a
  client that has slipped never sees a wrong number of files;
* `Told`: the code of the latest error says whether the server has closed.

What the worker sends is built with `\o` and `FlattenSeq`, and is read element by
element; the lemmas `FlattenCons`, `ContentsRead`, `PayloadRead`, `CallsRead` lead from
one form to the other.  `FlattenSeq` is a recursive function over a sequence: its
steps are proved without an induction theorem, from the least number at which they
would fail (`LeastNumber`).  The refinement maps `Ask` to the call, the step that
answers SUCCESS to its execution, a final read to its return, and everything that
separates the two ends to `Part`.

`TreeFile_proofs` proves for any finite sets of names and nodes, with more nodes than
names, and any capacity and sizes:

* `Invariance`: `Spec => []IInv`, and from it `TypeCorrect`, `ListAndSearch`,
  `Accounting`, `OldestAreRead` (`TypeOK`, `WellFormed`, `Accounts`, `ReadsOldest`);
* `StoreImplementsLRU`: `Spec => ImplementsLRU`.

There is a node more than names because `TreeFileinsert` creates one before it looks;
that one is always free is proved, from the fact that every allocated node has a name
of its own.  None of the properties is inductive: they say what walks and searches
return, and an operation changes two or three pointers somewhere in the middle.
`IInv` is `Holds(tree, s)` for the list `s` that the walk from the oldest file returns:

* `Linked`: the pointers are those of `s`, which has no repetition: each node's
  `moreRecentLRU` is its successor, its `lessRecentLRU` its predecessor, NULL at the ends;
* `Searching`: the search for the name of an allocated node ends at it, nodes hang
  from nodes, nodes that are not allocated have no sons; with `Grounded`, which says
  that every descent ends: every set of nodes has one whose sons are outside it;
* `Sound`: besides, the counters are the length and the sum of the sizes of `s`.  It
  is also said in the middle of an operation, when a node may be allocated and not yet
  hung, or have a file and not be in the list;
* `Holds`: `s` is all nodes with a file, and the capacity is respected.

Each operation has a lemma that says what it makes of `s`: `removeFromLRU` cuts one
node out, `insertToFrontLRU` and `moveToFrontLRU` append one, an append of data removes
those that `makeSpace` chose.  The same lemmas, read through the names of the nodes,
are the steps of `LRUStore`: an insertion is `Insert`, `Replace` or `Exists`, or nothing.
The mapping has to go through searches (`size` asks `noMutexGetNode` for a name), so the
refinement rests on `Searching`: what is found under a name is the node of the list
that has it.

Walks, searches, sums and folds are recursive functions.  That a function with such a
definition exists, and what it returns, would be an induction over data; the proofs
take the least counterexample instead: the least length, or a minimal set of nodes
in which the definition fails (`MinInSet`, `MinimalSet`).  For the search tree that
is what `Grounded` is for: it is well-foundedness of the sons, stated over sets.
`Walk` bounds its steps, so that it is defined for any links, and `Without` is a fold
from the left, so that it is read off prefixes.

Model-checked only: liveness (`RequestsAnswered`, `SlowCloseEnds`, `RequestsHeard`,
`ServesQueue`, `CloseEnds`, `CallReturns`, `ConnectionEnds`), which is out of the
prover's reach.  Every invariant and every action property of the passing runs is
stated by a theorem, those of `FileServer` that the code breaks in places with the
premises above.

## Not modelled

* The text of log records, the client programs, configuration and scripts: they
  format, parse or drive the rest and keep no state that it relies on.
* The pointers of `generalList.c`, and the data race on `openList` (server.c:1244):
  the lists are sequences and sets whose updates are atomic.
* The buckets of the client table and `newClient` (clientTable.c:116).
* The bit fields of a request's first word, and integers whose overflow needs
  2 GB of payload.
* Failing allocations of the server other than in the FIFO, and failing mutex calls.
* On the client's side, what happens after SIGPIPE (the library does not ignore it:
  a call on a closed connection ends the process) and a second `openConnection`.

## Plan

Done: `FileServer`, `Dispatcher`, `FifoList` with `FifoQueue`, `TreeFile` with `LRUStore`,
`Session` with `RemoteCall`; theorems about all of them, with the three refinements.

Left, in this order:

1. `ClientTable`: the buckets and `newClient`.
2. `FileLock`: the abstract lock with a queue that clients believe in, refined by
   `FileServer` on the workloads of `sharing`.
3. Mutex order: tree, node, table and client as a model of who waits for whom.
4. `Wire`: layout of a request's first word, payload sizes, overflow of
   `filedim + size`.
