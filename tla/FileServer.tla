----------------------------- MODULE FileServer -----------------------------
(***************************************************************************)
(* The worker pool of the file storage server (src/src/server/server.c)    *)
(* and what its workers share: the files of the tree (tree.c, files.c)     *)
(* with their LRU order, the client table (clientTable.c) and the mutexes. *)
(*                                                                         *)
(* A worker takes a client's request, finds the node of the file, and      *)
(* either becomes the file's handler (flagUse) or parks the request in the *)
(* file's requestList; a handler serves the parked requests, one after the *)
(* other, before it gives the file up.                                     *)
(*                                                                         *)
(* A step of the model is a critical section of the code together with the *)
(* thread-local work around it.  A mutex is a variable only where a worker *)
(* can keep it across steps: treeLock (appendToFileW evicts under it, and  *)
(* a worker may hold it while it waits for a node) and nodeLock (see       *)
(* ReadFile).  Failures of malloc and of the mutex calls are left out; a   *)
(* client is one connection; the path from the client's socket to the      *)
(* worker (dispatcher, FIFO, pipe) is abstracted to conn.                  *)
(***************************************************************************)
EXTENDS Integers, FiniteSets, SequencesExt

CONSTANTS
  Clients,     \* connections
  Workers,     \* the threads of srvGen.threadUse
  Names,       \* file names; each stands for the tree node of that name
  Workload,    \* Workload[c]: the operations client c may ask for
  Mortal,      \* the clients that may vanish without closing their files
  MaxFileNum, MaxFileDim,  \* the capacity read from the configuration
  AppendDim,   \* bytes of one append
  NULL         \* no file, no request, no client, no node

OpKinds == {"OPEN", "OPEN_LOCK", "OPEN_CREATE", "OPEN_CREATE_LOCK", "READ",
            "READ_N", "WRITE", "APPEND", "LOCK", "UNLOCK", "CLOSE", "REMOVE"}
OpenOps == {"OPEN", "OPEN_LOCK", "OPEN_CREATE", "OPEN_CREATE_LOCK"}
O_CREATE(op) == op \in {"OPEN_CREATE", "OPEN_CREATE_LOCK"}
O_LOCK(op)   == op \in {"OPEN_LOCK", "OPEN_CREATE_LOCK"}

Request == [client: Clients, op: OpKinds]

ServerFile ==
  [namePath: Names, flagUse: BOOLEAN, flagO_lock: BOOLEAN,
   lockOwner: Clients \cup {NULL}, creator: Clients \cup {NULL},
   openList: SUBSET Clients, requestList: Seq(Request), dim: Nat]

ASSUME WorkloadAssumption == Workload \in [Clients -> SUBSET OpKinds]
ASSUME MortalAssumption   == Mortal \subseteq Clients
ASSUME CapacityAssumption == /\ MaxFileNum \in Nat \ {0}
                             /\ MaxFileDim \in Nat
                             /\ AppendDim  \in Nat \ {0}
ASSUME NULLAssumption     == NULL \notin Clients \cup Workers \cup Names
                                           \cup Request \cup ServerFile

VARIABLES
  file,        \* file[n]: the sFile of node n, NULL when the file is not stored
  lru,         \* the live files, least recently used first
  fileCount, filedim,      \* the tree's own accounting of what it stores
  nodeInUse, nodeLocked,   \* the client table: open and locked nodes
  conn,        \* conn[c]: "listening" in the select mask, "served" while a
               \* request is at work, "closed" once disconnected
  alive,       \* alive[c]: the client process still holds its socket
  pc,          \* pc[w]: where worker w is
  node,        \* node[w]: its nodePtr
  req,         \* req[w]: the request it has not answered yet
  after,       \* after[w]: where it goes once the reply is sent
  victims,     \* victims[w]: files makeSpace marked for w to evict
  dead,        \* dead[w]: file w took out of the tree and must clean up
  treeLock,    \* holder of the tree's mutex, when kept across steps
  nodeLock,    \* nodeLock[n]: holder of node n's mutex, when kept across steps
  crashed      \* a NULL sFile was dereferenced

treeVars   == <<lru, fileCount, filedim>>
tableVars  == <<nodeInUse, nodeLocked>>
clientVars == <<conn, alive>>
jobVars    == <<node, req>>
evictVars  == <<victims, dead>>
lockVars   == <<treeLock, nodeLock>>
vars == <<file, treeVars, tableVars, clientVars, jobVars, pc, after,
          evictVars, lockVars, crashed>>

PCs == {"idle", "find", "readn", "absent", "insert", "opened", "release",
        "use", "exec", "discard", "payload", "room", "unmark", "evict",
        "filedel", "inform", "finish", "setlock", "table", "remove",
        "reply", "next", "touch"}

(* Each variable has its type; each worker is at one of the steps of       *)
(* manageRequest and of the operations it calls.                           *)
TypeOK ==
  /\ file \in [Names -> ServerFile \cup {NULL}]
  /\ lru \in Seq(Names) /\ fileCount \in Int /\ filedim \in Int
  /\ nodeInUse \in [Clients -> SUBSET Names]
  /\ nodeLocked \in [Clients -> SUBSET Names]
  /\ conn \in [Clients -> {"listening", "served", "closed"}]
  /\ alive \in [Clients -> BOOLEAN]
  /\ pc \in [Workers -> PCs]
  /\ node \in [Workers -> Names \cup {NULL}]
  /\ req \in [Workers -> Request \cup {NULL}]
  /\ after \in [Workers -> {"idle", "next", "touch"}]
  /\ victims \in [Workers -> SUBSET Names]
  /\ dead \in [Workers -> ServerFile \cup {NULL}]
  /\ treeLock \in Workers \cup {NULL}
  /\ nodeLock \in [Names -> Workers \cup {NULL}]
  /\ crashed \in BOOLEAN

Init ==
  /\ file = [n \in Names |-> NULL]
  /\ lru = <<>> /\ fileCount = 0 /\ filedim = 0
  /\ nodeInUse = [c \in Clients |-> {}]
  /\ nodeLocked = [c \in Clients |-> {}]
  /\ conn = [c \in Clients |-> "listening"]
  /\ alive = [c \in Clients |-> TRUE]
  /\ pc = [w \in Workers |-> "idle"]
  /\ node = [w \in Workers |-> NULL]
  /\ req = [w \in Workers |-> NULL]
  /\ after = [w \in Workers |-> "idle"]
  /\ victims = [w \in Workers |-> {}]
  /\ dead = [w \in Workers |-> NULL]
  /\ treeLock = NULL
  /\ nodeLock = [n \in Names |-> NULL]
  /\ crashed = FALSE

-----------------------------------------------------------------------------
(* Files *)

NewServerFile(c, lock, n) ==
  [namePath |-> n, flagUse |-> ~lock, flagO_lock |-> lock,
   lockOwner |-> IF lock THEN c ELSE NULL,
   creator |-> IF lock THEN c ELSE NULL,
   openList |-> {c}, requestList |-> <<>>, dim |-> 0]

(* A definition whose name ends in a capitalised remark (_Always, ...) is  *)
(* a faulty variant of the definition that follows it.  No action uses it: *)
(* the properties are checked to tell the two apart.                       *)

FileUsePermitted(c, f) == ~f.flagO_lock \/ f.lockOwner = c

Available_IgnoresUse(c, f)  == FileUsePermitted(c, f)
Available_IgnoresLock(c, f) == ~f.flagUse
Available(c, f) == ~f.flagUse /\ FileUsePermitted(c, f)

Released_Forgotten(f) == f
Released(f)  == [f EXCEPT !.flagUse = FALSE]
Written(f)   == [f EXCEPT !.creator = NULL]
Locked(f, c) == [f EXCEPT !.flagO_lock = TRUE, !.lockOwner = c,
                          !.flagUse = FALSE]
Unlocked(f)  == [f EXCEPT !.flagO_lock = FALSE, !.lockOwner = NULL]
Parked_Nowhere(f, r)    == f
Parked_ClientOnly(f, r) == [f EXCEPT !.requestList = Append(@, r.client)]
Parked(f, r) == [f EXCEPT !.requestList = Append(@, r)]

(* Whether writeFileW and appendToFileW end the work on the file. *)
GivesUp_Always(f) == TRUE
GivesUp(f) == f.flagO_lock

(* The LRU list, with what it accounts for: least recently used first *)

InsertToFrontLRU(seq, n) == Append(seq, n)
RemoveFromLRU(seq, n)    == RemoveFirst(seq, n)
MoveToFrontLRU_KeepsOld(seq, n) == Append(seq, n)
MoveToFrontLRU(seq, n)   == Append(RemoveFirst(seq, n), n)

(* makeSpace scans the LRU list and marks the files nobody uses until they *)
(* are enough; it holds the tree lock throughout.                          *)
Bytes(S) == MapThenSumSet(LAMBDA n : file[n].dim, S)
Unused(k) == {lru[i] : i \in {j \in 1..k : ~file[lru[j]].flagUse}}
Enough(S, nFile, dim) == Cardinality(S) >= nFile /\ Bytes(S) >= dim
ScanLength(nFile, dim) ==
  CHOOSE k \in 0..Len(lru) :
    /\ k = Len(lru) \/ Enough(Unused(k), nFile, dim)
    /\ \A j \in 0..k-1 : ~Enough(Unused(j), nFile, dim)
MakeSpace(nFile, dim) == Unused(ScanLength(nFile, dim))
Mark(S) == [n \in Names |-> IF n \in S THEN [file[n] EXCEPT !.flagUse = TRUE]
                                       ELSE file[n]]
LeastRecent(S) == lru[Min({i \in 1..Len(lru) : lru[i] \in S})]
Scanned(nFile, dim) == {lru[i] : i \in 1..ScanLength(nFile, dim)}

TreeIsFull   == fileCount = MaxFileNum
MissingSpace_OfNow == filedim - MaxFileDim
MissingSpace == filedim + AppendDim - MaxFileDim

-----------------------------------------------------------------------------
(* Steps of a worker: where it stands and how it moves on *)

Goto(w, l)    == pc' = [pc EXCEPT ![w] = l]
ReplyThen(w, a) == Goto(w, "reply") /\ after' = [after EXCEPT ![w] = a]
File(w)       == file[node[w]]
Client(w)     == req[w].client
SetFile(n, f) == file' = [file EXCEPT ![n] = f]
NoRequest_Kept(w) == req' = req
NoRequest(w)  == req' = [req EXCEPT ![w] = NULL]
Done(w)       == /\ Goto(w, "idle")
                 /\ node' = [node EXCEPT ![w] = NULL]
                 /\ after' = [after EXCEPT ![w] = "idle"]

TreeFree(w)    == treeLock \in {NULL, w}
NodeFree(w, n) == nodeLock[n] \in {NULL, w}   \* ERRORCHECK: w may own it

At(w, l)       == ~crashed /\ pc[w] = l
Handling(w, l) == At(w, l) /\ File(w) # NULL
Exec(w, ops)   == Handling(w, "exec") /\ req[w].op \in ops
IsOpen(w)      == Client(w) \in File(w).openList

(* The node mutexes a worker takes, one at a time, under the tree's. *)
TreePCs == {"find", "readn", "insert", "room", "remove", "touch"}
Needed(w) ==
  CASE pc[w] = "readn" -> ToSet(lru)
    [] pc[w] = "room" /\ MissingSpace > 0 -> Scanned(0, MissingSpace)
    [] pc[w] = "insert" /\ TreeIsFull -> Scanned(1, 0) \cup {node[w]}
    [] pc[w] \in {"find", "insert", "remove", "touch"} -> {node[w]}
    [] OTHER -> {}
InTree(w, l) == /\ At(w, l) /\ TreeFree(w)
                /\ \A n \in Needed(w) : NodeFree(w, n)

(* The table, and what a disconnection undoes *)

TableOpen_NoLock(c, n, lock) ==
  /\ nodeInUse' = [nodeInUse EXCEPT ![c] = @ \cup {n}]
  /\ nodeLocked' = nodeLocked
TableOpen(c, n, lock) ==
  /\ nodeInUse' = [nodeInUse EXCEPT ![c] = @ \cup {n}]
  /\ nodeLocked' = IF lock THEN [nodeLocked EXCEPT ![c] = @ \cup {n}]
                           ELSE nodeLocked

Forgotten(f, c, wasLocked) ==
  [f EXCEPT !.openList = @ \ {c}, !.flagO_lock = @ /\ ~wasLocked]

DisconnectClient(w, c) ==
  LET held == nodeInUse[c] \cup nodeLocked[c]
  IN /\ \A n \in held : NodeFree(w, n)
     /\ conn' = [conn EXCEPT ![c] = "closed"]
     /\ nodeLock' = [n \in Names |-> IF n \in held THEN NULL ELSE nodeLock[n]]
     /\ nodeInUse' = [nodeInUse EXCEPT ![c] = {}]
     /\ nodeLocked' = [nodeLocked EXCEPT ![c] = {}]
     /\ file' = [n \in Names |->
                   IF n \in held /\ file[n] # NULL
                   THEN Forgotten(file[n], c, n \in nodeLocked[c])
                   ELSE file[n]]
     /\ crashed' = (\E n \in held : file[n] = NULL)

(* sendClientResult and sendClientError: the client is listened to again,  *)
(* or disconnected when it cannot be reached.                              *)
SendClientResult(w, c) ==
  \/ /\ alive[c]
     /\ conn' = [conn EXCEPT ![c] = "listening"]
     /\ UNCHANGED <<file, tableVars, nodeLock, crashed>>
  \/ ~alive[c] /\ DisconnectClient(w, c)

-----------------------------------------------------------------------------
(* Clients, and the requests the workers take *)

Die(c) ==
  /\ ~crashed /\ c \in Mortal /\ alive[c] /\ conn[c] # "closed"
  /\ alive' = [alive EXCEPT ![c] = FALSE]
  /\ UNCHANGED <<file, treeVars, tableVars, conn, jobVars, pc, after,
                 evictVars, lockVars, crashed>>

Take(w, c, op, n) ==
  /\ At(w, "idle")
  /\ alive[c] /\ conn[c] = "listening" /\ op \in Workload[c]
  /\ conn' = [conn EXCEPT ![c] = "served"]
  /\ req' = [req EXCEPT ![w] = [client |-> c, op |-> op]]
  /\ node' = [node EXCEPT ![w] = IF op = "READ_N" THEN NULL ELSE n]
  /\ Goto(w, IF op = "READ_N" THEN "readn" ELSE "find")
  /\ UNCHANGED <<file, treeVars, tableVars, alive, after, evictVars,
                 lockVars, crashed>>

TakeEOF(w, c) ==
  /\ At(w, "idle")
  /\ ~alive[c] /\ conn[c] = "listening"
  /\ DisconnectClient(w, c)
  /\ UNCHANGED <<treeVars, alive, jobVars, pc, after, evictVars, treeLock>>

-----------------------------------------------------------------------------
(* Finding the file *)

Found(w) == File(w) # NULL

Find(w) ==
  /\ InTree(w, "find")
  /\ Goto(w, IF Found(w) THEN "use"
             ELSE IF O_CREATE(req[w].op) THEN "insert" ELSE "absent")
  /\ treeLock' = NULL
  /\ UNCHANGED <<file, treeVars, tableVars, clientVars, jobVars, after,
                 evictVars, nodeLock, crashed>>

AbsentError(w) ==
  /\ At(w, "absent") /\ req[w].op \in OpenOps \cup {"LOCK", "UNLOCK"}
  /\ ReplyThen(w, "idle")
  /\ UNCHANGED <<file, treeVars, tableVars, clientVars, jobVars,
                 evictVars, lockVars, crashed>>

(* For the other operations a missing file is fatal for the connection. *)
AbsentFatal(w) ==
  /\ At(w, "absent") /\ req[w].op \notin OpenOps \cup {"LOCK", "UNLOCK"}
  /\ DisconnectClient(w, Client(w))
  /\ Done(w) /\ NoRequest(w)
  /\ UNCHANGED <<treeVars, alive, evictVars, treeLock>>

(* tryUse: become the handler of the file, or park the request *)
TryUse(w) ==
  /\ Handling(w, "use") /\ NodeFree(w, node[w])
  /\ Available(Client(w), File(w))
  /\ SetFile(node[w], [File(w) EXCEPT !.flagUse = TRUE])
  /\ Goto(w, "exec")
  /\ UNCHANGED <<treeVars, tableVars, clientVars, jobVars, after, evictVars,
                 lockVars, crashed>>

Park(w) ==
  /\ Handling(w, "use") /\ NodeFree(w, node[w])
  /\ ~Available(Client(w), File(w))
  /\ SetFile(node[w], Parked(File(w), req[w]))
  /\ Done(w) /\ NoRequest(w)
  /\ UNCHANGED <<treeVars, tableVars, clientVars, evictVars, lockVars,
                 crashed>>

-----------------------------------------------------------------------------
(* Creating a file: TreeFileinsert evicts the least recently used file     *)
(* nobody uses when the tree is full.                                      *)

Expelled == IF TreeIsFull THEN MakeSpace(1, 0) ELSE {}
ToRemove == LeastRecent(Expelled)

Inserting(w) == InTree(w, "insert") /\ treeLock' = NULL

InsertNew(w) ==
  /\ Inserting(w)
  /\ LET c == Client(w)
         n == node[w]
         new == NewServerFile(c, O_LOCK(req[w].op), n)
     IN \/ /\ ~TreeIsFull /\ File(w) = NULL
           /\ SetFile(n, new)
           /\ lru' = InsertToFrontLRU(lru, n)
           /\ fileCount' = fileCount + 1
           /\ Goto(w, "opened")
           /\ UNCHANGED <<filedim, dead>>
        \/ /\ TreeIsFull /\ Expelled # {}
           /\ File(w) = NULL \/ n = ToRemove
           /\ file' = [file EXCEPT ![ToRemove] = NULL, ![n] = new]
           /\ lru' = InsertToFrontLRU(RemoveFromLRU(lru, ToRemove), n)
           /\ filedim' = filedim - file[ToRemove].dim
           /\ dead' = [dead EXCEPT ![w] = file[ToRemove]]
           /\ Goto(w, "filedel")
           /\ UNCHANGED fileCount
  /\ UNCHANGED <<tableVars, clientVars, jobVars, after, victims, nodeLock,
                 crashed>>

(* Another worker created the name since Find: a file taken out to make    *)
(* room goes back, most recently used, its flagUse still set by makeSpace. *)
InsertExists(w) ==
  /\ Inserting(w) /\ File(w) # NULL
  /\ \/ ~TreeIsFull /\ UNCHANGED <<file, lru>>
     \/ /\ TreeIsFull /\ Expelled # {} /\ node[w] # ToRemove
        /\ file' = Mark({ToRemove})
        /\ lru' = MoveToFrontLRU(lru, ToRemove)
  /\ ReplyThen(w, "idle")
  /\ UNCHANGED <<fileCount, filedim, tableVars, clientVars, jobVars,
                 evictVars, nodeLock, crashed>>

InsertNoMemory(w) ==
  /\ Inserting(w)
  /\ TreeIsFull /\ Expelled = {}
  /\ ReplyThen(w, "idle")
  /\ UNCHANGED <<file, treeVars, tableVars, clientVars, jobVars, evictVars,
                 nodeLock, crashed>>

Opened(w) ==
  /\ At(w, "opened")
  /\ TableOpen(Client(w), node[w], O_LOCK(req[w].op))
  /\ IF O_LOCK(req[w].op) THEN Goto(w, "release") /\ UNCHANGED after
                          ELSE ReplyThen(w, "next")
  /\ UNCHANGED <<file, treeVars, clientVars, jobVars, evictVars, lockVars,
                 crashed>>

Release(w) ==
  /\ Handling(w, "release") /\ NodeFree(w, node[w])
  /\ SetFile(node[w], Released(File(w)))
  /\ ReplyThen(w, "touch")
  /\ UNCHANGED <<treeVars, tableVars, clientVars, jobVars, evictVars,
                 lockVars, crashed>>

-----------------------------------------------------------------------------
(* A file leaves the tree: clientFileDel, then informClientDelete *)

Detach(w, n) ==
  /\ dead' = [dead EXCEPT ![w] = file[n]]
  /\ SetFile(n, NULL)
  /\ lru' = RemoveFromLRU(lru, n)
  /\ fileCount' = fileCount - 1
  /\ filedim' = filedim - file[n].dim
  /\ Goto(w, "filedel")

TableForget_KeepsLocks(d) ==
  /\ nodeInUse' = [c \in Clients |->
       IF c \in d.openList THEN nodeInUse[c] \ {d.namePath} ELSE nodeInUse[c]]
  /\ nodeLocked' = nodeLocked
TableForget(d) ==
  /\ nodeInUse' = [c \in Clients |->
       IF c \in d.openList THEN nodeInUse[c] \ {d.namePath} ELSE nodeInUse[c]]
  /\ nodeLocked' = [c \in Clients |->
       IF d.flagO_lock /\ c = d.lockOwner THEN nodeLocked[c] \ {d.namePath}
                                          ELSE nodeLocked[c]]

FileDel(w) ==
  /\ At(w, "filedel")
  /\ TableForget(dead[w])
  /\ dead' = [dead EXCEPT ![w].openList = {}]
  /\ Goto(w, "inform")
  /\ UNCHANGED <<file, treeVars, clientVars, jobVars, after, victims,
                 lockVars, crashed>>

Informing(w, ops) ==
  /\ At(w, "inform") /\ dead[w].requestList # <<>>
  /\ Head(dead[w].requestList).op \in ops
  /\ dead' = [dead EXCEPT ![w].requestList = Tail(@)]
  /\ UNCHANGED <<treeVars, alive, jobVars, pc, after, victims, treeLock>>

InformReply(w) ==
  /\ Informing(w, OpKinds \ {"APPEND", "WRITE"})
  /\ SendClientResult(w, Head(dead[w].requestList).client)

(* One byte more is read than the client sent: the read ends when the      *)
(* client closes its end.                                                  *)
InformAppend(w) ==
  /\ Informing(w, {"APPEND"})
  /\ ~alive[Head(dead[w].requestList).client]
  /\ DisconnectClient(w, Head(dead[w].requestList).client)

InformWrite(w) ==
  /\ Informing(w, {"WRITE"})
  /\ UNCHANGED <<file, tableVars, conn, nodeLock, crashed>>

InformDone(w) ==
  /\ At(w, "inform") /\ dead[w].requestList = <<>>
  /\ dead' = [dead EXCEPT ![w] = NULL]
  /\ \/ req[w].op \in OpenOps /\ Goto(w, "opened") /\ UNCHANGED after
     \/ req[w].op = "REMOVE" /\ ReplyThen(w, "touch")
     \/ req[w].op \in {"WRITE", "APPEND"} /\ Goto(w, "evict")
                                          /\ UNCHANGED after
  /\ UNCHANGED <<file, treeVars, tableVars, clientVars, jobVars, victims,
                 lockVars, crashed>>

-----------------------------------------------------------------------------
(* The operations, run by the handler of the file *)

(* A request answered with an error; the handler goes on with the queue,   *)
(* even when the file is locked (FAILED_CONT).                             *)
Refused(w) ==
  \/ Exec(w, {"OPEN_CREATE", "OPEN_CREATE_LOCK"})
  \/ Exec(w, {"READ", "LOCK", "UNLOCK", "CLOSE"}) /\ ~IsOpen(w)
  \/ Exec(w, {"REMOVE"}) /\ ~File(w).flagO_lock

Refuse(w) ==
  /\ Refused(w)
  /\ ReplyThen(w, "next")
  /\ UNCHANGED <<file, treeVars, tableVars, clientVars, jobVars, evictVars,
                 lockVars, crashed>>

OpenFile(w) ==
  /\ Exec(w, {"OPEN", "OPEN_LOCK"})
  /\ SetFile(node[w], [Written(File(w)) EXCEPT !.openList = @ \cup {Client(w)}])
  /\ LET lock == O_LOCK(req[w].op)
     IN /\ TableOpen(Client(w), node[w], lock \/ File(w).flagO_lock)
        /\ IF lock THEN Goto(w, "setlock") /\ UNCHANGED after
           ELSE IF File(w).flagO_lock THEN Goto(w, "release") /\ UNCHANGED after
           ELSE ReplyThen(w, "next")
  /\ UNCHANGED <<treeVars, clientVars, jobVars, evictVars, lockVars, crashed>>

SetLock(w) ==
  /\ Handling(w, "setlock") /\ NodeFree(w, node[w])
  /\ SetFile(node[w], Locked(File(w), Client(w)))
  /\ ReplyThen(w, "touch")
  /\ UNCHANGED <<treeVars, tableVars, clientVars, jobVars, evictVars,
                 lockVars, crashed>>

(* On a locked file readFileW takes the node's mutex to release flagUse,   *)
(* but its test is inverted: flagUse stays and the mutex is kept until the *)
(* end of manageRequest.                                                   *)
ReadFile(w) ==
  /\ Exec(w, {"READ"}) /\ IsOpen(w)
  /\ IF File(w).flagO_lock
     THEN /\ NodeFree(w, node[w])
          /\ nodeLock' = [nodeLock EXCEPT ![node[w]] = w]
          /\ ReplyThen(w, "touch")
     ELSE ReplyThen(w, "next") /\ UNCHANGED nodeLock
  /\ UNCHANGED <<file, treeVars, tableVars, clientVars, jobVars, evictVars,
                 treeLock, crashed>>

LockFile(w) ==
  /\ Exec(w, {"LOCK"}) /\ IsOpen(w) /\ NodeFree(w, node[w])
  /\ SetFile(node[w], Locked(File(w), Client(w)))
  /\ Goto(w, "table")
  /\ UNCHANGED <<treeVars, tableVars, clientVars, jobVars, after, evictVars,
                 lockVars, crashed>>

(* clientLock comes after flagUse is released *)
TableLock(w) ==
  /\ At(w, "table")
  /\ nodeLocked' = [nodeLocked EXCEPT ![Client(w)] = @ \cup {node[w]}]
  /\ ReplyThen(w, "touch")
  /\ UNCHANGED <<file, treeVars, nodeInUse, clientVars, jobVars, evictVars,
                 lockVars, crashed>>

UnlockFile(w) ==
  /\ Exec(w, {"UNLOCK"}) /\ IsOpen(w) /\ NodeFree(w, node[w])
  /\ SetFile(node[w], Unlocked(Written(File(w))))
  /\ nodeLocked' = [nodeLocked EXCEPT ![Client(w)] = @ \ {node[w]}]
  /\ ReplyThen(w, "next")
  /\ UNCHANGED <<treeVars, nodeInUse, clientVars, jobVars, evictVars,
                 lockVars, crashed>>

CloseFile(w) ==
  /\ Exec(w, {"CLOSE"}) /\ IsOpen(w) /\ NodeFree(w, node[w])
  /\ LET f == [Written(File(w)) EXCEPT !.openList = @ \ {Client(w)}]
     IN IF f.flagO_lock
        THEN /\ SetFile(node[w], Unlocked(f))
             /\ nodeLocked' = [nodeLocked EXCEPT ![Client(w)] = @ \ {node[w]}]
        ELSE SetFile(node[w], f) /\ UNCHANGED nodeLocked
  /\ nodeInUse' = [nodeInUse EXCEPT ![Client(w)] = @ \ {node[w]}]
  /\ ReplyThen(w, "next")
  /\ UNCHANGED <<treeVars, clientVars, jobVars, evictVars, lockVars, crashed>>

RemoveFile(w) ==
  /\ Exec(w, {"REMOVE"}) /\ File(w).flagO_lock
  /\ Goto(w, "remove")
  /\ UNCHANGED <<file, treeVars, tableVars, clientVars, jobVars, after,
                 evictVars, lockVars, crashed>>

(* TreeFileRemove *)
TreeRemove(w) ==
  /\ InTree(w, "remove")
  /\ IF File(w) # NULL
     THEN Detach(w, node[w]) /\ UNCHANGED after
     ELSE ReplyThen(w, "next") /\ UNCHANGED <<file, treeVars, dead>>
  /\ treeLock' = NULL
  /\ UNCHANGED <<tableVars, clientVars, jobVars, victims, nodeLock, crashed>>

-----------------------------------------------------------------------------
(* writeFileW and appendToFileW *)

MayWrite(w) == File(w).flagO_lock /\ File(w).creator = Client(w)

WriteFile(w) ==
  /\ Exec(w, {"WRITE"}) /\ ~MayWrite(w)
  /\ SetFile(node[w], Written(File(w)))
  /\ Goto(w, "discard")
  /\ UNCHANGED <<treeVars, tableVars, clientVars, jobVars, after, evictVars,
                 lockVars, crashed>>

AppendToFile(w) ==
  /\ Exec(w, {"APPEND", "WRITE"})
  /\ req[w].op = "WRITE" => MayWrite(w)
  /\ SetFile(node[w], Written(File(w)))
  /\ Goto(w, "payload")
  /\ UNCHANGED <<treeVars, tableVars, clientVars, jobVars, after, evictVars,
                 lockVars, crashed>>

(* A payload cut short disconnects the client.  writeFileW then releases a *)
(* locked file; appendToFileW goes on with the queue (FAILED_CONT).        *)
PayloadCut(w) ==
  /\ At(w, "discard") \/ At(w, "payload")
  /\ ~alive[Client(w)]
  /\ DisconnectClient(w, Client(w))
  /\ NoRequest(w)
  /\ Goto(w, IF pc[w] = "discard" THEN "finish" ELSE "next")
  /\ UNCHANGED <<treeVars, alive, node, after, evictVars, treeLock>>

Discard(w) ==
  /\ At(w, "discard")
  /\ Goto(w, "finish")
  /\ UNCHANGED <<file, treeVars, tableVars, clientVars, jobVars, after,
                 evictVars, lockVars, crashed>>

Payload(w) ==
  /\ Handling(w, "payload")
  /\ IF IsOpen(w) THEN Goto(w, "room") /\ UNCHANGED after
                  ELSE ReplyThen(w, "next")
  /\ UNCHANGED <<file, treeVars, tableVars, clientVars, jobVars, evictVars,
                 lockVars, crashed>>

Store(w) ==
  /\ SetFile(node[w], [File(w) EXCEPT !.dim = @ + AppendDim])
  /\ filedim' = filedim + AppendDim
  /\ treeLock' = NULL
  /\ Goto(w, "finish")
  /\ UNCHANGED <<lru, fileCount, tableVars, clientVars, jobVars, after,
                 evictVars, nodeLock, crashed>>

RoomEnough(w) ==
  /\ InTree(w, "room") /\ File(w) # NULL
  /\ MissingSpace <= 0
  /\ Store(w)

(* The tree stays locked until the victims are gone, or marked free again. *)
MakeRoom(w) ==
  /\ InTree(w, "room")
  /\ MissingSpace > 0
  /\ LET S == MakeSpace(0, MissingSpace)
     IN /\ file' = Mark(S)
        /\ victims' = [victims EXCEPT ![w] = S]
        /\ Goto(w, IF Enough(S, 0, MissingSpace) THEN "evict" ELSE "unmark")
  /\ treeLock' = w
  /\ UNCHANGED <<treeVars, tableVars, clientVars, jobVars, after, dead,
                 nodeLock, crashed>>

(* generalListDestroy with fakeFree *)
Unmark(w) ==
  /\ At(w, "unmark") /\ victims[w] # {}
  /\ LET n == LeastRecent(victims[w])
     IN /\ NodeFree(w, n)
        /\ SetFile(n, Released(file[n]))
        /\ victims' = [victims EXCEPT ![w] = @ \ {n}]
  /\ UNCHANGED <<treeVars, tableVars, clientVars, jobVars, pc, after, dead,
                 lockVars, crashed>>

NoRoom(w) ==
  /\ At(w, "unmark") /\ victims[w] = {}
  /\ treeLock' = NULL
  /\ ReplyThen(w, "next")
  /\ UNCHANGED <<file, treeVars, tableVars, clientVars, jobVars, evictVars,
                 nodeLock, crashed>>

Evict(w) ==
  /\ At(w, "evict") /\ victims[w] # {}
  /\ LET n == LeastRecent(victims[w])
     IN /\ NodeFree(w, n)
        /\ Detach(w, n)
        /\ victims' = [victims EXCEPT ![w] = @ \ {n}]
  /\ UNCHANGED <<tableVars, clientVars, jobVars, after, lockVars, crashed>>

Evicted(w) ==
  /\ Handling(w, "evict") /\ victims[w] = {}
  /\ Store(w)

(* A locked file is given up, an unlocked one goes on with its queue. *)
Finish(w) ==
  /\ Handling(w, "finish") /\ NodeFree(w, node[w])
  /\ LET a == IF GivesUp(File(w)) THEN "touch" ELSE "next"
     IN /\ after' = [after EXCEPT ![w] = a]
        /\ Goto(w, IF req[w] = NULL THEN a ELSE "reply")
  /\ SetFile(node[w], IF GivesUp(File(w)) THEN Released(File(w)) ELSE File(w))
  /\ UNCHANGED <<treeVars, tableVars, clientVars, jobVars, evictVars,
                 lockVars, crashed>>

-----------------------------------------------------------------------------
(* The end of a request *)

Reply(w) ==
  /\ At(w, "reply")
  /\ SendClientResult(w, Client(w))
  /\ NoRequest(w)
  /\ IF after[w] = "idle" THEN Done(w)
                          ELSE Goto(w, after[w]) /\ UNCHANGED <<node, after>>
  /\ UNCHANGED <<treeVars, alive, evictVars, treeLock>>

(* readNFilesW: the tree is locked while every file is copied *)
ReadNFiles(w) ==
  /\ InTree(w, "readn")
  /\ treeLock' = NULL
  /\ ReplyThen(w, "idle")
  /\ UNCHANGED <<file, treeVars, tableVars, clientVars, jobVars, evictVars,
                 nodeLock, crashed>>

NextRequest(w) ==
  /\ Handling(w, "next") /\ NodeFree(w, node[w])
  /\ File(w).requestList # <<>>
  /\ SetFile(node[w], [File(w) EXCEPT !.requestList = Tail(@)])
  /\ req' = [req EXCEPT ![w] = Head(File(w).requestList)]
  /\ Goto(w, "exec")
  /\ UNCHANGED <<treeVars, tableVars, clientVars, node, after, evictVars,
                 lockVars, crashed>>

NoNextRequest(w) ==
  /\ Handling(w, "next") /\ NodeFree(w, node[w])
  /\ File(w).requestList = <<>>
  /\ SetFile(node[w], Released(File(w)))
  /\ Goto(w, "touch")
  /\ UNCHANGED <<treeVars, tableVars, clientVars, jobVars, after, evictVars,
                 lockVars, crashed>>

(* manageRequest ends: the file becomes the most recently used, and the    *)
(* node's mutex is free again.                                             *)
Touch(w) ==
  /\ InTree(w, "touch")
  /\ lru' = IF File(w) # NULL /\ ~File(w).flagUse
            THEN MoveToFrontLRU(lru, node[w]) ELSE lru
  /\ treeLock' = NULL
  /\ nodeLock' = [nodeLock EXCEPT ![node[w]] = NULL]
  /\ Done(w)
  /\ UNCHANGED <<file, fileCount, filedim, tableVars, clientVars, req,
                 evictVars, crashed>>

-----------------------------------------------------------------------------
(* A worker takes the tree's mutex and has to wait for a node's. *)
HoldTree(w) ==
  /\ ~crashed /\ pc[w] \in TreePCs /\ treeLock = NULL
  /\ \E n \in Needed(w) : ~NodeFree(w, n)
  /\ treeLock' = w
  /\ UNCHANGED <<file, treeVars, tableVars, clientVars, jobVars, pc, after,
                 evictVars, nodeLock, crashed>>

(* The code follows nodePtr->sFile without a test at these points. *)
Dereferencing == {"use", "exec", "setlock", "release", "payload", "room",
                  "evict", "finish", "next"}
Crash(w) ==
  /\ ~crashed /\ pc[w] \in Dereferencing /\ File(w) = NULL
  /\ At(w, "room") => MissingSpace <= 0
  /\ At(w, "evict") => victims[w] = {}
  /\ crashed' = TRUE
  /\ UNCHANGED <<file, treeVars, tableVars, clientVars, jobVars, pc, after,
                 evictVars, lockVars>>

Step(w) ==
  \/ Find(w) \/ AbsentError(w) \/ AbsentFatal(w) \/ TryUse(w) \/ Park(w)
  \/ InsertNew(w) \/ InsertExists(w) \/ InsertNoMemory(w) \/ Opened(w)
  \/ Release(w) \/ FileDel(w) \/ InformReply(w) \/ InformAppend(w)
  \/ InformWrite(w) \/ InformDone(w) \/ Refuse(w) \/ OpenFile(w)
  \/ SetLock(w) \/ ReadFile(w) \/ LockFile(w) \/ TableLock(w)
  \/ UnlockFile(w) \/ CloseFile(w) \/ RemoveFile(w) \/ TreeRemove(w)
  \/ WriteFile(w) \/ AppendToFile(w) \/ PayloadCut(w) \/ Discard(w)
  \/ Payload(w) \/ RoomEnough(w) \/ MakeRoom(w) \/ Unmark(w) \/ NoRoom(w)
  \/ Evict(w) \/ Evicted(w) \/ Finish(w) \/ Reply(w) \/ ReadNFiles(w)
  \/ NextRequest(w) \/ NoNextRequest(w) \/ Touch(w) \/ HoldTree(w)
  \/ Crash(w)

Next ==
  \/ \E c \in Clients : Die(c)
  \/ \E w \in Workers, c \in Clients, op \in OpKinds, n \in Names :
       Take(w, c, op, n)
  \/ \E w \in Workers, c \in Clients : TakeEOF(w, c)
  \/ \E w \in Workers : Step(w)

Spec == Init /\ [][Next]_vars

(* A thread that can run is eventually scheduled, and one that waits for   *)
(* the tree's mutex is not overtaken forever; clients need not ask.        *)
FairSpec ==
  /\ Spec
  /\ \A w \in Workers : /\ WF_vars(Step(w))
                        /\ SF_vars(pc[w] \in TreePCs /\ Step(w))

-----------------------------------------------------------------------------
(* Properties *)

(* The worker that manages file n: flagUse is its token. *)
Handles(w, n) ==
  /\ node[w] = n
  /\ \/ pc[w] \in {"exec", "discard", "payload", "room", "unmark", "evict",
                   "finish", "setlock", "remove", "next"}
     \/ /\ pc[w] \in {"filedel", "inform", "opened"}
        /\ req[w].op \in {"OPEN_CREATE", "WRITE", "APPEND"}
     \/ pc[w] = "release" /\ req[w].op # "OPEN_CREATE_LOCK"
     \/ pc[w] = "reply" /\ after[w] = "next"

Live == {n \in Names : file[n] # NULL}

(* The LRU list holds every stored file, each of them once; fileCount is   *)
(* their number and stays within the configured one (TreeFileinsert,       *)
(* TreeFileRemove, moveToFrontLRU and the evictions of appendToFileW).     *)
FilesAccounted ==
  /\ ToSet(lru) = Live
  /\ \A i, j \in 1..Len(lru) : lru[i] = lru[j] => i = j
  /\ fileCount = Len(lru) /\ fileCount <= MaxFileNum

(* filedim is what the stored files add up to, and stays within the        *)
(* configured capacity: appendToFileW makes room first.                    *)
BytesAccounted == filedim = Bytes(Live) /\ filedim <= MaxFileDim

(* Every request is at one place only: with one worker, or once in one     *)
(* queue of a stored or of a removed file; and its client is not listened  *)
(* to meanwhile.  So no request is run or answered twice, however often it *)
(* is parked, popped or moved out with a deleted file.                     *)
Queues == ({"file"} \X Names) \cup ({"dead"} \X Workers)
Queue(q) ==
  LET f == IF q[1] = "file" THEN file[q[2]] ELSE dead[q[2]]
  IN IF f = NULL THEN <<>> ELSE f.requestList
HeldOnce ==
  \A v, w \in Workers :
    req[v] # NULL /\ req[w] # NULL /\ v # w => Client(v) # Client(w)
ParkedOnce ==
  \A p, q \in Queues : \A i \in DOMAIN Queue(p), j \in DOMAIN Queue(q) :
    Queue(p)[i].client = Queue(q)[j].client => p = q /\ i = j
HeldNotParked ==
  \A w \in Workers, q \in Queues : \A i \in DOMAIN Queue(q) :
    req[w] # NULL => Queue(q)[i].client # Client(w)
PendingIsServed ==
  /\ \A w \in Workers : req[w] # NULL => conn[Client(w)] = "served"
  /\ \A q \in Queues : \A i \in DOMAIN Queue(q) :
       conn[Queue(q)[i].client] = "served"
RequestsUnique ==
  HeldOnce /\ ParkedOnce /\ HeldNotParked /\ PendingIsServed

(* A client that waits for an answer has a request somewhere: none is      *)
(* dropped on the way (informClientDelete, manageRequest).                 *)
NoRequestLost ==
  \A c \in Clients : conn[c] = "served" =>
    \/ \E w \in Workers : req[w] # NULL /\ Client(w) = c
    \/ \E q \in Queues : \E i \in DOMAIN Queue(q) : Queue(q)[i].client = c

(* flagUse works as a token: at most one worker manages a file, and a set  *)
(* flagUse always has a worker that will reset it.                         *)
UseExclusion ==
  \A n \in Names, v, w \in Workers :
    Handles(v, n) /\ Handles(w, n) => v = w
UseHasHandler ==
  \A n \in Live : file[n].flagUse =>
    \E w \in Workers : Handles(w, n) \/ n \in victims[w]
UseToken == UseExclusion /\ UseHasHandler

(* No operation runs on a file another client has locked (server.c:1365). *)
LockExclusion ==
  \A w \in Workers : pc[w] = "exec" /\ File(w) # NULL =>
    FileUsePermitted(Client(w), File(w))

(* A request waits in the queue of a file nobody manages only for a lock   *)
(* of another client, one that is still connected and can give it up.      *)
WaitsForOwner ==
  \A n \in Live : \A i \in DOMAIN file[n].requestList :
    \/ file[n].flagUse
    \/ /\ file[n].flagO_lock
       /\ file[n].lockOwner # file[n].requestList[i].client
       /\ conn[file[n].lockOwner] # "closed"

(* The two sides of the same fact agree: the client table and the files,   *)
(* apart from what a worker is just updating.                              *)
InTransit(n) ==
  \/ \E w \in Workers : dead[w] # NULL /\ dead[w].namePath = n
  \/ \E w \in Workers : node[w] = n /\
       pc[w] \in {"filedel", "inform", "opened", "release", "setlock", "table"}
TableMatchesFiles ==
  \A n \in {m \in Names : ~InTransit(m)}, c \in Clients :
    /\ n \in nodeInUse[c] <=> file[n] # NULL /\ c \in file[n].openList
    /\ n \in nodeLocked[c] <=> /\ file[n] # NULL /\ file[n].flagO_lock
                               /\ file[n].lockOwner = c

(* Once a client is disconnected no file is open or locked for it. *)
ClosedHoldsNothing ==
  \A n \in Live, c \in Clients : conn[c] = "closed" =>
    /\ c \notin file[n].openList
    /\ ~(file[n].flagO_lock /\ file[n].lockOwner = c)
TableExact == TableMatchesFiles /\ ClosedHoldsNothing

(* No worker follows an sFile that was removed (clientTable.c:318). *)
NoSegfault == ~crashed

(* Whoever was heard is answered, or found to have gone. *)
RequestsAnswered == \A c \in Clients : conn[c] = "served" ~> conn[c] # "served"

=============================================================================
