----------------------------- MODULE Dispatcher -----------------------------
(***************************************************************************)
(* The dispatcher of the server (server.c: dispatcher, collectThreads, the *)
(* signal handlers) and the round trip of a connection's descriptor: from  *)
(* the select mask through the FIFO of ready sockets to a worker, perhaps  *)
(* to the queue of a file, and back through the pipe of finished           *)
(* requests, which puts it in the mask again or closes it.                 *)
(*                                                                         *)
(* What a worker does with a request is FileServer's subject: here it      *)
(* answers, disconnects, or leaves the request in the queue of a file.     *)
(* Files are not told apart: whether a file is in use or locked, whose     *)
(* queue a request is in and whether anyone will come to take it are       *)
(* choices.  FIFO and pipe are unbounded sequences.                        *)
(*                                                                         *)
(* A definition whose name ends in a capitalised remark (_NotCounted, ...) *)
(* is a faulty variant of the definition that follows it; no action uses   *)
(* it: the properties are checked to tell the two apart.                   *)
(***************************************************************************)
EXTENDS Integers, FiniteSets, SequencesExt

CONSTANTS
  Peers,    \* client processes, each of them connects at most once
  Workers,
  Fds,      \* the descriptors accept may return
  FdLimit,  \* the largest descriptor select can handle (1023 in the code)
  Cut,      \* the clients that may leave in the middle of a payload
  NULL

PIPE   == 0   \* srvGen.doneReq[0], created before the socket,
SOCKET == 1   \* srvGen.sockFD, created before any connection

ASSUME FdsAssumption  == Fds \subseteq Nat \ {PIPE, SOCKET} /\ IsFiniteSet(Fds)
ASSUME FdLimitAssumption == FdLimit \in Nat
ASSUME WorkersAssumption == IsFiniteSet(Workers)
ASSUME CutAssumption  == Cut \subseteq Peers
ASSUME NULLAssumption == NULL \notin Peers \cup Fds

VARIABLES
  serverStatus, \* "working", "slow" (SIGHUP) or "fast" (SIGINT, SIGQUIT)
  dpc,          \* where the dispatcher is
  set, rdSet,   \* the select mask; what is left of the last select
  maxFD, clientNum,
  toServe,      \* the FIFO: descriptors, NULL for a worker that has to end
  doneReq,      \* the pipe: [fd, reset], reset when the client is connected
  wpc, job,     \* where worker w is, and the descriptor it serves
  parked,       \* descriptors whose request is in the queue of a file
  dropped,      \* descriptors whose request was destroyed with a file
  backlog,      \* connections not yet accepted
  owner,        \* owner[f]: the client behind descriptor f, NULL if closed
  link,         \* link[p]: what the server did with the connection of p
  talk,         \* talk[p]: nothing sent, a request sent, a request read
  alive         \* alive[p]: p has its end of the connection open

dispatcherVars == <<set, rdSet, maxFD, clientNum>>
workerVars     == <<wpc, job, parked, dropped>>
peerVars       == <<link, talk, alive>>
vars == <<serverStatus, dpc, dispatcherVars, toServe, doneReq, workerVars,
          backlog, owner, peerVars>>

(* Each variable has its type. *)
TypeOK ==
  /\ serverStatus \in {"working", "slow", "fast"}
  /\ dpc \in {"test", "mask", "select", "scan", "collect", "join", "end"}
  /\ set \subseteq Fds \cup {PIPE, SOCKET}
  /\ rdSet \subseteq Fds \cup {PIPE, SOCKET}
  /\ maxFD \in Int /\ clientNum \in Int
  /\ toServe \in Seq(Fds \cup {NULL})
  /\ doneReq \in Seq([fd: Fds, reset: BOOLEAN])
  /\ wpc \in [Workers ->
               {"pop", "read", "work", "handle", "again", "next", "exit"}]
  /\ job \in [Workers -> Fds \cup {NULL}]
  /\ parked \subseteq Fds /\ dropped \subseteq Fds
  /\ backlog \in Seq(Peers)
  /\ owner \in [Fds -> Peers \cup {NULL}]
  /\ link \in [Peers ->
                {"away", "pending", "open", "refused", "closed", "cut"}]
  /\ talk \in [Peers -> {"quiet", "asking", "waiting"}]
  /\ alive \in [Peers -> BOOLEAN]

Init ==
  /\ serverStatus = "working" /\ dpc = "test"
  /\ set = {PIPE, SOCKET} /\ rdSet = {}
  /\ maxFD = SOCKET /\ clientNum = 0
  /\ toServe = <<>> /\ doneReq = <<>>
  /\ wpc = [w \in Workers |-> "pop"]
  /\ job = [w \in Workers |-> NULL]
  /\ parked = {} /\ dropped = {}
  /\ backlog = <<>>
  /\ owner = [f \in Fds |-> NULL]
  /\ link = [p \in Peers |-> "away"]
  /\ talk = [p \in Peers |-> "quiet"]
  /\ alive = [p \in Peers |-> FALSE]

-----------------------------------------------------------------------------
(* Clients *)

Connect(p) ==
  /\ link[p] = "away" /\ dpc # "end"
  /\ link' = [link EXCEPT ![p] = "pending"]
  /\ alive' = [alive EXCEPT ![p] = TRUE]
  /\ backlog' = Append(backlog, p)
  /\ UNCHANGED <<serverStatus, dpc, dispatcherVars, toServe, doneReq,
                 workerVars, owner, talk>>

Ask(p) ==
  /\ alive[p] /\ talk[p] = "quiet" /\ link[p] \in {"pending", "open"}
  /\ talk' = [talk EXCEPT ![p] = "asking"]
  /\ UNCHANGED <<serverStatus, dpc, dispatcherVars, toServe, doneReq,
                 workerVars, backlog, owner, link, alive>>

Leave(p) ==
  /\ alive[p]
  /\ alive' = [alive EXCEPT ![p] = FALSE]
  /\ UNCHANGED <<serverStatus, dpc, dispatcherVars, toServe, doneReq,
                 workerVars, backlog, owner, link, talk>>

-----------------------------------------------------------------------------
(* Signals: one that comes between the tests of serverStatus and select    *)
(* does not interrupt select.                                              *)

Signal(status) ==
  /\ dpc # "end"
  /\ serverStatus' = status
  /\ \/ UNCHANGED dpc
     \/ dpc = "select" /\ dpc' = "test"
  /\ UNCHANGED <<dispatcherVars, toServe, doneReq, workerVars, backlog, owner,
                 peerVars>>

-----------------------------------------------------------------------------
(* The dispatcher *)

updatemax(S, max) ==
  LET lower == {f \in S : f < max} IN IF lower = {} THEN -1 ELSE Max(lower)

GoOn_UntilSignal == serverStatus = "working"
GoOn == serverStatus = "working" \/ (serverStatus = "slow" /\ clientNum > 0)

Test ==
  /\ dpc = "test"
  /\ dpc' = IF GoOn THEN "mask" ELSE "collect"
  /\ UNCHANGED <<serverStatus, dispatcherVars, toServe, doneReq, workerVars,
                 backlog, owner, peerVars>>

MaskSocket ==
  /\ dpc = "mask"
  /\ IF serverStatus = "slow"
     THEN /\ set' = set \ {SOCKET}
          /\ maxFD' = IF maxFD = SOCKET THEN updatemax(set', maxFD) ELSE maxFD
     ELSE UNCHANGED <<set, maxFD>>
  /\ dpc' = "select"
  /\ UNCHANGED <<serverStatus, rdSet, clientNum, toServe, doneReq, workerVars,
                 backlog, owner, peerVars>>

Readable(f) ==
  CASE f = PIPE   -> doneReq # <<>>
    [] f = SOCKET -> backlog # <<>>
    [] OTHER -> owner[f] # NULL => \/ talk[owner[f]] = "asking"
                                   \/ ~alive[owner[f]]

Select ==
  /\ dpc = "select"
  /\ LET ready == {f \in set : f <= maxFD /\ Readable(f)}
     IN ready # {} /\ rdSet' = ready
  /\ dpc' = "scan"
  /\ UNCHANGED <<serverStatus, set, maxFD, clientNum, toServe, doneReq,
                 workerVars, backlog, owner, peerVars>>

(* The loop over the ready descriptors, in ascending order up to maxFD *)
Ready(f) ==
  /\ dpc = "scan" /\ rdSet # {}
  /\ f = Min(rdSet) /\ f <= maxFD
Handled(f) == rdSet' = rdSet \ {f} /\ UNCHANGED dpc

Accept ==
  /\ Ready(SOCKET) /\ Handled(SOCKET)
  /\ LET free == {f \in Fds : owner[f] = NULL}
         new == Min(free)
         p == Head(backlog)
     IN /\ free # {} /\ backlog # <<>>
        /\ backlog' = Tail(backlog)
        /\ IF new > FdLimit
           THEN /\ link' = [link EXCEPT ![p] = "refused"]
                /\ UNCHANGED <<owner, clientNum, maxFD, set>>
           ELSE /\ link' = [link EXCEPT ![p] = "open"]
                /\ owner' = [owner EXCEPT ![new] = p]
                /\ clientNum' = clientNum + 1
                /\ maxFD' = Max({maxFD, new})
                /\ set' = set \cup {new}
  /\ UNCHANGED <<serverStatus, toServe, doneReq, workerVars, talk, alive>>

(* EMFILE: the next descriptor; EINTR: the scan ends; any other error:     *)
(* no connection is accepted any more.                                     *)
AcceptFails(errno) ==
  /\ Ready(SOCKET)
  /\ rdSet' = IF errno = "EINTR" THEN {} ELSE rdSet \ {SOCKET}
  /\ IF errno = "other"
     THEN /\ serverStatus' = "slow"
          /\ set' = set \ {SOCKET}
          /\ maxFD' = IF maxFD = SOCKET THEN updatemax(set', maxFD) ELSE maxFD
     ELSE UNCHANGED <<serverStatus, set, maxFD>>
  /\ UNCHANGED <<dpc, clientNum, toServe, doneReq, workerVars, backlog, owner,
                 peerVars>>

(* A finished request comes back: GET_FD and IS_TO_RESET of what was read  *)
Reset_LowMax(f) ==
  /\ set' = set \cup {f}
  /\ UNCHANGED <<maxFD, clientNum, owner, link>>
Reset(f) ==
  /\ set' = set \cup {f}
  /\ maxFD' = Max({maxFD, f})
  /\ UNCHANGED <<clientNum, owner, link>>
Close_NotCounted(f) ==
  /\ set' = set \ {f}
  /\ owner' = [owner EXCEPT ![f] = NULL]
  /\ link' = [link EXCEPT ![owner[f]] = "closed"]
  /\ UNCHANGED <<clientNum, maxFD>>
Close(f) ==
  /\ clientNum' = clientNum - 1
  /\ set' = set \ {f}
  /\ owner' = [owner EXCEPT ![f] = NULL]
  /\ link' = [p \in Peers |->
                IF owner[f] = p /\ link[p] = "open"
                THEN IF alive[p] THEN "cut" ELSE "closed"
                ELSE link[p]]
  /\ UNCHANGED maxFD

FromPipe ==
  /\ Ready(PIPE) /\ Handled(PIPE)
  /\ LET m == Head(doneReq)
     IN IF m.reset THEN Reset(m.fd) ELSE Close(m.fd)
  /\ doneReq' = Tail(doneReq)
  /\ UNCHANGED <<serverStatus, toServe, workerVars, backlog, talk, alive>>

FromClient_StaysInMask(f) ==
  /\ Ready(f) /\ f \in Fds /\ Handled(f)
  /\ toServe' = Append(toServe, f)
  /\ UNCHANGED <<set, maxFD, serverStatus, clientNum, doneReq, workerVars,
                 backlog, owner, peerVars>>
FromClient(f) ==
  /\ Ready(f) /\ f \in Fds /\ Handled(f)
  /\ set' = set \ {f}
  /\ maxFD' = IF maxFD = f THEN updatemax(set', maxFD) ELSE maxFD
  /\ toServe' = Append(toServe, f)
  /\ UNCHANGED <<serverStatus, clientNum, doneReq, workerVars, backlog, owner,
                 peerVars>>

ScanEnds ==
  /\ dpc = "scan"
  /\ \A f \in rdSet : f > maxFD
  /\ dpc' = "test" /\ rdSet' = {}
  /\ UNCHANGED <<serverStatus, set, maxFD, clientNum, toServe, doneReq,
                 workerVars, backlog, owner, peerVars>>

(* collectThreads: one NULL for each worker, then they are joined *)
Poison_OneShort == [i \in 1..Cardinality(Workers) - 1 |-> NULL]
Poison == [i \in 1..Cardinality(Workers) |-> NULL]

Collect ==
  /\ dpc = "collect"
  /\ toServe' = toServe \o Poison
  /\ dpc' = "join"
  /\ UNCHANGED <<serverStatus, dispatcherVars, doneReq, workerVars, backlog,
                 owner, peerVars>>

Join_NoWait ==
  /\ dpc = "join"
  /\ dpc' = "end"
  /\ UNCHANGED <<serverStatus, dispatcherVars, toServe, doneReq, workerVars,
                 backlog, owner, peerVars>>
Join ==
  /\ dpc = "join"
  /\ \A w \in Workers : wpc[w] = "exit"
  /\ dpc' = "end"
  /\ UNCHANGED <<serverStatus, dispatcherVars, toServe, doneReq, workerVars,
                 backlog, owner, peerVars>>

-----------------------------------------------------------------------------
(* Workers *)

Moves(w, l, f) == wpc' = [wpc EXCEPT ![w] = l] /\ job' = [job EXCEPT ![w] = f]
Client(w) == owner[job[w]]
Reachable(f) == owner[f] # NULL /\ alive[owner[f]]

ListenClient_NotDecoded(f) ==
  doneReq' = Append(doneReq, [fd |-> 2 * f + 1, reset |-> TRUE])
ListenClient(f) == doneReq' = Append(doneReq, [fd |-> f, reset |-> TRUE])
DisconnClient_Twice(f) ==
  doneReq' = doneReq \o [i \in 1..2 |-> [fd |-> f, reset |-> FALSE]]
DisconnClient(f) == doneReq' = Append(doneReq, [fd |-> f, reset |-> FALSE])

(* sendClientError is the same *)
sendClientResult(f) ==
  /\ IF Reachable(f)
     THEN ListenClient(f) /\ talk' = [talk EXCEPT ![owner[f]] = "quiet"]
     ELSE DisconnClient(f) /\ UNCHANGED talk
  /\ UNCHANGED link

(* The client learns why before it is closed *)
sendClientFatalError(f) ==
  /\ DisconnClient(f)
  /\ IF owner[f] # NULL THEN link' = [link EXCEPT ![owner[f]] = "refused"]
                        ELSE UNCHANGED link
  /\ UNCHANGED talk

Pop(w) ==
  /\ wpc[w] = "pop" /\ toServe # <<>>
  /\ toServe' = Tail(toServe)
  /\ IF Head(toServe) = NULL THEN Moves(w, "exit", NULL)
                             ELSE Moves(w, "read", Head(toServe))
  /\ UNCHANGED <<serverStatus, dpc, dispatcherVars, doneReq, parked, dropped,
                 backlog, owner, peerVars>>

ReadRequest(w) ==
  /\ wpc[w] = "read" /\ Client(w) # NULL /\ talk[Client(w)] = "asking"
  /\ talk' = [talk EXCEPT ![Client(w)] = "waiting"]
  /\ Moves(w, "work", job[w])
  /\ UNCHANGED <<serverStatus, dpc, dispatcherVars, toServe, doneReq, parked,
                 dropped, backlog, owner, link, alive>>

(* End of file, or a descriptor that is closed *)
ReadFails(w) ==
  /\ wpc[w] = "read"
  /\ Client(w) # NULL => ~alive[Client(w)] /\ talk[Client(w)] # "asking"
  /\ DisconnClient(job[w])
  /\ Moves(w, "pop", NULL)
  /\ UNCHANGED <<serverStatus, dpc, dispatcherVars, toServe, parked, dropped,
                 backlog, owner, peerVars>>

(* tryUse: the file is free, or it is new, and w becomes its handler *)
Use(w) ==
  /\ wpc[w] = "work"
  /\ Moves(w, "handle", job[w])
  /\ UNCHANGED <<serverStatus, dpc, dispatcherVars, toServe, doneReq, parked,
                 dropped, backlog, owner, peerVars>>

(* tryUse: the file has a handler, or is locked by another client, with no *)
(* worker on it perhaps                                                    *)
Park(w) ==
  /\ wpc[w] = "work"
  /\ parked' = parked \cup {job[w]}
  /\ Moves(w, "pop", NULL)
  /\ UNCHANGED <<serverStatus, dpc, dispatcherVars, toServe, doneReq, dropped,
                 backlog, owner, peerVars>>

(* Only the handler of a file looks into a queue when it has answered. *)
Finishes(w) == Moves(w, IF wpc[w] = "handle" THEN "next" ELSE "pop", NULL)

Answer(w) ==
  /\ wpc[w] \in {"work", "handle"}
  /\ sendClientResult(job[w])
  /\ Finishes(w)
  /\ UNCHANGED <<serverStatus, dpc, dispatcherVars, toServe, parked, dropped,
                 backlog, owner, alive>>

AnswerFatal(w) ==
  /\ wpc[w] \in {"work", "handle"}
  /\ sendClientFatalError(job[w])
  /\ Finishes(w)
  /\ UNCHANGED <<serverStatus, dpc, dispatcherVars, toServe, parked, dropped,
                 backlog, owner, alive>>

(* appendToFileW: the payload is cut, readFormSocket disconnects the       *)
(* client, and the caller sends it a fatal error.                          *)
PayloadCut(w) ==
  /\ wpc[w] = "handle" /\ ~Reachable(job[w]) /\ Client(w) \in Cut
  /\ DisconnClient(job[w])
  /\ Moves(w, "again", job[w])
  /\ UNCHANGED <<serverStatus, dpc, dispatcherVars, toServe, parked, dropped,
                 backlog, owner, peerVars>>

DisconnectAgain(w) ==
  /\ wpc[w] = "again"
  /\ DisconnClient(job[w])
  /\ Moves(w, "next", NULL)
  /\ UNCHANGED <<serverStatus, dpc, dispatcherVars, toServe, parked, dropped,
                 backlog, owner, peerVars>>

(* informClientDelete: before it answers, a handler that removed its file, *)
(* or evicted others, pops a request queued there.  It is answered, but a  *)
(* WRITE is destroyed, and nobody writes to the pipe.                      *)
InformClientDelete(w) ==
  /\ wpc[w] = "handle"
  /\ \E f \in parked :
       /\ parked' = parked \ {f}
       /\ \/ sendClientResult(f) /\ UNCHANGED dropped
          \/ sendClientFatalError(f) /\ UNCHANGED dropped
          \/ /\ dropped' = dropped \cup {f}
             /\ UNCHANGED <<doneReq, link, talk>>
  /\ UNCHANGED <<serverStatus, dpc, dispatcherVars, toServe, wpc, job, backlog,
                 owner, alive>>

(* The handler takes the next request of its file's queue; there is none,  *)
(* or the result was a *_STOP, and it leaves the file.                     *)
NextRequest(w) ==
  /\ wpc[w] = "next"
  /\ \/ \E f \in parked : parked' = parked \ {f} /\ Moves(w, "handle", f)
     \/ Moves(w, "pop", NULL) /\ UNCHANGED parked
  /\ UNCHANGED <<serverStatus, dpc, dispatcherVars, toServe, doneReq, dropped,
                 backlog, owner, peerVars>>

-----------------------------------------------------------------------------
Dispatch ==
  \/ Test \/ MaskSocket \/ Select \/ Accept \/ FromPipe
  \/ \E errno \in {"EMFILE", "EINTR", "other"} : AcceptFails(errno)
  \/ \E f \in Fds : FromClient(f)
  \/ ScanEnds \/ Collect \/ Join

Work(w) ==
  \/ Pop(w) \/ ReadRequest(w) \/ ReadFails(w) \/ Use(w) \/ Park(w)
  \/ Answer(w) \/ AnswerFatal(w) \/ PayloadCut(w) \/ DisconnectAgain(w)
  \/ InformClientDelete(w) \/ NextRequest(w)

Next ==
  \/ \E p \in Peers : Connect(p) \/ Ask(p) \/ Leave(p)
  \/ \E status \in {"slow", "fast"} : Signal(status)
  \/ Dispatch
  \/ \E w \in Workers : Work(w)

Spec == Init /\ [][Next]_vars

(* The dispatcher and the workers are threads that can run. *)
FairSpec ==
  Spec /\ WF_vars(Dispatch) /\ \A w \in Workers : WF_vars(Work(w))

-----------------------------------------------------------------------------
(* Properties *)

(* A connection's descriptor is in one place only: in the mask, in the     *)
(* FIFO, with a worker, in a file's queue or in the pipe.  So no two       *)
(* threads read from or write to the same socket.  A closed descriptor is  *)
(* in none of these places, and the only open ones that are forgotten are  *)
(* those whose parked WRITE informClientDelete destroyed (server.c:1806).  *)
Places(f) ==
  (IF f \in set THEN 1 ELSE 0) + (IF f \in parked THEN 1 ELSE 0)
  + Cardinality({i \in DOMAIN toServe : toServe[i] = f})
  + Cardinality({w \in Workers : job[w] = f})
  + Cardinality({i \in DOMAIN doneReq : doneReq[i].fd = f})
OnePlace ==
  \A f \in Fds :
    Places(f) = IF owner[f] = NULL \/ f \in dropped THEN 0 ELSE 1

(* clientNum is the number of connected clients (server.h:52): the slow    *)
(* close waits for it to be zero.                                          *)
ClientNumExact == clientNum = Cardinality({f \in Fds : owner[f] # NULL})

(* select looks at every descriptor of the mask: none is above maxFD.      *)
MaskHeard == \A f \in set : f <= maxFD

(* The server closes only connections whose client has left, or was told   *)
(* of a fatal error.                                                       *)
NobodyCutOff == \A p \in Peers : link[p] # "cut"

(* When the threads are joined every worker has got its NULL, and every    *)
(* request that was in the FIFO before was taken by a worker.              *)
JoinedClean ==
  dpc = "end" => toServe = <<>> /\ \A w \in Workers : job[w] = NULL

(* The loop ends while clients are connected only on SIGINT or SIGQUIT.    *)
SlowCloseWaits ==
  [][dpc = "test" /\ dpc' = "collect" /\ serverStatus = "slow"
     => \A f \in Fds : owner[f] = NULL]_vars

(* Signals, which interrupt select and accept, are not sent for ever. *)
Interrupted == \/ \E status \in {"slow", "fast"} : Signal(status)
               \/ AcceptFails("EINTR")
SignalsStop == <>[][~Interrupted]_vars

(* Every parked request is taken up, and none is destroyed.  The code does *)
(* not ensure either: a lock that ends with its owner's connection serves  *)
(* nobody (clientTable.c:251), a file that is removed may take a parked    *)
(* WRITE with it (server.c:1806).                                          *)
Served == \A f \in Fds : []<>(f \notin parked)
NothingDropped == [](dropped = {})

(* A slow close that begins while clients are connected ends, and with it  *)
(* the server, provided they all leave and no request is stranded: a       *)
(* signal that select misses is noticed when a client leaves, every leave  *)
(* is heard, every worker ends.                                            *)
AllLeave == \A p \in Peers : <>[](~alive[p])
SlowCloseEnds ==
  AllLeave /\ SignalsStop /\ Served /\ NothingDropped =>
    [](serverStatus = "slow" /\ clientNum > 0 => <>(dpc = "end"))

(* A request sent on an open connection is read, unless the server stops   *)
(* or closes the connection.                                               *)
RequestsHeard ==
  SignalsStop =>
    \A p \in Peers :
      [](talk[p] = "asking" /\ link[p] = "open"
         => <>(talk[p] # "asking" \/ link[p] # "open" \/ dpc = "end"))

=============================================================================
