------------------------- MODULE FileServer_requests -------------------------
(***************************************************************************)
(* The theorems about the requests of FileServer, for every value of its   *)
(* constants:                                                              *)
(*   OneRequestEach  a request is in one place, with a worker or in one    *)
(*                   queue, and its client is not listened to meanwhile    *)
(*   OnlyInformWriteLoses, RequestsKept                                    *)
(*                   a client that waits has a request somewhere, as long  *)
(*                   as informClientDelete meets no parked WRITE           *)
(* Each step is of one of five kinds: a request is taken, parked, taken up *)
(* again, moved with the queue of a file that leaves the tree, or it only  *)
(* disappears (it is answered, or its client is gone).                     *)
(***************************************************************************)
EXTENDS FileServer_proofs

(* The requests parked with a file *)
Parking(f) == IF f = NULL THEN <<>> ELSE f.requestList

LEMMA ParkingTyped ==
  ASSUME NEW f \in ServerFile \cup {NULL}
  PROVE  Parking(f) \in Seq(Request)
<1>1. CASE f = NULL
  BY <1>1 DEF Parking
<1>2. CASE f # NULL
  BY <1>2 DEF Parking, ServerFile
<1> QED
  BY <1>1, <1>2

LEMMA QueueKinds ==
  ASSUME NEW q \in Queues
  PROVE  \/ \E n \in Names : q = <<"file", n>>
         \/ \E w \in Workers : q = <<"dead", w>>
BY DEF Queues

LEMMA FileQueue ==
  ASSUME NEW n \in Names
  PROVE  /\ <<"file", n>> \in Queues
         /\ Queue(<<"file", n>>) = Parking(file[n])
         /\ Queue(<<"file", n>>)' = Parking(file'[n])
BY DEF Queues, Queue, Parking

LEMMA DeadQueue ==
  ASSUME NEW w \in Workers
  PROVE  /\ <<"dead", w>> \in Queues
         /\ Queue(<<"dead", w>>) = Parking(dead[w])
         /\ Queue(<<"dead", w>>)' = Parking(dead'[w])
BY DEF Queues, Queue, Parking

LEMMA QueuesTyped ==
  ASSUME TypeOK, TypeOK', NEW q \in Queues
  PROVE  Queue(q) \in Seq(Request) /\ Queue(q)' \in Seq(Request)
<1>1. CASE \E n \in Names : q = <<"file", n>>
  <2>1. PICK n \in Names : q = <<"file", n>>
    BY <1>1
  <2>2. file[n] \in ServerFile \cup {NULL} /\ file'[n] \in ServerFile \cup {NULL}
    BY DEF TypeOK
  <2>3. Parking(file[n]) \in Seq(Request) /\ Parking(file'[n]) \in Seq(Request)
    BY <2>2, ParkingTyped
  <2> QED
    BY <2>1, <2>3, FileQueue
<1>2. CASE \E w \in Workers : q = <<"dead", w>>
  <2>1. PICK w \in Workers : q = <<"dead", w>>
    BY <1>2
  <2>2. dead[w] \in ServerFile \cup {NULL} /\ dead'[w] \in ServerFile \cup {NULL}
    BY DEF TypeOK
  <2>3. Parking(dead[w]) \in Seq(Request) /\ Parking(dead'[w]) \in Seq(Request)
    BY <2>2, ParkingTyped
  <2> QED
    BY <2>1, <2>3, DeadQueue
<1> QED
  BY <1>1, <1>2, QueueKinds

-----------------------------------------------------------------------------
(* The kinds of steps *)

(* s is t, or t without its first element, or empty. *)
Rest(s, t) ==
  \E k \in {0, 1} : \A i \in DOMAIN s : i + k \in DOMAIN t /\ s[i] = t[i + k]

LEMMA RestTail ==
  ASSUME NEW t \in Seq(Request)
  PROVE  /\ Rest(t, t) /\ Rest(<<>>, t)
         /\ t # <<>> => Rest(Tail(t), t)
<1>1. \A i \in DOMAIN t : i \in Int /\ i + 0 = i
  BY LenProperties
<1>2. Rest(t, t)
  <2>1. \A i \in DOMAIN t : i + 0 \in DOMAIN t /\ t[i] = t[i + 0]
    BY <1>1
  <2> QED
    BY <2>1 DEF Rest
<1>3. Rest(<<>>, t)
  BY DEF Rest
<1>4. ASSUME t # <<>> PROVE Rest(Tail(t), t)
  <2>1. /\ Len(t) \in Nat /\ Tail(t) \in Seq(Request) /\ Len(Tail(t)) = Len(t) - 1
        /\ \A i \in 1..Len(t) - 1 : Tail(t)[i] = t[i + 1]
    BY <1>4, HeadTailProperties, LenProperties
  <2>2. DOMAIN Tail(t) = 1..Len(t) - 1 /\ DOMAIN t = 1..Len(t)
    BY <2>1, LenProperties
  <2>3. \A i \in DOMAIN Tail(t) : i + 1 \in DOMAIN t /\ Tail(t)[i] = t[i + 1]
    BY <2>1, <2>2
  <2> QED
    BY <2>3 DEF Rest
<1> QED
  BY <1>2, <1>3, <1>4

(* Requests disappear, the client d of one of them perhaps changes. *)
LEMMA Fewer ==
  ASSUME TypeOK, TypeOK', RequestsUnique, NEW d,
         \A q \in Queues : Rest(Queue(q)', Queue(q)),
         \A v \in Workers : req'[v] \in {NULL, req[v]},
         \A c \in Clients : conn'[c] = conn[c] \/ c = d,
         \A q \in Queues : \A i \in DOMAIN Queue(q)' : Queue(q)'[i].client # d,
         \A v \in Workers : req'[v] # NULL => req'[v].client # d
  PROVE  RequestsUnique'
<1>1. ASSUME NEW v \in Workers, req'[v] # NULL
      PROVE  req'[v] = req[v] /\ req[v] # NULL /\ req[v].client \in Clients
  BY <1>1 DEF TypeOK, Request
<1>2. ASSUME NEW q \in Queues, NEW i \in DOMAIN Queue(q)'
      PROVE  \E j \in DOMAIN Queue(q) : /\ Queue(q)'[i] = Queue(q)[j]
                                        /\ Queue(q)[j].client \in Clients
  <2>1. PICK j \in DOMAIN Queue(q) : Queue(q)'[i] = Queue(q)[j]
    BY <1>2 DEF Rest
  <2>2. Queue(q) \in Seq(Request)
    BY QueuesTyped
  <2>3. Queue(q)[j] \in Request
    BY <2>1, <2>2, LenProperties, ElementOfSeq
  <2> QED
    BY <2>1, <2>3 DEF Request
<1>3. HeldOnce'
  BY <1>1 DEF RequestsUnique, HeldOnce, Client
<1>4. ParkedOnce'
  <2>1. ASSUME NEW p \in Queues, NEW q \in Queues,
               NEW i \in DOMAIN Queue(p)', NEW j \in DOMAIN Queue(q)',
               Queue(p)'[i].client = Queue(q)'[j].client
        PROVE  p = q /\ i = j
    <3>1. PICK k \in {0, 1} : \A x \in DOMAIN Queue(p)' :
             x + k \in DOMAIN Queue(p) /\ Queue(p)'[x] = Queue(p)[x + k]
      BY DEF Rest
    <3>2. PICK l \in {0, 1} : \A x \in DOMAIN Queue(q)' :
             x + l \in DOMAIN Queue(q) /\ Queue(q)'[x] = Queue(q)[x + l]
      BY DEF Rest
    <3>3. p = q /\ i + k = j + l
      BY <2>1, <3>1, <3>2 DEF RequestsUnique, ParkedOnce
    <3>4. j + k \in DOMAIN Queue(q) /\ Queue(q)'[j] = Queue(q)[j + k]
      BY <3>1, <3>3
    <3>5. i + k = j + k
      BY <2>1, <3>1, <3>3, <3>4 DEF RequestsUnique, ParkedOnce
    <3>6. i \in Int /\ j \in Int
      <4>1. Queue(p)' \in Seq(Request) /\ Queue(q)' \in Seq(Request)
        BY QueuesTyped
      <4> QED
        BY <4>1, LenProperties
    <3> QED
      BY <3>3, <3>5, <3>6
  <2> QED
    BY <2>1 DEF ParkedOnce
<1>5. HeldNotParked'
  BY <1>1, <1>2 DEF RequestsUnique, HeldNotParked, Client
<1>6. PendingIsServed'
  BY <1>1, <1>2 DEF RequestsUnique, PendingIsServed, Client
<1> QED
  BY <1>3, <1>4, <1>5, <1>6 DEF RequestsUnique

(* The queue s of a file that leaves the tree goes to the queue d. *)
LEMMA Moved ==
  ASSUME TypeOK, TypeOK', RequestsUnique, UNCHANGED <<req, conn>>,
         NEW s \in Queues, NEW d \in Queues, s # d,
         Queue(d)' = Queue(s), Queue(s)' = <<>>,
         \A q \in Queues : q \notin {s, d} => Queue(q)' = Queue(q)
  PROVE  RequestsUnique'
<1> DEFINE from(q) == IF q = d THEN s ELSE q
<1>1. ASSUME NEW q \in Queues, NEW i \in DOMAIN Queue(q)'
      PROVE  /\ from(q) \in Queues /\ q # s
             /\ i \in DOMAIN Queue(from(q)) /\ Queue(q)'[i] = Queue(from(q))[i]
  <2>1. q # s
    BY <1>1, EmptySeq
  <2>2. CASE q = d
    BY <1>1, <2>1, <2>2
  <2>3. CASE q # d
    <3>1. Queue(q)' = Queue(q)
      BY <2>1, <2>3
    <3> QED
      BY <1>1, <2>1, <2>3, <3>1
  <2> QED
    BY <2>2, <2>3
<1>2. HeldOnce'
  BY DEF RequestsUnique, HeldOnce, Client
<1>3. ParkedOnce'
  <2>1. ASSUME NEW p \in Queues, NEW q \in Queues,
               NEW i \in DOMAIN Queue(p)', NEW j \in DOMAIN Queue(q)',
               Queue(p)'[i].client = Queue(q)'[j].client
        PROVE  p = q /\ i = j
    <3>1. /\ from(p) \in Queues /\ p # s /\ i \in DOMAIN Queue(from(p))
          /\ Queue(p)'[i] = Queue(from(p))[i]
      BY <1>1
    <3>2. /\ from(q) \in Queues /\ q # s /\ j \in DOMAIN Queue(from(q))
          /\ Queue(q)'[j] = Queue(from(q))[j]
      BY <1>1
    <3> HIDE DEF from
    <3>3. from(p) = from(q) /\ i = j
      BY <2>1, <3>1, <3>2 DEF RequestsUnique, ParkedOnce
    <3> QED
      BY <3>1, <3>2, <3>3 DEF from
  <2> QED
    BY <2>1 DEF ParkedOnce
<1> HIDE DEF from
<1>4. HeldNotParked'
  BY <1>1 DEF RequestsUnique, HeldNotParked, Client
<1>5. PendingIsServed'
  BY <1>1 DEF RequestsUnique, PendingIsServed, Client
<1> QED
  BY <1>2, <1>3, <1>4, <1>5 DEF RequestsUnique

LEMMA AppendPlaces ==
  ASSUME NEW t \in Seq(Request), NEW r \in Request
  PROVE  \A i \in DOMAIN Append(t, r) :
           \/ i \in DOMAIN t /\ Append(t, r)[i] = t[i]
           \/ i = Len(t) + 1 /\ Append(t, r)[i] = r
<1>1. Len(t) \in Nat /\ DOMAIN t = 1..Len(t)
  BY LenProperties
<1>2. /\ Append(t, r) \in Seq(Request) /\ Len(Append(t, r)) = Len(t) + 1
      /\ \A i \in 1..Len(t) : Append(t, r)[i] = t[i]
      /\ Append(t, r)[Len(t) + 1] = r
  BY AppendProperties
<1>3. DOMAIN Append(t, r) = 1..Len(t) + 1
  BY <1>2, LenProperties
<1> QED
  BY <1>1, <1>2, <1>3

(* tryUse: the worker w leaves its request at the end of queue s. *)
LEMMA ToQueue ==
  ASSUME TypeOK, TypeOK', RequestsUnique, UNCHANGED conn,
         NEW w \in Workers, req[w] # NULL, req' = [req EXCEPT ![w] = NULL],
         NEW s \in Queues, Queue(s)' = Append(Queue(s), req[w]),
         \A q \in Queues : q # s => Queue(q)' = Queue(q)
  PROVE  RequestsUnique'
<1>1. req[w] \in Request /\ Queue(s) \in Seq(Request)
  BY QueuesTyped DEF TypeOK
<1>2. ASSUME NEW v \in Workers, req'[v] # NULL
      PROVE  req'[v] = req[v] /\ req[v] # NULL /\ v # w
  BY <1>2 DEF TypeOK
<1>3. \A q \in Queues : \A i \in DOMAIN Queue(q)' :
        \/ i \in DOMAIN Queue(q) /\ Queue(q)'[i] = Queue(q)[i]
        \/ q = s /\ i = Len(Queue(s)) + 1 /\ Queue(q)'[i] = req[w]
  <2>1. ASSUME NEW q \in Queues, NEW i \in DOMAIN Queue(q)'
        PROVE  \/ i \in DOMAIN Queue(q) /\ Queue(q)'[i] = Queue(q)[i]
               \/ q = s /\ i = Len(Queue(s)) + 1 /\ Queue(q)'[i] = req[w]
    <3>1. CASE q = s
      <4>1. Queue(s)' = Append(Queue(s), req[w])
        OBVIOUS
      <4>2. \A x \in DOMAIN Append(Queue(s), req[w]) :
              \/ x \in DOMAIN Queue(s) /\ Append(Queue(s), req[w])[x] = Queue(s)[x]
              \/ x = Len(Queue(s)) + 1 /\ Append(Queue(s), req[w])[x] = req[w]
        BY <1>1, AppendPlaces
      <4> QED
        BY <2>1, <3>1, <4>1, <4>2
    <3>2. CASE q # s
      <4>1. Queue(q)' = Queue(q)
        BY <3>2
      <4> QED
        BY <2>1, <4>1
    <3> QED
      BY <3>1, <3>2
  <2> QED
    BY <2>1
<1>4. HeldOnce'
  BY <1>2 DEF RequestsUnique, HeldOnce, Client
<1>5. ParkedOnce'
  BY <1>3 DEF RequestsUnique, ParkedOnce, HeldNotParked, Client
<1>6. HeldNotParked'
  <2>1. ASSUME NEW v \in Workers, NEW q \in Queues, NEW i \in DOMAIN Queue(q)',
               req'[v] # NULL
        PROVE  Queue(q)'[i].client # req'[v].client
    BY <1>2, <1>3, <2>1 DEF RequestsUnique, HeldOnce, HeldNotParked, Client
  <2> QED
    BY <2>1 DEF HeldNotParked, Client
<1>7. PendingIsServed'
  BY <1>2, <1>3 DEF RequestsUnique, PendingIsServed, Client
<1> QED
  BY <1>4, <1>5, <1>6, <1>7 DEF RequestsUnique

(* manageRequest goes on with the first request of queue s. *)
LEMMA FromQueue ==
  ASSUME TypeOK, TypeOK', RequestsUnique, UNCHANGED conn,
         NEW w \in Workers, NEW s \in Queues, Queue(s) # <<>>,
         req' = [req EXCEPT ![w] = Head(Queue(s))],
         Queue(s)' = Tail(Queue(s)),
         \A q \in Queues : q # s => Queue(q)' = Queue(q)
  PROVE  RequestsUnique'
<1>1. /\ Queue(s) \in Seq(Request) /\ Len(Queue(s)) \in Nat \ {0}
      /\ DOMAIN Queue(s) = 1..Len(Queue(s)) /\ 1 \in DOMAIN Queue(s)
      /\ Head(Queue(s)) = Queue(s)[1]
  <2>1. Queue(s) \in Seq(Request)
    BY QueuesTyped
  <2> QED
    BY <2>1, LenProperties, HeadTailProperties, EmptySeq
<1>2. /\ DOMAIN Queue(s)' = 1..Len(Queue(s)) - 1
      /\ \A i \in 1..Len(Queue(s)) - 1 : Queue(s)'[i] = Queue(s)[i + 1]
  <2>1. /\ Tail(Queue(s)) \in Seq(Request)
        /\ Len(Tail(Queue(s))) = Len(Queue(s)) - 1
        /\ \A i \in 1..Len(Queue(s)) - 1 : Tail(Queue(s))[i] = Queue(s)[i + 1]
    BY <1>1, HeadTailProperties
  <2>2. DOMAIN Tail(Queue(s)) = 1..Len(Queue(s)) - 1
    BY <2>1, LenProperties
  <2>3. Queue(s)' = Tail(Queue(s))
    OBVIOUS
  <2> QED
    BY <2>1, <2>2, <2>3
<1>3. \A q \in Queues : \A i \in DOMAIN Queue(q)' :
        \E k \in {0, 1} : /\ k = IF q = s THEN 1 ELSE 0
                          /\ i \in Int /\ i + k \in DOMAIN Queue(q)
                          /\ Queue(q)'[i] = Queue(q)[i + k]
                          /\ (q = s => i + k # 1)
  <2>1. ASSUME NEW q \in Queues, NEW i \in DOMAIN Queue(q)'
        PROVE  \E k \in {0, 1} : /\ k = IF q = s THEN 1 ELSE 0
                                 /\ i \in Int /\ i + k \in DOMAIN Queue(q)
                                 /\ Queue(q)'[i] = Queue(q)[i + k]
                                 /\ (q = s => i + k # 1)
    <3>1. CASE q = s
      <4>1. i \in 1..Len(Queue(s)) - 1
        BY <1>2, <2>1, <3>1
      <4>2. /\ i \in Int /\ i + 1 \in DOMAIN Queue(s) /\ i + 1 # 1
            /\ Queue(s)'[i] = Queue(s)[i + 1]
        BY <1>1, <1>2, <4>1
      <4> QED
        BY <3>1, <4>2
    <3>2. CASE q # s
      <4>1. Queue(q)' = Queue(q) /\ Queue(q) \in Seq(Request)
        BY <3>2, QueuesTyped
      <4>2. i \in DOMAIN Queue(q) /\ i \in Int
        BY <2>1, <4>1, LenProperties
      <4> QED
        BY <3>2, <4>1, <4>2
    <3> QED
      BY <3>1, <3>2
  <2> QED
    BY <2>1
<1>4. \A v \in Workers : \/ v # w /\ req'[v] = req[v]
                         \/ v = w /\ req'[v] = Queue(s)[1]
  BY <1>1 DEF TypeOK
<1>5. HeldOnce'
  <2>1. ASSUME NEW u \in Workers, NEW v \in Workers, u # v,
               req'[u] # NULL, req'[v] # NULL
        PROVE  req'[u].client # req'[v].client
    BY <1>1, <1>4, <2>1 DEF RequestsUnique, HeldOnce, HeldNotParked, Client
  <2> QED
    BY <2>1 DEF HeldOnce, Client
<1>6. ParkedOnce'
  <2>1. ASSUME NEW p \in Queues, NEW q \in Queues,
               NEW i \in DOMAIN Queue(p)', NEW j \in DOMAIN Queue(q)',
               Queue(p)'[i].client = Queue(q)'[j].client
        PROVE  p = q /\ i = j
    <3>1. PICK k \in {0, 1} : /\ k = IF p = s THEN 1 ELSE 0
                              /\ i \in Int /\ i + k \in DOMAIN Queue(p)
                              /\ Queue(p)'[i] = Queue(p)[i + k]
      BY <1>3
    <3>2. PICK l \in {0, 1} : /\ l = IF q = s THEN 1 ELSE 0
                              /\ j \in Int /\ j + l \in DOMAIN Queue(q)
                              /\ Queue(q)'[j] = Queue(q)[j + l]
      BY <1>3
    <3>3. p = q /\ i + k = j + l
      BY <2>1, <3>1, <3>2 DEF RequestsUnique, ParkedOnce
    <3> QED
      BY <3>1, <3>2, <3>3
  <2> QED
    BY <2>1 DEF ParkedOnce
<1>7. HeldNotParked'
  <2>1. ASSUME NEW v \in Workers, NEW q \in Queues, NEW i \in DOMAIN Queue(q)',
               req'[v] # NULL
        PROVE  Queue(q)'[i].client # req'[v].client
    <3>1. PICK k \in {0, 1} : /\ i + k \in DOMAIN Queue(q)
                              /\ Queue(q)'[i] = Queue(q)[i + k]
                              /\ (q = s => i + k # 1)
      BY <1>3
    <3>2. CASE v # w
      BY <1>4, <2>1, <3>1, <3>2 DEF RequestsUnique, HeldNotParked, Client
    <3>3. CASE v = w
      <4>1. req'[v] = Queue(s)[1]
        BY <1>4, <3>3
      <4> QED
        BY <1>1, <3>1, <4>1 DEF RequestsUnique, ParkedOnce
    <3> QED
      BY <3>2, <3>3
  <2> QED
    BY <2>1 DEF HeldNotParked, Client
<1>8. PendingIsServed'
  BY <1>1, <1>3, <1>4 DEF RequestsUnique, PendingIsServed, Client
<1> QED
  BY <1>5, <1>6, <1>7, <1>8 DEF RequestsUnique

(* worker: the request of a client that was listened to is read. *)
LEMMA Fresh ==
  ASSUME TypeOK, TypeOK', RequestsUnique, NEW w \in Workers,
         NEW c \in Clients, conn[c] = "listening",
         NEW r \in Request, r.client = c,
         req' = [req EXCEPT ![w] = r],
         conn' = [conn EXCEPT ![c] = "served"],
         \A q \in Queues : Queue(q)' = Queue(q)
  PROVE  RequestsUnique'
<1>1. \A v \in Workers : \/ v # w /\ req'[v] = req[v]
                         \/ v = w /\ req'[v] = r
  BY DEF TypeOK
<1>2. \A v \in Workers : req[v] # NULL =>
        /\ req[v].client \in Clients /\ req[v].client # c
        /\ conn[req[v].client] = "served"
  BY DEF RequestsUnique, PendingIsServed, Client, TypeOK, Request
<1>3. \A q \in Queues : \A i \in DOMAIN Queue(q) :
        /\ Queue(q)[i].client \in Clients /\ Queue(q)[i].client # c
        /\ conn[Queue(q)[i].client] = "served"
  <2>1. ASSUME NEW q \in Queues, NEW i \in DOMAIN Queue(q)
        PROVE  Queue(q)[i].client \in Clients
    <3>1. Queue(q) \in Seq(Request)
      BY QueuesTyped
    <3>2. Queue(q)[i] \in Request
      BY <3>1, LenProperties, ElementOfSeq
    <3> QED
      BY <3>2 DEF Request
  <2> QED
    BY <2>1 DEF RequestsUnique, PendingIsServed
<1>4. HeldOnce'
  <2>1. ASSUME NEW u \in Workers, NEW v \in Workers, u # v,
               req'[u] # NULL, req'[v] # NULL
        PROVE  req'[u].client # req'[v].client
    BY <1>1, <1>2, <2>1 DEF RequestsUnique, HeldOnce, Client
  <2> QED
    BY <2>1 DEF HeldOnce, Client
<1>5. ParkedOnce'
  BY DEF RequestsUnique, ParkedOnce
<1>6. HeldNotParked'
  BY <1>1, <1>3 DEF RequestsUnique, HeldNotParked, Client
<1>7. conn'[c] = "served" /\ \A d \in Clients : d # c => conn'[d] = conn[d]
  BY DEF TypeOK
<1>8. PendingIsServed'
  BY <1>1, <1>2, <1>3, <1>7 DEF PendingIsServed, Client
<1> QED
  BY <1>4, <1>5, <1>6, <1>8 DEF RequestsUnique

-----------------------------------------------------------------------------
(* Steps that leave every queue as it is *)

SameQueues == \A q \in Queues : Queue(q)' = Queue(q)

(* What the operations do to a file leaves its queue alone. *)
LEMMA SameParking ==
  ASSUME NEW f \in ServerFile
  PROVE  /\ Parking(Released(f)) = Parking(f)
         /\ Parking(Written(f)) = Parking(f)
         /\ Parking(Unlocked(f)) = Parking(f)
         /\ Parking([f EXCEPT !.flagUse = TRUE]) = Parking(f)
         /\ Parking([f EXCEPT !.openList = {}]) = Parking(f)
         /\ Parking([f EXCEPT !.dim = @ + AppendDim]) = Parking(f)
         /\ \A c \in Clients :
              /\ Parking(Locked(f, c)) = Parking(f)
              /\ \A b \in BOOLEAN : Parking(Forgotten(f, c, b)) = Parking(f)
              /\ Parking([f EXCEPT !.openList = @ \cup {c}]) = Parking(f)
              /\ Parking([f EXCEPT !.openList = @ \ {c}]) = Parking(f)
<1>1. \A g : g \in ServerFile => Parking(g) = g.requestList
  BY NULLAssumption DEF Parking
<1>2. /\ Released(f).requestList = f.requestList
      /\ Written(f).requestList = f.requestList
      /\ Unlocked(f).requestList = f.requestList
      /\ [f EXCEPT !.flagUse = TRUE].requestList = f.requestList
      /\ [f EXCEPT !.openList = {}].requestList = f.requestList
      /\ [f EXCEPT !.dim = @ + AppendDim].requestList = f.requestList
  BY DEF ServerFile, Released, Written, Unlocked
<1>3. ASSUME NEW c \in Clients
      PROVE  /\ Locked(f, c).requestList = f.requestList
             /\ \A b \in BOOLEAN : Forgotten(f, c, b).requestList = f.requestList
             /\ [f EXCEPT !.openList = @ \cup {c}].requestList = f.requestList
             /\ [f EXCEPT !.openList = @ \ {c}].requestList = f.requestList
  BY DEF ServerFile, Locked, Forgotten
<1>4. /\ Parking(Released(f)) = Parking(f)
      /\ Parking(Written(f)) = Parking(f)
      /\ Parking(Unlocked(f)) = Parking(f)
      /\ Parking([f EXCEPT !.flagUse = TRUE]) = Parking(f)
      /\ Parking([f EXCEPT !.openList = {}]) = Parking(f)
      /\ Parking([f EXCEPT !.dim = @ + AppendDim]) = Parking(f)
  BY <1>1, <1>2, FileFacts
<1>5. ASSUME NEW c \in Clients
      PROVE  /\ Parking(Locked(f, c)) = Parking(f)
             /\ \A b \in BOOLEAN : Parking(Forgotten(f, c, b)) = Parking(f)
             /\ Parking([f EXCEPT !.openList = @ \cup {c}]) = Parking(f)
             /\ Parking([f EXCEPT !.openList = @ \ {c}]) = Parking(f)
  BY <1>1, <1>3, FileFacts
<1> QED
  BY <1>4, <1>5

LEMMA QueuesAre ==
  ASSUME \A n \in Names : Parking(file'[n]) = Parking(file[n]),
         \A w \in Workers : Parking(dead'[w]) = Parking(dead[w])
  PROVE  SameQueues
BY QueueKinds, FileQueue, DeadQueue DEF SameQueues

LEMMA SetFileQueues ==
  ASSUME TypeOK, NEW n \in Names, NEW f, SetFile(n, f), UNCHANGED dead,
         Parking(f) = Parking(file[n])
  PROVE  SameQueues
<1>1. \A m \in Names : Parking(file'[m]) = Parking(file[m])
  BY DEF SetFile, TypeOK
<1> QED
  BY <1>1, QueuesAre

LEMMA DisconnectQueues ==
  ASSUME TypeOK, NEW w \in Workers, NEW c \in Clients, DisconnectClient(w, c)
  PROVE  /\ \A n \in Names : Parking(file'[n]) = Parking(file[n])
         /\ \A d \in Clients : conn'[d] = conn[d] \/ d = c
<1>1. ASSUME NEW n \in Names PROVE Parking(file'[n]) = Parking(file[n])
  <2>1. CASE n \in nodeInUse[c] \cup nodeLocked[c] /\ file[n] # NULL
    <3>1. file[n] \in ServerFile /\ (n \in nodeLocked[c]) \in BOOLEAN
      BY <2>1 DEF TypeOK
    <3>2. file'[n] = Forgotten(file[n], c, n \in nodeLocked[c])
      BY <2>1 DEF DisconnectClient
    <3>3. file'[n].requestList = file[n].requestList /\ file'[n] # NULL
      <4>1. Forgotten(file[n], c, n \in nodeLocked[c]) \in ServerFile
        BY <3>1 DEF Forgotten, ServerFile
      <4> QED
        BY <3>1, <3>2, <4>1, NULLAssumption DEF Forgotten, ServerFile
    <3> QED
      BY <2>1, <3>3 DEF Parking
  <2>2. CASE ~(n \in nodeInUse[c] \cup nodeLocked[c] /\ file[n] # NULL)
    BY <2>2 DEF DisconnectClient
  <2> QED
    BY <2>1, <2>2
<1>2. \A d \in Clients : conn'[d] = conn[d] \/ d = c
  BY DEF DisconnectClient, TypeOK
<1> QED
  BY <1>1, <1>2

LEMMA SendQueues ==
  ASSUME TypeOK, NEW w \in Workers, NEW c \in Clients, SendClientResult(w, c)
  PROVE  /\ \A n \in Names : Parking(file'[n]) = Parking(file[n])
         /\ \A d \in Clients : conn'[d] = conn[d] \/ d = c
<1>1. CASE DisconnectClient(w, c)
  BY <1>1, DisconnectQueues
<1>2. CASE /\ conn' = [conn EXCEPT ![c] = "listening"]
           /\ UNCHANGED file
  BY <1>2 DEF TypeOK
<1> QED
  BY <1>1, <1>2 DEF SendClientResult

(* Nothing happens to a request. *)
LEMMA Untouched ==
  ASSUME RequestsUnique, SameQueues, UNCHANGED <<req, conn>>
  PROVE  RequestsUnique'
<1> USE DEF SameQueues, RequestsUnique
<1>1. HeldOnce' /\ ParkedOnce' /\ HeldNotParked' /\ PendingIsServed'
  BY DEF HeldOnce, ParkedOnce, HeldNotParked, PendingIsServed, Client
<1> QED
  BY <1>1

(* Worker w answers its request, or finds its client gone. *)
LEMMA Answered ==
  ASSUME TypeOK, TypeOK', RequestsUnique, SameQueues,
         NEW w \in Workers, req[w] # NULL, req' = [req EXCEPT ![w] = NULL],
         \A c \in Clients : conn'[c] = conn[c] \/ c = Client(w)
  PROVE  RequestsUnique'
<1>1. PICK d \in Clients : d = Client(w)
  BY DEF TypeOK, Client, Request
<1>2. \A q \in Queues : Rest(Queue(q)', Queue(q))
  <2>1. ASSUME NEW q \in Queues PROVE Rest(Queue(q)', Queue(q))
    <3>1. Queue(q)' = Queue(q) /\ Queue(q) \in Seq(Request)
      BY QueuesTyped DEF SameQueues
    <3> QED
      BY <3>1, RestTail
  <2> QED
    BY <2>1
<1>3. \A v \in Workers : req'[v] \in {NULL, req[v]} /\ req'[w] = NULL
  BY DEF TypeOK
<1>4. \A v \in Workers : req'[v] # NULL => req'[v].client # d
  BY <1>1, <1>3 DEF RequestsUnique, HeldOnce, Client
<1>5. \A q \in Queues : \A i \in DOMAIN Queue(q)' : Queue(q)'[i].client # d
  BY <1>1 DEF SameQueues, RequestsUnique, HeldNotParked, Client
<1>6. \A c \in Clients : conn'[c] = conn[c] \/ c = d
  BY <1>1
<1> QED
  BY <1>2, <1>3, <1>4, <1>5, <1>6, Fewer

(* informClientDelete: the first request of worker w's removed file ends.  *)
LEMMA Informed ==
  ASSUME TypeOK, TypeOK', RequestsUnique, UNCHANGED req,
         NEW w \in Workers, Parking(dead[w]) # <<>>,
         Parking(dead'[w]) = Tail(Parking(dead[w])),
         \A v \in Workers : v # w => dead'[v] = dead[v],
         \A n \in Names : Parking(file'[n]) = Parking(file[n]),
         \A c \in Clients : \/ conn'[c] = conn[c]
                            \/ c = Head(Parking(dead[w])).client
  PROVE  RequestsUnique'
<1>1. PICK s \in Queues : s = <<"dead", w>>
  BY DeadQueue
<1>2. Queue(s) = Parking(dead[w]) /\ Queue(s)' = Parking(dead'[w])
  BY <1>1, DeadQueue
<1>3. \A q \in Queues : q # s => Queue(q)' = Queue(q)
  BY <1>1, QueueKinds, FileQueue, DeadQueue
<1>4. /\ Queue(s) \in Seq(Request) /\ Queue(s) # <<>> /\ 1 \in DOMAIN Queue(s)
      /\ Head(Queue(s)) = Queue(s)[1] /\ Queue(s)' = Tail(Queue(s))
  <2>1. Queue(s) \in Seq(Request) /\ Queue(s) # <<>>
    BY <1>2, QueuesTyped
  <2>2. Len(Queue(s)) \in Nat \ {0} /\ DOMAIN Queue(s) = 1..Len(Queue(s))
    BY <2>1, LenProperties, EmptySeq
  <2> QED
    BY <1>2, <2>1, <2>2, HeadTailProperties
<1>5. PICK d : d = Queue(s)[1].client
  OBVIOUS
<1>6. \A q \in Queues : Rest(Queue(q)', Queue(q))
  <2>1. ASSUME NEW q \in Queues PROVE Rest(Queue(q)', Queue(q))
    <3>1. Queue(q) \in Seq(Request)
      BY QueuesTyped
    <3>2. CASE q = s
      BY <1>4, <3>2, RestTail
    <3>3. CASE q # s
      BY <1>3, <3>1, <3>3, RestTail
    <3> QED
      BY <3>2, <3>3
  <2> QED
    BY <2>1
<1>7. \A v \in Workers : req'[v] = req[v] /\ (req[v] # NULL => req[v].client # d)
  BY <1>4, <1>5 DEF RequestsUnique, HeldNotParked, Client
<1>8. \A q \in Queues : \A i \in DOMAIN Queue(q)' : Queue(q)'[i].client # d
  <2>1. ASSUME NEW i \in DOMAIN Queue(s)' PROVE Queue(s)'[i].client # d
    <3>1. i + 1 \in DOMAIN Queue(s) /\ i + 1 # 1 /\ Queue(s)'[i] = Queue(s)[i + 1]
      <4>1. /\ Tail(Queue(s)) \in Seq(Request)
            /\ Len(Tail(Queue(s))) = Len(Queue(s)) - 1
            /\ \A x \in 1..Len(Queue(s)) - 1 : Tail(Queue(s))[x] = Queue(s)[x + 1]
        BY <1>4, HeadTailProperties
      <4>2. i \in 1..Len(Queue(s)) - 1 /\ Len(Queue(s)) \in Nat
        BY <1>4, <2>1, <4>1, LenProperties
      <4>3. DOMAIN Queue(s) = 1..Len(Queue(s))
        BY <1>4, LenProperties
      <4> QED
        BY <1>4, <4>1, <4>2, <4>3
    <3> QED
      BY <1>4, <1>5, <3>1 DEF RequestsUnique, ParkedOnce
  <2>2. ASSUME NEW q \in Queues, q # s, NEW i \in DOMAIN Queue(q)'
        PROVE  Queue(q)'[i].client # d
    <3>1. Queue(q)' = Queue(q)
      BY <1>3, <2>2
    <3> QED
      BY <1>4, <1>5, <2>2, <3>1 DEF RequestsUnique, ParkedOnce
  <2> QED
    BY <2>1, <2>2
<1>9. \A c \in Clients : conn'[c] = conn[c] \/ c = d
  BY <1>2, <1>4, <1>5
<1> QED
  BY <1>6, <1>7, <1>8, <1>9, Fewer

-----------------------------------------------------------------------------
(* The steps *)

Quiet == SameQueues /\ UNCHANGED <<req, conn>>

(* Only the steps named here move a request or let one disappear. *)
LEMMA QuietStep ==
  ASSUME IInv, NEW w \in Workers, Step(w),
         ~Park(w), ~InsertNew(w), ~InformReply(w), ~InformAppend(w),
         ~InformWrite(w), ~TreeRemove(w), ~Evict(w), ~NextRequest(w),
         ~AbsentFatal(w), ~PayloadCut(w), ~Reply(w)
  PROVE  Quiet
<1> USE DEF treeVars, tableVars, clientVars, jobVars, evictVars, lockVars,
            At, Handling, Exec
<1>a. TypeOK /\ Placed /\ FilesAccounted
  BY DEF IInv
<1>1. CASE UNCHANGED <<file, dead, req, conn>>
  BY <1>1, QueuesAre DEF Quiet
<1>2. ASSUME NEW f, node[w] \in Names, SetFile(node[w], f),
             Parking(f) = Parking(File(w)), UNCHANGED <<dead, req, conn>>
      PROVE  Quiet
  BY <1>a, <1>2, SetFileQueues DEF File, Quiet
<1>3. CASE Find(w)
  BY <1>1, <1>3 DEF Find
<1>4. CASE AbsentError(w)
  BY <1>1, <1>4 DEF AbsentError
<1>5. CASE InsertNoMemory(w)
  BY <1>1, <1>5 DEF InsertNoMemory
<1>6. CASE Opened(w)
  BY <1>1, <1>6 DEF Opened
<1>7. CASE Refuse(w)
  BY <1>1, <1>7 DEF Refuse
<1>8. CASE ReadFile(w)
  BY <1>1, <1>8 DEF ReadFile
<1>9. CASE TableLock(w)
  BY <1>1, <1>9 DEF TableLock
<1>10. CASE RemoveFile(w)
  BY <1>1, <1>10 DEF RemoveFile
<1>11. CASE Discard(w)
  BY <1>1, <1>11 DEF Discard
<1>12. CASE Payload(w)
  BY <1>1, <1>12 DEF Payload
<1>13. CASE NoRoom(w)
  BY <1>1, <1>13 DEF NoRoom
<1>14. CASE ReadNFiles(w)
  BY <1>1, <1>14 DEF ReadNFiles
<1>15. CASE Touch(w)
  BY <1>1, <1>15 DEF Touch
<1>16. CASE HoldTree(w)
  BY <1>1, <1>16 DEF HoldTree
<1>17. CASE Crash(w)
  BY <1>1, <1>17 DEF Crash
<1>18. CASE TryUse(w)
  <2>1. node[w] \in Names /\ File(w) \in ServerFile
    BY <1>a, <1>18, AtWork DEF TryUse
  <2>2. Parking([File(w) EXCEPT !.flagUse = TRUE]) = Parking(File(w))
    BY <1>a, <1>18, <2>1, AtWork, FileFacts, SameParking DEF TryUse
  <2>3. SetFile(node[w], [File(w) EXCEPT !.flagUse = TRUE]) /\ UNCHANGED <<dead, req, conn>>
    BY <1>18 DEF TryUse
  <2> QED
    BY <1>2, <2>1, <2>2, <2>3
<1>19. CASE Release(w)
  <2>1. node[w] \in Names /\ File(w) \in ServerFile
    BY <1>a, <1>19, AtWork DEF Release
  <2>2. Parking(Released(File(w))) = Parking(File(w))
    BY <1>a, <1>19, <2>1, AtWork, FileFacts, SameParking DEF Release
  <2>3. SetFile(node[w], Released(File(w))) /\ UNCHANGED <<dead, req, conn>>
    BY <1>19 DEF Release
  <2> QED
    BY <1>2, <2>1, <2>2, <2>3
<1>20. CASE SetLock(w)
  <2>1. node[w] \in Names /\ File(w) \in ServerFile
    BY <1>a, <1>20, AtWork DEF SetLock
  <2>2. Parking(Locked(File(w), Client(w))) = Parking(File(w))
    BY <1>a, <1>20, <2>1, AtWork, FileFacts, SameParking DEF SetLock
  <2>3. SetFile(node[w], Locked(File(w), Client(w))) /\ UNCHANGED <<dead, req, conn>>
    BY <1>20 DEF SetLock
  <2> QED
    BY <1>2, <2>1, <2>2, <2>3
<1>21. CASE LockFile(w)
  <2>1. node[w] \in Names /\ File(w) \in ServerFile
    BY <1>a, <1>21, AtWork DEF LockFile
  <2>2. Parking(Locked(File(w), Client(w))) = Parking(File(w))
    BY <1>a, <1>21, <2>1, AtWork, FileFacts, SameParking DEF LockFile
  <2>3. SetFile(node[w], Locked(File(w), Client(w))) /\ UNCHANGED <<dead, req, conn>>
    BY <1>21 DEF LockFile
  <2> QED
    BY <1>2, <2>1, <2>2, <2>3
<1>22. CASE UnlockFile(w)
  <2>1. node[w] \in Names /\ File(w) \in ServerFile
    BY <1>a, <1>22, AtWork DEF UnlockFile
  <2>2. Parking(Unlocked(Written(File(w)))) = Parking(File(w))
    BY <1>a, <1>22, <2>1, AtWork, FileFacts, SameParking DEF UnlockFile
  <2>3. SetFile(node[w], Unlocked(Written(File(w)))) /\ UNCHANGED <<dead, req, conn>>
    BY <1>22 DEF UnlockFile
  <2> QED
    BY <1>2, <2>1, <2>2, <2>3
<1>23. CASE WriteFile(w)
  <2>1. node[w] \in Names /\ File(w) \in ServerFile
    BY <1>a, <1>23, AtWork DEF WriteFile
  <2>2. Parking(Written(File(w))) = Parking(File(w))
    BY <1>a, <1>23, <2>1, AtWork, FileFacts, SameParking DEF WriteFile
  <2>3. SetFile(node[w], Written(File(w))) /\ UNCHANGED <<dead, req, conn>>
    BY <1>23 DEF WriteFile
  <2> QED
    BY <1>2, <2>1, <2>2, <2>3
<1>24. CASE AppendToFile(w)
  <2>1. node[w] \in Names /\ File(w) \in ServerFile
    BY <1>a, <1>24, AtWork DEF AppendToFile
  <2>2. Parking(Written(File(w))) = Parking(File(w))
    BY <1>a, <1>24, <2>1, AtWork, FileFacts, SameParking DEF AppendToFile
  <2>3. SetFile(node[w], Written(File(w))) /\ UNCHANGED <<dead, req, conn>>
    BY <1>24 DEF AppendToFile
  <2> QED
    BY <1>2, <2>1, <2>2, <2>3
<1>25. CASE RoomEnough(w)
  <2>1. node[w] \in Names /\ File(w) \in ServerFile
    BY <1>a, <1>25, AtWork DEF RoomEnough, Store, InTree
  <2>2. Parking([File(w) EXCEPT !.dim = @ + AppendDim]) = Parking(File(w))
    BY <1>a, <1>25, <2>1, AtWork, FileFacts, SameParking DEF RoomEnough, Store, InTree
  <2>3. SetFile(node[w], [File(w) EXCEPT !.dim = @ + AppendDim]) /\ UNCHANGED <<dead, req, conn>>
    BY <1>25 DEF RoomEnough, Store, InTree
  <2> QED
    BY <1>2, <2>1, <2>2, <2>3
<1>26. CASE Evicted(w)
  <2>1. node[w] \in Names /\ File(w) \in ServerFile
    BY <1>a, <1>26, AtWork DEF Evicted, Store
  <2>2. Parking([File(w) EXCEPT !.dim = @ + AppendDim]) = Parking(File(w))
    BY <1>a, <1>26, <2>1, AtWork, FileFacts, SameParking DEF Evicted, Store
  <2>3. SetFile(node[w], [File(w) EXCEPT !.dim = @ + AppendDim]) /\ UNCHANGED <<dead, req, conn>>
    BY <1>26 DEF Evicted, Store
  <2> QED
    BY <1>2, <2>1, <2>2, <2>3
<1>27. CASE NoNextRequest(w)
  <2>1. node[w] \in Names /\ File(w) \in ServerFile
    BY <1>a, <1>27, AtWork DEF NoNextRequest
  <2>2. Parking(Released(File(w))) = Parking(File(w))
    BY <1>a, <1>27, <2>1, AtWork, FileFacts, SameParking DEF NoNextRequest
  <2>3. SetFile(node[w], Released(File(w))) /\ UNCHANGED <<dead, req, conn>>
    BY <1>27 DEF NoNextRequest
  <2> QED
    BY <1>2, <2>1, <2>2, <2>3
<1>28. CASE OpenFile(w)
  <2>1. node[w] \in Names /\ File(w) \in ServerFile /\ Client(w) \in Clients
    BY <1>a, <1>28, AtWork DEF OpenFile
  <2> DEFINE g == Written(File(w))
             f == [g EXCEPT !.openList = @ \cup {Client(w)}]
  <2>2. g \in ServerFile /\ Parking(g) = Parking(File(w))
    BY <2>1, FileFacts, SameParking
  <2>3. SetFile(node[w], f) /\ UNCHANGED <<dead, req, conn>>
    BY <1>28 DEF OpenFile
  <2> HIDE DEF g
  <2>4. Parking(f) = Parking(File(w))
    BY <2>1, <2>2, SameParking
  <2> QED
    BY <1>2, <2>1, <2>3, <2>4
<1>29. CASE CloseFile(w)
  <2>1. node[w] \in Names /\ File(w) \in ServerFile /\ Client(w) \in Clients
    BY <1>a, <1>29, AtWork DEF CloseFile
  <2> DEFINE g == Written(File(w))
             f == [g EXCEPT !.openList = @ \ {Client(w)}]
  <2>2. g \in ServerFile /\ Parking(g) = Parking(File(w))
    BY <2>1, FileFacts, SameParking
  <2>3. /\ SetFile(node[w], f) \/ SetFile(node[w], Unlocked(f))
        /\ UNCHANGED <<dead, req, conn>>
    BY <1>29 DEF CloseFile
  <2> HIDE DEF g
  <2>4. f \in ServerFile /\ Parking(f) = Parking(File(w))
    BY <2>1, <2>2, FileFacts, SameParking
  <2> HIDE DEF f
  <2>5. Parking(Unlocked(f)) = Parking(File(w))
    BY <2>4, SameParking
  <2> QED
    BY <1>2, <2>1, <2>3, <2>4, <2>5
<1>30. CASE Finish(w)
  <2>1. node[w] \in Names /\ File(w) \in ServerFile
    BY <1>a, <1>30, AtWork DEF Finish
  <2>2. Parking(Released(File(w))) = Parking(File(w))
    BY <2>1, SameParking
  <2>3. /\ SetFile(node[w], File(w)) \/ SetFile(node[w], Released(File(w)))
        /\ UNCHANGED <<dead, req, conn>>
    BY <1>30 DEF Finish
  <2> QED
    BY <1>2, <2>1, <2>2, <2>3
<1>31. CASE MakeRoom(w)
  <2> DEFINE S == MakeSpace(0, MissingSpace)
  <2>1. S \subseteq ToSet(lru)
    BY <1>a, MakeSpaceFacts DEF TypeOK
  <2>2. \A m \in S : file[m] \in ServerFile
    BY <1>a, <2>1 DEF TypeOK, FilesAccounted, Live
  <2>3. file' = Mark(S) /\ UNCHANGED <<dead, req, conn>>
    BY <1>31 DEF MakeRoom
  <2> HIDE DEF S
  <2>4. \A m \in Names : Parking(file'[m]) = Parking(file[m])
    <3>1. ASSUME NEW m \in Names PROVE Parking(Mark(S)[m]) = Parking(file[m])
      <4>1. CASE m \in S
        BY <2>2, <4>1, SameParking DEF Mark
      <4>2. CASE m \notin S
        BY <4>2 DEF Mark
      <4> QED
        BY <4>1, <4>2
    <3> QED
      BY <2>3, <3>1
  <2> QED
    BY <2>3, <2>4, QueuesAre DEF Quiet
<1>32. CASE InsertExists(w)
  <2>1. CASE UNCHANGED file
    BY <1>1, <1>32, <2>1 DEF InsertExists
  <2> DEFINE S == {ToRemove}
  <2>2. CASE TreeIsFull /\ Expelled # {} /\ file' = Mark(S)
    <3>1. \A m \in S : file[m] \in ServerFile
      BY <1>a, <2>2, ToRemoveFacts
    <3> HIDE DEF S
    <3>2. \A m \in Names : Parking(file'[m]) = Parking(file[m])
      <4>1. ASSUME NEW m \in Names PROVE Parking(Mark(S)[m]) = Parking(file[m])
        <5>1. CASE m \in S
          BY <3>1, <5>1, SameParking DEF Mark
        <5>2. CASE m \notin S
          BY <5>2 DEF Mark
        <5> QED
          BY <5>1, <5>2
      <4> QED
        BY <2>2, <4>1
    <3>3. UNCHANGED <<dead, req, conn>>
      BY <1>32 DEF InsertExists
    <3> QED
      BY <3>2, <3>3, QueuesAre DEF Quiet
  <2> QED
    BY <1>32, <2>1, <2>2 DEF InsertExists
<1>33. CASE Unmark(w)
  <2> DEFINE m == LeastRecent(victims[w])
  <2>1. m \in Names /\ file[m] \in ServerFile
    BY <1>a, <1>33, VictimFacts DEF Unmark
  <2>2. Parking(Released(file[m])) = Parking(file[m])
    BY <2>1, SameParking
  <2>3. SetFile(m, Released(file[m])) /\ UNCHANGED <<dead, req, conn>>
    BY <1>33 DEF Unmark
  <2> HIDE DEF m
  <2> QED
    BY <1>a, <2>1, <2>2, <2>3, SetFileQueues DEF Quiet
<1>34. CASE FileDel(w)
  <2>1. dead[w] \in ServerFile
    BY <1>a, <1>34, AtWork DEF FileDel
  <2>2. /\ dead' = [dead EXCEPT ![w] = [dead[w] EXCEPT !.openList = {}]]
        /\ UNCHANGED <<file, req, conn>>
    BY <1>34 DEF FileDel
  <2>3. \A v \in Workers : Parking(dead'[v]) = Parking(dead[v])
    BY <1>a, <2>1, <2>2, SameParking DEF TypeOK
  <2> QED
    BY <2>2, <2>3, QueuesAre DEF Quiet
<1>35. CASE InformDone(w)
  <2>1. /\ dead' = [dead EXCEPT ![w] = NULL] /\ dead[w].requestList = <<>>
        /\ UNCHANGED <<file, req, conn>>
    BY <1>35 DEF InformDone
  <2>2. \A v \in Workers : Parking(dead'[v]) = Parking(dead[v])
    BY <1>a, <2>1 DEF TypeOK, Parking
  <2> QED
    BY <2>1, <2>2, QueuesAre DEF Quiet
<1> QED
  BY <1>3, <1>4, <1>5, <1>6, <1>7, <1>8, <1>9, <1>10, <1>11, <1>12, <1>13,
     <1>14, <1>15, <1>16, <1>17, <1>18, <1>19, <1>20, <1>21, <1>22, <1>23,
     <1>24, <1>25, <1>26, <1>27, <1>28, <1>29, <1>30, <1>31, <1>32, <1>33,
     <1>34, <1>35 DEF Step

(* The file in node n leaves the tree, and worker w has it at hand. *)
LEMMA Detached ==
  ASSUME TypeOK, TypeOK', RequestsUnique, UNCHANGED <<req, conn>>,
         NEW w \in Workers, NEW n \in Names,
         dead' = [dead EXCEPT ![w] = file[n]], Parking(file'[n]) = <<>>,
         \A m \in Names : m # n => Parking(file'[m]) = Parking(file[m])
  PROVE  RequestsUnique'
<1>1. PICK s \in Queues : s = <<"file", n>>
  BY FileQueue
<1>2. PICK d \in Queues : d = <<"dead", w>>
  BY DeadQueue
<1>3. s # d
  BY <1>1, <1>2
<1>4. Queue(s) = Parking(file[n]) /\ Queue(s)' = <<>>
  BY <1>1, FileQueue
<1>5. Queue(d)' = Queue(s)
  <2>1. dead'[w] = file[n]
    BY DEF TypeOK
  <2> QED
    BY <1>2, <1>4, <2>1, DeadQueue
<1>6. \A q \in Queues : q \notin {s, d} => Queue(q)' = Queue(q)
  <2>1. ASSUME NEW q \in Queues, q # s, q # d PROVE Queue(q)' = Queue(q)
    <3>1. CASE \E m \in Names : q = <<"file", m>>
      <4>1. PICK m \in Names : q = <<"file", m>>
        BY <3>1
      <4>2. m # n
        BY <1>1, <2>1, <4>1
      <4> QED
        BY <4>1, <4>2, FileQueue
    <3>2. CASE \E v \in Workers : q = <<"dead", v>>
      <4>1. PICK v \in Workers : q = <<"dead", v>>
        BY <3>2
      <4>2. v # w
        BY <1>2, <2>1, <4>1
      <4>3. dead'[v] = dead[v]
        BY <4>2 DEF TypeOK
      <4> QED
        BY <4>1, <4>3, DeadQueue
    <3> QED
      BY <3>1, <3>2, QueueKinds
  <2> QED
    BY <2>1
<1> QED
  BY <1>3, <1>4, <1>5, <1>6, Moved

LEMMA MovingStep ==
  ASSUME IInv, TypeOK', RequestsUnique, NEW w \in Workers,
         InsertNew(w) \/ TreeRemove(w) \/ Evict(w)
  PROVE  RequestsUnique'
<1> USE DEF treeVars, tableVars, clientVars, jobVars, evictVars, lockVars,
            At, Handling, SetFile
<1>a. TypeOK /\ Placed /\ FilesAccounted
  BY DEF IInv
<1>1. CASE InsertNew(w)
  <2>1. PICK n \in Names : n = node[w]
    BY <1>a, <1>1, AtWork DEF InsertNew, Inserting, InTree
  <2>2. PICK new : /\ new = NewServerFile(Client(w), O_LOCK(req[w].op), node[w])
                   /\ Parking(new) = <<>>
    <3>1. NewServerFile(Client(w), O_LOCK(req[w].op), node[w]).requestList = <<>>
      BY DEF NewServerFile
    <3> QED
      BY <3>1 DEF Parking
  <2>3. UNCHANGED <<req, conn>>
    BY <1>1 DEF InsertNew
  <2>4. CASE ~TreeIsFull
    <3>1. file[n] = NULL /\ file' = [file EXCEPT ![n] = new] /\ UNCHANGED dead
      BY <1>1, <2>1, <2>2, <2>4 DEF InsertNew, File
    <3>2. Parking(file[n]) = <<>>
      BY <3>1 DEF Parking
    <3>3. SameQueues
      BY <1>a, <2>2, <3>1, <3>2, SetFileQueues
    <3> QED
      BY <2>3, <3>3, Untouched
  <2>5. CASE TreeIsFull
    <3>1. PICK r \in Names : r = ToRemove
      BY <1>a, <1>1, <2>5, ToRemoveFacts DEF InsertNew
    <3>2. /\ file[n] = NULL \/ n = r
          /\ file' = [file EXCEPT ![r] = NULL, ![n] = new]
          /\ dead' = [dead EXCEPT ![w] = file[r]]
      BY <1>1, <2>1, <2>2, <2>5, <3>1 DEF InsertNew, File
    <3>3. Parking(NULL) = <<>>
      BY DEF Parking
    <3>4. /\ file'[r] \in {NULL, new}
          /\ \A m \in Names : m # r => \/ file'[m] = file[m]
                                       \/ m = n /\ file'[m] = new /\ file[m] = NULL
      BY <1>a, <3>2 DEF TypeOK
    <3>5. Parking(file'[r]) = <<>>
      BY <2>2, <3>3, <3>4
    <3>6. \A m \in Names : m # r => Parking(file'[m]) = Parking(file[m])
      BY <2>2, <3>3, <3>4
    <3> QED
      BY <1>a, <2>3, <3>2, <3>5, <3>6, Detached
  <2> QED
    BY <2>4, <2>5
<1>2. ASSUME NEW n \in Names, Detach(w, n), UNCHANGED <<req, conn>>
      PROVE  RequestsUnique'
  <2>1. /\ dead' = [dead EXCEPT ![w] = file[n]]
        /\ file' = [file EXCEPT ![n] = NULL]
    BY <1>2 DEF Detach
  <2>2. file'[n] = NULL /\ \A m \in Names : m # n => file'[m] = file[m]
    BY <1>a, <2>1 DEF TypeOK
  <2>3. Parking(file'[n]) = <<>>
    BY <2>2 DEF Parking
  <2> QED
    BY <1>a, <1>2, <2>1, <2>2, <2>3, Detached
<1>3. CASE TreeRemove(w)
  <2>1. node[w] \in Names
    BY <1>a, <1>3, AtWork DEF TreeRemove, InTree
  <2>2. CASE File(w) # NULL
    BY <1>2, <1>3, <2>1, <2>2 DEF TreeRemove
  <2>3. CASE File(w) = NULL
    <3>1. UNCHANGED <<file, dead, req, conn>>
      BY <1>3, <2>3 DEF TreeRemove
    <3> QED
      BY <3>1, QueuesAre, Untouched
  <2> QED
    BY <2>2, <2>3
<1>4. CASE Evict(w)
  <2>1. LeastRecent(victims[w]) \in Names
    BY <1>a, <1>4, VictimFacts DEF Evict
  <2> QED
    BY <1>2, <1>4, <2>1 DEF Evict
<1> QED
  BY <1>1, <1>3, <1>4

(* tryUse finds the file busy or locked. *)
LEMMA ParkStep ==
  ASSUME IInv, TypeOK', RequestsUnique, NEW w \in Workers, Park(w)
  PROVE  RequestsUnique'
<1>a. TypeOK /\ Placed
  BY DEF IInv
<1>1. /\ node[w] \in Names /\ File(w) \in ServerFile
      /\ req[w] \in Request /\ req[w] # NULL
  <2>1. pc[w] = "use" /\ File(w) # NULL
    BY DEF Park, Handling, At
  <2> QED
    BY <1>a, <2>1, AtWork, NULLAssumption
<1>2. PICK n \in Names : n = node[w]
  BY <1>1
<1>3. /\ file' = [file EXCEPT ![n] = Parked(file[n], req[w])]
      /\ req' = [req EXCEPT ![w] = NULL] /\ UNCHANGED <<conn, dead>>
  BY <1>2 DEF Park, SetFile, File, NoRequest, clientVars, evictVars
<1>4. Parking(Parked(file[n], req[w])) = Append(Parking(file[n]), req[w])
  <2>1. file[n] \in ServerFile /\ file[n] # NULL
    BY <1>1, <1>2, FileFacts DEF File
  <2>2. Parked(file[n], req[w]) # NULL
    BY <1>1, <2>1, FileFacts
  <2>3. Parked(file[n], req[w]).requestList = Append(file[n].requestList, req[w])
    BY <2>1 DEF Parked, ServerFile
  <2> QED
    BY <2>1, <2>2, <2>3 DEF Parking
<1>5. PICK s \in Queues : s = <<"file", n>>
  BY FileQueue
<1>6. Queue(s)' = Append(Queue(s), req[w])
  <2>1. file'[n] = Parked(file[n], req[w])
    BY <1>a, <1>3 DEF TypeOK
  <2> QED
    BY <1>4, <1>5, <2>1, FileQueue
<1>7. \A q \in Queues : q # s => Queue(q)' = Queue(q)
  <2>1. \A m \in Names : m # n => file'[m] = file[m]
    BY <1>a, <1>3 DEF TypeOK
  <2> QED
    BY <1>3, <1>5, <2>1, QueueKinds, FileQueue, DeadQueue
<1> QED
  BY <1>a, <1>1, <1>3, <1>6, <1>7, ToQueue

(* The handler of a file takes its next request. *)
LEMMA NextRequestStep ==
  ASSUME IInv, TypeOK', RequestsUnique, NEW w \in Workers, NextRequest(w)
  PROVE  RequestsUnique'
<1>a. TypeOK /\ Placed
  BY DEF IInv
<1>1. node[w] \in Names /\ File(w) \in ServerFile /\ File(w).requestList # <<>>
  BY <1>a, AtWork DEF NextRequest, Handling, At
<1>2. PICK n \in Names : n = node[w]
  BY <1>1
<1>3. file[n] \in ServerFile /\ Parking(file[n]) = file[n].requestList
  BY <1>1, <1>2, FileFacts DEF File, Parking
<1>4. /\ file' = [file EXCEPT ![n] = [file[n] EXCEPT !.requestList = Tail(@)]]
      /\ req' = [req EXCEPT ![w] = Head(file[n].requestList)]
      /\ UNCHANGED <<conn, dead>>
  BY <1>2 DEF NextRequest, SetFile, File, clientVars, evictVars
<1>5. Parking([file[n] EXCEPT !.requestList = Tail(@)])
      = Tail(file[n].requestList)
  <2>1. [file[n] EXCEPT !.requestList = Tail(@)] \in ServerFile
    BY <1>1, <1>2, <1>3, QueueFacts DEF File
  <2>2. [file[n] EXCEPT !.requestList = Tail(@)] # NULL
    BY <2>1, NULLAssumption
  <2>3. [file[n] EXCEPT !.requestList = Tail(@)].requestList
        = Tail(file[n].requestList)
    BY <1>3 DEF ServerFile
  <2> QED
    BY <2>2, <2>3 DEF Parking
<1>6. PICK s \in Queues : s = <<"file", n>>
  BY FileQueue
<1>7. Queue(s) = file[n].requestList /\ Queue(s) # <<>>
  BY <1>1, <1>2, <1>3, <1>6, FileQueue DEF File
<1>8. Queue(s)' = Tail(Queue(s))
  <2>1. file'[n] = [file[n] EXCEPT !.requestList = Tail(@)]
    BY <1>a, <1>4 DEF TypeOK
  <2> QED
    BY <1>5, <1>6, <1>7, <2>1, FileQueue
<1>9. \A q \in Queues : q # s => Queue(q)' = Queue(q)
  <2>1. \A m \in Names : m # n => file'[m] = file[m]
    BY <1>a, <1>4 DEF TypeOK
  <2> QED
    BY <1>4, <1>6, <2>1, QueueKinds, FileQueue, DeadQueue
<1> QED
  BY <1>a, <1>4, <1>7, <1>8, <1>9, FromQueue

(* A request ends: its client is told, or gone. *)
LEMMA EndingStep ==
  ASSUME IInv, TypeOK', RequestsUnique, NEW w \in Workers,
         AbsentFatal(w) \/ PayloadCut(w) \/ Reply(w)
  PROVE  RequestsUnique'
<1>a. TypeOK /\ Placed
  BY DEF IInv
<1>1. req[w] \in Request /\ req[w] # NULL /\ Client(w) \in Clients
  <2>1. pc[w] \in {"absent", "discard", "payload", "reply"}
    BY DEF AbsentFatal, PayloadCut, Reply, At
  <2> QED
    BY <1>a, <2>1, AtWork, NULLAssumption
<1>2. PICK d \in Clients : d = Client(w)
  BY <1>1
<1>3. /\ req' = [req EXCEPT ![w] = NULL] /\ UNCHANGED dead
      /\ DisconnectClient(w, d) \/ SendClientResult(w, d)
  BY <1>2 DEF AbsentFatal, PayloadCut, Reply, NoRequest, evictVars
<1>4. /\ \A n \in Names : Parking(file'[n]) = Parking(file[n])
      /\ \A c \in Clients : conn'[c] = conn[c] \/ c = d
  BY <1>a, <1>3, DisconnectQueues, SendQueues
<1>5. SameQueues
  BY <1>3, <1>4, QueuesAre
<1> QED
  BY <1>a, <1>1, <1>2, <1>3, <1>4, <1>5, Answered

LEMMA InformStep ==
  ASSUME IInv, TypeOK', RequestsUnique, NEW w \in Workers,
         InformReply(w) \/ InformAppend(w) \/ InformWrite(w)
  PROVE  RequestsUnique'
<1>a. TypeOK /\ Placed
  BY DEF IInv
<1>1. /\ pc[w] = "inform" /\ dead[w].requestList # <<>> /\ UNCHANGED req
      /\ dead' = [dead EXCEPT ![w].requestList = Tail(@)]
  BY DEF InformReply, InformAppend, InformWrite, Informing, At, jobVars
<1>2. dead[w] \in ServerFile /\ Parking(dead[w]) = dead[w].requestList
  BY <1>a, <1>1, AtWork, NULLAssumption DEF Parking
<1>3. PICK d \in Clients : d = Head(dead[w].requestList).client
  BY <1>1, <1>2, QueueFacts
<1>4. Parking(dead'[w]) = Tail(dead[w].requestList)
  <2>1. dead'[w] = [dead[w] EXCEPT !.requestList = Tail(@)]
    BY <1>a, <1>1 DEF TypeOK
  <2>2. dead'[w] \in ServerFile /\ dead'[w] # NULL
    BY <1>1, <1>2, <2>1, QueueFacts, NULLAssumption
  <2>3. dead'[w].requestList = Tail(dead[w].requestList)
    BY <1>2, <2>1 DEF ServerFile
  <2> QED
    BY <2>2, <2>3 DEF Parking
<1>5. \A v \in Workers : v # w => dead'[v] = dead[v]
  BY <1>a, <1>1 DEF TypeOK
<1>6. /\ \A n \in Names : Parking(file'[n]) = Parking(file[n])
      /\ \A c \in Clients : conn'[c] = conn[c] \/ c = d
  <2>1. CASE DisconnectClient(w, d) \/ SendClientResult(w, d)
    BY <1>a, <2>1, DisconnectQueues, SendQueues
  <2>2. CASE UNCHANGED <<file, conn>>
    BY <2>2
  <2> QED
    BY <1>3, <2>1, <2>2 DEF InformReply, InformAppend, InformWrite
<1>7. /\ Parking(dead[w]) # <<>>
      /\ Parking(dead'[w]) = Tail(Parking(dead[w]))
      /\ \A c \in Clients : \/ conn'[c] = conn[c]
                            \/ c = Head(Parking(dead[w])).client
  BY <1>1, <1>2, <1>3, <1>4, <1>6
<1> QED
  BY <1>a, <1>1, <1>5, <1>6, <1>7, Informed

-----------------------------------------------------------------------------
(* The theorem *)

LEMMA RequestsStep ==
  ASSUME IInv, TypeOK', RequestsUnique, [Next]_vars
  PROVE  RequestsUnique'
<1>a. TypeOK
  BY DEF IInv
<1>1. CASE UNCHANGED vars
  BY <1>1, QueuesAre, Untouched
     DEF vars, evictVars, jobVars, clientVars
<1>2. ASSUME NEW c \in Clients, Die(c) PROVE RequestsUnique'
  BY <1>2, QueuesAre, Untouched DEF Die, evictVars, jobVars
<1>3. ASSUME NEW w \in Workers, NEW c \in Clients, NEW op \in OpKinds,
             NEW n \in Names, Take(w, c, op, n)
      PROVE  RequestsUnique'
  <2> DEFINE r == [client |-> c, op |-> op]
  <2>1. r \in Request /\ r.client = c
    BY DEF Request
  <2>2. /\ conn[c] = "listening" /\ conn' = [conn EXCEPT ![c] = "served"]
        /\ req' = [req EXCEPT ![w] = r] /\ UNCHANGED <<file, dead>>
    BY <1>3 DEF Take, evictVars
  <2>3. \A q \in Queues : Queue(q)' = Queue(q)
    BY <2>2, QueuesAre DEF SameQueues
  <2> HIDE DEF r
  <2> QED
    BY <1>a, <2>1, <2>2, <2>3, Fresh
<1>4. ASSUME NEW w \in Workers, NEW c \in Clients, TakeEOF(w, c)
      PROVE  RequestsUnique'
  <2>1. /\ conn[c] = "listening" /\ DisconnectClient(w, c)
        /\ UNCHANGED <<req, dead>>
    BY <1>4 DEF TakeEOF, jobVars, evictVars
  <2>2. /\ \A n \in Names : Parking(file'[n]) = Parking(file[n])
        /\ \A d \in Clients : conn'[d] = conn[d] \/ d = c
    BY <1>a, <2>1, DisconnectQueues
  <2>3. \A q \in Queues : Queue(q)' = Queue(q)
    BY <2>1, <2>2, QueuesAre DEF SameQueues
  <2>4. \A q \in Queues : Rest(Queue(q)', Queue(q))
    <3>1. ASSUME NEW q \in Queues PROVE Rest(Queue(q)', Queue(q))
      <4>1. Queue(q) \in Seq(Request) /\ Queue(q)' = Queue(q)
        BY <1>a, <2>3, QueuesTyped
      <4> QED
        BY <4>1, RestTail
    <3> QED
      BY <3>1
  <2>5. \A q \in Queues : \A i \in DOMAIN Queue(q)' : Queue(q)'[i].client # c
    BY <2>1, <2>3 DEF RequestsUnique, PendingIsServed
  <2>6. \A v \in Workers : /\ req'[v] \in {NULL, req[v]}
                           /\ req'[v] # NULL => req'[v].client # c
    BY <2>1 DEF RequestsUnique, PendingIsServed, Client
  <2> QED
    BY <1>a, <2>2, <2>4, <2>5, <2>6, Fewer
<1>5. ASSUME NEW w \in Workers, Step(w) PROVE RequestsUnique'
  <2>1. CASE Quiet
    BY <2>1, Untouched DEF Quiet
  <2> QED
    BY <1>5, <2>1, QuietStep, MovingStep, ParkStep, NextRequestStep,
       EndingStep, InformStep
<1> QED
  BY <1>1, <1>2, <1>3, <1>4, <1>5 DEF Next

LEMMA InitRequests == Init => RequestsUnique
<1> SUFFICES ASSUME Init PROVE RequestsUnique
  OBVIOUS
<1>1. \A q \in Queues : Queue(q) = <<>>
  BY DEF Init, Queues, Queue
<1>2. \A w \in Workers : req[w] = NULL
  BY DEF Init
<1> QED
  BY <1>1, <1>2 DEF RequestsUnique, HeldOnce, ParkedOnce, HeldNotParked,
                    PendingIsServed

(* However often a request is parked, taken up again or moved out with a   *)
(* file that is evicted or removed (tryUse, manageRequest,                 *)
(* informClientDelete): it is with one worker or once in one queue, and    *)
(* its client is not listened to meanwhile; so no request is run or        *)
(* answered twice, for any number of workers, clients and files.           *)
THEOREM OneRequestEach == Spec => []RequestsUnique
<1>1. Init => IInv /\ RequestsUnique
  BY InitIInv, InitRequests
<1>2. IInv /\ [Next]_vars => IInv'
  <2> SUFFICES ASSUME IInv, [Next]_vars PROVE IInv'
    OBVIOUS
  <2>1. TypeOK'
    BY TypeStep
  <2> QED
    BY <2>1, PlacedStep, AccountedStep DEF IInv
<1>3. (IInv /\ RequestsUnique) /\ [Next]_vars => (IInv /\ RequestsUnique)'
  <2> SUFFICES ASSUME IInv, RequestsUnique, [Next]_vars
               PROVE  (IInv /\ RequestsUnique)'
    OBVIOUS
  <2>1. IInv'
    BY <1>2
  <2>2. TypeOK'
    BY <2>1 DEF IInv
  <2> QED
    BY <2>1, <2>2, RequestsStep
<1> QED
  BY <1>1, <1>3, PTL DEF Spec

-----------------------------------------------------------------------------
(* No request is lost *)

(* A worker between two requests has none, and has no removed file at hand *)
(* but while it cleans up after it.                                        *)
HandsFree(w) == /\ pc[w] \in {"idle", "next", "touch"} => req[w] = NULL
                /\ dead[w] # NULL => pc[w] \in {"filedel", "inform"}

LEMMA HandsStep ==
  ASSUME IInv, TypeOK', NEW w \in Workers, Step(w), HandsFree(w)
  PROVE  HandsFree(w)'
<1> USE DEF treeVars, tableVars, clientVars, jobVars, evictVars, lockVars,
            Goto, ReplyThen, Done, NoRequest, At, Handling, Exec, HandsFree
<1>a. TypeOK /\ WellPlaced(w)
  BY DEF IInv, Placed
<1>1. CASE Find(w)
  BY <1>a, <1>1 DEF TypeOK, Find, InTree
<1>2. CASE AbsentError(w)
  BY <1>a, <1>2 DEF TypeOK, AbsentError
<1>3. CASE AbsentFatal(w)
  BY <1>a, <1>3 DEF TypeOK, AbsentFatal
<1>4. CASE TryUse(w)
  BY <1>a, <1>4 DEF TypeOK, TryUse
<1>5. CASE Park(w)
  BY <1>a, <1>5 DEF TypeOK, Park
<1>6. CASE InsertNew(w)
  BY <1>a, <1>6 DEF TypeOK, InsertNew, Inserting, InTree
<1>7. CASE InsertExists(w)
  BY <1>a, <1>7 DEF TypeOK, InsertExists, Inserting, InTree
<1>8. CASE InsertNoMemory(w)
  BY <1>a, <1>8 DEF TypeOK, InsertNoMemory, Inserting, InTree
<1>9. CASE Opened(w)
  BY <1>a, <1>9 DEF TypeOK, Opened
<1>10. CASE Release(w)
  BY <1>a, <1>10 DEF TypeOK, Release
<1>11. CASE FileDel(w)
  BY <1>a, <1>11 DEF TypeOK, FileDel
<1>12. CASE InformReply(w)
  BY <1>a, <1>12 DEF TypeOK, InformReply, Informing
<1>13. CASE InformAppend(w)
  BY <1>a, <1>13 DEF TypeOK, InformAppend, Informing
<1>14. CASE InformWrite(w)
  BY <1>a, <1>14 DEF TypeOK, InformWrite, Informing
<1>15. CASE InformDone(w)
  BY <1>a, <1>15 DEF TypeOK, InformDone
<1>16. CASE Refuse(w)
  BY <1>a, <1>16 DEF TypeOK, Refuse, Refused
<1>17. CASE OpenFile(w)
  BY <1>a, <1>17 DEF TypeOK, OpenFile
<1>18. CASE SetLock(w)
  BY <1>a, <1>18 DEF TypeOK, SetLock
<1>19. CASE ReadFile(w)
  BY <1>a, <1>19 DEF TypeOK, ReadFile
<1>20. CASE LockFile(w)
  BY <1>a, <1>20 DEF TypeOK, LockFile
<1>21. CASE TableLock(w)
  BY <1>a, <1>21 DEF TypeOK, TableLock
<1>22. CASE UnlockFile(w)
  BY <1>a, <1>22 DEF TypeOK, UnlockFile
<1>23. CASE CloseFile(w)
  BY <1>a, <1>23 DEF TypeOK, CloseFile
<1>24. CASE RemoveFile(w)
  BY <1>a, <1>24 DEF TypeOK, RemoveFile
<1>25. CASE TreeRemove(w)
  BY <1>a, <1>25 DEF TypeOK, TreeRemove, InTree, Detach
<1>26. CASE WriteFile(w)
  BY <1>a, <1>26 DEF TypeOK, WriteFile
<1>27. CASE AppendToFile(w)
  BY <1>a, <1>27 DEF TypeOK, AppendToFile
<1>28. CASE PayloadCut(w)
  BY <1>a, <1>28 DEF TypeOK, PayloadCut
<1>29. CASE Discard(w)
  BY <1>a, <1>29 DEF TypeOK, Discard
<1>30. CASE Payload(w)
  BY <1>a, <1>30 DEF TypeOK, Payload
<1>31. CASE RoomEnough(w)
  BY <1>a, <1>31 DEF TypeOK, RoomEnough, Store, InTree
<1>32. CASE MakeRoom(w)
  BY <1>a, <1>32 DEF TypeOK, MakeRoom, InTree
<1>33. CASE Unmark(w)
  BY <1>a, <1>33 DEF TypeOK, Unmark
<1>34. CASE NoRoom(w)
  BY <1>a, <1>34 DEF TypeOK, NoRoom
<1>35. CASE Evict(w)
  BY <1>a, <1>35 DEF TypeOK, Evict, Detach
<1>36. CASE Evicted(w)
  BY <1>a, <1>36 DEF TypeOK, Evicted, Store
<1>37. CASE Finish(w)
  BY <1>a, <1>37 DEF TypeOK, Finish
<1>38. CASE Reply(w)
  BY <1>a, <1>38 DEF TypeOK, Reply
<1>39. CASE ReadNFiles(w)
  BY <1>a, <1>39 DEF TypeOK, ReadNFiles, InTree
<1>40. CASE NextRequest(w)
  BY <1>a, <1>40 DEF TypeOK, NextRequest
<1>41. CASE NoNextRequest(w)
  BY <1>a, <1>41 DEF TypeOK, NoNextRequest
<1>42. CASE Touch(w)
  BY <1>a, <1>42 DEF TypeOK, Touch, InTree
<1>43. CASE HoldTree(w)
  BY <1>a, <1>43 DEF TypeOK, HoldTree, InTree
<1>44. CASE Crash(w)
  BY <1>a, <1>44 DEF TypeOK, Crash
<1> QED
  BY <1>1, <1>2, <1>3, <1>4, <1>5, <1>6, <1>7, <1>8, <1>9, <1>10, <1>11,
     <1>12, <1>13, <1>14, <1>15, <1>16, <1>17, <1>18, <1>19, <1>20,
     <1>21, <1>22, <1>23, <1>24, <1>25, <1>26, <1>27, <1>28, <1>29,
     <1>30, <1>31, <1>32, <1>33, <1>34, <1>35, <1>36, <1>37, <1>38,
     <1>39, <1>40, <1>41, <1>42, <1>43, <1>44 DEF Step

(* A client's request, wherever it is *)
Held(c)   == \E w \in Workers : req[w] # NULL /\ Client(w) = c
Waits(c)  == \E q \in Queues : \E i \in DOMAIN Queue(q) : Queue(q)[i].client = c
KeptInv   == NoRequestLost /\ \A w \in Workers : HandsFree(w)

LEMMA LostIs == NoRequestLost <=> \A c \in Clients : conn[c] = "served" => Held(c) \/ Waits(c)
BY DEF NoRequestLost, Held, Waits

(* Nothing happens to the requests, or one of them ends with its client no *)
(* longer served.                                                          *)
LEMMA StillKept ==
  ASSUME NoRequestLost,
         \A c \in Clients : conn'[c] = "served" => conn[c] = "served",
         \A c \in Clients : conn'[c] = "served" /\ Held(c) => Held(c)' \/ Waits(c)',
         \A c \in Clients : conn'[c] = "served" /\ Waits(c) => Held(c)' \/ Waits(c)'
  PROVE  NoRequestLost'
BY LostIs DEF NoRequestLost, Held, Waits

LEMMA SameWaits ==
  ASSUME SameQueues, NEW c, Waits(c)
  PROVE  Waits(c)'
BY DEF Waits, SameQueues

LEMMA QuietKept ==
  ASSUME NoRequestLost, Quiet
  PROVE  NoRequestLost'
<1>1. \A c \in Clients : Held(c) => Held(c)'
  BY DEF Quiet, Held, Client
<1>2. \A c \in Clients : Waits(c) => Waits(c)'
  BY SameWaits DEF Quiet
<1> QED
  BY <1>1, <1>2, StillKept DEF Quiet

(* Worker w's request ends, its client d is not served any more. *)
LEMMA EndKept ==
  ASSUME TypeOK, NoRequestLost, SameQueues, NEW w \in Workers, NEW d \in Clients,
         d = Client(w), req' = [req EXCEPT ![w] = NULL], conn'[d] # "served",
         \A c \in Clients : conn'[c] = conn[c] \/ c = d
  PROVE  NoRequestLost'
<1>1. ASSUME NEW c \in Clients, conn'[c] = "served", Held(c) PROVE Held(c)'
  <2>1. PICK v \in Workers : req[v] # NULL /\ Client(v) = c
    BY <1>1 DEF Held
  <2>2. v # w
    BY <1>1, <2>1
  <2>3. req'[v] = req[v]
    BY <2>2 DEF TypeOK
  <2> QED
    BY <2>1, <2>3 DEF Held, Client
<1>2. \A c \in Clients : Waits(c) => Waits(c)'
  BY SameWaits
<1> QED
  BY <1>1, <1>2, StillKept

(* A disconnected client, or one that is answered, is no longer served. *)
LEMMA NotServed ==
  ASSUME TypeOK, NEW w \in Workers, NEW c \in Clients,
         DisconnectClient(w, c) \/ SendClientResult(w, c)
  PROVE  conn'[c] # "served"
BY DEF DisconnectClient, SendClientResult, TypeOK

LEMMA EndingKept ==
  ASSUME IInv, NoRequestLost, NEW w \in Workers,
         AbsentFatal(w) \/ PayloadCut(w) \/ Reply(w)
  PROVE  NoRequestLost'
<1>a. TypeOK /\ Placed
  BY DEF IInv
<1>1. Client(w) \in Clients
  <2>1. pc[w] \in {"absent", "discard", "payload", "reply"}
    BY DEF AbsentFatal, PayloadCut, Reply, At
  <2> QED
    BY <1>a, <2>1, AtWork, NULLAssumption
<1>2. PICK d \in Clients : d = Client(w)
  BY <1>1
<1>3. /\ req' = [req EXCEPT ![w] = NULL] /\ UNCHANGED dead
      /\ DisconnectClient(w, d) \/ SendClientResult(w, d)
  BY <1>2 DEF AbsentFatal, PayloadCut, Reply, NoRequest, evictVars
<1>4. /\ \A n \in Names : Parking(file'[n]) = Parking(file[n])
      /\ \A c \in Clients : conn'[c] = conn[c] \/ c = d
  BY <1>a, <1>3, DisconnectQueues, SendQueues
<1>5. SameQueues /\ conn'[d] # "served"
  BY <1>a, <1>3, <1>4, QueuesAre, NotServed
<1> QED
  BY <1>a, <1>2, <1>3, <1>4, <1>5, EndKept

(* A request goes from its worker to the end of a queue. *)
LEMMA ParkKept ==
  ASSUME IInv, TypeOK', NoRequestLost, NEW w \in Workers, Park(w)
  PROVE  NoRequestLost'
<1>a. TypeOK /\ Placed
  BY DEF IInv
<1>1. /\ node[w] \in Names /\ File(w) \in ServerFile
      /\ req[w] \in Request /\ req[w] # NULL
  <2>1. pc[w] = "use" /\ File(w) # NULL
    BY DEF Park, Handling, At
  <2> QED
    BY <1>a, <2>1, AtWork, NULLAssumption
<1>2. PICK n \in Names : n = node[w]
  BY <1>1
<1>3. /\ file' = [file EXCEPT ![n] = Parked(file[n], req[w])]
      /\ req' = [req EXCEPT ![w] = NULL] /\ UNCHANGED <<conn, dead>>
  BY <1>2 DEF Park, SetFile, File, NoRequest, clientVars, evictVars
<1>4. PICK s \in Queues : s = <<"file", n>>
  BY FileQueue
<1>5. Queue(s)' = Append(Queue(s), req[w]) /\ Queue(s) \in Seq(Request)
  <2>1. file[n] \in ServerFile /\ file[n] # NULL /\ file[n].requestList \in Seq(Request)
    BY <1>1, <1>2, FileFacts DEF File, ServerFile
  <2>2. Parked(file[n], req[w]) # NULL
    BY <1>1, <2>1, FileFacts
  <2>3. Parked(file[n], req[w]).requestList = Append(file[n].requestList, req[w])
    BY <2>1 DEF Parked, ServerFile
  <2>4. file'[n] = Parked(file[n], req[w])
    BY <1>a, <1>3 DEF TypeOK
  <2> QED
    BY <1>4, <2>1, <2>2, <2>3, <2>4, FileQueue DEF Parking
<1>6. \A q \in Queues : q # s => Queue(q)' = Queue(q)
  <2>1. \A m \in Names : m # n => file'[m] = file[m]
    BY <1>a, <1>3 DEF TypeOK
  <2> QED
    BY <1>3, <1>4, <2>1, QueueKinds, FileQueue, DeadQueue
<1>7. /\ DOMAIN Queue(s)' = DOMAIN Queue(s) \cup {Len(Queue(s)) + 1}
      /\ \A i \in DOMAIN Queue(s) : Queue(s)'[i] = Queue(s)[i]
      /\ Queue(s)'[Len(Queue(s)) + 1] = req[w]
  BY <1>1, <1>5, AppendPlaces
<1>8. ASSUME NEW c \in Clients, Held(c) PROVE Held(c)' \/ Waits(c)'
  <2>1. PICK v \in Workers : req[v] # NULL /\ Client(v) = c
    BY <1>8 DEF Held
  <2>2. CASE v = w
    BY <1>7, <2>1, <2>2 DEF Waits, Client
  <2>3. CASE v # w
    <3>1. req'[v] = req[v]
      BY <1>a, <1>3, <2>3 DEF TypeOK
    <3> QED
      BY <2>1, <3>1 DEF Held, Client
  <2> QED
    BY <2>2, <2>3
<1>9. ASSUME NEW c \in Clients, Waits(c) PROVE Waits(c)'
  BY <1>6, <1>7, <1>9 DEF Waits
<1> QED
  BY <1>3, <1>8, <1>9, StillKept

(* The head of a queue leaves it.  Everybody else still waits. *)
LEMMA TailWaits ==
  ASSUME NEW s \in Queues, Queue(s) \in Seq(Request), Queue(s) # <<>>,
         Queue(s)' = Tail(Queue(s)),
         \A q \in Queues : q # s => Queue(q)' = Queue(q),
         NEW c, Waits(c), c # Head(Queue(s)).client
  PROVE  Waits(c)'
<1>1. PICK q \in Queues : \E i \in DOMAIN Queue(q) : Queue(q)[i].client = c
  BY DEF Waits
<1>2. PICK i \in DOMAIN Queue(q) : Queue(q)[i].client = c
  BY <1>1
<1>3. CASE q # s
  BY <1>1, <1>3 DEF Waits
<1>4. CASE q = s
  <2>1. /\ DOMAIN Queue(s) = 1..Len(Queue(s)) /\ Len(Queue(s)) \in Nat
        /\ Head(Queue(s)) = Queue(s)[1]
        /\ DOMAIN Tail(Queue(s)) = 1..Len(Queue(s)) - 1
        /\ \A x \in 1..Len(Queue(s)) - 1 : Tail(Queue(s))[x] = Queue(s)[x + 1]
    <3>1. PICK t \in Seq(Request) : t = Queue(s)
      OBVIOUS
    <3>2. t # <<>>
      BY <3>1
    <3>3. /\ Head(t) = t[1] /\ Tail(t) \in Seq(Request) /\ Len(Tail(t)) = Len(t) - 1
          /\ \A x \in 1..Len(t) - 1 : Tail(t)[x] = t[x + 1]
      BY <3>2, HeadTailProperties
    <3>4. DOMAIN t = 1..Len(t) /\ Len(t) \in Nat
      BY LenProperties
    <3>5. DOMAIN Tail(t) = 1..Len(t) - 1
      BY <3>3, LenProperties
    <3> QED
      BY <3>1, <3>3, <3>4, <3>5
  <2>2. i # 1 /\ i \in 1..Len(Queue(s))
    BY <1>2, <1>4, <2>1
  <2>3. i - 1 \in DOMAIN Queue(s)' /\ (i - 1) + 1 = i
    BY <2>1, <2>2
  <2>4. Queue(s)'[i - 1] = Queue(s)[i]
    BY <2>1, <2>2, <2>3
  <2> QED
    BY <1>2, <1>4, <2>3, <2>4 DEF Waits
<1> QED
  BY <1>3, <1>4

LEMMA NextRequestKept ==
  ASSUME IInv, TypeOK', NoRequestLost, NEW w \in Workers, NextRequest(w),
         HandsFree(w)
  PROVE  NoRequestLost'
<1>a. TypeOK /\ Placed
  BY DEF IInv
<1>1. node[w] \in Names /\ File(w) \in ServerFile /\ File(w).requestList # <<>>
  BY <1>a, AtWork DEF NextRequest, Handling, At
<1>2. PICK n \in Names : n = node[w]
  BY <1>1
<1>3. file[n] \in ServerFile /\ Parking(file[n]) = file[n].requestList
  BY <1>1, <1>2, FileFacts DEF File, Parking
<1>4. /\ file' = [file EXCEPT ![n] = [file[n] EXCEPT !.requestList = Tail(@)]]
      /\ req' = [req EXCEPT ![w] = Head(file[n].requestList)]
      /\ UNCHANGED <<conn, dead>> /\ req[w] = NULL
  BY <1>2 DEF NextRequest, SetFile, File, clientVars, evictVars, HandsFree, Handling, At
<1>5. Parking([file[n] EXCEPT !.requestList = Tail(@)])
      = Tail(file[n].requestList)
  <2>1. [file[n] EXCEPT !.requestList = Tail(@)] \in ServerFile
    BY <1>1, <1>2, <1>3, QueueFacts DEF File
  <2>2. [file[n] EXCEPT !.requestList = Tail(@)] # NULL
    BY <2>1, NULLAssumption
  <2>3. [file[n] EXCEPT !.requestList = Tail(@)].requestList
        = Tail(file[n].requestList)
    BY <1>3 DEF ServerFile
  <2> QED
    BY <2>2, <2>3 DEF Parking
<1>6. PICK s \in Queues : s = <<"file", n>>
  BY FileQueue
<1>7. Queue(s) = file[n].requestList /\ Queue(s) # <<>> /\ Queue(s) \in Seq(Request)
  BY <1>a, <1>1, <1>2, <1>3, <1>6, FileQueue, QueuesTyped DEF File
<1>8. Queue(s)' = Tail(Queue(s))
  <2>1. file'[n] = [file[n] EXCEPT !.requestList = Tail(@)]
    BY <1>a, <1>4 DEF TypeOK
  <2> QED
    BY <1>5, <1>6, <1>7, <2>1, FileQueue
<1>9. \A q \in Queues : q # s => Queue(q)' = Queue(q)
  <2>1. \A m \in Names : m # n => file'[m] = file[m]
    BY <1>a, <1>4 DEF TypeOK
  <2> QED
    BY <1>4, <1>6, <2>1, QueueKinds, FileQueue, DeadQueue
<1>10. req'[w] = Head(Queue(s)) /\ req'[w] # NULL
  <2>1. Head(file[n].requestList) \in Request
    BY <1>1, <1>2, QueueFacts DEF File
  <2> QED
    BY <1>a, <1>4, <1>7, <2>1, NULLAssumption DEF TypeOK
<1>11. ASSUME NEW c \in Clients, Held(c) PROVE Held(c)'
  BY <1>a, <1>4, <1>11 DEF Held, Client, TypeOK
<1>12. ASSUME NEW c \in Clients, Waits(c) PROVE Held(c)' \/ Waits(c)'
  <2>1. CASE c = Head(Queue(s)).client
    BY <1>10, <2>1 DEF Held, Client
  <2>2. CASE c # Head(Queue(s)).client
    BY <1>7, <1>8, <1>9, <1>12, <2>2, TailWaits
  <2> QED
    BY <2>1, <2>2
<1> QED
  BY <1>4, <1>11, <1>12, StillKept

(* The queue of the file in node n goes to worker w, which has no other.   *)
LEMMA DetachKept ==
  ASSUME TypeOK, TypeOK', NoRequestLost, UNCHANGED <<req, conn>>,
         NEW w \in Workers, NEW n \in Names, dead[w] = NULL,
         dead' = [dead EXCEPT ![w] = file[n]],
         \A m \in Names : m # n => Parking(file'[m]) = Parking(file[m])
  PROVE  NoRequestLost'
<1>1. /\ Queue(<<"dead", w>>)' = Queue(<<"file", n>>) /\ <<"dead", w>> \in Queues
      /\ Queue(<<"dead", w>>) = <<>>
  <2>1. dead'[w] = file[n]
    BY DEF TypeOK
  <2> QED
    BY <2>1, FileQueue, DeadQueue DEF Parking
<1>2. ASSUME NEW q \in Queues, q # <<"file", n>>, q # <<"dead", w>>
      PROVE  Queue(q)' = Queue(q)
  <2>1. CASE \E m \in Names : q = <<"file", m>>
    BY <1>2, <2>1, FileQueue
  <2>2. CASE \E v \in Workers : q = <<"dead", v>>
    <3>1. PICK v \in Workers : q = <<"dead", v>>
      BY <2>2
    <3>2. dead'[v] = dead[v]
      BY <1>2, <3>1 DEF TypeOK
    <3> QED
      BY <3>1, <3>2, DeadQueue
  <2> QED
    BY <2>1, <2>2, QueueKinds
<1>3. ASSUME NEW c \in Clients, Waits(c) PROVE Waits(c)'
  <2>1. PICK q \in Queues : \E i \in DOMAIN Queue(q) : Queue(q)[i].client = c
    BY <1>3 DEF Waits
  <2>2. q # <<"dead", w>>
    BY <1>1, <2>1
  <2> QED
    BY <1>1, <1>2, <2>1, <2>2 DEF Waits
<1>4. \A c \in Clients : Held(c) => Held(c)'
  BY DEF Held, Client
<1> QED
  BY <1>3, <1>4, StillKept

LEMMA MovingKept ==
  ASSUME IInv, TypeOK', NoRequestLost, NEW w \in Workers, HandsFree(w),
         InsertNew(w) \/ TreeRemove(w) \/ Evict(w)
  PROVE  NoRequestLost'
<1> USE DEF treeVars, tableVars, clientVars, jobVars, evictVars, lockVars,
            At, Handling, SetFile
<1>a. TypeOK /\ Placed /\ FilesAccounted
  BY DEF IInv
<1>b. dead[w] = NULL /\ UNCHANGED <<req, conn>>
  BY DEF HandsFree, InsertNew, TreeRemove, Evict, Inserting, InTree
<1>1. CASE InsertNew(w)
  <2>1. PICK n \in Names : n = node[w]
    BY <1>a, <1>1, AtWork DEF InsertNew, Inserting, InTree
  <2>2. PICK new : /\ new = NewServerFile(Client(w), O_LOCK(req[w].op), node[w])
                   /\ Parking(new) = <<>>
    <3>1. NewServerFile(Client(w), O_LOCK(req[w].op), node[w]).requestList = <<>>
      BY DEF NewServerFile
    <3> QED
      BY <3>1 DEF Parking
  <2>3. CASE ~TreeIsFull
    <3>1. file[n] = NULL /\ file' = [file EXCEPT ![n] = new] /\ UNCHANGED dead
      BY <1>1, <2>1, <2>2, <2>3 DEF InsertNew, File
    <3>2. SameQueues
      BY <1>a, <2>2, <3>1, SetFileQueues DEF Parking
    <3> QED
      BY <1>b, <3>2, QuietKept DEF Quiet
  <2>4. CASE TreeIsFull
    <3>1. PICK r \in Names : r = ToRemove
      BY <1>a, <1>1, <2>4, ToRemoveFacts DEF InsertNew
    <3>2. /\ file[n] = NULL \/ n = r
          /\ file' = [file EXCEPT ![r] = NULL, ![n] = new]
          /\ dead' = [dead EXCEPT ![w] = file[r]]
      BY <1>1, <2>1, <2>2, <2>4, <3>1 DEF InsertNew, File
    <3>3. \A m \in Names : m # r => \/ file'[m] = file[m]
                                    \/ m = n /\ file'[m] = new /\ file[m] = NULL
      BY <1>a, <3>2 DEF TypeOK
    <3>4. \A m \in Names : m # r => Parking(file'[m]) = Parking(file[m])
      BY <2>2, <3>3 DEF Parking
    <3> QED
      BY <1>a, <1>b, <3>2, <3>4, DetachKept
  <2> QED
    BY <2>3, <2>4
<1>2. ASSUME NEW n \in Names, Detach(w, n) PROVE NoRequestLost'
  <2>1. /\ dead' = [dead EXCEPT ![w] = file[n]]
        /\ file' = [file EXCEPT ![n] = NULL]
    BY <1>2 DEF Detach
  <2>2. \A m \in Names : m # n => file'[m] = file[m]
    BY <1>a, <2>1 DEF TypeOK
  <2> QED
    BY <1>a, <1>b, <2>1, <2>2, DetachKept
<1>3. CASE TreeRemove(w)
  <2>1. node[w] \in Names
    BY <1>a, <1>3, AtWork DEF TreeRemove, InTree
  <2>2. CASE File(w) # NULL
    BY <1>2, <1>3, <2>1, <2>2 DEF TreeRemove
  <2>3. CASE File(w) = NULL
    <3>1. UNCHANGED <<file, dead>>
      BY <1>3, <2>3 DEF TreeRemove
    <3> QED
      BY <1>b, <3>1, QueuesAre, QuietKept DEF Quiet
  <2> QED
    BY <2>2, <2>3
<1>4. CASE Evict(w)
  <2>1. LeastRecent(victims[w]) \in Names
    BY <1>a, <1>4, VictimFacts DEF Evict
  <2> QED
    BY <1>2, <1>4, <2>1 DEF Evict
<1> QED
  BY <1>1, <1>3, <1>4

(* informClientDelete answers a request, or finds its client gone. *)
LEMMA InformKept ==
  ASSUME IInv, TypeOK', NoRequestLost, NEW w \in Workers,
         InformReply(w) \/ InformAppend(w)
  PROVE  NoRequestLost'
<1>a. TypeOK /\ Placed
  BY DEF IInv
<1>1. /\ pc[w] = "inform" /\ dead[w].requestList # <<>> /\ UNCHANGED req
      /\ dead' = [dead EXCEPT ![w].requestList = Tail(@)]
  BY DEF InformReply, InformAppend, Informing, At, jobVars
<1>2. dead[w] \in ServerFile /\ Parking(dead[w]) = dead[w].requestList
  BY <1>a, <1>1, AtWork, NULLAssumption DEF Parking
<1>3. PICK d \in Clients : d = Head(dead[w].requestList).client
  BY <1>1, <1>2, QueueFacts
<1>4. Parking(dead'[w]) = Tail(dead[w].requestList)
  <2>1. dead'[w] = [dead[w] EXCEPT !.requestList = Tail(@)]
    BY <1>a, <1>1 DEF TypeOK
  <2>2. dead'[w] \in ServerFile /\ dead'[w] # NULL
    BY <1>1, <1>2, <2>1, QueueFacts, NULLAssumption
  <2>3. dead'[w].requestList = Tail(dead[w].requestList)
    BY <1>2, <2>1 DEF ServerFile
  <2> QED
    BY <2>2, <2>3 DEF Parking
<1>5. \A v \in Workers : v # w => dead'[v] = dead[v]
  BY <1>a, <1>1 DEF TypeOK
<1>6. DisconnectClient(w, d) \/ SendClientResult(w, d)
  BY <1>3 DEF InformReply, InformAppend
<1>7. /\ \A n \in Names : Parking(file'[n]) = Parking(file[n])
      /\ \A c \in Clients : conn'[c] = conn[c] \/ c = d
      /\ conn'[d] # "served"
  BY <1>a, <1>6, DisconnectQueues, SendQueues, NotServed
<1>8. PICK s \in Queues : s = <<"dead", w>>
  BY DeadQueue
<1>9. /\ Queue(s) \in Seq(Request) /\ Queue(s) # <<>>
      /\ Queue(s)' = Tail(Queue(s)) /\ d = Head(Queue(s)).client
  BY <1>a, <1>1, <1>2, <1>3, <1>4, <1>8, DeadQueue, QueuesTyped
<1>10. \A q \in Queues : q # s => Queue(q)' = Queue(q)
  BY <1>5, <1>7, <1>8, QueueKinds, FileQueue, DeadQueue
<1>11. ASSUME NEW c \in Clients, conn'[c] = "served", Waits(c) PROVE Waits(c)'
  <2>1. c # d
    BY <1>7, <1>11
  <2> QED
    BY <1>9, <1>10, <1>11, <2>1, TailWaits
<1>12. \A c \in Clients : Held(c) => Held(c)'
  BY <1>1 DEF Held, Client
<1> QED
  BY <1>7, <1>11, <1>12, StillKept

LEMMA KeptStep ==
  ASSUME IInv, TypeOK', KeptInv, [Next]_vars, \A w \in Workers : ~InformWrite(w)
  PROVE  KeptInv'
<1>a. TypeOK /\ NoRequestLost /\ \A w \in Workers : HandsFree(w)
  BY DEF IInv, KeptInv
<1>1. CASE UNCHANGED vars
  <2>1. Quiet
    BY <1>1, QueuesAre DEF vars, evictVars, jobVars, clientVars, Quiet
  <2>2. \A w \in Workers : HandsFree(w)'
    BY <1>1, <1>a DEF vars, evictVars, jobVars, HandsFree
  <2> QED
    BY <1>a, <2>1, <2>2, QuietKept DEF KeptInv
<1>2. ASSUME NEW c \in Clients, Die(c) PROVE KeptInv'
  <2>1. Quiet
    BY <1>2, QueuesAre DEF Die, evictVars, jobVars, Quiet
  <2>2. \A w \in Workers : HandsFree(w)'
    BY <1>2, <1>a DEF Die, evictVars, jobVars, HandsFree
  <2> QED
    BY <1>a, <2>1, <2>2, QuietKept DEF KeptInv
<1>3. ASSUME NEW w \in Workers, NEW c \in Clients, NEW op \in OpKinds,
             NEW n \in Names, Take(w, c, op, n)
      PROVE  KeptInv'
  <2> DEFINE r == [client |-> c, op |-> op]
  <2>1. r \in Request /\ r.client = c /\ r # NULL
    BY NULLAssumption DEF Request
  <2>2. /\ pc[w] = "idle" /\ conn' = [conn EXCEPT ![c] = "served"]
        /\ req' = [req EXCEPT ![w] = r] /\ UNCHANGED <<file, dead>>
        /\ pc' = [pc EXCEPT ![w] = IF op = "READ_N" THEN "readn" ELSE "find"]
    BY <1>3 DEF Take, evictVars, At, Goto
  <2> HIDE DEF r
  <2>3. req[w] = NULL /\ dead[w] = NULL
    BY <1>a, <2>2 DEF HandsFree
  <2>4. SameQueues
    BY <2>2, QueuesAre
  <2>5. \A d \in Clients : Waits(d) => Waits(d)'
    BY <2>4, SameWaits
  <2>6. ASSUME NEW d \in Clients, Held(d) PROVE Held(d)'
    BY <1>a, <2>2, <2>3, <2>6 DEF Held, Client, TypeOK
  <2>7. Held(c)'
    BY <1>a, <2>1, <2>2 DEF Held, Client, TypeOK
  <2>8. \A d \in Clients : d # c => conn'[d] = conn[d]
    BY <1>a, <2>2 DEF TypeOK
  <2>9. \A d \in Clients : conn[d] = "served" => Held(d) \/ Waits(d)
    BY <1>a, LostIs
  <2>10. NoRequestLost'
    <3>1. \A d \in Clients : conn'[d] = "served" => Held(d)' \/ Waits(d)'
      BY <2>5, <2>6, <2>7, <2>8, <2>9
    <3> QED
      BY <3>1 DEF NoRequestLost, Held, Waits
  <2>11. \A v \in Workers : HandsFree(v)'
    BY <1>a, <2>2, <2>3 DEF HandsFree, TypeOK
  <2> QED
    BY <2>10, <2>11 DEF KeptInv
<1>4. ASSUME NEW w \in Workers, NEW c \in Clients, TakeEOF(w, c)
      PROVE  KeptInv'
  <2>1. /\ conn[c] = "listening" /\ DisconnectClient(w, c)
        /\ UNCHANGED <<req, dead, pc>>
    BY <1>4 DEF TakeEOF, jobVars, evictVars
  <2>2. /\ \A n \in Names : Parking(file'[n]) = Parking(file[n])
        /\ \A d \in Clients : conn'[d] = conn[d] \/ d = c
        /\ conn'[c] # "served"
    BY <1>a, <2>1, DisconnectQueues, NotServed
  <2>3. SameQueues
    BY <2>1, <2>2, QueuesAre
  <2>4. \A d \in Clients : Waits(d) => Waits(d)'
    BY <2>3, SameWaits
  <2>5. \A d \in Clients : Held(d) => Held(d)'
    BY <2>1 DEF Held, Client
  <2>6. NoRequestLost'
    BY <1>a, <2>2, <2>4, <2>5, StillKept
  <2>7. \A v \in Workers : HandsFree(v)'
    BY <1>a, <2>1 DEF HandsFree
  <2> QED
    BY <2>6, <2>7 DEF KeptInv
<1>5. ASSUME NEW w \in Workers, Step(w) PROVE KeptInv'
  <2>1. NoRequestLost'
    <3>1. CASE Quiet
      BY <1>a, <3>1, QuietKept
    <3> QED
      BY <1>5, <1>a, <3>1, QuietStep, MovingKept, ParkKept, NextRequestKept,
         EndingKept, InformKept
  <2>2. ASSUME NEW v \in Workers PROVE HandsFree(v)'
    <3>1. CASE v = w
      BY <1>5, <1>a, <3>1, HandsStep
    <3>2. CASE v # w
      <4>1. pc'[v] = pc[v] /\ req'[v] = req[v] /\ dead'[v] = dead[v]
        BY <1>5, <3>2, OthersKept
      <4> QED
        BY <1>a, <4>1 DEF HandsFree
    <3> QED
      BY <3>1, <3>2
  <2> QED
    BY <2>1, <2>2 DEF KeptInv
<1> QED
  BY <1>1, <1>2, <1>3, <1>4, <1>5 DEF Next

(* Every request comes from a client: the other steps bring up none.       *)
Asked(r) == \/ r # NULL /\ \E w \in Workers : req[w] = r
            \/ \E q \in Queues : \E i \in DOMAIN Queue(q) : Queue(q)[i] = r

LEMMA NoneAsked ==
  ASSUME TypeOK,
         \A w \in Workers : req'[w] # NULL => Asked(req'[w]),
         \A q \in Queues : \/ Queue(q)' = <<>>
                           \/ \E p \in Queues : Queue(q)' = Queue(p)
                           \/ Queue(q) # <<>> /\ Queue(q)' = Tail(Queue(q))
                           \/ \E r \in Request : /\ Queue(q)' = Append(Queue(q), r)
                                                 /\ Asked(r),
         TypeOK', NEW r, Asked(r)'
  PROVE  Asked(r)
<1>1. CASE r # NULL /\ \E w \in Workers : req'[w] = r
  BY <1>1
<1>2. ASSUME NEW q \in Queues, NEW i \in DOMAIN Queue(q)', Queue(q)'[i] = r
      PROVE  Asked(r)
  <2>1. Queue(q) \in Seq(Request)
    BY QueuesTyped
  <2>2. ASSUME NEW p \in Queues, Queue(q)' = Queue(p) PROVE Asked(r)
    BY <1>2, <2>2 DEF Asked
  <2>3. ASSUME Queue(q) # <<>>, Queue(q)' = Tail(Queue(q)) PROVE Asked(r)
    <3>1. PICK t \in Seq(Request) : t = Queue(q)
      BY <2>1
    <3>2. /\ Tail(t) \in Seq(Request) /\ Len(Tail(t)) = Len(t) - 1
          /\ \A x \in 1..Len(t) - 1 : Tail(t)[x] = t[x + 1]
      BY <2>3, <3>1, HeadTailProperties
    <3>3. DOMAIN t = 1..Len(t) /\ Len(t) \in Nat /\ DOMAIN Tail(t) = 1..Len(t) - 1
      BY <3>2, LenProperties
    <3>4. i + 1 \in DOMAIN t /\ t[i + 1] = r
      BY <1>2, <2>3, <3>1, <3>2, <3>3
    <3> QED
      BY <3>1, <3>4 DEF Asked
  <2>4. ASSUME NEW s \in Request, Queue(q)' = Append(Queue(q), s), Asked(s)
        PROVE  Asked(r)
    <3>1. \/ i \in DOMAIN Queue(q) /\ Queue(q)'[i] = Queue(q)[i]
          \/ Queue(q)'[i] = s
      BY <1>2, <2>1, <2>4, AppendPlaces
    <3> QED
      BY <1>2, <2>4, <3>1 DEF Asked
  <2> QED
    BY <1>2, <2>2, <2>3, <2>4
<1> QED
  BY <1>1, <1>2 DEF Asked

LEMMA AskedStep ==
  ASSUME IInv, TypeOK', NEW w \in Workers, Step(w), NEW r, Asked(r)'
  PROVE  Asked(r)
<1> USE DEF treeVars, tableVars, clientVars, jobVars, evictVars, lockVars,
            At, Handling, SetFile
<1>a. TypeOK /\ Placed /\ FilesAccounted
  BY DEF IInv
<1>k. ASSUME \A v \in Workers : req'[v] \in {NULL, req[v]},
             \A q \in Queues : \/ Queue(q)' \in {<<>>, Queue(q)}
                               \/ \E p \in Queues : Queue(q)' = Queue(p)
                               \/ Queue(q) # <<>> /\ Queue(q)' = Tail(Queue(q))
      PROVE  Asked(r)
  <2>1. \A v \in Workers : req'[v] # NULL => Asked(req'[v])
    BY <1>k DEF Asked
  <2> QED
    BY <1>a, <1>k, <2>1, NoneAsked
<1>1. CASE Quiet
  BY <1>1, <1>k DEF Quiet, SameQueues
<1>2. CASE AbsentFatal(w) \/ PayloadCut(w) \/ Reply(w)
  <2>1. Client(w) \in Clients
    <3>1. pc[w] \in {"absent", "discard", "payload", "reply"}
      BY <1>2 DEF AbsentFatal, PayloadCut, Reply
    <3> QED
      BY <1>a, <3>1, AtWork
  <2>2. /\ req' = [req EXCEPT ![w] = NULL] /\ UNCHANGED dead
        /\ DisconnectClient(w, Client(w)) \/ SendClientResult(w, Client(w))
    BY <1>2 DEF AbsentFatal, PayloadCut, Reply, NoRequest
  <2>3. SameQueues
    BY <1>a, <2>1, <2>2, DisconnectQueues, SendQueues, QueuesAre
  <2>4. \A v \in Workers : req'[v] \in {NULL, req[v]}
    BY <1>a, <2>2 DEF TypeOK
  <2> QED
    BY <1>k, <2>3, <2>4 DEF SameQueues
<1>3. CASE InformReply(w) \/ InformAppend(w) \/ InformWrite(w)
  <2>1. /\ pc[w] = "inform" /\ dead[w].requestList # <<>> /\ UNCHANGED req
        /\ dead' = [dead EXCEPT ![w].requestList = Tail(@)]
    BY <1>3 DEF InformReply, InformAppend, InformWrite, Informing
  <2>2. dead[w] \in ServerFile /\ Parking(dead[w]) = dead[w].requestList
    BY <1>a, <2>1, AtWork, NULLAssumption DEF Parking
  <2>3. Parking(dead'[w]) = Tail(dead[w].requestList)
    <3>1. dead'[w] = [dead[w] EXCEPT !.requestList = Tail(@)]
      BY <1>a, <2>1 DEF TypeOK
    <3>2. dead'[w] # NULL
      BY <2>1, <2>2, <3>1, QueueFacts, NULLAssumption
    <3>3. dead'[w].requestList = Tail(dead[w].requestList)
      BY <2>2, <3>1 DEF ServerFile
    <3> QED
      BY <3>2, <3>3 DEF Parking
  <2>4. \A n \in Names : Parking(file'[n]) = Parking(file[n])
    <3>1. PICK d \in Clients : d = Head(dead[w].requestList).client
      BY <2>1, <2>2, QueueFacts
    <3>2. \/ DisconnectClient(w, d) \/ SendClientResult(w, d)
          \/ UNCHANGED file
      BY <1>3, <3>1 DEF InformReply, InformAppend, InformWrite
    <3> QED
      BY <1>a, <3>2, DisconnectQueues, SendQueues
  <2>5. \A v \in Workers : v # w => dead'[v] = dead[v]
    BY <1>a, <2>1 DEF TypeOK
  <2>6. ASSUME NEW q \in Queues
        PROVE  \/ Queue(q)' = Queue(q)
               \/ Queue(q) # <<>> /\ Queue(q)' = Tail(Queue(q))
    <3>1. CASE \E n \in Names : q = <<"file", n>>
      BY <2>4, <3>1, FileQueue
    <3>2. CASE \E v \in Workers : q = <<"dead", v>>
      <4>1. PICK v \in Workers : q = <<"dead", v>>
        BY <3>2
      <4>2. CASE v = w
        BY <2>1, <2>2, <2>3, <4>1, <4>2, DeadQueue
      <4>3. CASE v # w
        BY <2>5, <4>1, <4>3, DeadQueue
      <4> QED
        BY <4>2, <4>3
    <3> QED
      BY <3>1, <3>2, QueueKinds
  <2> QED
    BY <1>k, <2>1, <2>6
<1>d. ASSUME NEW n \in Names, dead' = [dead EXCEPT ![w] = file[n]], UNCHANGED req,
             \A m \in Names : Parking(file'[m]) \in {<<>>, Parking(file[m])}
      PROVE  Asked(r)
  <2>1. ASSUME NEW q \in Queues
        PROVE  \/ Queue(q)' \in {<<>>, Queue(q)}
               \/ \E p \in Queues : Queue(q)' = Queue(p)
    <3>1. CASE \E m \in Names : q = <<"file", m>>
      BY <1>d, <3>1, FileQueue
    <3>2. CASE \E v \in Workers : q = <<"dead", v>>
      <4>1. PICK v \in Workers : q = <<"dead", v>>
        BY <3>2
      <4>2. dead'[v] = dead[v] \/ dead'[v] = file[n]
        BY <1>a, <1>d DEF TypeOK
      <4> QED
        BY <4>1, <4>2, DeadQueue, FileQueue
    <3> QED
      BY <3>1, <3>2, QueueKinds
  <2> QED
    BY <1>d, <1>k, <2>1
<1>4. CASE InsertNew(w)
  <2>1. PICK n \in Names : n = node[w]
    BY <1>a, <1>4, AtWork DEF InsertNew, Inserting, InTree
  <2>2. PICK new : /\ new = NewServerFile(Client(w), O_LOCK(req[w].op), node[w])
                   /\ Parking(new) = <<>>
    <3>1. NewServerFile(Client(w), O_LOCK(req[w].op), node[w]).requestList = <<>>
      BY DEF NewServerFile
    <3> QED
      BY <3>1 DEF Parking
  <2>3. UNCHANGED req
    BY <1>4 DEF InsertNew
  <2>4. CASE ~TreeIsFull
    <3>1. file[n] = NULL /\ file' = [file EXCEPT ![n] = new] /\ UNCHANGED dead
      BY <1>4, <2>1, <2>2, <2>4 DEF InsertNew, File
    <3>2. SameQueues
      BY <1>a, <2>2, <3>1, SetFileQueues DEF Parking
    <3> QED
      BY <1>k, <2>3, <3>2 DEF SameQueues
  <2>5. CASE TreeIsFull
    <3>1. PICK m \in Names : m = ToRemove
      BY <1>a, <1>4, <2>5, ToRemoveFacts DEF InsertNew
    <3>2. /\ file' = [file EXCEPT ![m] = NULL, ![n] = new]
          /\ dead' = [dead EXCEPT ![w] = file[m]]
      BY <1>4, <2>1, <2>2, <2>5, <3>1 DEF InsertNew, File
    <3>3. \A x \in Names : file'[x] \in {NULL, new, file[x]}
      BY <1>a, <3>2 DEF TypeOK
    <3>4. \A x \in Names : Parking(file'[x]) \in {<<>>, Parking(file[x])}
      BY <2>2, <3>3 DEF Parking
    <3> QED
      BY <1>d, <2>3, <3>2, <3>4
  <2> QED
    BY <2>4, <2>5
<1>e. ASSUME NEW n \in Names, Detach(w, n), UNCHANGED req PROVE Asked(r)
  <2>1. /\ dead' = [dead EXCEPT ![w] = file[n]]
        /\ file' = [file EXCEPT ![n] = NULL]
    BY <1>e DEF Detach
  <2>2. \A m \in Names : file'[m] \in {NULL, file[m]}
    BY <1>a, <2>1 DEF TypeOK
  <2>3. \A m \in Names : Parking(file'[m]) \in {<<>>, Parking(file[m])}
    BY <2>2 DEF Parking
  <2> QED
    BY <1>d, <1>e, <2>1, <2>3
<1>5. CASE TreeRemove(w)
  <2>1. node[w] \in Names
    BY <1>a, <1>5, AtWork DEF TreeRemove, InTree
  <2>2. CASE File(w) # NULL
    BY <1>e, <1>5, <2>1, <2>2 DEF TreeRemove
  <2>3. CASE File(w) = NULL
    <3>1. UNCHANGED <<file, dead, req>>
      BY <1>5, <2>3 DEF TreeRemove
    <3>2. SameQueues
      BY <3>1, QueuesAre
    <3> QED
      BY <1>k, <3>1, <3>2 DEF SameQueues
  <2> QED
    BY <2>2, <2>3
<1>6. CASE Evict(w)
  <2>1. LeastRecent(victims[w]) \in Names
    BY <1>a, <1>6, VictimFacts DEF Evict
  <2> QED
    BY <1>e, <1>6, <2>1 DEF Evict
<1>f. ASSUME NEW n \in Names, NEW f, SetFile(n, f), UNCHANGED dead,
             \A v \in Workers : req'[v] # NULL => Asked(req'[v]),
             \/ Parking(file[n]) # <<>> /\ Parking(f) = Tail(Parking(file[n]))
             \/ \E s \in Request : /\ Parking(f) = Append(Parking(file[n]), s)
                                   /\ Asked(s)
      PROVE  Asked(r)
  <2>1. file'[n] = f /\ \A m \in Names : m # n => file'[m] = file[m]
    BY <1>a, <1>f DEF TypeOK
  <2>2. ASSUME NEW q \in Queues
        PROVE  \/ \E p \in Queues : Queue(q)' = Queue(p)
               \/ Queue(q) # <<>> /\ Queue(q)' = Tail(Queue(q))
               \/ \E s \in Request : /\ Queue(q)' = Append(Queue(q), s)
                                     /\ Asked(s)
    <3>1. CASE \E m \in Names : q = <<"file", m>>
      <4>1. PICK m \in Names : q = <<"file", m>>
        BY <3>1
      <4>2. Queue(q) = Parking(file[m]) /\ Queue(q)' = Parking(file'[m])
        BY <4>1, FileQueue
      <4>3. CASE m = n
        BY <1>f, <2>1, <4>2, <4>3
      <4>4. CASE m # n
        BY <2>1, <4>2, <4>4
      <4> QED
        BY <4>3, <4>4
    <3>2. CASE \E v \in Workers : q = <<"dead", v>>
      BY <1>f, <3>2, DeadQueue
    <3> QED
      BY <3>1, <3>2, QueueKinds
  <2> QED
    BY <1>a, <1>f, <2>2, NoneAsked
<1>7. CASE Park(w)
  <2>1. node[w] \in Names /\ File(w) \in ServerFile /\ req[w] \in Request
    BY <1>a, <1>7, AtWork DEF Park
  <2>2. /\ file[node[w]] # NULL /\ Parked(File(w), req[w]) # NULL
        /\ File(w).requestList \in Seq(Request)
    BY <2>1, FileFacts DEF File, ServerFile
  <2>3. Parked(File(w), req[w]).requestList = Append(File(w).requestList, req[w])
    BY <2>1 DEF Parked, ServerFile
  <2>4. /\ Parking(Parked(File(w), req[w])) = Append(Parking(file[node[w]]), req[w])
        /\ Asked(req[w])
    BY <2>1, <2>2, <2>3, NULLAssumption DEF Parking, File, Asked
  <2>5. \A v \in Workers : req'[v] # NULL => Asked(req'[v])
    BY <1>a, <1>7 DEF Park, NoRequest, Asked, TypeOK
  <2> QED
    BY <1>7, <1>f, <2>1, <2>4, <2>5 DEF Park
<1>8. CASE NextRequest(w)
  <2>1. /\ node[w] \in Names /\ File(w) \in ServerFile /\ File(w).requestList # <<>>
        /\ File(w).requestList \in Seq(Request)
    BY <1>a, <1>8, AtWork DEF NextRequest, ServerFile
  <2> DEFINE f == [File(w) EXCEPT !.requestList = Tail(@)]
  <2>2. /\ f \in ServerFile /\ f # NULL /\ File(w) # NULL
        /\ f.requestList = Tail(File(w).requestList)
    BY <2>1, QueueFacts, FileFacts DEF ServerFile
  <2>3. SetFile(node[w], f) /\ UNCHANGED dead
        /\ req' = [req EXCEPT ![w] = Head(File(w).requestList)]
    BY <1>8 DEF NextRequest
  <2> HIDE DEF f
  <2>4. /\ Parking(file[node[w]]) = File(w).requestList
        /\ Parking(f) = Tail(Parking(file[node[w]]))
    BY <2>2 DEF Parking, File
  <2>5. Asked(Head(File(w).requestList))
    <3>1. <<"file", node[w]>> \in Queues /\ Queue(<<"file", node[w]>>) = File(w).requestList
      BY <2>1, <2>4, FileQueue
    <3>2. /\ 1 \in DOMAIN File(w).requestList
          /\ Head(File(w).requestList) = File(w).requestList[1]
      <4>1. PICK t \in Seq(Request) : t = File(w).requestList
        BY <2>1
      <4>2. DOMAIN t = 1..Len(t) /\ Len(t) \in Nat \ {0} /\ Head(t) = t[1]
        BY <2>1, <4>1, LenProperties, EmptySeq, HeadTailProperties
      <4> QED
        BY <4>1, <4>2
    <3> QED
      BY <3>1, <3>2 DEF Asked
  <2>6. \A v \in Workers : req'[v] # NULL => Asked(req'[v])
    <3>1. ASSUME NEW v \in Workers PROVE req'[v] \in {req[v], Head(File(w).requestList)}
      BY <1>a, <2>3 DEF TypeOK
    <3>2. \A v \in Workers : req[v] # NULL => Asked(req[v])
      BY DEF Asked
    <3> QED
      BY <2>5, <3>1, <3>2
  <2> QED
    BY <1>f, <2>1, <2>3, <2>4, <2>6
<1> QED
  BY <1>1, <1>2, <1>3, <1>4, <1>5, <1>6, <1>7, <1>8, QuietStep

(* Every request is one its client may ask for. *)
AskedFor == \A r : Asked(r) => r.op \in Workload[r.client]

LEMMA AskedForStep ==
  ASSUME IInv, TypeOK', AskedFor, [Next]_vars
  PROVE  AskedFor'
<1>a. TypeOK
  BY DEF IInv
<1>1. ASSUME \A r : Asked(r)' => Asked(r) PROVE AskedFor'
  BY <1>1 DEF AskedFor
<1>q. ASSUME SameQueues, UNCHANGED req PROVE AskedFor'
  BY <1>1, <1>q DEF Asked, SameQueues
<1>2. CASE UNCHANGED vars
  BY <1>2, <1>q, QueuesAre DEF vars, evictVars, jobVars
<1>3. ASSUME NEW c \in Clients, Die(c) PROVE AskedFor'
  BY <1>3, <1>q, QueuesAre DEF Die, evictVars, jobVars
<1>4. ASSUME NEW w \in Workers, NEW c \in Clients, NEW op \in OpKinds,
             NEW n \in Names, Take(w, c, op, n)
      PROVE  AskedFor'
  <2> DEFINE r == [client |-> c, op |-> op]
  <2>1. r.op = op /\ r.client = c /\ op \in Workload[c]
    BY <1>4 DEF Take
  <2>2. req' = [req EXCEPT ![w] = r] /\ UNCHANGED <<file, dead>>
    BY <1>4 DEF Take, evictVars
  <2> HIDE DEF r
  <2>3. SameQueues
    BY <2>2, QueuesAre
  <2>4. \A v \in Workers : req'[v] \in {req[v], r}
    BY <1>a, <2>2 DEF TypeOK
  <2>5. ASSUME NEW s, Asked(s)' PROVE Asked(s) \/ s = r
    BY <2>3, <2>4, <2>5 DEF Asked, SameQueues
  <2> QED
    BY <2>1, <2>5 DEF AskedFor
<1>5. ASSUME NEW w \in Workers, NEW c \in Clients, TakeEOF(w, c)
      PROVE  AskedFor'
  <2>1. DisconnectClient(w, c) /\ UNCHANGED <<req, dead>>
    BY <1>5 DEF TakeEOF, jobVars, evictVars
  <2>2. SameQueues
    BY <1>a, <2>1, DisconnectQueues, QueuesAre
  <2> QED
    BY <1>q, <2>1, <2>2
<1>6. ASSUME NEW w \in Workers, Step(w) PROVE AskedFor'
  BY <1>1, <1>6, AskedStep
<1> QED
  BY <1>2, <1>3, <1>4, <1>5, <1>6 DEF Next

(* informClientDelete meets a WRITE only where a client asked for one. *)
LEMMA NoInformWrite ==
  ASSUME IInv, AskedFor, \A c \in Clients : "WRITE" \notin Workload[c],
         NEW w \in Workers
  PROVE  ~InformWrite(w)
<1> SUFFICES ASSUME InformWrite(w) PROVE FALSE
  OBVIOUS
<1>1. /\ pc[w] = "inform" /\ dead[w].requestList # <<>>
      /\ Head(dead[w].requestList).op = "WRITE"
  BY DEF InformWrite, Informing, At
<1>2. dead[w] \in ServerFile /\ dead[w] # NULL
  BY <1>1, AtWork, NULLAssumption DEF IInv
<1>3. /\ 1 \in DOMAIN dead[w].requestList
      /\ Head(dead[w].requestList) = dead[w].requestList[1]
  <2>1. PICK t \in Seq(Request) : t = dead[w].requestList
    BY <1>2 DEF ServerFile
  <2>2. DOMAIN t = 1..Len(t) /\ Len(t) \in Nat \ {0} /\ Head(t) = t[1]
    BY <1>1, <2>1, LenProperties, EmptySeq, HeadTailProperties
  <2> QED
    BY <2>1, <2>2
<1>4. Asked(Head(dead[w].requestList))
  BY <1>2, <1>3, DeadQueue DEF Asked, Parking
<1> QED
  BY <1>1, <1>2, <1>4, QueueFacts DEF AskedFor

LEMMA InitKept == Init => KeptInv /\ AskedFor
<1> SUFFICES ASSUME Init PROVE KeptInv /\ AskedFor
  OBVIOUS
<1>1. \A q \in Queues : Queue(q) = <<>>
  BY DEF Init, Queues, Queue
<1>2. \A w \in Workers : req[w] = NULL /\ dead[w] = NULL
  BY DEF Init
<1>3. \A c \in Clients : conn[c] # "served"
  BY DEF Init
<1>4. KeptInv
  BY <1>2, <1>3 DEF KeptInv, NoRequestLost, HandsFree
<1>5. AskedFor
  BY <1>1, <1>2 DEF AskedFor, Asked
<1> QED
  BY <1>4, <1>5

(* A request is lost in one place only, where informClientDelete comes to  *)
(* a parked WRITE: in an execution where it does not, whatever the workers *)
(* interleave, evict or remove and whoever vanishes, a client that waits   *)
(* has its request with a worker or in a queue.                            *)
THEOREM OnlyInformWriteLoses ==
  Spec /\ [][\A w \in Workers : ~InformWrite(w)]_vars => []NoRequestLost
<1> DEFINE N == \A w \in Workers : ~InformWrite(w)
<1>1. (IInv /\ IInv' /\ KeptInv) /\ [Next]_vars /\ [N]_vars => KeptInv'
  <2> SUFFICES ASSUME IInv, IInv', KeptInv, [Next]_vars, [N]_vars PROVE KeptInv'
    OBVIOUS
  <2>1. TypeOK'
    BY DEF IInv
  <2>2. CASE UNCHANGED vars
    <3>1. \A w \in Workers : HandsFree(w)'
      BY <2>2 DEF KeptInv, vars, evictVars, jobVars, HandsFree
    <3>2. Quiet
      BY <2>2, QueuesAre DEF vars, evictVars, jobVars, clientVars, Quiet
    <3> QED
      BY <3>1, <3>2, QuietKept DEF KeptInv
  <2>3. CASE N
    BY <2>1, <2>3, KeptStep
  <2> QED
    BY <2>2, <2>3
<1>2. Init => KeptInv
  BY InitKept
<1>3. KeptInv => NoRequestLost
  BY DEF KeptInv
<1> QED
  BY <1>1, <1>2, <1>3, Invariance, PTL DEF Spec

(* So where no client writes, no request is ever lost: not when its file   *)
(* is evicted, removed or replaced while it is parked, nor when another    *)
(* client vanishes (tryUse, manageRequest, informClientDelete,             *)
(* disconnectClient).                                                      *)
THEOREM RequestsKept ==
  ASSUME \A c \in Clients : "WRITE" \notin Workload[c]
  PROVE  Spec => []NoRequestLost
<1>1. IInv /\ IInv' /\ AskedFor /\ [Next]_vars => AskedFor'
  BY AskedForStep DEF IInv
<1>2. IInv /\ AskedFor => \A w \in Workers : ~InformWrite(w)
  BY NoInformWrite
<1>3. Init => AskedFor
  BY InitKept
<1> QED
  BY <1>1, <1>2, <1>3, Invariance, OnlyInformWriteLoses, PTL DEF Spec

=============================================================================
