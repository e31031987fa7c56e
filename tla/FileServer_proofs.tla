-------------------------- MODULE FileServer_proofs --------------------------
(***************************************************************************)
(* Theorems about FileServer, for every value of its constants:            *)
(*   TypeCorrect     the variables keep their types                        *)
(*   FilesAreCounted the LRU list holds every stored file once, and        *)
(*                   fileCount is their number                             *)
(*   BytesAreCounted filedim is what they add up to, and the capacity is   *)
(*                   not exceeded                                          *)
(* The inductive invariant IInv adds to the first two what a worker is     *)
(* known to hold at each of its steps (Placed); BytesInv adds to the last  *)
(* what a worker that evicts still has to remove (RoomComing).             *)
(***************************************************************************)
EXTENDS FileServer, SequenceTheorems, FiniteSetTheorems, WellFoundedInduction,
        TLAPS

(* What a worker has at hand, by where it stands. *)
HasNode(w) ==
  (pc[w] \notin {"idle", "readn", "reply"} \/ (pc[w] = "reply" /\ after[w] # "idle"))
    => node[w] \in Names
HasRequest(w) == pc[w] \notin {"idle", "next", "touch", "finish"} => req[w] # NULL
HasDead(w) == pc[w] \in {"filedel", "inform"} => dead[w] # NULL
HasOp(w) ==
  /\ pc[w] = "insert" => req[w].op \in OpenOps
  /\ pc[w] = "remove" => req[w].op = "REMOVE"
  /\ pc[w] \in {"payload", "room", "unmark", "evict"}
       => req[w].op \in {"WRITE", "APPEND"}

(* appendToFileW keeps the tree's mutex as long as it evicts. *)
EvictsFiles(w) ==
  \/ pc[w] \in {"unmark", "evict"}
  \/ pc[w] \in {"filedel", "inform"} /\ req[w].op \in {"WRITE", "APPEND"}
HasTree(w)  == EvictsFiles(w) => treeLock = w
HasVictims(w) == /\ victims[w] # {} => EvictsFiles(w)
                 /\ \A n \in victims[w] : file[n] # NULL

WellPlaced(w) == /\ HasNode(w) /\ HasRequest(w) /\ HasDead(w) /\ HasOp(w)
                 /\ HasTree(w) /\ HasVictims(w)
Placed == \A w \in Workers : WellPlaced(w)

IInv == TypeOK /\ Placed /\ FilesAccounted

-----------------------------------------------------------------------------
(* The sequence operators of the LRU list *)

(* A non-empty set of natural numbers has a least element, the one Min     *)
(* returns: what RemoveFirst and LeastRecent look for.                     *)
LEMMA MinInSet ==
  ASSUME NEW S \in SUBSET Nat, S # {}
  PROVE  Min(S) \in S /\ \A y \in S : Min(S) <= y
<1> DEFINE Less == {ss \in Nat \X Nat : ss[1] < ss[2]}
<1>1. IsWellFoundedOn(Less, Nat)
  BY NatLessThanWellFounded DEF OpToRel
<1>2. PICK x \in S : \A y \in S : ~(<<y, x>> \in Less)
  BY <1>1, WFMin
<1>3. ASSUME NEW y \in S PROVE x <= y
  <2>1. x \in Nat /\ y \in Nat
    OBVIOUS
  <2>2. y < x => <<y, x>> \in Less
    BY <2>1
  <2> QED
    BY <1>2, <2>1, <2>2
<1> QED
  BY <1>3 DEF Min

Distinct(seq) == \A i, j \in 1..Len(seq) : seq[i] = seq[j] => i = j

(* removeFromLRU takes one node out of a list that holds it once, and      *)
(* leaves the others in.                                                   *)
LEMMA RemoveFromLRUFacts ==
  ASSUME NEW S, NEW seq \in Seq(S), NEW n \in ToSet(seq), Distinct(seq)
  PROVE  LET r == RemoveFromLRU(seq, n)
         IN /\ r \in Seq(S) /\ Len(r) = Len(seq) - 1
            /\ ToSet(r) = ToSet(seq) \ {n} /\ Distinct(r)
<1> DEFINE I == {i \in 1..Len(seq) : seq[i] = n}
           k == Min(I)
           r == RemoveFromLRU(seq, n)
<1>1. k \in 1..Len(seq) /\ seq[k] = n
  <2>1. I # {} /\ I \in SUBSET Nat
    BY DEF ToSet
  <2> QED
    BY <2>1, MinInSet
<1>2. r = SubSeq(seq, 1, k - 1) \o SubSeq(seq, k + 1, Len(seq))
  <2>1. \E i \in 1..Len(seq) : seq[i] = n
    BY <1>1
  <2>2. SelectInSeq(seq, LAMBDA v : v = n) = k
    BY <1>1 DEF SelectInSeq
  <2> QED
    BY <2>1, <2>2 DEF RemoveFromLRU, RemoveFirst, RemoveAt
<1> HIDE DEF k, I
<1>3. /\ r \in Seq(S) /\ Len(r) = Len(seq) - 1
      /\ \A i \in 1..Len(r) : r[i] = IF i < k THEN seq[i] ELSE seq[i + 1]
  <2> DEFINE a == SubSeq(seq, 1, k - 1)
             b == SubSeq(seq, k + 1, Len(seq))
  <2>1. /\ a \in Seq(S) /\ Len(a) = k - 1
        /\ \A i \in 1..k - 1 : a[i] = seq[i]
    BY <1>1
  <2>2. /\ b \in Seq(S) /\ Len(b) = Len(seq) - k
        /\ \A i \in 1..Len(seq) - k : b[i] = seq[k + i]
    BY <1>1
  <2> HIDE DEF a, b
  <2>3. r = a \o b
    BY <1>2 DEF a, b
  <2> HIDE DEF r
  <2>4. r \in Seq(S) /\ Len(r) = Len(seq) - 1
    BY <1>1, <2>1, <2>2, <2>3
  <2>5. ASSUME NEW i \in 1..Len(r)
        PROVE  r[i] = IF i < k THEN seq[i] ELSE seq[i + 1]
    <3>1. r[i] = IF i <= k - 1 THEN a[i] ELSE b[i - (k - 1)]
      BY <1>1, <2>1, <2>2, <2>3, <2>4
    <3>2. CASE i < k
      BY <1>1, <2>1, <3>1, <3>2
    <3>3. CASE i >= k
      <4>1. i - (k - 1) \in 1..Len(seq) - k /\ k + (i - (k - 1)) = i + 1
        BY <1>1, <2>4, <3>3
      <4> QED
        BY <1>1, <2>2, <3>1, <3>3, <4>1
    <3> QED
      BY <1>1, <3>2, <3>3
  <2> QED
    BY <2>4, <2>5
<1> HIDE DEF r
<1>4. ToSet(r) = ToSet(seq) \ {n}
  <2>1. ASSUME NEW x \in ToSet(r) PROVE x \in ToSet(seq) \ {n}
    <3>1. PICK i \in 1..Len(r) : r[i] = x
      BY <1>3 DEF ToSet
    <3>2. PICK j \in 1..Len(seq) : j # k /\ seq[j] = x
      BY <1>1, <1>3, <3>1
    <3> QED
      BY <1>1, <3>2 DEF ToSet, Distinct
  <2>2. ASSUME NEW x \in ToSet(seq) \ {n} PROVE x \in ToSet(r)
    <3>1. PICK i \in 1..Len(seq) : seq[i] = x
      BY DEF ToSet
    <3>2. CASE i < k
      BY <1>1, <1>3, <3>1, <3>2 DEF ToSet
    <3>3. CASE i > k
      <4>1. i - 1 \in 1..Len(r) /\ r[i - 1] = x
        BY <1>1, <1>3, <3>1, <3>3
      <4> QED
        BY <1>3, <4>1 DEF ToSet
    <3> QED
      BY <1>1, <3>1, <3>2, <3>3
  <2> QED
    BY <2>1, <2>2
<1>5. Distinct(r)
  BY <1>1, <1>3 DEF Distinct
<1> QED
  BY <1>3, <1>4, <1>5 DEF r

(* insertToFrontLRU adds one node to a list that does not hold it. *)
LEMMA InsertToFrontLRUFacts ==
  ASSUME NEW S, NEW seq \in Seq(S), NEW n \in S, n \notin ToSet(seq), Distinct(seq)
  PROVE  LET r == InsertToFrontLRU(seq, n)
         IN /\ r \in Seq(S) /\ Len(r) = Len(seq) + 1
            /\ ToSet(r) = ToSet(seq) \cup {n} /\ Distinct(r)
<1> DEFINE r == InsertToFrontLRU(seq, n)
<1>1. /\ r \in Seq(S) /\ Len(r) = Len(seq) + 1
      /\ \A i \in 1..Len(seq) : r[i] = seq[i]
      /\ r[Len(seq) + 1] = n
  BY DEF InsertToFrontLRU
<1>2. ToSet(r) = ToSet(seq) \cup {n}
  <2>1. ToSet(r) \subseteq ToSet(seq) \cup {n}
    BY <1>1 DEF ToSet
  <2>2. n \in ToSet(r) /\ ToSet(seq) \subseteq ToSet(r)
    BY <1>1 DEF ToSet
  <2> QED
    BY <2>1, <2>2
<1>3. Distinct(r)
  BY <1>1 DEF Distinct, ToSet
<1> QED
  BY <1>1, <1>2, <1>3

(* moveToFrontLRU only reorders. *)
LEMMA MoveToFrontLRUFacts ==
  ASSUME NEW S, NEW seq \in Seq(S), NEW n \in ToSet(seq), Distinct(seq)
  PROVE  LET r == MoveToFrontLRU(seq, n)
         IN /\ r \in Seq(S) /\ Len(r) = Len(seq)
            /\ ToSet(r) = ToSet(seq) /\ Distinct(r)
<1>1. n \in S
  BY DEF ToSet
<1>2. MoveToFrontLRU(seq, n) = InsertToFrontLRU(RemoveFromLRU(seq, n), n)
  BY DEF MoveToFrontLRU, InsertToFrontLRU, RemoveFromLRU
<1> DEFINE m == RemoveFromLRU(seq, n)
<1>3. /\ m \in Seq(S) /\ Len(m) = Len(seq) - 1
      /\ ToSet(m) = ToSet(seq) \ {n} /\ Distinct(m)
  BY RemoveFromLRUFacts
<1> HIDE DEF m
<1>4. LET r == InsertToFrontLRU(m, n)
      IN /\ r \in Seq(S) /\ Len(r) = Len(m) + 1
         /\ ToSet(r) = ToSet(m) \cup {n} /\ Distinct(r)
  BY <1>1, <1>3, InsertToFrontLRUFacts
<1> QED
  BY <1>2, <1>3, <1>4 DEF m

-----------------------------------------------------------------------------
(* The operators on files and on the tree *)

(* What the operations do to a file leaves it a file. *)
LEMMA FileFacts ==
  ASSUME NEW f \in ServerFile
  PROVE  /\ f # NULL
         /\ Released(f) \in ServerFile /\ Written(f) \in ServerFile
         /\ Unlocked(f) \in ServerFile
         /\ [f EXCEPT !.flagUse = TRUE] \in ServerFile
         /\ [f EXCEPT !.openList = {}] \in ServerFile
         /\ [f EXCEPT !.dim = @ + AppendDim] \in ServerFile
         /\ \A c \in Clients :
              /\ Locked(f, c) \in ServerFile
              /\ \A b \in BOOLEAN : Forgotten(f, c, b) \in ServerFile
              /\ [f EXCEPT !.openList = @ \cup {c}] \in ServerFile
              /\ [f EXCEPT !.openList = @ \ {c}] \in ServerFile
         /\ \A r \in Request : Parked(f, r) \in ServerFile
<1>1. f # NULL
  BY NULLAssumption
<1>2. /\ Released(f) \in ServerFile /\ Written(f) \in ServerFile
      /\ Unlocked(f) \in ServerFile
      /\ [f EXCEPT !.flagUse = TRUE] \in ServerFile
      /\ [f EXCEPT !.openList = {}] \in ServerFile
  BY DEF ServerFile, Released, Written, Unlocked
<1>3. [f EXCEPT !.dim = @ + AppendDim] \in ServerFile
  BY CapacityAssumption DEF ServerFile
<1>4. ASSUME NEW c \in Clients
      PROVE  /\ Locked(f, c) \in ServerFile
             /\ \A b \in BOOLEAN : Forgotten(f, c, b) \in ServerFile
             /\ [f EXCEPT !.openList = @ \cup {c}] \in ServerFile
             /\ [f EXCEPT !.openList = @ \ {c}] \in ServerFile
  BY DEF ServerFile, Locked, Forgotten
<1>5. ASSUME NEW r \in Request PROVE Parked(f, r) \in ServerFile
  <2>1. Append(f.requestList, r) \in Seq(Request)
    BY DEF ServerFile
  <2> QED
    BY <2>1 DEF ServerFile, Parked
<1> QED
  BY <1>1, <1>2, <1>3, <1>4, <1>5

(* The first parked request can be taken, the others stay parked. *)
LEMMA QueueFacts ==
  ASSUME NEW f \in ServerFile, f.requestList # <<>>
  PROVE  /\ Head(f.requestList) \in Request
         /\ Head(f.requestList).client \in Clients
         /\ [f EXCEPT !.requestList = Tail(@)] \in ServerFile
<1>1. f.requestList \in Seq(Request)
  BY DEF ServerFile
<1>2. Head(f.requestList) \in Request /\ Tail(f.requestList) \in Seq(Request)
  BY <1>1
<1> QED
  BY <1>2 DEF ServerFile, Request

LEMMA NewServerFileFacts ==
  ASSUME NEW c \in Clients, NEW lock \in BOOLEAN, NEW n \in Names
  PROVE  NewServerFile(c, lock, n) \in ServerFile
BY DEF NewServerFile, ServerFile

(* The scan of makeSpace stops within the LRU list: its victims are in it. *)
LEMMA MakeSpaceFacts ==
  ASSUME lru \in Seq(Names), NEW nFile, NEW dim
  PROVE  MakeSpace(nFile, dim) \subseteq ToSet(lru)
<1> DEFINE Stop(k) == k = Len(lru) \/ Enough(Unused(k), nFile, dim)
           S == {k \in 0..Len(lru) : Stop(k)}
           m == Min(S)
<1>1. m \in S /\ \A j \in S : m <= j
  <2>1. S # {} /\ S \in SUBSET Nat
    OBVIOUS
  <2> QED
    BY <2>1, MinInSet
<1> HIDE DEF m
<1>2. \A j \in 0..m-1 : ~Enough(Unused(j), nFile, dim)
  BY <1>1
<1>3. ScanLength(nFile, dim) \in 0..Len(lru)
  BY <1>1, <1>2 DEF ScanLength
<1> QED
  BY <1>3 DEF MakeSpace, Unused, ToSet

(* The least recently used file of a set is one of the set. *)
LEMMA LeastRecentFacts ==
  ASSUME lru \in Seq(Names), NEW S, S \subseteq ToSet(lru), S # {}
  PROVE  LeastRecent(S) \in S
<1> DEFINE I == {i \in 1..Len(lru) : lru[i] \in S}
<1>1. I # {} /\ I \in SUBSET Nat
  BY DEF ToSet
<1>2. Min(I) \in I
  BY <1>1, MinInSet
<1> QED
  BY <1>2 DEF LeastRecent

(* A stored file is in the LRU list; taking it out or moving it leaves a   *)
(* list of names.                                                          *)
LEMMA StoredFacts ==
  ASSUME TypeOK, FilesAccounted, NEW n \in Names, file[n] # NULL
  PROVE  /\ file[n] \in ServerFile /\ n \in ToSet(lru) /\ Distinct(lru)
         /\ RemoveFromLRU(lru, n) \in Seq(Names)
         /\ MoveToFrontLRU(lru, n) \in Seq(Names)
<1>1. file[n] \in ServerFile /\ n \in ToSet(lru) /\ Distinct(lru)
  BY DEF TypeOK, FilesAccounted, Live, Distinct
<1> QED
  BY <1>1, RemoveFromLRUFacts, MoveToFrontLRUFacts DEF TypeOK

(* What TreeFileinsert expels is a stored file. *)
LEMMA ToRemoveFacts ==
  ASSUME TypeOK, FilesAccounted, TreeIsFull, Expelled # {}
  PROVE  /\ ToRemove \in Names /\ file[ToRemove] # NULL
         /\ ToRemove \in ToSet(lru) /\ file[ToRemove] \in ServerFile
<1>1. Expelled \subseteq ToSet(lru)
  BY MakeSpaceFacts DEF TypeOK, Expelled
<1>2. ToRemove \in Expelled
  BY <1>1, LeastRecentFacts DEF TypeOK, ToRemove
<1> QED
  BY <1>1, <1>2 DEF FilesAccounted, Live, TypeOK

(* A disconnection removes no file. *)
LEMMA DisconnectFacts ==
  ASSUME TypeOK, NEW w \in Workers, NEW c \in Clients, DisconnectClient(w, c)
  PROVE  /\ file' \in [Names -> ServerFile \cup {NULL}]
         /\ nodeInUse' \in [Clients -> SUBSET Names]
         /\ nodeLocked' \in [Clients -> SUBSET Names]
         /\ conn' \in [Clients -> {"listening", "served", "closed"}]
         /\ nodeLock' \in [Names -> Workers \cup {NULL}]
         /\ crashed' \in BOOLEAN
         /\ \A n \in Names : file'[n] = NULL <=> file[n] = NULL
<1>1. ASSUME NEW n \in Names
      PROVE  /\ file'[n] \in ServerFile \cup {NULL}
             /\ file'[n] = NULL <=> file[n] = NULL
  <2>1. CASE n \in nodeInUse[c] \cup nodeLocked[c] /\ file[n] # NULL
    <3>1. file[n] \in ServerFile
      BY <2>1 DEF TypeOK
    <3>2. Forgotten(file[n], c, n \in nodeLocked[c]) \in ServerFile
      <4>1. (n \in nodeLocked[c]) \in BOOLEAN
        OBVIOUS
      <4> QED
        BY <3>1, <4>1 DEF Forgotten, ServerFile
    <3>3. file'[n] = Forgotten(file[n], c, n \in nodeLocked[c])
      BY <2>1 DEF DisconnectClient
    <3> QED
      BY <2>1, <3>2, <3>3, NULLAssumption
  <2>2. CASE ~(n \in nodeInUse[c] \cup nodeLocked[c] /\ file[n] # NULL)
    BY <2>2 DEF DisconnectClient, TypeOK
  <2> QED
    BY <2>1, <2>2
<1>2. file' \in [Names -> ServerFile \cup {NULL}]
  <2>1. file' = [n \in Names |-> file'[n]]
    BY DEF DisconnectClient
  <2> QED
    BY <1>1, <2>1
<1> QED
  BY <1>1, <1>2 DEF DisconnectClient, TypeOK

LEMMA SendFacts ==
  ASSUME TypeOK, NEW w \in Workers, NEW c \in Clients, SendClientResult(w, c)
  PROVE  /\ file' \in [Names -> ServerFile \cup {NULL}]
         /\ nodeInUse' \in [Clients -> SUBSET Names]
         /\ nodeLocked' \in [Clients -> SUBSET Names]
         /\ conn' \in [Clients -> {"listening", "served", "closed"}]
         /\ nodeLock' \in [Names -> Workers \cup {NULL}]
         /\ crashed' \in BOOLEAN
         /\ \A n \in Names : file'[n] = NULL <=> file[n] = NULL
<1>1. CASE DisconnectClient(w, c)
  BY <1>1, DisconnectFacts
<1>2. CASE /\ conn' = [conn EXCEPT ![c] = "listening"]
           /\ UNCHANGED <<file, tableVars, nodeLock, crashed>>
  BY <1>2 DEF TypeOK, tableVars
<1> QED
  BY <1>1, <1>2 DEF SendClientResult

(* What a worker has at hand, typed. *)
LEMMA AtWork ==
  ASSUME TypeOK, Placed, NEW w \in Workers
  PROVE  /\ pc[w] \notin {"idle", "readn", "reply"} => node[w] \in Names
         /\ node[w] \in Names /\ File(w) # NULL => File(w) \in ServerFile
         /\ pc[w] \notin {"idle", "next", "touch", "finish"}
              => req[w] \in Request /\ Client(w) \in Clients
         /\ pc[w] \in {"filedel", "inform"} => dead[w] \in ServerFile
BY DEF TypeOK, Placed, WellPlaced, HasNode, HasRequest, HasDead, File,
   Client, Request

(* The next victim of an eviction is a stored file. *)
LEMMA VictimFacts ==
  ASSUME TypeOK, Placed, FilesAccounted, NEW w \in Workers, victims[w] # {}
  PROVE  LET n == LeastRecent(victims[w])
         IN n \in victims[w] /\ n \in Names /\ file[n] \in ServerFile
            /\ file[n] # NULL
<1>1. victims[w] \subseteq Names /\ \A n \in victims[w] : file[n] # NULL
  BY DEF TypeOK, Placed, WellPlaced, HasVictims
<1>2. victims[w] \subseteq ToSet(lru)
  BY <1>1 DEF FilesAccounted, Live
<1>3. LeastRecent(victims[w]) \in victims[w]
  BY <1>2, LeastRecentFacts DEF TypeOK
<1> QED
  BY <1>1, <1>3 DEF TypeOK

(* Every step keeps the variables' types. *)
LEMMA TypeStep ==
  ASSUME IInv, [Next]_vars
  PROVE  TypeOK'
<1> USE DEF treeVars, tableVars, clientVars, jobVars, evictVars, lockVars,
            Goto, ReplyThen, Done, NoRequest, SetFile, At, Handling, Exec, PCs
<1>a. TypeOK /\ Placed /\ FilesAccounted
  BY DEF IInv
<1>1. CASE UNCHANGED vars
  BY <1>a, <1>1 DEF TypeOK, vars
<1>2. ASSUME NEW c \in Clients, Die(c) PROVE TypeOK'
  BY <1>a, <1>2 DEF TypeOK, Die
<1>3. ASSUME NEW w \in Workers, NEW c \in Clients, NEW op \in OpKinds,
             NEW n \in Names, Take(w, c, op, n)
      PROVE  TypeOK'
  BY <1>a, <1>3 DEF TypeOK, Take, Request
<1>4. ASSUME NEW w \in Workers, NEW c \in Clients, TakeEOF(w, c) PROVE TypeOK'
  BY <1>a, <1>4, DisconnectFacts DEF TypeOK, TakeEOF
<1>5. ASSUME NEW w \in Workers, Step(w) PROVE TypeOK'
  <2>1. CASE Find(w)
    BY <1>a, <1>5, <2>1, AtWork DEF TypeOK, Find, InTree
  <2>2. CASE AbsentError(w)
    BY <1>a, <1>5, <2>2, AtWork DEF TypeOK, AbsentError
  <2>3. CASE AbsentFatal(w)
    BY <1>a, <1>5, <2>3, AtWork, DisconnectFacts DEF TypeOK, AbsentFatal
  <2>4. CASE TryUse(w)
    BY <1>a, <1>5, <2>4, AtWork, FileFacts DEF TypeOK, TryUse
  <2>5. CASE Park(w)
    BY <1>a, <1>5, <2>5, AtWork, FileFacts DEF TypeOK, Park
  <2>6. CASE InsertNew(w)
    <3> DEFINE new == NewServerFile(Client(w), O_LOCK(req[w].op), node[w])
    <3>1. node[w] \in Names /\ Client(w) \in Clients /\ new \in ServerFile
      <4>1. O_LOCK(req[w].op) \in BOOLEAN
        BY DEF O_LOCK
      <4> QED
                BY <1>a, <1>5, <2>6, AtWork, <4>1, NewServerFileFacts DEF
           InsertNew, Inserting, InTree
    <3> HIDE DEF new
    <3>2. CASE ~TreeIsFull
      <4>1. lru' \in Seq(Names)
        <5>1. lru \in Seq(Names) /\ lru' = Append(lru, node[w])
          BY <1>a, <2>6, <3>2 DEF TypeOK, InsertNew, InsertToFrontLRU
        <5> QED
          BY <3>1, <5>1
      <4> QED
                BY <1>a, <1>5, <2>6, AtWork, <3>1, <3>2, <4>1 DEF TypeOK,
           InsertNew, Inserting, new
    <3>3. CASE TreeIsFull
      <4>1. /\ ToRemove \in Names /\ file[ToRemove] \in ServerFile
            /\ file[ToRemove] # NULL
        BY <1>a, <1>5, <2>6, AtWork, <3>3, ToRemoveFacts DEF InsertNew
      <4>2. file[ToRemove].dim \in Nat
        BY <4>1 DEF ServerFile
      <4>3. lru' \in Seq(Names)
                BY <1>a, <1>5, <2>6, AtWork, <3>1, <3>3, <4>1, StoredFacts
           DEF InsertNew, InsertToFrontLRU
      <4>4. /\ file' = [file EXCEPT ![ToRemove] = NULL, ![node[w]] = new]
            /\ dead' = [dead EXCEPT ![w] = file[ToRemove]]
            /\ filedim' = filedim - file[ToRemove].dim
            /\ pc' = [pc EXCEPT ![w] = "filedel"]
            /\ UNCHANGED <<fileCount>>
        BY <2>6, <3>3 DEF InsertNew, new
      <4>5. file' \in [Names -> ServerFile \cup {NULL}]
        BY <1>a, <3>1, <4>1, <4>4 DEF TypeOK
      <4>6. dead' \in [Workers -> ServerFile \cup {NULL}] /\ filedim' \in Int
        BY <1>a, <4>1, <4>2, <4>4 DEF TypeOK
      <4> QED
        BY <1>a, <2>6, <4>3, <4>4, <4>5, <4>6 DEF TypeOK, InsertNew, Inserting
    <3> QED
      BY <3>2, <3>3
  <2>7. CASE InsertExists(w)
    <3>1. CASE ~TreeIsFull
            BY <1>a, <1>5, <2>7, AtWork, <3>1 DEF TypeOK, InsertExists,
         Inserting, InTree
    <3>2. CASE TreeIsFull
      <4>1. ToRemove \in Names /\ file[ToRemove] # NULL
        BY <1>a, <1>5, <2>7, AtWork, <3>2, ToRemoveFacts DEF InsertExists
      <4>2. file' \in [Names -> ServerFile \cup {NULL}]
        <5>1. file[ToRemove] \in ServerFile
          BY <1>a, <4>1 DEF TypeOK
        <5>2. [file[ToRemove] EXCEPT !.flagUse = TRUE] \in ServerFile
          BY <5>1, FileFacts
        <5>3. file' = Mark({ToRemove})
          BY <2>7, <3>2 DEF InsertExists
        <5> QED
          BY <1>a, <5>2, <5>3 DEF TypeOK, Mark
      <4>3. lru' \in Seq(Names)
        BY <1>a, <1>5, <2>7, AtWork, <3>2, <4>1, StoredFacts DEF InsertExists
      <4> QED
                BY <1>a, <1>5, <2>7, AtWork, <4>2, <4>3 DEF TypeOK,
           InsertExists, Inserting
    <3> QED
      BY <3>1, <3>2
  <2>8. CASE InsertNoMemory(w)
    BY <1>a, <1>5, <2>8, AtWork DEF TypeOK, InsertNoMemory, Inserting, InTree
  <2>9. CASE Opened(w)
    <3>1. node[w] \in Names /\ Client(w) \in Clients
      BY <1>a, <1>5, <2>9, AtWork DEF Opened
    <3>2. /\ nodeInUse' \in [Clients -> SUBSET Names]
          /\ nodeLocked' \in [Clients -> SUBSET Names]
      BY <1>a, <1>5, <2>9, AtWork, <3>1 DEF TypeOK, Opened, TableOpen
    <3> QED
      BY <1>a, <1>5, <2>9, AtWork, <3>2 DEF TypeOK, Opened
  <2>10. CASE Release(w)
    BY <1>a, <1>5, <2>10, AtWork, FileFacts DEF TypeOK, Release
  <2>11. CASE FileDel(w)
    BY <1>a, <1>5, <2>11, AtWork, FileFacts DEF TypeOK, FileDel, TableForget
  <2>12. CASE InformReply(w)
    <3> DEFINE f == dead[w]
    <3>1. f \in ServerFile /\ f.requestList # <<>>
      BY <1>a, <1>5, <2>12, AtWork DEF InformReply, Informing
    <3>2. /\ Head(f.requestList).client \in Clients
          /\ [f EXCEPT !.requestList = Tail(@)] \in ServerFile
      BY <3>1, QueueFacts
    <3>3. dead' = [dead EXCEPT ![w] = [f EXCEPT !.requestList = Tail(@)]]
      BY <1>a, <1>5, <2>12, AtWork DEF InformReply, Informing
    <3>4. dead' \in [Workers -> ServerFile \cup {NULL}]
      BY <1>a, <3>2, <3>3 DEF TypeOK
    <3> QED
            BY <1>a, <1>5, <2>12, AtWork, <3>2, <3>4, SendFacts DEF TypeOK,
         InformReply, Informing
  <2>13. CASE InformAppend(w)
    <3> DEFINE f == dead[w]
    <3>1. f \in ServerFile /\ f.requestList # <<>>
      BY <1>a, <1>5, <2>13, AtWork DEF InformAppend, Informing
    <3>2. /\ Head(f.requestList).client \in Clients
          /\ [f EXCEPT !.requestList = Tail(@)] \in ServerFile
      BY <3>1, QueueFacts
    <3>3. dead' = [dead EXCEPT ![w] = [f EXCEPT !.requestList = Tail(@)]]
      BY <1>a, <1>5, <2>13, AtWork DEF InformAppend, Informing
    <3>4. dead' \in [Workers -> ServerFile \cup {NULL}]
      BY <1>a, <3>2, <3>3 DEF TypeOK
    <3> QED
            BY <1>a, <1>5, <2>13, AtWork, <3>2, <3>4, DisconnectFacts DEF
         TypeOK, InformAppend, Informing
  <2>14. CASE InformWrite(w)
        BY <1>a, <1>5, <2>14, AtWork, QueueFacts DEF TypeOK, InformWrite,
       Informing
  <2>15. CASE InformDone(w)
    BY <1>a, <1>5, <2>15, AtWork DEF TypeOK, InformDone
  <2>16. CASE Refuse(w)
    BY <1>a, <1>5, <2>16, AtWork DEF TypeOK, Refuse
  <2>17. CASE OpenFile(w)
    <3> DEFINE f == [Written(File(w)) EXCEPT !.openList = @ \cup {Client(w)}]
    <3>1. node[w] \in Names /\ Client(w) \in Clients /\ f \in ServerFile
      BY <1>a, <1>5, <2>17, AtWork, FileFacts DEF OpenFile
    <3>2. file' \in [Names -> ServerFile \cup {NULL}]
      BY <1>a, <1>5, <2>17, AtWork, <3>1 DEF TypeOK, OpenFile
    <3>3. /\ nodeInUse' \in [Clients -> SUBSET Names]
          /\ nodeLocked' \in [Clients -> SUBSET Names]
      BY <1>a, <1>5, <2>17, AtWork, <3>1 DEF TypeOK, OpenFile, TableOpen
    <3>4. /\ pc' \in [Workers -> PCs]
          /\ after' \in [Workers -> {"idle", "next", "touch"}]
      BY <1>a, <2>17 DEF TypeOK, OpenFile
    <3> QED
      BY <1>a, <2>17, <3>2, <3>3, <3>4 DEF TypeOK, OpenFile
  <2>18. CASE SetLock(w)
    BY <1>a, <1>5, <2>18, AtWork, FileFacts DEF TypeOK, SetLock
  <2>19. CASE ReadFile(w)
    BY <1>a, <1>5, <2>19, AtWork DEF TypeOK, ReadFile
  <2>20. CASE LockFile(w)
    BY <1>a, <1>5, <2>20, AtWork, FileFacts DEF TypeOK, LockFile
  <2>21. CASE TableLock(w)
    BY <1>a, <1>5, <2>21, AtWork DEF TypeOK, TableLock
  <2>22. CASE UnlockFile(w)
    BY <1>a, <1>5, <2>22, AtWork, FileFacts DEF TypeOK, UnlockFile
  <2>23. CASE CloseFile(w)
    <3> DEFINE f == [Written(File(w)) EXCEPT !.openList = @ \ {Client(w)}]
    <3>1. node[w] \in Names /\ Client(w) \in Clients /\ f \in ServerFile
      BY <1>a, <1>5, <2>23, AtWork, FileFacts DEF CloseFile
    <3>2. Unlocked(f) \in ServerFile
      BY <3>1, FileFacts
    <3>3. file' \in [Names -> ServerFile \cup {NULL}]
      BY <1>a, <1>5, <2>23, AtWork, <3>1, <3>2 DEF TypeOK, CloseFile
    <3>4. /\ nodeInUse' \in [Clients -> SUBSET Names]
          /\ nodeLocked' \in [Clients -> SUBSET Names]
      BY <1>a, <1>5, <2>23, AtWork, <3>1 DEF TypeOK, CloseFile
    <3> QED
      BY <1>a, <1>5, <2>23, AtWork, <3>3, <3>4 DEF TypeOK, CloseFile
  <2>24. CASE RemoveFile(w)
    BY <1>a, <1>5, <2>24, AtWork DEF TypeOK, RemoveFile
  <2>25. CASE TreeRemove(w)
    <3>1. CASE File(w) # NULL
      <4>1. node[w] \in Names /\ File(w) \in ServerFile
        BY <1>a, <1>5, <2>25, AtWork, <3>1 DEF TreeRemove, InTree
      <4>2. lru' \in Seq(Names)
                BY <1>a, <1>5, <2>25, AtWork, <3>1, <4>1, StoredFacts DEF
           TreeRemove, Detach, File
      <4>3. filedim' \in Int
                BY <1>a, <1>5, <2>25, AtWork, <3>1, <4>1 DEF TypeOK,
           TreeRemove, Detach, File, ServerFile
      <4>4. /\ file' = [file EXCEPT ![node[w]] = NULL]
            /\ dead' = [dead EXCEPT ![w] = File(w)]
            /\ fileCount' = fileCount - 1
            /\ pc' = [pc EXCEPT ![w] = "filedel"] /\ UNCHANGED after
        BY <2>25, <3>1 DEF TreeRemove, Detach, File
      <4> QED
        BY <1>a, <2>25, <4>1, <4>2, <4>3, <4>4 DEF TypeOK, TreeRemove
    <3>2. CASE File(w) = NULL
      BY <1>a, <1>5, <2>25, AtWork, <3>2 DEF TypeOK, TreeRemove
    <3> QED
      BY <3>1, <3>2
  <2>26. CASE WriteFile(w)
    BY <1>a, <1>5, <2>26, AtWork, FileFacts DEF TypeOK, WriteFile
  <2>27. CASE AppendToFile(w)
    BY <1>a, <1>5, <2>27, AtWork, FileFacts DEF TypeOK, AppendToFile
  <2>28. CASE PayloadCut(w)
    BY <1>a, <1>5, <2>28, AtWork, DisconnectFacts DEF TypeOK, PayloadCut
  <2>29. CASE Discard(w)
    BY <1>a, <1>5, <2>29, AtWork DEF TypeOK, Discard
  <2>30. CASE Payload(w)
    BY <1>a, <1>5, <2>30, AtWork DEF TypeOK, Payload
  <2>31. CASE RoomEnough(w)
    <3>1. node[w] \in Names /\ File(w) \in ServerFile
      BY <1>a, <1>5, <2>31, AtWork DEF RoomEnough, InTree
    <3>2. file' \in [Names -> ServerFile \cup {NULL}]
            BY <1>a, <1>5, <2>31, AtWork, <3>1, FileFacts DEF TypeOK,
         RoomEnough, Store
    <3> QED
            BY <1>a, <1>5, <2>31, AtWork, <3>2, CapacityAssumption DEF
         TypeOK, RoomEnough, Store
  <2>32. CASE MakeRoom(w)
    <3> DEFINE S == MakeSpace(0, MissingSpace)
    <3>1. S \subseteq Names /\ \A n \in S : file[n] \in ServerFile
      <4>1. S \subseteq ToSet(lru)
        BY <1>a, MakeSpaceFacts DEF TypeOK
      <4> QED
        BY <1>a, <4>1 DEF TypeOK, FilesAccounted, Live
    <3>2. file' \in [Names -> ServerFile \cup {NULL}]
      <4>1. Mark(S) \in [Names -> ServerFile \cup {NULL}]
        BY <1>a, <3>1, FileFacts DEF TypeOK, Mark
      <4> QED
        BY <1>a, <1>5, <2>32, AtWork, <4>1 DEF MakeRoom
    <3>3. victims' \in [Workers -> SUBSET Names]
      BY <1>a, <1>5, <2>32, AtWork, <3>1 DEF TypeOK, MakeRoom
    <3> QED
      BY <1>a, <1>5, <2>32, AtWork, <3>2, <3>3 DEF TypeOK, MakeRoom
  <2>33. CASE Unmark(w)
    <3> DEFINE n == LeastRecent(victims[w])
    <3>1. n \in Names /\ file[n] \in ServerFile
      BY <1>a, <1>5, <2>33, AtWork, VictimFacts DEF Unmark
    <3>2. file' \in [Names -> ServerFile \cup {NULL}]
      BY <1>a, <1>5, <2>33, AtWork, <3>1, FileFacts DEF TypeOK, Unmark
    <3> QED
      BY <1>a, <1>5, <2>33, AtWork, <3>2 DEF TypeOK, Unmark
  <2>34. CASE NoRoom(w)
    BY <1>a, <1>5, <2>34, AtWork DEF TypeOK, NoRoom
  <2>35. CASE Evict(w)
    <3> DEFINE n == LeastRecent(victims[w])
    <3>1. n \in Names /\ file[n] \in ServerFile /\ file[n] # NULL
      BY <1>a, <1>5, <2>35, AtWork, VictimFacts DEF Evict
    <3>2. lru' \in Seq(Names)
      BY <1>a, <1>5, <2>35, AtWork, <3>1, StoredFacts DEF Evict, Detach
    <3>3. filedim' \in Int
      BY <1>a, <1>5, <2>35, AtWork, <3>1 DEF TypeOK, Evict, Detach, ServerFile
    <3> QED
      BY <1>a, <1>5, <2>35, AtWork, <3>1, <3>2, <3>3 DEF TypeOK, Evict, Detach
  <2>36. CASE Evicted(w)
    <3>1. node[w] \in Names /\ File(w) \in ServerFile
      BY <1>a, <1>5, <2>36, AtWork DEF Evicted
    <3>2. file' \in [Names -> ServerFile \cup {NULL}]
      BY <1>a, <1>5, <2>36, AtWork, <3>1, FileFacts DEF TypeOK, Evicted, Store
    <3> QED
            BY <1>a, <1>5, <2>36, AtWork, <3>2, CapacityAssumption DEF
         TypeOK, Evicted, Store
  <2>37. CASE Finish(w)
    <3>1. node[w] \in Names /\ File(w) \in ServerFile
      BY <1>a, <1>5, <2>37, AtWork DEF Finish
    <3>2. file' \in [Names -> ServerFile \cup {NULL}]
      BY <1>a, <1>5, <2>37, AtWork, <3>1, FileFacts DEF TypeOK, Finish
    <3> QED
      BY <1>a, <1>5, <2>37, AtWork, <3>2 DEF TypeOK, Finish
  <2>38. CASE Reply(w)
    <3>1. Client(w) \in Clients
      BY <1>a, <1>5, <2>38, AtWork DEF Reply
    <3>2. /\ file' \in [Names -> ServerFile \cup {NULL}]
          /\ nodeInUse' \in [Clients -> SUBSET Names]
          /\ nodeLocked' \in [Clients -> SUBSET Names]
          /\ conn' \in [Clients -> {"listening", "served", "closed"}]
          /\ nodeLock' \in [Names -> Workers \cup {NULL}]
          /\ crashed' \in BOOLEAN
      BY <1>a, <2>38, <3>1, SendFacts DEF Reply
    <3>3. /\ pc' \in [Workers -> PCs]
          /\ after' \in [Workers -> {"idle", "next", "touch"}]
          /\ node' \in [Workers -> Names \cup {NULL}]
      <4>1. CASE after[w] = "idle"
        BY <1>a, <2>38, <4>1 DEF TypeOK, Reply
      <4>2. CASE after[w] # "idle"
        <5>1. after[w] \in {"next", "touch"} /\ after[w] \in PCs
          BY <1>a, <4>2 DEF TypeOK
        <5>2. pc' = [pc EXCEPT ![w] = after[w]] /\ UNCHANGED <<node, after>>
          BY <2>38, <4>2 DEF Reply
        <5> QED
          BY <1>a, <5>1, <5>2 DEF TypeOK
      <4> QED
        BY <4>1, <4>2
    <3> QED
      BY <1>a, <2>38, <3>2, <3>3 DEF TypeOK, Reply
  <2>39. CASE ReadNFiles(w)
    BY <1>a, <1>5, <2>39, AtWork DEF TypeOK, ReadNFiles, InTree
  <2>40. CASE NextRequest(w)
    BY <1>a, <1>5, <2>40, AtWork, QueueFacts DEF TypeOK, NextRequest
  <2>41. CASE NoNextRequest(w)
    BY <1>a, <1>5, <2>41, AtWork, FileFacts DEF TypeOK, NoNextRequest
  <2>42. CASE Touch(w)
    <3>1. lru' \in Seq(Names)
      <4>1. CASE File(w) # NULL
                BY <1>a, <1>5, <2>42, AtWork, <4>1, StoredFacts DEF TypeOK,
           Touch, InTree, File
      <4>2. CASE File(w) = NULL
        BY <1>a, <1>5, <2>42, AtWork, <4>2 DEF TypeOK, Touch
      <4> QED
        BY <4>1, <4>2
    <3> QED
      BY <1>a, <1>5, <2>42, AtWork, <3>1 DEF TypeOK, Touch, InTree
  <2>43. CASE HoldTree(w)
    BY <1>a, <1>5, <2>43, AtWork DEF TypeOK, HoldTree
  <2>44. CASE Crash(w)
    BY <1>a, <1>5, <2>44, AtWork DEF TypeOK, Crash
  <2> QED
        BY <1>5, <2>1, <2>2, <2>3, <2>4, <2>5, <2>6, <2>7, <2>8, <2>9, <2>10,
       <2>11, <2>12, <2>13, <2>14, <2>15, <2>16, <2>17, <2>18, <2>19, <2>20,
       <2>21, <2>22, <2>23, <2>24, <2>25, <2>26, <2>27, <2>28, <2>29, <2>30,
       <2>31, <2>32, <2>33, <2>34, <2>35, <2>36, <2>37, <2>38, <2>39, <2>40,
       <2>41, <2>42, <2>43, <2>44 DEF Step
<1> QED
  BY <1>1, <1>2, <1>3, <1>4, <1>5 DEF Next

-----------------------------------------------------------------------------
(* What a step keeps of the files and of the other workers *)

SameFiles == \A n \in Names : file'[n] = NULL <=> file[n] = NULL
Kept == SameFiles /\ lru' = lru /\ fileCount' = fileCount

(* Only the steps named here store a file, remove one or touch the LRU     *)
(* list.                                                                   *)
LEMMA StepKeeps ==
  ASSUME IInv, NEW w \in Workers, Step(w),
         ~InsertNew(w), ~InsertExists(w), ~TreeRemove(w), ~Evict(w), ~Touch(w)
  PROVE  Kept
<1> USE DEF treeVars, tableVars, clientVars, jobVars, evictVars, lockVars,
            SetFile, At, Handling, Exec, Kept, SameFiles
<1>a. TypeOK /\ Placed /\ FilesAccounted
  BY DEF IInv
<1>1. CASE UNCHANGED <<file, lru, fileCount>>
  BY <1>1
<1>2. ASSUME NEW n \in Names, NEW f \in ServerFile, file[n] \in ServerFile,
             SetFile(n, f), UNCHANGED <<lru, fileCount>>
      PROVE  Kept
  BY <1>a, <1>2, FileFacts DEF TypeOK
<1>3. ASSUME NEW c \in Clients, DisconnectClient(w, c), UNCHANGED <<lru, fileCount>>
      PROVE  Kept
  BY <1>a, <1>3, DisconnectFacts
<1>4. ASSUME NEW c \in Clients, SendClientResult(w, c), UNCHANGED <<lru, fileCount>>
      PROVE  Kept
  BY <1>a, <1>4, SendFacts
<1>5. CASE Find(w)
  BY <1>1, <1>5 DEF Find
<1>6. CASE AbsentError(w)
  BY <1>1, <1>6 DEF AbsentError
<1>7. CASE AbsentFatal(w)
  <2>1. Client(w) \in Clients
    BY <1>a, <1>7, AtWork DEF AbsentFatal
  <2> QED
    BY <1>3, <1>7, <2>1 DEF AbsentFatal
<1>8. CASE TryUse(w)
  <2>1. node[w] \in Names /\ File(w) \in ServerFile
    BY <1>a, <1>8, AtWork DEF TryUse
  <2>2. PICK f \in ServerFile : SetFile(node[w], f)
    BY <1>a, <1>8, <2>1, AtWork, FileFacts DEF TryUse
  <2> QED
    BY <1>2, <1>8, <2>1, <2>2 DEF TryUse, File
<1>9. CASE Park(w)
  <2>1. node[w] \in Names /\ File(w) \in ServerFile
    BY <1>a, <1>9, AtWork DEF Park
  <2>2. PICK f \in ServerFile : SetFile(node[w], f)
    BY <1>a, <1>9, <2>1, AtWork, FileFacts DEF Park
  <2> QED
    BY <1>2, <1>9, <2>1, <2>2 DEF Park, File
<1>10. CASE InsertNoMemory(w)
  BY <1>1, <1>10 DEF InsertNoMemory
<1>11. CASE Opened(w)
  BY <1>1, <1>11 DEF Opened
<1>12. CASE Release(w)
  <2>1. node[w] \in Names /\ File(w) \in ServerFile
    BY <1>a, <1>12, AtWork DEF Release
  <2>2. PICK f \in ServerFile : SetFile(node[w], f)
    BY <1>a, <1>12, <2>1, AtWork, FileFacts DEF Release
  <2> QED
    BY <1>2, <1>12, <2>1, <2>2 DEF Release, File
<1>13. CASE FileDel(w)
  BY <1>1, <1>13 DEF FileDel
<1>14. CASE InformReply(w)
  <2>1. dead[w] \in ServerFile /\ dead[w].requestList # <<>>
    BY <1>a, <1>14, AtWork DEF InformReply, Informing
  <2>2. Head(dead[w].requestList).client \in Clients
    BY <2>1, QueueFacts
  <2> QED
    BY <1>4, <1>14, <2>2 DEF InformReply, Informing
<1>15. CASE InformAppend(w)
  <2>1. dead[w] \in ServerFile /\ dead[w].requestList # <<>>
    BY <1>a, <1>15, AtWork DEF InformAppend, Informing
  <2>2. Head(dead[w].requestList).client \in Clients
    BY <2>1, QueueFacts
  <2> QED
    BY <1>3, <1>15, <2>2 DEF InformAppend, Informing
<1>16. CASE InformWrite(w)
  BY <1>1, <1>16 DEF InformWrite, Informing
<1>17. CASE InformDone(w)
  BY <1>1, <1>17 DEF InformDone
<1>18. CASE Refuse(w)
  BY <1>1, <1>18 DEF Refuse
<1>19. CASE OpenFile(w)
  <2>1. node[w] \in Names /\ File(w) \in ServerFile
    BY <1>a, <1>19, AtWork DEF OpenFile
  <2>2. PICK f \in ServerFile : SetFile(node[w], f)
    BY <1>a, <1>19, <2>1, AtWork, FileFacts DEF OpenFile
  <2> QED
    BY <1>2, <1>19, <2>1, <2>2 DEF OpenFile, File
<1>20. CASE SetLock(w)
  <2>1. node[w] \in Names /\ File(w) \in ServerFile
    BY <1>a, <1>20, AtWork DEF SetLock
  <2>2. PICK f \in ServerFile : SetFile(node[w], f)
    BY <1>a, <1>20, <2>1, AtWork, FileFacts DEF SetLock
  <2> QED
    BY <1>2, <1>20, <2>1, <2>2 DEF SetLock, File
<1>21. CASE ReadFile(w)
  BY <1>1, <1>21 DEF ReadFile
<1>22. CASE LockFile(w)
  <2>1. node[w] \in Names /\ File(w) \in ServerFile
    BY <1>a, <1>22, AtWork DEF LockFile
  <2>2. PICK f \in ServerFile : SetFile(node[w], f)
    BY <1>a, <1>22, <2>1, AtWork, FileFacts DEF LockFile
  <2> QED
    BY <1>2, <1>22, <2>1, <2>2 DEF LockFile, File
<1>23. CASE TableLock(w)
  BY <1>1, <1>23 DEF TableLock
<1>24. CASE UnlockFile(w)
  <2>1. node[w] \in Names /\ File(w) \in ServerFile
    BY <1>a, <1>24, AtWork DEF UnlockFile
  <2>2. PICK f \in ServerFile : SetFile(node[w], f)
    BY <1>a, <1>24, <2>1, AtWork, FileFacts DEF UnlockFile
  <2> QED
    BY <1>2, <1>24, <2>1, <2>2 DEF UnlockFile, File
<1>25. CASE CloseFile(w)
  <2>1. node[w] \in Names /\ File(w) \in ServerFile
    BY <1>a, <1>25, AtWork DEF CloseFile
  <2>2. PICK f \in ServerFile : SetFile(node[w], f)
    BY <1>a, <1>25, <2>1, AtWork, FileFacts DEF CloseFile
  <2> QED
    BY <1>2, <1>25, <2>1, <2>2 DEF CloseFile, File
<1>26. CASE RemoveFile(w)
  BY <1>1, <1>26 DEF RemoveFile
<1>27. CASE WriteFile(w)
  <2>1. node[w] \in Names /\ File(w) \in ServerFile
    BY <1>a, <1>27, AtWork DEF WriteFile
  <2>2. PICK f \in ServerFile : SetFile(node[w], f)
    BY <1>a, <1>27, <2>1, AtWork, FileFacts DEF WriteFile
  <2> QED
    BY <1>2, <1>27, <2>1, <2>2 DEF WriteFile, File
<1>28. CASE AppendToFile(w)
  <2>1. node[w] \in Names /\ File(w) \in ServerFile
    BY <1>a, <1>28, AtWork DEF AppendToFile
  <2>2. PICK f \in ServerFile : SetFile(node[w], f)
    BY <1>a, <1>28, <2>1, AtWork, FileFacts DEF AppendToFile
  <2> QED
    BY <1>2, <1>28, <2>1, <2>2 DEF AppendToFile, File
<1>29. CASE PayloadCut(w)
  <2>1. Client(w) \in Clients
    BY <1>a, <1>29, AtWork DEF PayloadCut
  <2> QED
    BY <1>3, <1>29, <2>1 DEF PayloadCut
<1>30. CASE Discard(w)
  BY <1>1, <1>30 DEF Discard
<1>31. CASE Payload(w)
  BY <1>1, <1>31 DEF Payload
<1>32. CASE RoomEnough(w)
  <2>1. node[w] \in Names /\ File(w) \in ServerFile
    BY <1>a, <1>32, AtWork DEF RoomEnough, Store, InTree
  <2>2. PICK f \in ServerFile : SetFile(node[w], f)
    BY <1>a, <1>32, <2>1, AtWork, FileFacts DEF RoomEnough, Store, InTree
  <2> QED
    BY <1>2, <1>32, <2>1, <2>2 DEF RoomEnough, File, Store, InTree
<1>33. CASE MakeRoom(w)
  <2> DEFINE S == MakeSpace(0, MissingSpace)
  <2>1. S \subseteq ToSet(lru)
    BY <1>a, MakeSpaceFacts DEF TypeOK
  <2>2. \A m \in S : file[m] \in ServerFile
    BY <1>a, <2>1 DEF TypeOK, FilesAccounted, Live
  <2>3. file' = Mark(S) /\ UNCHANGED <<lru, fileCount>>
    BY <1>33 DEF MakeRoom
  <2>4. \A m \in Names : Mark(S)[m] = NULL <=> file[m] = NULL
    BY <2>2, FileFacts DEF Mark
  <2> QED
    BY <2>3, <2>4
<1>34. CASE Unmark(w)
  <2> DEFINE m == LeastRecent(victims[w])
  <2>1. m \in Names /\ file[m] \in ServerFile
    BY <1>a, <1>34, VictimFacts DEF Unmark
  <2>2. Released(file[m]) \in ServerFile
    BY <2>1, FileFacts
  <2> QED
    BY <1>2, <1>34, <2>1, <2>2 DEF Unmark
<1>35. CASE NoRoom(w)
  BY <1>1, <1>35 DEF NoRoom
<1>36. CASE Evicted(w)
  <2>1. node[w] \in Names /\ File(w) \in ServerFile
    BY <1>a, <1>36, AtWork DEF Evicted, Store
  <2>2. PICK f \in ServerFile : SetFile(node[w], f)
    BY <1>a, <1>36, <2>1, AtWork, FileFacts DEF Evicted, Store
  <2> QED
    BY <1>2, <1>36, <2>1, <2>2 DEF Evicted, File, Store
<1>37. CASE Finish(w)
  <2>1. node[w] \in Names /\ File(w) \in ServerFile
    BY <1>a, <1>37, AtWork DEF Finish
  <2>2. PICK f \in ServerFile : SetFile(node[w], f)
    BY <1>a, <1>37, <2>1, AtWork, FileFacts DEF Finish
  <2> QED
    BY <1>2, <1>37, <2>1, <2>2 DEF Finish, File
<1>38. CASE Reply(w)
  <2>1. Client(w) \in Clients
    BY <1>a, <1>38, AtWork DEF Reply
  <2> QED
    BY <1>4, <1>38, <2>1 DEF Reply
<1>39. CASE ReadNFiles(w)
  BY <1>1, <1>39 DEF ReadNFiles
<1>40. CASE NextRequest(w)
  <2>1. node[w] \in Names /\ File(w) \in ServerFile
    BY <1>a, <1>40, AtWork DEF NextRequest
  <2>2. PICK f \in ServerFile : SetFile(node[w], f)
    BY <1>a, <1>40, <2>1, AtWork, FileFacts, QueueFacts DEF NextRequest
  <2> QED
    BY <1>2, <1>40, <2>1, <2>2 DEF NextRequest, File
<1>41. CASE NoNextRequest(w)
  <2>1. node[w] \in Names /\ File(w) \in ServerFile
    BY <1>a, <1>41, AtWork DEF NoNextRequest
  <2>2. PICK f \in ServerFile : SetFile(node[w], f)
    BY <1>a, <1>41, <2>1, AtWork, FileFacts DEF NoNextRequest
  <2> QED
    BY <1>2, <1>41, <2>1, <2>2 DEF NoNextRequest, File
<1>42. CASE HoldTree(w)
  BY <1>1, <1>42 DEF HoldTree
<1>43. CASE Crash(w)
  BY <1>1, <1>43 DEF Crash
<1> QED
    BY <1>5, <1>6, <1>7, <1>8, <1>9, <1>10, <1>11, <1>12, <1>13, <1>14,
     <1>15, <1>16, <1>17, <1>18, <1>19, <1>20, <1>21, <1>22, <1>23, <1>24,
     <1>25, <1>26, <1>27, <1>28, <1>29, <1>30, <1>31, <1>32, <1>33, <1>34,
     <1>35, <1>36, <1>37, <1>38, <1>39, <1>40, <1>41, <1>42, <1>43 DEF Step

(* Every step keeps the accounts. *)
LEMMA AccountedStep ==
  ASSUME IInv, TypeOK', [Next]_vars
  PROVE  FilesAccounted'
<1> USE DEF treeVars, tableVars, clientVars, jobVars, evictVars, lockVars,
            SetFile, At, Distinct
<1>a. /\ TypeOK /\ Placed /\ FilesAccounted
      /\ lru \in Seq(Names) /\ Distinct(lru) /\ ToSet(lru) = Live
      /\ fileCount = Len(lru) /\ fileCount <= MaxFileNum
      /\ MaxFileNum \in Nat
  BY CapacityAssumption DEF IInv, TypeOK, FilesAccounted
<1>k. ASSUME Kept PROVE FilesAccounted'
  <2>1. Live' = Live
    BY <1>k DEF Kept, SameFiles, Live
  <2> QED
    BY <1>a, <1>k, <2>1 DEF Kept, FilesAccounted
<1>m. ASSUME NEW n \in Names, file[n] # NULL, lru' = MoveToFrontLRU(lru, n),
             SameFiles, fileCount' = fileCount
      PROVE  FilesAccounted'
  <2>1. n \in ToSet(lru)
    BY <1>a, <1>m DEF Live
  <2>2. /\ Len(lru') = Len(lru) /\ ToSet(lru') = ToSet(lru) /\ Distinct(lru')
    BY <1>a, <1>m, <2>1, MoveToFrontLRUFacts
  <2>3. Live' = Live
    BY <1>m DEF SameFiles, Live
  <2> QED
    BY <1>a, <1>m, <2>2, <2>3 DEF FilesAccounted
<1>r. ASSUME NEW n \in Names, file[n] # NULL, file' = [file EXCEPT ![n] = NULL],
             lru' = RemoveFromLRU(lru, n), fileCount' = fileCount - 1
      PROVE  FilesAccounted'
  <2>1. n \in ToSet(lru)
    BY <1>a, <1>r DEF Live
  <2>2. /\ Len(lru') = Len(lru) - 1 /\ ToSet(lru') = ToSet(lru) \ {n}
        /\ Distinct(lru')
    BY <1>a, <1>r, <2>1, RemoveFromLRUFacts
  <2>3. Live' = Live \ {n}
    BY <1>a, <1>r DEF Live, TypeOK
  <2>4. Len(lru) \in Nat
    BY <1>a
  <2> QED
    BY <1>a, <1>r, <2>2, <2>3, <2>4 DEF FilesAccounted
<1>1. CASE UNCHANGED vars
  BY <1>1, <1>k DEF vars, Kept, SameFiles
<1>2. ASSUME NEW c \in Clients, Die(c) PROVE FilesAccounted'
  BY <1>2, <1>k DEF Die, Kept, SameFiles
<1>3. ASSUME NEW w \in Workers, NEW c \in Clients, NEW op \in OpKinds,
             NEW n \in Names, Take(w, c, op, n)
      PROVE  FilesAccounted'
  BY <1>3, <1>k DEF Take, Kept, SameFiles
<1>4. ASSUME NEW w \in Workers, NEW c \in Clients, TakeEOF(w, c)
      PROVE  FilesAccounted'
  BY <1>a, <1>4, <1>k, DisconnectFacts DEF TakeEOF, Kept, SameFiles
<1>5. ASSUME NEW w \in Workers, Step(w) PROVE FilesAccounted'
  <2>1. CASE InsertNew(w)
    <3> DEFINE n == node[w]
               new == NewServerFile(Client(w), O_LOCK(req[w].op), n)
    <3>1. n \in Names /\ new # NULL
      <4>1. O_LOCK(req[w].op) \in BOOLEAN
        BY DEF O_LOCK
      <4>2. n \in Names /\ Client(w) \in Clients
        BY <1>a, <2>1, AtWork DEF InsertNew, Inserting, InTree
      <4> QED
        BY <4>1, <4>2, NewServerFileFacts, NULLAssumption
    <3>2. CASE ~TreeIsFull
      <4>1. /\ file[n] = NULL /\ file' = [file EXCEPT ![n] = new]
            /\ lru' = InsertToFrontLRU(lru, n) /\ fileCount' = fileCount + 1
        BY <2>1, <3>2 DEF InsertNew, File
      <4>2. n \notin ToSet(lru)
        BY <1>a, <4>1 DEF Live
      <4>3. /\ Len(lru') = Len(lru) + 1 /\ ToSet(lru') = ToSet(lru) \cup {n}
            /\ Distinct(lru')
        BY <1>a, <3>1, <4>1, <4>2, InsertToFrontLRUFacts
      <4>4. Live' = Live \cup {n}
        BY <1>a, <3>1, <4>1 DEF Live, TypeOK
      <4>5. fileCount + 1 <= MaxFileNum /\ fileCount + 1 = Len(lru) + 1
        BY <1>a, <3>2 DEF TreeIsFull
      <4> QED
        BY <1>a, <4>1, <4>3, <4>4, <4>5 DEF FilesAccounted
    <3>3. CASE TreeIsFull
      <4> DEFINE r == ToRemove
                 rest == RemoveFromLRU(lru, r)
      <4>1. /\ r \in Names /\ file[r] # NULL /\ r \in ToSet(lru)
            /\ file[n] = NULL \/ n = r
        BY <1>a, <2>1, <3>3, ToRemoveFacts DEF InsertNew, File
      <4>2. /\ file' = [file EXCEPT ![r] = NULL, ![n] = new]
            /\ lru' = InsertToFrontLRU(rest, n) /\ fileCount' = fileCount
        BY <2>1, <3>3 DEF InsertNew
      <4> HIDE DEF r, new
      <4>3. /\ rest \in Seq(Names) /\ Len(rest) = Len(lru) - 1
            /\ ToSet(rest) = ToSet(lru) \ {r} /\ Distinct(rest)
        BY <1>a, <4>1, RemoveFromLRUFacts
      <4>4. n \notin ToSet(rest)
        BY <1>a, <4>1, <4>3 DEF Live
      <4> HIDE DEF rest
      <4>5. /\ Len(lru') = Len(rest) + 1 /\ ToSet(lru') = ToSet(rest) \cup {n}
            /\ Distinct(lru')
        BY <3>1, <4>2, <4>3, <4>4, InsertToFrontLRUFacts
      <4>6. Live' = (Live \ {r}) \cup {n}
        BY <1>a, <3>1, <4>1, <4>2 DEF Live, TypeOK
      <4>7. Len(lru') = Len(lru)
        BY <1>a, <4>3, <4>5
      <4> QED
        BY <1>a, <4>2, <4>3, <4>5, <4>6, <4>7 DEF FilesAccounted
    <3> QED
      BY <3>2, <3>3
  <2>2. CASE InsertExists(w)
    <3>1. CASE ~TreeIsFull
      BY <1>k, <2>2, <3>1 DEF InsertExists, Kept, SameFiles
    <3>2. CASE TreeIsFull
      <4>1. /\ ToRemove \in Names /\ file[ToRemove] # NULL
            /\ file[ToRemove] \in ServerFile
        BY <1>a, <2>2, <3>2, ToRemoveFacts DEF InsertExists
      <4>2. /\ file' = Mark({ToRemove}) /\ fileCount' = fileCount
            /\ lru' = MoveToFrontLRU(lru, ToRemove)
        BY <2>2, <3>2 DEF InsertExists
      <4>3. SameFiles
        BY <4>1, <4>2, FileFacts DEF SameFiles, Mark
      <4> QED
        BY <1>m, <4>1, <4>2, <4>3
    <3> QED
      BY <3>1, <3>2
  <2>3. CASE TreeRemove(w)
    <3>1. CASE File(w) # NULL
      <4>1. node[w] \in Names
        BY <1>a, <2>3, AtWork DEF TreeRemove, InTree
      <4> QED
        BY <1>r, <2>3, <3>1, <4>1 DEF TreeRemove, Detach, File
    <3>2. CASE File(w) = NULL
      BY <1>k, <2>3, <3>2 DEF TreeRemove, Kept, SameFiles
    <3> QED
      BY <3>1, <3>2
  <2>4. CASE Evict(w)
    BY <1>a, <1>r, <2>4, VictimFacts DEF Evict, Detach
  <2>5. CASE Touch(w)
    <3>1. CASE File(w) # NULL /\ ~File(w).flagUse
      <4>1. node[w] \in Names
        BY <1>a, <2>5, AtWork DEF Touch, InTree
      <4> QED
        BY <1>m, <2>5, <3>1, <4>1 DEF Touch, File, SameFiles
    <3>2. CASE ~(File(w) # NULL /\ ~File(w).flagUse)
      BY <1>k, <2>5, <3>2 DEF Touch, Kept, SameFiles
    <3> QED
      BY <3>1, <3>2
  <2> QED
    BY <1>5, <1>k, <2>1, <2>2, <2>3, <2>4, <2>5, StepKeeps
<1> QED
  BY <1>1, <1>2, <1>3, <1>4, <1>5 DEF Next

(* A step of one worker leaves the others where they are, and disturbs     *)
(* neither the tree's mutex nor, while another holds it, which files are   *)
(* stored.                                                                 *)
LEMMA OthersKept ==
  ASSUME IInv, NEW w \in Workers, Step(w), NEW v \in Workers, v # w
  PROVE  /\ pc'[v] = pc[v] /\ node'[v] = node[v] /\ req'[v] = req[v]
         /\ after'[v] = after[v] /\ dead'[v] = dead[v]
         /\ victims'[v] = victims[v]
         /\ treeLock = v => treeLock' = v /\ SameFiles
<1> USE DEF treeVars, tableVars, clientVars, jobVars, evictVars, lockVars,
            Goto, ReplyThen, Done, NoRequest, SetFile, At, Handling, Exec,
            TreeFree
<1> DEFINE Alone == /\ pc'[v] = pc[v] /\ node'[v] = node[v] /\ req'[v] = req[v]
                    /\ after'[v] = after[v] /\ dead'[v] = dead[v]
                    /\ victims'[v] = victims[v]
           Tree == treeLock' = treeLock \/ treeLock # v
<1>a. TypeOK /\ v # NULL /\ WellPlaced(w)
  BY NULLAssumption DEF IInv, Placed
<1>1. ASSUME Find(w) PROVE Alone /\ Tree
  BY <1>a, <1>1 DEF TypeOK, Find, InTree
<1>2. ASSUME AbsentError(w) PROVE Alone /\ Tree
  BY <1>a, <1>2 DEF TypeOK, AbsentError
<1>3. ASSUME AbsentFatal(w) PROVE Alone /\ Tree
  BY <1>a, <1>3 DEF TypeOK, AbsentFatal
<1>4. ASSUME TryUse(w) PROVE Alone /\ Tree
  BY <1>a, <1>4 DEF TypeOK, TryUse
<1>5. ASSUME Park(w) PROVE Alone /\ Tree
  BY <1>a, <1>5 DEF TypeOK, Park
<1>6. ASSUME InsertNew(w) PROVE Alone /\ treeLock # v
  BY <1>a, <1>6 DEF TypeOK, InsertNew, Inserting, InTree
<1>7. ASSUME InsertExists(w) PROVE Alone /\ treeLock # v
  BY <1>a, <1>7 DEF TypeOK, InsertExists, Inserting, InTree
<1>8. ASSUME InsertNoMemory(w) PROVE Alone /\ Tree
  BY <1>a, <1>8 DEF TypeOK, InsertNoMemory, Inserting, InTree
<1>9. ASSUME Opened(w) PROVE Alone /\ Tree
  BY <1>a, <1>9 DEF TypeOK, Opened
<1>10. ASSUME Release(w) PROVE Alone /\ Tree
  BY <1>a, <1>10 DEF TypeOK, Release
<1>11. ASSUME FileDel(w) PROVE Alone /\ Tree
  BY <1>a, <1>11 DEF TypeOK, FileDel
<1>12. ASSUME InformReply(w) PROVE Alone /\ Tree
  BY <1>a, <1>12 DEF TypeOK, InformReply, Informing
<1>13. ASSUME InformAppend(w) PROVE Alone /\ Tree
  BY <1>a, <1>13 DEF TypeOK, InformAppend, Informing
<1>14. ASSUME InformWrite(w) PROVE Alone /\ Tree
  BY <1>a, <1>14 DEF TypeOK, InformWrite, Informing
<1>15. ASSUME InformDone(w) PROVE Alone /\ Tree
  BY <1>a, <1>15 DEF TypeOK, InformDone
<1>16. ASSUME Refuse(w) PROVE Alone /\ Tree
  BY <1>a, <1>16 DEF TypeOK, Refuse, Refused
<1>17. ASSUME OpenFile(w) PROVE Alone /\ Tree
  BY <1>a, <1>17 DEF TypeOK, OpenFile
<1>18. ASSUME SetLock(w) PROVE Alone /\ Tree
  BY <1>a, <1>18 DEF TypeOK, SetLock
<1>19. ASSUME ReadFile(w) PROVE Alone /\ Tree
  BY <1>a, <1>19 DEF TypeOK, ReadFile
<1>20. ASSUME LockFile(w) PROVE Alone /\ Tree
  BY <1>a, <1>20 DEF TypeOK, LockFile
<1>21. ASSUME TableLock(w) PROVE Alone /\ Tree
  BY <1>a, <1>21 DEF TypeOK, TableLock
<1>22. ASSUME UnlockFile(w) PROVE Alone /\ Tree
  BY <1>a, <1>22 DEF TypeOK, UnlockFile
<1>23. ASSUME CloseFile(w) PROVE Alone /\ Tree
  BY <1>a, <1>23 DEF TypeOK, CloseFile
<1>24. ASSUME RemoveFile(w) PROVE Alone /\ Tree
  BY <1>a, <1>24 DEF TypeOK, RemoveFile
<1>25. ASSUME TreeRemove(w) PROVE Alone /\ treeLock # v
  BY <1>a, <1>25 DEF TypeOK, TreeRemove, InTree, Detach
<1>26. ASSUME WriteFile(w) PROVE Alone /\ Tree
  BY <1>a, <1>26 DEF TypeOK, WriteFile
<1>27. ASSUME AppendToFile(w) PROVE Alone /\ Tree
  BY <1>a, <1>27 DEF TypeOK, AppendToFile
<1>28. ASSUME PayloadCut(w) PROVE Alone /\ Tree
  BY <1>a, <1>28 DEF TypeOK, PayloadCut
<1>29. ASSUME Discard(w) PROVE Alone /\ Tree
  BY <1>a, <1>29 DEF TypeOK, Discard
<1>30. ASSUME Payload(w) PROVE Alone /\ Tree
  BY <1>a, <1>30 DEF TypeOK, Payload
<1>31. ASSUME RoomEnough(w) PROVE Alone /\ Tree
  BY <1>a, <1>31 DEF TypeOK, RoomEnough, Store, InTree
<1>32. ASSUME MakeRoom(w) PROVE Alone /\ Tree
  BY <1>a, <1>32 DEF TypeOK, MakeRoom, InTree
<1>33. ASSUME Unmark(w) PROVE Alone /\ Tree
  BY <1>a, <1>33 DEF TypeOK, Unmark
<1>34. ASSUME NoRoom(w) PROVE Alone /\ Tree
  BY <1>a, <1>34 DEF TypeOK, NoRoom, WellPlaced, HasTree, EvictsFiles
<1>35. ASSUME Evict(w) PROVE Alone /\ treeLock # v
  BY <1>a, <1>35 DEF TypeOK, Evict, Detach, WellPlaced, HasTree, EvictsFiles
<1>36. ASSUME Evicted(w) PROVE Alone /\ Tree
  BY <1>a, <1>36 DEF TypeOK, Evicted, Store, WellPlaced, HasTree, EvictsFiles
<1>37. ASSUME Finish(w) PROVE Alone /\ Tree
  BY <1>a, <1>37 DEF TypeOK, Finish
<1>38. ASSUME Reply(w) PROVE Alone /\ Tree
  BY <1>a, <1>38 DEF TypeOK, Reply
<1>39. ASSUME ReadNFiles(w) PROVE Alone /\ Tree
  BY <1>a, <1>39 DEF TypeOK, ReadNFiles, InTree
<1>40. ASSUME NextRequest(w) PROVE Alone /\ Tree
  BY <1>a, <1>40 DEF TypeOK, NextRequest
<1>41. ASSUME NoNextRequest(w) PROVE Alone /\ Tree
  BY <1>a, <1>41 DEF TypeOK, NoNextRequest
<1>42. ASSUME Touch(w) PROVE Alone /\ treeLock # v
  BY <1>a, <1>42 DEF TypeOK, Touch, InTree
<1>43. ASSUME HoldTree(w) PROVE Alone /\ Tree
  BY <1>a, <1>43 DEF TypeOK, HoldTree
<1>44. ASSUME Crash(w) PROVE Alone /\ Tree
  BY <1>a, <1>44 DEF TypeOK, Crash
<1>45. Alone /\ Tree
    BY <1>1, <1>2, <1>3, <1>4, <1>5, <1>6, <1>7, <1>8, <1>9, <1>10, <1>11,
     <1>12, <1>13, <1>14, <1>15, <1>16, <1>17, <1>18, <1>19, <1>20, <1>21,
     <1>22, <1>23, <1>24, <1>25, <1>26, <1>27, <1>28, <1>29, <1>30, <1>31,
     <1>32, <1>33, <1>34, <1>35, <1>36, <1>37, <1>38, <1>39, <1>40, <1>41,
     <1>42, <1>43, <1>44 DEF Step
<1>46. treeLock = v => SameFiles
  BY <1>6, <1>7, <1>25, <1>35, <1>42, StepKeeps DEF Kept
<1> QED
  BY <1>45, <1>46

(* A worker's own step leads it to a place where it has what it needs. *)
LEMMA OwnStep ==
  ASSUME IInv, TypeOK', NEW w \in Workers, Step(w)
  PROVE  WellPlaced(w)'
<1> USE DEF treeVars, tableVars, clientVars, jobVars, evictVars, lockVars,
            Goto, ReplyThen, Done, NoRequest, SetFile, At, Handling, Exec,
            HasNode, HasRequest, HasDead, HasOp, EvictsFiles, HasTree,
            OpenOps, O_CREATE
<1> DEFINE Holds == HasNode(w) /\ HasRequest(w) /\ HasDead(w) /\ HasOp(w)
                               /\ HasTree(w)
           Victims == \/ victims'[w] = {}
                      \/ /\ EvictsFiles(w)' /\ SameFiles
                         /\ victims'[w] \subseteq victims[w]
<1>a. TypeOK /\ WellPlaced(w) /\ FilesAccounted
  BY DEF IInv, Placed
<1>b. Holds /\ HasVictims(w)
  BY <1>a DEF WellPlaced
<1>c. ~EvictsFiles(w) => victims[w] = {}
  BY <1>b DEF HasVictims
<1>e. pc[w] \in {"filedel", "inform", "unmark"} => SameFiles
    BY StepKeeps DEF Kept, InsertNew, InsertExists, Inserting, InTree,
     TreeRemove,
                   Evict, Touch
<1>d. ASSUME Holds', Victims PROVE WellPlaced(w)'
  BY <1>a, <1>b, <1>d DEF WellPlaced, HasVictims, SameFiles, TypeOK
<1>1. CASE Find(w)
  <2>1. Holds'
    BY <1>a, <1>b, <1>1 DEF TypeOK, Find, InTree
  <2>2. Victims
    BY <1>a, <1>b, <1>c, <1>1, <2>1, StepKeeps DEF TypeOK, Find, InTree, Kept
  <2> QED
    BY <1>d, <2>1, <2>2
<1>2. CASE AbsentError(w)
  <2>1. Holds'
    BY <1>a, <1>b, <1>2 DEF TypeOK, AbsentError
  <2>2. Victims
    BY <1>a, <1>b, <1>c, <1>2, <2>1, StepKeeps DEF TypeOK, AbsentError, Kept
  <2> QED
    BY <1>d, <2>1, <2>2
<1>3. CASE AbsentFatal(w)
  <2>1. Holds'
    BY <1>a, <1>b, <1>3 DEF TypeOK, AbsentFatal
  <2>2. Victims
    BY <1>a, <1>b, <1>c, <1>3, <2>1, StepKeeps DEF TypeOK, AbsentFatal, Kept
  <2> QED
    BY <1>d, <2>1, <2>2
<1>4. CASE TryUse(w)
  <2>1. Holds'
    BY <1>a, <1>b, <1>4 DEF TypeOK, TryUse
  <2>2. Victims
    BY <1>a, <1>b, <1>c, <1>4, <2>1, StepKeeps DEF TypeOK, TryUse, Kept
  <2> QED
    BY <1>d, <2>1, <2>2
<1>5. CASE Park(w)
  <2>1. Holds'
    BY <1>a, <1>b, <1>5 DEF TypeOK, Park
  <2>2. Victims
    BY <1>a, <1>b, <1>c, <1>5, <2>1, StepKeeps DEF TypeOK, Park, Kept
  <2> QED
    BY <1>d, <2>1, <2>2
<1>6. CASE InsertNew(w)
  <2>1. Holds'
    <3>1. CASE ~TreeIsFull
      BY <1>a, <1>b, <1>6, <3>1 DEF TypeOK, InsertNew, Inserting, InTree
    <3>2. CASE TreeIsFull
      <4>1. file[ToRemove] # NULL
        BY <1>a, <1>6, <3>2, ToRemoveFacts DEF InsertNew
      <4>2. /\ pc' = [pc EXCEPT ![w] = "filedel"]
            /\ dead' = [dead EXCEPT ![w] = file[ToRemove]]
            /\ UNCHANGED <<node, req, after>>
        BY <1>6, <3>2 DEF InsertNew
      <4> QED
                BY <1>a, <1>b, <1>6, <4>1, <4>2 DEF TypeOK, InsertNew,
           Inserting, InTree
    <3> QED
      BY <3>1, <3>2
  <2>2. Victims
    BY <1>a, <1>b, <1>6, <1>c DEF TypeOK, InsertNew, Inserting, InTree
  <2> QED
    BY <1>d, <2>1, <2>2
<1>7. CASE InsertExists(w)
  <2>1. Holds'
    BY <1>a, <1>b, <1>7 DEF TypeOK, InsertExists, Inserting, InTree
  <2>2. Victims
    BY <1>a, <1>b, <1>7, <1>c DEF TypeOK, InsertExists, Inserting, InTree
  <2> QED
    BY <1>d, <2>1, <2>2
<1>8. CASE InsertNoMemory(w)
  <2>1. Holds'
    BY <1>a, <1>b, <1>8 DEF TypeOK, InsertNoMemory, Inserting, InTree
  <2>2. Victims
        BY <1>a, <1>b, <1>c, <1>8, <2>1, StepKeeps DEF TypeOK,
       InsertNoMemory, Inserting, InTree, Kept
  <2> QED
    BY <1>d, <2>1, <2>2
<1>9. CASE Opened(w)
  <2>1. Holds'
    BY <1>a, <1>b, <1>9 DEF TypeOK, Opened
  <2>2. Victims
    BY <1>a, <1>b, <1>c, <1>9, <2>1, StepKeeps DEF TypeOK, Opened, Kept
  <2> QED
    BY <1>d, <2>1, <2>2
<1>10. CASE Release(w)
  <2>1. Holds'
    BY <1>a, <1>b, <1>10 DEF TypeOK, Release
  <2>2. Victims
    BY <1>a, <1>b, <1>c, <1>10, <2>1, StepKeeps DEF TypeOK, Release, Kept
  <2> QED
    BY <1>d, <2>1, <2>2
<1>11. CASE FileDel(w)
  <2>1. Holds'
    BY <1>a, <1>b, <1>11, AtWork, FileFacts DEF TypeOK, FileDel
  <2>2. Victims
    BY <1>a, <1>b, <1>c, <1>e, <1>11, <2>1 DEF TypeOK, FileDel
  <2> QED
    BY <1>d, <2>1, <2>2
<1>12. CASE InformReply(w)
  <2>1. Holds'
        BY <1>a, <1>b, <1>12, AtWork, FileFacts, QueueFacts DEF TypeOK,
       InformReply, Informing
  <2>2. Victims
    BY <1>a, <1>b, <1>c, <1>e, <1>12, <2>1 DEF TypeOK, InformReply, Informing
  <2> QED
    BY <1>d, <2>1, <2>2
<1>13. CASE InformAppend(w)
  <2>1. Holds'
        BY <1>a, <1>b, <1>13, AtWork, FileFacts, QueueFacts DEF TypeOK,
       InformAppend, Informing
  <2>2. Victims
    BY <1>a, <1>b, <1>c, <1>e, <1>13, <2>1 DEF TypeOK, InformAppend, Informing
  <2> QED
    BY <1>d, <2>1, <2>2
<1>14. CASE InformWrite(w)
  <2>1. Holds'
        BY <1>a, <1>b, <1>14, AtWork, FileFacts, QueueFacts DEF TypeOK,
       InformWrite, Informing
  <2>2. Victims
    BY <1>a, <1>b, <1>c, <1>e, <1>14, <2>1 DEF TypeOK, InformWrite, Informing
  <2> QED
    BY <1>d, <2>1, <2>2
<1>15. CASE InformDone(w)
  <2>1. Holds'
    BY <1>a, <1>b, <1>15 DEF TypeOK, InformDone
  <2>2. Victims
    BY <1>a, <1>b, <1>c, <1>e, <1>15, <2>1 DEF TypeOK, InformDone
  <2> QED
    BY <1>d, <2>1, <2>2
<1>16. CASE Refuse(w)
  <2>1. Holds'
    BY <1>a, <1>b, <1>16 DEF TypeOK, Refuse, Refused
  <2>2. Victims
        BY <1>a, <1>b, <1>c, <1>16, <2>1, StepKeeps DEF TypeOK, Refuse,
       Refused, Kept
  <2> QED
    BY <1>d, <2>1, <2>2
<1>17. CASE OpenFile(w)
  <2>1. Holds'
    BY <1>a, <1>b, <1>17 DEF TypeOK, OpenFile
  <2>2. Victims
    BY <1>a, <1>b, <1>c, <1>17, <2>1, StepKeeps DEF TypeOK, OpenFile, Kept
  <2> QED
    BY <1>d, <2>1, <2>2
<1>18. CASE SetLock(w)
  <2>1. Holds'
    BY <1>a, <1>b, <1>18 DEF TypeOK, SetLock
  <2>2. Victims
    BY <1>a, <1>b, <1>c, <1>18, <2>1, StepKeeps DEF TypeOK, SetLock, Kept
  <2> QED
    BY <1>d, <2>1, <2>2
<1>19. CASE ReadFile(w)
  <2>1. Holds'
    BY <1>a, <1>b, <1>19 DEF TypeOK, ReadFile
  <2>2. Victims
    BY <1>a, <1>b, <1>c, <1>19, <2>1, StepKeeps DEF TypeOK, ReadFile, Kept
  <2> QED
    BY <1>d, <2>1, <2>2
<1>20. CASE LockFile(w)
  <2>1. Holds'
    BY <1>a, <1>b, <1>20 DEF TypeOK, LockFile
  <2>2. Victims
    BY <1>a, <1>b, <1>c, <1>20, <2>1, StepKeeps DEF TypeOK, LockFile, Kept
  <2> QED
    BY <1>d, <2>1, <2>2
<1>21. CASE TableLock(w)
  <2>1. Holds'
    BY <1>a, <1>b, <1>21 DEF TypeOK, TableLock
  <2>2. Victims
    BY <1>a, <1>b, <1>c, <1>21, <2>1, StepKeeps DEF TypeOK, TableLock, Kept
  <2> QED
    BY <1>d, <2>1, <2>2
<1>22. CASE UnlockFile(w)
  <2>1. Holds'
    BY <1>a, <1>b, <1>22 DEF TypeOK, UnlockFile
  <2>2. Victims
    BY <1>a, <1>b, <1>c, <1>22, <2>1, StepKeeps DEF TypeOK, UnlockFile, Kept
  <2> QED
    BY <1>d, <2>1, <2>2
<1>23. CASE CloseFile(w)
  <2>1. Holds'
    BY <1>a, <1>b, <1>23 DEF TypeOK, CloseFile
  <2>2. Victims
    BY <1>a, <1>b, <1>c, <1>23, <2>1, StepKeeps DEF TypeOK, CloseFile, Kept
  <2> QED
    BY <1>d, <2>1, <2>2
<1>24. CASE RemoveFile(w)
  <2>1. Holds'
    BY <1>a, <1>b, <1>24 DEF TypeOK, RemoveFile
  <2>2. Victims
    BY <1>a, <1>b, <1>c, <1>24, <2>1, StepKeeps DEF TypeOK, RemoveFile, Kept
  <2> QED
    BY <1>d, <2>1, <2>2
<1>25. CASE TreeRemove(w)
  <2>1. Holds'
    <3>1. CASE File(w) # NULL
      BY <1>a, <1>b, <1>25, <3>1 DEF TypeOK, TreeRemove, InTree, Detach, File
    <3>2. CASE File(w) = NULL
      BY <1>a, <1>b, <1>25, <3>2 DEF TypeOK, TreeRemove, InTree
    <3> QED
      BY <3>1, <3>2
  <2>2. Victims
    BY <1>a, <1>b, <1>25, <1>c DEF TypeOK, TreeRemove, InTree, Detach
  <2> QED
    BY <1>d, <2>1, <2>2
<1>26. CASE WriteFile(w)
  <2>1. Holds'
    BY <1>a, <1>b, <1>26 DEF TypeOK, WriteFile
  <2>2. Victims
    BY <1>a, <1>b, <1>c, <1>26, <2>1, StepKeeps DEF TypeOK, WriteFile, Kept
  <2> QED
    BY <1>d, <2>1, <2>2
<1>27. CASE AppendToFile(w)
  <2>1. Holds'
    BY <1>a, <1>b, <1>27 DEF TypeOK, AppendToFile
  <2>2. Victims
    BY <1>a, <1>b, <1>c, <1>27, <2>1, StepKeeps DEF TypeOK, AppendToFile, Kept
  <2> QED
    BY <1>d, <2>1, <2>2
<1>28. CASE PayloadCut(w)
  <2>1. Holds'
    BY <1>a, <1>b, <1>28 DEF TypeOK, PayloadCut
  <2>2. Victims
    BY <1>a, <1>b, <1>c, <1>28, <2>1, StepKeeps DEF TypeOK, PayloadCut, Kept
  <2> QED
    BY <1>d, <2>1, <2>2
<1>29. CASE Discard(w)
  <2>1. Holds'
    BY <1>a, <1>b, <1>29 DEF TypeOK, Discard
  <2>2. Victims
    BY <1>a, <1>b, <1>c, <1>29, <2>1, StepKeeps DEF TypeOK, Discard, Kept
  <2> QED
    BY <1>d, <2>1, <2>2
<1>30. CASE Payload(w)
  <2>1. Holds'
    BY <1>a, <1>b, <1>30 DEF TypeOK, Payload
  <2>2. Victims
    BY <1>a, <1>b, <1>c, <1>30, <2>1, StepKeeps DEF TypeOK, Payload, Kept
  <2> QED
    BY <1>d, <2>1, <2>2
<1>31. CASE RoomEnough(w)
  <2>1. Holds'
    BY <1>a, <1>b, <1>31 DEF TypeOK, RoomEnough, Store, InTree
  <2>2. Victims
        BY <1>a, <1>b, <1>c, <1>31, <2>1, StepKeeps DEF TypeOK, RoomEnough,
       Store, InTree, Kept
  <2> QED
    BY <1>d, <2>1, <2>2
<1>32. CASE MakeRoom(w)
  <2> DEFINE S == MakeSpace(0, MissingSpace)
  <2>1. Holds'
    BY <1>a, <1>b, <1>32 DEF TypeOK, MakeRoom, InTree
  <2>2. EvictsFiles(w)'
    BY <1>a, <1>32 DEF TypeOK, MakeRoom
  <2>3. victims'[w] = S /\ file' = Mark(S)
    BY <1>a, <1>32 DEF TypeOK, MakeRoom
  <2>4. S \subseteq Names /\ \A n \in S : file[n] \in ServerFile
    BY <1>a, MakeSpaceFacts DEF TypeOK, FilesAccounted, Live
  <2>5. \A n \in S : file'[n] # NULL
    BY <2>3, <2>4, FileFacts DEF Mark
  <2> QED
    BY <2>1, <2>2, <2>3, <2>5 DEF WellPlaced, HasVictims
<1>33. CASE Unmark(w)
  <2>1. Holds'
    BY <1>a, <1>b, <1>33 DEF TypeOK, Unmark
  <2>2. Victims
    BY <1>a, <1>b, <1>c, <1>e, <1>33, <2>1 DEF TypeOK, Unmark
  <2> QED
    BY <1>d, <2>1, <2>2
<1>34. CASE NoRoom(w)
  <2>1. Holds'
    BY <1>a, <1>b, <1>34 DEF TypeOK, NoRoom
  <2>2. Victims
    BY <1>a, <1>b, <1>c, <1>34, <2>1, StepKeeps DEF TypeOK, NoRoom, Kept
  <2> QED
    BY <1>d, <2>1, <2>2
<1>35. CASE Evict(w)
  <2> DEFINE m == LeastRecent(victims[w])
  <2>1. m \in Names /\ file[m] \in ServerFile /\ file[m] # NULL
    BY <1>a, <1>35, VictimFacts DEF IInv, Evict
  <2>2. Holds'
    BY <1>a, <1>b, <1>35, <2>1 DEF TypeOK, Evict, Detach
  <2>3. EvictsFiles(w)' /\ victims'[w] = victims[w] \ {m}
    BY <1>a, <1>b, <1>35 DEF TypeOK, Evict, Detach
  <2>4. \A n \in Names \ {m} : file'[n] = file[n]
    BY <1>a, <1>35 DEF TypeOK, Evict, Detach
  <2>5. victims[w] \subseteq Names
    BY <1>a DEF TypeOK
  <2> QED
    BY <1>b, <2>2, <2>3, <2>4, <2>5 DEF WellPlaced, HasVictims
<1>36. CASE Evicted(w)
  <2>1. Holds'
    BY <1>a, <1>b, <1>36 DEF TypeOK, Evicted, Store
  <2>2. Victims
        BY <1>a, <1>b, <1>c, <1>36, <2>1, StepKeeps DEF TypeOK, Evicted,
       Store, Kept
  <2> QED
    BY <1>d, <2>1, <2>2
<1>37. CASE Finish(w)
  <2>1. Holds'
    BY <1>a, <1>b, <1>37 DEF TypeOK, Finish
  <2>2. Victims
    BY <1>a, <1>b, <1>c, <1>37, <2>1, StepKeeps DEF TypeOK, Finish, Kept
  <2> QED
    BY <1>d, <2>1, <2>2
<1>38. CASE Reply(w)
  <2>1. Holds'
    BY <1>a, <1>b, <1>38 DEF TypeOK, Reply
  <2>2. Victims
    BY <1>a, <1>b, <1>c, <1>38, <2>1, StepKeeps DEF TypeOK, Reply, Kept
  <2> QED
    BY <1>d, <2>1, <2>2
<1>39. CASE ReadNFiles(w)
  <2>1. Holds'
    BY <1>a, <1>b, <1>39 DEF TypeOK, ReadNFiles, InTree
  <2>2. Victims
        BY <1>a, <1>b, <1>c, <1>39, <2>1, StepKeeps DEF TypeOK, ReadNFiles,
       InTree, Kept
  <2> QED
    BY <1>d, <2>1, <2>2
<1>40. CASE NextRequest(w)
  <2>1. Holds'
    <3>1. node[w] \in Names /\ File(w) \in ServerFile
      BY <1>a, <1>b, <1>40 DEF TypeOK, NextRequest, File
    <3>2. Head(File(w).requestList) \in Request
      BY <1>40, <3>1, QueueFacts DEF NextRequest
    <3>3. req'[w] # NULL
      BY <1>a, <1>40, <3>2, NULLAssumption DEF TypeOK, NextRequest
    <3> QED
      BY <1>a, <1>b, <1>40, <3>3 DEF TypeOK, NextRequest
  <2>2. Victims
    BY <1>a, <1>b, <1>c, <1>40, <2>1, StepKeeps DEF TypeOK, NextRequest, Kept
  <2> QED
    BY <1>d, <2>1, <2>2
<1>41. CASE NoNextRequest(w)
  <2>1. Holds'
    BY <1>a, <1>b, <1>41 DEF TypeOK, NoNextRequest
  <2>2. Victims
        BY <1>a, <1>b, <1>c, <1>41, <2>1, StepKeeps DEF TypeOK,
       NoNextRequest, Kept
  <2> QED
    BY <1>d, <2>1, <2>2
<1>42. CASE Touch(w)
  <2>1. Holds'
    BY <1>a, <1>b, <1>42 DEF TypeOK, Touch, InTree
  <2>2. Victims
    BY <1>a, <1>b, <1>42, <1>c DEF TypeOK, Touch, InTree
  <2> QED
    BY <1>d, <2>1, <2>2
<1>43. CASE HoldTree(w)
  <2>1. Holds'
    BY <1>a, <1>b, <1>43 DEF TypeOK, HoldTree
  <2>2. Victims
    BY <1>a, <1>b, <1>c, <1>43, <2>1 DEF TypeOK, HoldTree, SameFiles
  <2> QED
    BY <1>d, <2>1, <2>2
<1>44. CASE Crash(w)
  <2>1. Holds'
    BY <1>a, <1>b, <1>44 DEF TypeOK, Crash
  <2>2. Victims
    BY <1>a, <1>b, <1>c, <1>44, <2>1 DEF TypeOK, Crash, SameFiles
  <2> QED
    BY <1>d, <2>1, <2>2
<1> QED
    BY <1>1, <1>2, <1>3, <1>4, <1>5, <1>6, <1>7, <1>8, <1>9, <1>10, <1>11,
     <1>12, <1>13, <1>14, <1>15, <1>16, <1>17, <1>18, <1>19, <1>20, <1>21,
     <1>22, <1>23, <1>24, <1>25, <1>26, <1>27, <1>28, <1>29, <1>30, <1>31,
     <1>32, <1>33, <1>34, <1>35, <1>36, <1>37, <1>38, <1>39, <1>40, <1>41,
     <1>42, <1>43, <1>44 DEF Step

(* Every step keeps what the workers have at hand. *)
LEMMA PlacedStep ==
  ASSUME IInv, TypeOK', [Next]_vars
  PROVE  Placed'
<1> USE DEF treeVars, tableVars, clientVars, jobVars, evictVars, lockVars,
            WellPlaced, HasNode, HasRequest, HasDead, HasOp, EvictsFiles,
            HasTree, HasVictims
<1>a. TypeOK /\ Placed
  BY DEF IInv
<1>k. ASSUME NEW v \in Workers, pc'[v] = pc[v], node'[v] = node[v],
             req'[v] = req[v], after'[v] = after[v], dead'[v] = dead[v],
             victims'[v] = victims[v],
             treeLock = v => treeLock' = v /\ SameFiles
      PROVE  WellPlaced(v)'
  BY <1>a, <1>k DEF Placed, SameFiles, TypeOK
<1>1. CASE UNCHANGED vars
  BY <1>k, <1>1 DEF vars, Placed, SameFiles
<1>2. ASSUME NEW c \in Clients, Die(c) PROVE Placed'
  BY <1>k, <1>2 DEF Die, Placed, SameFiles
<1>3. ASSUME NEW w \in Workers, NEW c \in Clients, NEW op \in OpKinds,
             NEW n \in Names, Take(w, c, op, n)
      PROVE  Placed'
  <2>1. ASSUME NEW v \in Workers, v # w PROVE WellPlaced(v)'
    BY <1>a, <1>3, <1>k, <2>1 DEF Take, Goto, SameFiles, TypeOK
  <2>2. WellPlaced(w)'
    <3>1. [client |-> c, op |-> op] # NULL
      BY NULLAssumption DEF Request
    <3> QED
      BY <1>a, <1>3, <3>1 DEF Take, Goto, At, Placed, TypeOK
  <2> QED
    BY <2>1, <2>2 DEF Placed
<1>4. ASSUME NEW w \in Workers, NEW c \in Clients, TakeEOF(w, c) PROVE Placed'
  BY <1>a, <1>4, <1>k, DisconnectFacts DEF TakeEOF, Placed, SameFiles
<1>5. ASSUME NEW w \in Workers, Step(w) PROVE Placed'
  <2>1. ASSUME NEW v \in Workers, v # w PROVE WellPlaced(v)'
    BY <1>5, <1>k, <2>1, OthersKept
  <2> QED
    BY <1>5, <2>1, OwnStep DEF Placed
<1> QED
  BY <1>1, <1>2, <1>3, <1>4, <1>5 DEF Next

-----------------------------------------------------------------------------
(* The theorems *)

LEMMA InitIInv == Init => IInv
<1> SUFFICES ASSUME Init PROVE IInv
  OBVIOUS
<1>1. TypeOK
  <2>1. lru \in Seq(Names) /\ fileCount \in Int /\ filedim \in Int
    BY DEF Init
  <2>2. /\ file \in [Names -> ServerFile \cup {NULL}]
        /\ nodeInUse \in [Clients -> SUBSET Names]
        /\ nodeLocked \in [Clients -> SUBSET Names]
        /\ conn \in [Clients -> {"listening", "served", "closed"}]
        /\ alive \in [Clients -> BOOLEAN]
    BY DEF Init
  <2>3. /\ pc \in [Workers -> PCs]
        /\ node \in [Workers -> Names \cup {NULL}]
        /\ req \in [Workers -> Request \cup {NULL}]
        /\ after \in [Workers -> {"idle", "next", "touch"}]
        /\ victims \in [Workers -> SUBSET Names]
        /\ dead \in [Workers -> ServerFile \cup {NULL}]
    BY DEF Init, PCs
  <2>4. /\ treeLock \in Workers \cup {NULL}
        /\ nodeLock \in [Names -> Workers \cup {NULL}]
        /\ crashed \in BOOLEAN
    BY DEF Init
  <2> QED
    BY <2>1, <2>2, <2>3, <2>4 DEF TypeOK
<1>2. Placed
  BY DEF Init, Placed, WellPlaced, HasNode, HasRequest, HasDead, HasOp,
         EvictsFiles, HasTree, HasVictims
<1>3. FilesAccounted
  <2>1. lru = <<>> /\ ToSet(lru) = {} /\ Live = {}
    BY DEF Init, Live, ToSet
  <2> QED
    BY <2>1, CapacityAssumption DEF Init, FilesAccounted
<1> QED
  BY <1>1, <1>2, <1>3 DEF IInv

(* IInv is an inductive invariant of the server. *)
THEOREM Invariance == Spec => []IInv
<1>1. IInv /\ [Next]_vars => IInv'
  <2> SUFFICES ASSUME IInv, [Next]_vars PROVE IInv'
    OBVIOUS
  <2>1. TypeOK'
    BY TypeStep
  <2> QED
    BY <2>1, PlacedStep, AccountedStep DEF IInv
<1> QED
  BY <1>1, InitIInv, PTL DEF Spec

(* Type correctness: whatever the workers interleave, the variables of the *)
(* file server keep their types, so no handler runs without its node or    *)
(* its request (manageRequest).                                            *)
THEOREM TypeCorrect == Spec => []TypeOK
<1>1. IInv => TypeOK
  BY DEF IInv
<1> QED
  BY <1>1, Invariance, PTL

(* The accounts of the tree (tree.c: TreeFileinsert, TreeFileRemove,       *)
(* moveToFrontLRU, makeSpace) agree with what it stores in every reachable *)
(* state: for any number of workers, clients and names the LRU list holds  *)
(* each stored file exactly once, fileCount is its length, and never more  *)
(* files are stored than configured.                                       *)
THEOREM FilesAreCounted == Spec => []FilesAccounted
<1>1. IInv => FilesAccounted
  BY DEF IInv
<1> QED
  BY <1>1, Invariance, PTL

-----------------------------------------------------------------------------
(* Sums over finite sets *)

(* Of a non-empty collection of finite sets, one is minimal.               *)
LEMMA MinimalSet ==
  ASSUME NEW Bad, Bad # {}, \A s \in Bad : IsFiniteSet(s)
  PROVE  \E s \in Bad : \A x \in s : s \ {x} \notin Bad
<1> DEFINE Sizes == {Cardinality(s) : s \in Bad}
<1>1. Sizes \in SUBSET Nat /\ Sizes # {}
  <2>1. \A s \in Bad : Cardinality(s) \in Nat
    BY FS_CardinalityType
  <2> QED
    BY <2>1
<1>2. PICK s \in Bad : \A k \in Sizes : Cardinality(s) <= k
  <2>1. Min(Sizes) \in Sizes /\ \A k \in Sizes : Min(Sizes) <= k
    BY <1>1, MinInSet
  <2> QED
    BY <2>1
<1>3. ASSUME NEW x \in s PROVE s \ {x} \notin Bad
  <2>1. Cardinality(s \ {x}) = Cardinality(s) - 1 /\ Cardinality(s) \in Nat
    BY FS_RemoveElement, FS_CardinalityType
  <2> QED
    BY <1>2, <2>1
<1> QED
  BY <1>3

(* The sum that Bytes computes, as the value of a recursive function.      *)
Pick(s) == CHOOSE x \in s : TRUE
Adding(g, S, f) ==
  f = [s \in SUBSET S |->
         IF s = {} THEN 0 ELSE g[Pick(s)].dim + f[s \ {Pick(s)}]]
Sum(g, S) == (CHOOSE f : Adding(g, S, f))[S]

LEMMA BytesAreSum == ASSUME NEW S PROVE Bytes(S) = Sum(file, S)
BY DEF Bytes, MapThenSumSet, MapThenFoldSet, Sum, Adding, Pick

LEMMA AddingPart ==
  ASSUME NEW g, NEW S, NEW f, Adding(g, S, f), NEW T \in SUBSET S
  PROVE  Adding(g, T, [s \in SUBSET T |-> f[s]])
<1> DEFINE h == [s \in SUBSET T |-> f[s]]
<1>1. \A s \in SUBSET S :
        f[s] = IF s = {} THEN 0 ELSE g[Pick(s)].dim + f[s \ {Pick(s)}]
  BY DEF Adding
<1>2. ASSUME NEW s \in SUBSET T
      PROVE  h[s] = IF s = {} THEN 0 ELSE g[Pick(s)].dim + h[s \ {Pick(s)}]
  <2>1. s \in SUBSET S /\ s \ {Pick(s)} \in SUBSET T
    OBVIOUS
  <2> QED
    BY <1>1, <2>1
<1> QED
  BY <1>2 DEF Adding

LEMMA AddingUnique ==
  ASSUME NEW g, NEW S, IsFiniteSet(S),
         NEW f, Adding(g, S, f), NEW h, Adding(g, S, h)
  PROVE  f = h
<1> DEFINE Bad == {s \in SUBSET S : f[s] # h[s]}
<1>1. \A s \in SUBSET S :
        /\ f[s] = IF s = {} THEN 0 ELSE g[Pick(s)].dim + f[s \ {Pick(s)}]
        /\ h[s] = IF s = {} THEN 0 ELSE g[Pick(s)].dim + h[s \ {Pick(s)}]
  BY DEF Adding
<1>2. Bad = {}
  <2> SUFFICES ASSUME Bad # {} PROVE FALSE
    OBVIOUS
  <2>1. \A s \in Bad : IsFiniteSet(s)
    BY FS_Subset
  <2>2. PICK s \in Bad : \A x \in s : s \ {x} \notin Bad
    BY <2>1, MinimalSet
  <2>3. s # {}
    BY <1>1
  <2>4. Pick(s) \in s
    BY <2>3 DEF Pick
  <2>5. f[s \ {Pick(s)}] = h[s \ {Pick(s)}]
    BY <2>2, <2>4
  <2> QED
    BY <1>1, <2>5
<1>3. f = [s \in SUBSET S |-> f[s]] /\ h = [s \in SUBSET S |-> h[s]]
  BY DEF Adding
<1> QED
  BY <1>2, <1>3

(* One step of the recursion, where the function is known to exist.        *)
LEMMA SumUnfolds ==
  ASSUME NEW g, NEW S, IsFiniteSet(S), \E f : Adding(g, S, f)
  PROVE  Sum(g, S) = IF S = {} THEN 0
                     ELSE g[Pick(S)].dim + Sum(g, S \ {Pick(S)})
<1> DEFINE F == CHOOSE f : Adding(g, S, f)
           T == S \ {Pick(S)}
           H == CHOOSE f : Adding(g, T, f)
           part == [s \in SUBSET T |-> F[s]]
<1>1. Adding(g, S, F)
  OBVIOUS
<1>2. Adding(g, T, part)
  BY <1>1, AddingPart
<1>3. Adding(g, T, H)
  BY <1>2
<1>4. part = H
  <2>1. IsFiniteSet(T)
    BY FS_RemoveElement
  <2> QED
    BY <1>2, <1>3, <2>1, AddingUnique
<1>5. F[T] = H[T]
  <2>1. T \in SUBSET T
    OBVIOUS
  <2> QED
    BY <1>4, <2>1
<1>6. F[S] = IF S = {} THEN 0 ELSE g[Pick(S)].dim + F[T]
  <2>1. S \in SUBSET S
    OBVIOUS
  <2> HIDE DEF F
  <2> QED
    BY <1>1, <2>1 DEF Adding
<1>7. Sum(g, S) = F[S] /\ Sum(g, T) = H[T]
  BY DEF Sum
<1> QED
  BY <1>5, <1>6, <1>7

LEMMA AddingExists ==
  ASSUME NEW g, NEW S, IsFiniteSet(S)
  PROVE  \E f : Adding(g, S, f)
<1> DEFINE Has(T) == \E f : Adding(g, T, f)
           Bad == {T \in SUBSET S : ~Has(T)}
<1> SUFFICES ASSUME Bad # {} PROVE FALSE
  OBVIOUS
<1>1. \A T \in Bad : IsFiniteSet(T)
  BY FS_Subset
<1>2. PICK T \in Bad : \A x \in T : T \ {x} \notin Bad
  BY <1>1, MinimalSet
<1>3. ASSUME NEW s \in SUBSET T, s # T PROVE Has(s) /\ IsFiniteSet(s)
  <2>1. PICK x \in T : x \notin s
    BY <1>3
  <2>2. T \ {x} \in SUBSET S /\ T \ {x} \notin Bad
    BY <1>2
  <2>3. PICK f : Adding(g, T \ {x}, f)
    BY <2>2
  <2>4. s \in SUBSET (T \ {x})
    BY <2>1
  <2>5. IsFiniteSet(s)
    BY FS_Subset, <1>1
  <2> QED
    BY <2>3, <2>4, <2>5, AddingPart
<1> DEFINE G == [s \in SUBSET T |->
                   IF s = {} THEN 0 ELSE g[Pick(s)].dim + Sum(g, s \ {Pick(s)})]
<1>4. ASSUME NEW s \in SUBSET T, s # T PROVE G[s] = Sum(g, s)
  <2>1. Has(s) /\ IsFiniteSet(s)
    BY <1>3, <1>4
  <2> QED
    BY <2>1, SumUnfolds
<1>5. ASSUME NEW s \in SUBSET T, s # {}
      PROVE  G[s \ {Pick(s)}] = Sum(g, s \ {Pick(s)})
  <2>1. Pick(s) \in s
    BY <1>5 DEF Pick
  <2>2. s \ {Pick(s)} \in SUBSET T /\ s \ {Pick(s)} # T
    BY <2>1
  <2> QED
    BY <1>4, <2>2
<1>6. Adding(g, T, G)
  <2> DEFINE K == [s \in SUBSET T |->
                     IF s = {} THEN 0 ELSE g[Pick(s)].dim + G[s \ {Pick(s)}]]
  <2>1. \A s \in SUBSET T : G[s] = K[s]
    <3> SUFFICES ASSUME NEW s \in SUBSET T PROVE G[s] = K[s]
      OBVIOUS
    <3>1. CASE s = {}
      BY <3>1
    <3>2. CASE s # {}
      BY <1>5, <3>2
    <3> QED
      BY <3>1, <3>2
  <2>2. G = K
    BY <2>1
  <2> QED
    BY <2>2 DEF Adding
<1> QED
  BY <1>2, <1>6

(* The recursion of the sum, for every finite set. *)
LEMMA SumStep ==
  ASSUME NEW g, NEW S, IsFiniteSet(S)
  PROVE  Sum(g, S) = IF S = {} THEN 0
                     ELSE g[Pick(S)].dim + Sum(g, S \ {Pick(S)})
BY AddingExists, SumUnfolds

LEMMA SumEmpty == ASSUME NEW g PROVE Sum(g, {}) = 0
BY SumStep, FS_EmptySet

LEMMA SumNat ==
  ASSUME NEW g, NEW S, IsFiniteSet(S), \A x \in S : g[x].dim \in Nat
  PROVE  Sum(g, S) \in Nat
<1> DEFINE Bad == {T \in SUBSET S : Sum(g, T) \notin Nat}
<1> SUFFICES ASSUME Bad # {} PROVE FALSE
  OBVIOUS
<1>1. \A T \in Bad : IsFiniteSet(T)
  BY FS_Subset
<1>2. PICK T \in Bad : \A x \in T : T \ {x} \notin Bad
  BY <1>1, MinimalSet
<1>3. T # {}
  BY SumEmpty
<1>4. Pick(T) \in T
  BY <1>3 DEF Pick
<1>5. Sum(g, T \ {Pick(T)}) \in Nat /\ g[Pick(T)].dim \in Nat
  BY <1>2, <1>4
<1>6. Sum(g, T) = g[Pick(T)].dim + Sum(g, T \ {Pick(T)})
  BY <1>1, <1>3, SumStep
<1> QED
  BY <1>5, <1>6

(* The sum depends on the dims only. *)
LEMMA SumSame ==
  ASSUME NEW g, NEW h, NEW S, IsFiniteSet(S), \A x \in S : g[x].dim = h[x].dim
  PROVE  Sum(g, S) = Sum(h, S)
<1> DEFINE Bad == {T \in SUBSET S : Sum(g, T) # Sum(h, T)}
<1> SUFFICES ASSUME Bad # {} PROVE FALSE
  OBVIOUS
<1>1. \A T \in Bad : IsFiniteSet(T)
  BY FS_Subset
<1>2. PICK T \in Bad : \A x \in T : T \ {x} \notin Bad
  BY <1>1, MinimalSet
<1>3. T # {}
  BY SumEmpty
<1>4. Pick(T) \in T
  BY <1>3 DEF Pick
<1>5. Sum(g, T \ {Pick(T)}) = Sum(h, T \ {Pick(T)})
  BY <1>2, <1>4
<1>6. /\ Sum(g, T) = g[Pick(T)].dim + Sum(g, T \ {Pick(T)})
      /\ Sum(h, T) = h[Pick(T)].dim + Sum(h, T \ {Pick(T)})
  BY <1>1, <1>3, SumStep
<1> QED
  BY <1>4, <1>5, <1>6

(* Any element can be taken out first. *)
LEMMA SumWithout ==
  ASSUME NEW g, NEW S, IsFiniteSet(S), \A x \in S : g[x].dim \in Nat,
         NEW a \in S
  PROVE  Sum(g, S) = g[a].dim + Sum(g, S \ {a})
<1> DEFINE Bad == {T \in SUBSET S : \E x \in T : Sum(g, T) # g[x].dim + Sum(g, T \ {x})}
<1> SUFFICES ASSUME Bad # {} PROVE FALSE
  OBVIOUS
<1>1. \A T \in Bad : IsFiniteSet(T)
  BY FS_Subset
<1>2. PICK T \in Bad : \A x \in T : T \ {x} \notin Bad
  BY <1>1, MinimalSet
<1>3. PICK x \in T : Sum(g, T) # g[x].dim + Sum(g, T \ {x})
  OBVIOUS
<1> DEFINE p == Pick(T)
<1>4. p \in T /\ IsFiniteSet(T)
  BY <1>1, <1>3 DEF Pick
<1>5. Sum(g, T) = g[p].dim + Sum(g, T \ {p})
  BY <1>1, <1>3, SumStep
<1> HIDE DEF p
<1>6. x # p
  BY <1>3, <1>5
<1>7. Sum(g, T \ {p}) = g[x].dim + Sum(g, (T \ {p}) \ {x})
  BY <1>2, <1>4, <1>6
<1>8. Sum(g, T \ {x}) = g[p].dim + Sum(g, (T \ {x}) \ {p})
  BY <1>2, <1>4, <1>6
<1>9. (T \ {p}) \ {x} = (T \ {x}) \ {p}
  OBVIOUS
<1> DEFINE U == (T \ {x}) \ {p}
<1>10. Sum(g, U) \in Nat /\ g[x].dim \in Nat /\ g[p].dim \in Nat
  <2>1. IsFiniteSet(U)
    BY <1>4, FS_RemoveElement
  <2>2. Sum(g, U) \in Nat
    BY <2>1, SumNat
  <2> QED
    BY <1>4, <2>2
<1> DEFINE dx == g[x].dim
           dp == g[p].dim
           rest == Sum(g, U)
<1>11. /\ Sum(g, T) = dp + Sum(g, T \ {p}) /\ Sum(g, T \ {p}) = dx + rest
       /\ Sum(g, T \ {x}) = dp + rest /\ Sum(g, T) # dx + Sum(g, T \ {x})
  BY <1>3, <1>5, <1>7, <1>8, <1>9
<1>12. dx \in Nat /\ dp \in Nat /\ rest \in Nat
  BY <1>10
<1> HIDE DEF dx, dp, rest
<1> QED
  BY <1>11, <1>12

-----------------------------------------------------------------------------
(* What the steps do to the stored bytes *)

(* Only a write changes the size of a file. *)
LEMMA FileDims ==
  ASSUME NEW f \in ServerFile
  PROVE  /\ f.dim \in Nat
         /\ Released(f).dim = f.dim /\ Written(f).dim = f.dim
         /\ Unlocked(f).dim = f.dim
         /\ [f EXCEPT !.flagUse = TRUE].dim = f.dim
         /\ [f EXCEPT !.requestList = Tail(@)].dim = f.dim
         /\ \A c \in Clients :
              /\ Locked(f, c).dim = f.dim
              /\ \A b \in BOOLEAN : Forgotten(f, c, b).dim = f.dim
              /\ [Written(f) EXCEPT !.openList = @ \cup {c}].dim = f.dim
              /\ [Written(f) EXCEPT !.openList = @ \ {c}].dim = f.dim
              /\ Unlocked([Written(f) EXCEPT !.openList = @ \ {c}]).dim = f.dim
              /\ Unlocked(Written(f)).dim = f.dim
         /\ \A r \in Request : Parked(f, r).dim = f.dim
BY DEF ServerFile, Released, Written, Unlocked, Locked, Forgotten, Parked

SameDims == /\ SameFiles
            /\ \A n \in Names : file[n] # NULL => file'[n].dim = file[n].dim
SameBytes == SameDims /\ filedim' = filedim

LEMMA DisconnectDims ==
  ASSUME TypeOK, NEW w \in Workers, NEW c \in Clients, DisconnectClient(w, c)
  PROVE  SameDims
<1>1. ASSUME NEW n \in Names, file[n] # NULL PROVE file'[n].dim = file[n].dim
  <2>1. file[n] \in ServerFile
    BY <1>1 DEF TypeOK
  <2>2. (n \in nodeLocked[c]) \in BOOLEAN
    OBVIOUS
  <2>3. Forgotten(file[n], c, n \in nodeLocked[c]).dim = file[n].dim
    BY <2>1 DEF Forgotten, ServerFile
  <2> QED
    BY <1>1, <2>3 DEF DisconnectClient
<1> QED
  BY <1>1, DisconnectFacts DEF SameDims, SameFiles

LEMMA SendDims ==
  ASSUME TypeOK, NEW w \in Workers, NEW c \in Clients, SendClientResult(w, c)
  PROVE  SameDims
<1>1. CASE DisconnectClient(w, c)
  BY <1>1, DisconnectDims
<1>2. CASE UNCHANGED file
  BY <1>2 DEF SameDims, SameFiles
<1> QED
  BY <1>1, <1>2 DEF SendClientResult

LEMMA MarkDims ==
  ASSUME TypeOK, NEW S, \A n \in S : file[n] \in ServerFile, file' = Mark(S)
  PROVE  SameDims
<1>1. ASSUME NEW n \in Names
      PROVE  /\ file'[n] = NULL <=> file[n] = NULL
             /\ file[n] # NULL => file'[n].dim = file[n].dim
  <2>1. CASE n \in S
    <3>1. file[n] \in ServerFile /\ file'[n] = [file[n] EXCEPT !.flagUse = TRUE]
      BY <2>1 DEF Mark
    <3> QED
      BY <3>1, FileFacts, FileDims
  <2>2. CASE n \notin S
    BY <2>2 DEF Mark
  <2> QED
    BY <2>1, <2>2
<1> QED
  BY <1>1 DEF SameDims, SameFiles

(* The sizes and their sum change where a file is stored, removed or       *)
(* written only.                                                           *)
LEMMA StepKeepsBytes ==
  ASSUME IInv, NEW w \in Workers, Step(w),
         ~InsertNew(w), ~TreeRemove(w), ~RoomEnough(w), ~Evict(w), ~Evicted(w)
  PROVE  SameBytes
<1> USE DEF treeVars, tableVars, clientVars, jobVars, evictVars, lockVars,
            SetFile, At, Handling, Exec, SameBytes
<1>a. TypeOK /\ Placed /\ FilesAccounted
  BY DEF IInv
<1>1. CASE UNCHANGED <<file, filedim>>
  BY <1>1 DEF SameDims, SameFiles
<1>2. ASSUME NEW n \in Names, NEW f \in ServerFile, file[n] \in ServerFile,
             f.dim = file[n].dim, SetFile(n, f), UNCHANGED filedim
      PROVE  SameBytes
  BY <1>a, <1>2, FileFacts DEF TypeOK, SameDims, SameFiles
<1>3. CASE Find(w)
  BY <1>1, <1>3 DEF Find
<1>4. CASE AbsentError(w)
  BY <1>1, <1>4 DEF AbsentError
<1>5. CASE AbsentFatal(w)
  <2>1. Client(w) \in Clients
    BY <1>a, <1>5, AtWork DEF AbsentFatal
  <2> QED
    BY <1>a, <1>5, <2>1, DisconnectDims DEF AbsentFatal
<1>6. CASE TryUse(w)
  <2>1. node[w] \in Names /\ File(w) \in ServerFile
    BY <1>a, <1>6, AtWork DEF TryUse
  <2>2. PICK f \in ServerFile : SetFile(node[w], f) /\ f.dim = File(w).dim
    BY <1>a, <1>6, <2>1, AtWork, FileFacts, FileDims DEF TryUse
  <2> QED
    BY <1>2, <1>6, <2>1, <2>2 DEF TryUse, File
<1>7. CASE Park(w)
  <2>1. node[w] \in Names /\ File(w) \in ServerFile /\ Client(w) \in Clients
        /\ req[w] \in Request
    BY <1>a, <1>7, AtWork DEF Park
  <2> DEFINE f == File(w)
             g == Parked(f, req[w])
  <2>2. g \in ServerFile /\ g.dim = f.dim
    BY <2>1, FileFacts, FileDims
  <2> QED
    BY <1>2, <1>7, <2>1, <2>2 DEF Park, File
<1>8. CASE InsertExists(w)
  <2>1. CASE ~TreeIsFull
    BY <1>1, <1>8, <2>1 DEF InsertExists
  <2>2. CASE TreeIsFull
    <3>1. file[ToRemove] \in ServerFile
      BY <1>a, <1>8, <2>2, ToRemoveFacts DEF InsertExists
    <3>2. file' = Mark({ToRemove}) /\ UNCHANGED filedim
      BY <1>8, <2>2 DEF InsertExists
    <3> QED
      BY <1>a, <3>1, <3>2, MarkDims
  <2> QED
    BY <2>1, <2>2
<1>9. CASE InsertNoMemory(w)
  BY <1>1, <1>9 DEF InsertNoMemory
<1>10. CASE Opened(w)
  BY <1>1, <1>10 DEF Opened
<1>11. CASE Release(w)
  <2>1. node[w] \in Names /\ File(w) \in ServerFile
    BY <1>a, <1>11, AtWork DEF Release
  <2>2. PICK f \in ServerFile : SetFile(node[w], f) /\ f.dim = File(w).dim
    BY <1>a, <1>11, <2>1, AtWork, FileFacts, FileDims DEF Release
  <2> QED
    BY <1>2, <1>11, <2>1, <2>2 DEF Release, File
<1>12. CASE FileDel(w)
  BY <1>1, <1>12 DEF FileDel
<1>13. CASE InformReply(w)
  <2>1. dead[w] \in ServerFile /\ dead[w].requestList # <<>>
    BY <1>a, <1>13, AtWork DEF InformReply, Informing
  <2>2. Head(dead[w].requestList).client \in Clients
    BY <2>1, QueueFacts
  <2> QED
    BY <1>a, <1>13, <2>2, SendDims DEF InformReply, Informing
<1>14. CASE InformAppend(w)
  <2>1. dead[w] \in ServerFile /\ dead[w].requestList # <<>>
    BY <1>a, <1>14, AtWork DEF InformAppend, Informing
  <2>2. Head(dead[w].requestList).client \in Clients
    BY <2>1, QueueFacts
  <2> QED
    BY <1>a, <1>14, <2>2, DisconnectDims DEF InformAppend, Informing
<1>15. CASE InformWrite(w)
  BY <1>1, <1>15 DEF InformWrite, Informing
<1>16. CASE InformDone(w)
  BY <1>1, <1>16 DEF InformDone
<1>17. CASE Refuse(w)
  BY <1>1, <1>17 DEF Refuse
<1>18. CASE OpenFile(w)
  <2>1. node[w] \in Names /\ File(w) \in ServerFile /\ Client(w) \in Clients
        /\ req[w] \in Request
    BY <1>a, <1>18, AtWork DEF OpenFile
  <2> DEFINE f == File(w)
             g == [Written(f) EXCEPT !.openList = @ \cup {Client(w)}]
  <2>2. g \in ServerFile /\ g.dim = f.dim
    <3>1. Written(f) \in ServerFile
      BY <2>1, FileFacts
    <3> QED
      BY <2>1, <3>1, FileFacts, FileDims
  <2> QED
    BY <1>2, <1>18, <2>1, <2>2 DEF OpenFile, File
<1>19. CASE SetLock(w)
  <2>1. node[w] \in Names /\ File(w) \in ServerFile /\ Client(w) \in Clients
        /\ req[w] \in Request
    BY <1>a, <1>19, AtWork DEF SetLock
  <2> DEFINE f == File(w)
             g == Locked(f, Client(w))
  <2>2. g \in ServerFile /\ g.dim = f.dim
    BY <2>1, FileFacts, FileDims
  <2> QED
    BY <1>2, <1>19, <2>1, <2>2 DEF SetLock, File
<1>20. CASE ReadFile(w)
  BY <1>1, <1>20 DEF ReadFile
<1>21. CASE LockFile(w)
  <2>1. node[w] \in Names /\ File(w) \in ServerFile /\ Client(w) \in Clients
        /\ req[w] \in Request
    BY <1>a, <1>21, AtWork DEF LockFile
  <2> DEFINE f == File(w)
             g == Locked(f, Client(w))
  <2>2. g \in ServerFile /\ g.dim = f.dim
    BY <2>1, FileFacts, FileDims
  <2> QED
    BY <1>2, <1>21, <2>1, <2>2 DEF LockFile, File
<1>22. CASE TableLock(w)
  BY <1>1, <1>22 DEF TableLock
<1>23. CASE UnlockFile(w)
  <2>1. node[w] \in Names /\ File(w) \in ServerFile
    BY <1>a, <1>23, AtWork DEF UnlockFile
  <2>2. PICK f \in ServerFile : SetFile(node[w], f) /\ f.dim = File(w).dim
    BY <1>a, <1>23, <2>1, AtWork, FileFacts, FileDims DEF UnlockFile
  <2> QED
    BY <1>2, <1>23, <2>1, <2>2 DEF UnlockFile, File
<1>24. CASE CloseFile(w)
  <2>1. node[w] \in Names /\ File(w) \in ServerFile /\ Client(w) \in Clients
    BY <1>a, <1>24, AtWork DEF CloseFile
  <2> DEFINE f == File(w)
             g == [Written(f) EXCEPT !.openList = @ \ {Client(w)}]
  <2>2. /\ g \in ServerFile /\ g.dim = f.dim
        /\ Unlocked(g) \in ServerFile /\ Unlocked(g).dim = f.dim
    <3>1. Written(f) \in ServerFile
      BY <2>1, FileFacts
    <3>2. g \in ServerFile
      BY <2>1, <3>1, FileFacts
    <3> QED
      BY <2>1, <3>2, FileFacts, FileDims
  <2>3. (SetFile(node[w], g) \/ SetFile(node[w], Unlocked(g))) /\ UNCHANGED filedim
    BY <1>24 DEF CloseFile
  <2> QED
    BY <1>2, <2>1, <2>2, <2>3 DEF File
<1>25. CASE RemoveFile(w)
  BY <1>1, <1>25 DEF RemoveFile
<1>26. CASE WriteFile(w)
  <2>1. node[w] \in Names /\ File(w) \in ServerFile
    BY <1>a, <1>26, AtWork DEF WriteFile
  <2>2. PICK f \in ServerFile : SetFile(node[w], f) /\ f.dim = File(w).dim
    BY <1>a, <1>26, <2>1, AtWork, FileFacts, FileDims DEF WriteFile
  <2> QED
    BY <1>2, <1>26, <2>1, <2>2 DEF WriteFile, File
<1>27. CASE AppendToFile(w)
  <2>1. node[w] \in Names /\ File(w) \in ServerFile
    BY <1>a, <1>27, AtWork DEF AppendToFile
  <2>2. PICK f \in ServerFile : SetFile(node[w], f) /\ f.dim = File(w).dim
    BY <1>a, <1>27, <2>1, AtWork, FileFacts, FileDims DEF AppendToFile
  <2> QED
    BY <1>2, <1>27, <2>1, <2>2 DEF AppendToFile, File
<1>28. CASE PayloadCut(w)
  <2>1. Client(w) \in Clients
    BY <1>a, <1>28, AtWork DEF PayloadCut
  <2> QED
    BY <1>a, <1>28, <2>1, DisconnectDims DEF PayloadCut
<1>29. CASE Discard(w)
  BY <1>1, <1>29 DEF Discard
<1>30. CASE Payload(w)
  BY <1>1, <1>30 DEF Payload
<1>31. CASE MakeRoom(w)
  <2> DEFINE S == MakeSpace(0, MissingSpace)
  <2>1. S \subseteq ToSet(lru)
    BY <1>a, MakeSpaceFacts DEF TypeOK
  <2>2. \A m \in S : file[m] \in ServerFile
    BY <1>a, <2>1 DEF TypeOK, FilesAccounted, Live
  <2>3. file' = Mark(S) /\ UNCHANGED filedim
    BY <1>31 DEF MakeRoom
  <2> QED
    BY <1>a, <2>2, <2>3, MarkDims
<1>32. CASE Unmark(w)
  <2> DEFINE m == LeastRecent(victims[w])
  <2>1. m \in Names /\ file[m] \in ServerFile
    BY <1>a, <1>32, VictimFacts DEF Unmark
  <2>2. Released(file[m]) \in ServerFile /\ Released(file[m]).dim = file[m].dim
    BY <2>1, FileFacts, FileDims
  <2> QED
    BY <1>2, <1>32, <2>1, <2>2 DEF Unmark
<1>33. CASE NoRoom(w)
  BY <1>1, <1>33 DEF NoRoom
<1>34. CASE Finish(w)
  <2>1. node[w] \in Names /\ File(w) \in ServerFile
    BY <1>a, <1>34, AtWork DEF Finish
  <2>2. PICK f \in ServerFile : SetFile(node[w], f) /\ f.dim = File(w).dim
    BY <1>a, <1>34, <2>1, AtWork, FileFacts, FileDims DEF Finish
  <2> QED
    BY <1>2, <1>34, <2>1, <2>2 DEF Finish, File
<1>35. CASE Reply(w)
  <2>1. Client(w) \in Clients
    BY <1>a, <1>35, AtWork DEF Reply
  <2> QED
    BY <1>a, <1>35, <2>1, SendDims DEF Reply
<1>36. CASE ReadNFiles(w)
  BY <1>1, <1>36 DEF ReadNFiles
<1>37. CASE NextRequest(w)
  <2>1. node[w] \in Names /\ File(w) \in ServerFile
    BY <1>a, <1>37, AtWork DEF NextRequest
  <2>2. PICK f \in ServerFile : SetFile(node[w], f) /\ f.dim = File(w).dim
    BY <1>a, <1>37, <2>1, AtWork, FileFacts, FileDims, QueueFacts DEF NextRequest
  <2> QED
    BY <1>2, <1>37, <2>1, <2>2 DEF NextRequest, File
<1>38. CASE NoNextRequest(w)
  <2>1. node[w] \in Names /\ File(w) \in ServerFile
    BY <1>a, <1>38, AtWork DEF NoNextRequest
  <2>2. PICK f \in ServerFile : SetFile(node[w], f) /\ f.dim = File(w).dim
    BY <1>a, <1>38, <2>1, AtWork, FileFacts, FileDims DEF NoNextRequest
  <2> QED
    BY <1>2, <1>38, <2>1, <2>2 DEF NoNextRequest, File
<1>39. CASE Touch(w)
  BY <1>1, <1>39 DEF Touch
<1>40. CASE HoldTree(w)
  BY <1>1, <1>40 DEF HoldTree
<1>41. CASE Crash(w)
  BY <1>1, <1>41 DEF Crash
<1> QED
  BY <1>3, <1>4, <1>5, <1>6, <1>7, <1>8, <1>9, <1>10, <1>11, <1>12, <1>13,
     <1>14, <1>15, <1>16, <1>17, <1>18, <1>19, <1>20, <1>21, <1>22, <1>23,
     <1>24, <1>25, <1>26, <1>27, <1>28, <1>29, <1>30, <1>31, <1>32, <1>33,
     <1>34, <1>35, <1>36, <1>37, <1>38, <1>39, <1>40, <1>41 DEF Step

-----------------------------------------------------------------------------
(* The inductive invariant *)

(* A worker that evicts for a write, and what it still has to remove. *)
MakesRoom(w) ==
  \/ pc[w] = "evict"
  \/ pc[w] \in {"filedel", "inform"} /\ req[w].op \in {"WRITE", "APPEND"}
RoomComing == \A w \in Workers : MakesRoom(w) => MissingSpace <= Bytes(victims[w])
BytesInv == BytesAccounted /\ RoomComing

(* The stored files are finitely many. *)
LEMMA LiveFinite ==
  ASSUME lru \in Seq(Names), ToSet(lru) = Live
  PROVE  IsFiniteSet(Live)
<1>1. Len(lru) \in Nat /\ IsFiniteSet(1..Len(lru))
  BY FS_Interval
<1>2. lru \in Surjection(1..Len(lru), Live)
  BY DEF ToSet, Surjection
<1> QED
  BY <1>1, <1>2, FS_Surjection

LEMMA StoredBytes ==
  ASSUME IInv
  PROVE  /\ IsFiniteSet(Live) /\ \A n \in Live : file[n].dim \in Nat
         /\ \A w \in Workers : victims[w] \in SUBSET Live
         /\ filedim \in Int
<1>1. IsFiniteSet(Live)
  BY LiveFinite DEF IInv, TypeOK, FilesAccounted
<1>2. ASSUME NEW n \in Live PROVE file[n].dim \in Nat
  <2>1. file[n] \in ServerFile
    BY DEF Live, IInv, TypeOK
  <2> QED
    BY <2>1, FileDims
<1>3. ASSUME NEW w \in Workers PROVE victims[w] \in SUBSET Live
  BY DEF IInv, TypeOK, Placed, WellPlaced, HasVictims, Live
<1> QED
  BY <1>1, <1>2, <1>3 DEF IInv, TypeOK

(* Bytes in the next state, of the sets the proof speaks of. *)
LEMMA NextLiveBytes == Bytes(Live)' = Sum(file', Live')
BY DEF Bytes, MapThenSumSet, MapThenFoldSet, Sum, Adding, Pick

LEMMA NextVictimBytes ==
  ASSUME NEW w PROVE Bytes(victims[w])' = Sum(file', victims'[w])
BY DEF Bytes, MapThenSumSet, MapThenFoldSet, Sum, Adding, Pick

(* Where no size changes, no sum does. *)
LEMMA SameSums ==
  ASSUME IInv, SameDims, NEW S \in SUBSET Live
  PROVE  Sum(file', S) = Sum(file, S)
<1>1. IsFiniteSet(S)
  BY StoredBytes, FS_Subset
<1>2. \A n \in S : file'[n].dim = file[n].dim
  BY DEF SameDims, Live
<1> QED
  BY <1>1, <1>2, SumSame

(* A worker comes to evict by way of MakeRoom only, and goes on with the   *)
(* same victims until it evicts the next.                                  *)
LEMMA StaysMakingRoom ==
  ASSUME IInv, TypeOK', NEW w \in Workers, Step(w), ~MakeRoom(w), ~Evict(w),
         MakesRoom(w)'
  PROVE  MakesRoom(w) /\ victims'[w] = victims[w] /\ SameBytes
<1> USE DEF treeVars, tableVars, clientVars, jobVars, evictVars, lockVars,
            Goto, ReplyThen, Done, NoRequest, At, Handling, Exec, MakesRoom
<1> DEFINE Stays == MakesRoom(w) /\ victims'[w] = victims[w]
<1>a. TypeOK /\ WellPlaced(w)
  BY DEF IInv, Placed
<1>1. ASSUME Find(w) PROVE FALSE
  BY <1>a, <1>1 DEF TypeOK, Find, InTree
<1>2. ASSUME AbsentError(w) PROVE FALSE
  BY <1>a, <1>2 DEF TypeOK, AbsentError
<1>3. ASSUME AbsentFatal(w) PROVE FALSE
  BY <1>a, <1>3 DEF TypeOK, AbsentFatal
<1>4. ASSUME TryUse(w) PROVE FALSE
  BY <1>a, <1>4 DEF TypeOK, TryUse
<1>5. ASSUME Park(w) PROVE FALSE
  BY <1>a, <1>5 DEF TypeOK, Park
<1>6. ASSUME InsertNew(w) PROVE FALSE
  BY <1>a, <1>6 DEF TypeOK, InsertNew, Inserting, InTree, WellPlaced, HasOp, OpenOps
<1>7. ASSUME InsertExists(w) PROVE FALSE
  BY <1>a, <1>7 DEF TypeOK, InsertExists, Inserting, InTree
<1>8. ASSUME InsertNoMemory(w) PROVE FALSE
  BY <1>a, <1>8 DEF TypeOK, InsertNoMemory, Inserting, InTree
<1>9. ASSUME Opened(w) PROVE FALSE
  BY <1>a, <1>9 DEF TypeOK, Opened
<1>10. ASSUME Release(w) PROVE FALSE
  BY <1>a, <1>10 DEF TypeOK, Release
<1>11. ASSUME FileDel(w) PROVE Stays
  BY <1>a, <1>11 DEF TypeOK, FileDel
<1>12. ASSUME InformReply(w) PROVE Stays
  BY <1>a, <1>12 DEF TypeOK, InformReply, Informing
<1>13. ASSUME InformAppend(w) PROVE Stays
  BY <1>a, <1>13 DEF TypeOK, InformAppend, Informing
<1>14. ASSUME InformWrite(w) PROVE Stays
  BY <1>a, <1>14 DEF TypeOK, InformWrite, Informing
<1>15. ASSUME InformDone(w) PROVE Stays
  BY <1>a, <1>15 DEF TypeOK, InformDone
<1>16. ASSUME Refuse(w) PROVE FALSE
  BY <1>a, <1>16 DEF TypeOK, Refuse, Refused
<1>17. ASSUME OpenFile(w) PROVE FALSE
  BY <1>a, <1>17 DEF TypeOK, OpenFile
<1>18. ASSUME SetLock(w) PROVE FALSE
  BY <1>a, <1>18 DEF TypeOK, SetLock
<1>19. ASSUME ReadFile(w) PROVE FALSE
  BY <1>a, <1>19 DEF TypeOK, ReadFile
<1>20. ASSUME LockFile(w) PROVE FALSE
  BY <1>a, <1>20 DEF TypeOK, LockFile
<1>21. ASSUME TableLock(w) PROVE FALSE
  BY <1>a, <1>21 DEF TypeOK, TableLock
<1>22. ASSUME UnlockFile(w) PROVE FALSE
  BY <1>a, <1>22 DEF TypeOK, UnlockFile
<1>23. ASSUME CloseFile(w) PROVE FALSE
  BY <1>a, <1>23 DEF TypeOK, CloseFile
<1>24. ASSUME RemoveFile(w) PROVE FALSE
  BY <1>a, <1>24 DEF TypeOK, RemoveFile
<1>25. ASSUME TreeRemove(w) PROVE FALSE
  BY <1>a, <1>25 DEF TypeOK, TreeRemove, InTree, Detach, WellPlaced, HasOp, OpenOps
<1>26. ASSUME WriteFile(w) PROVE FALSE
  BY <1>a, <1>26 DEF TypeOK, WriteFile
<1>27. ASSUME AppendToFile(w) PROVE FALSE
  BY <1>a, <1>27 DEF TypeOK, AppendToFile
<1>28. ASSUME PayloadCut(w) PROVE FALSE
  BY <1>a, <1>28 DEF TypeOK, PayloadCut
<1>29. ASSUME Discard(w) PROVE FALSE
  BY <1>a, <1>29 DEF TypeOK, Discard
<1>30. ASSUME Payload(w) PROVE FALSE
  BY <1>a, <1>30 DEF TypeOK, Payload
<1>31. ASSUME RoomEnough(w) PROVE FALSE
  BY <1>a, <1>31 DEF TypeOK, RoomEnough, Store, InTree
<1>32. ASSUME Unmark(w) PROVE FALSE
  BY <1>a, <1>32 DEF TypeOK, Unmark
<1>33. ASSUME NoRoom(w) PROVE FALSE
  BY <1>a, <1>33 DEF TypeOK, NoRoom
<1>34. ASSUME Evicted(w) PROVE FALSE
  BY <1>a, <1>34 DEF TypeOK, Evicted, Store
<1>35. ASSUME Finish(w) PROVE FALSE
  BY <1>a, <1>35 DEF TypeOK, Finish
<1>36. ASSUME Reply(w) PROVE FALSE
  BY <1>a, <1>36 DEF TypeOK, Reply
<1>37. ASSUME ReadNFiles(w) PROVE FALSE
  BY <1>a, <1>37 DEF TypeOK, ReadNFiles, InTree
<1>38. ASSUME NextRequest(w) PROVE FALSE
  BY <1>a, <1>38 DEF TypeOK, NextRequest
<1>39. ASSUME NoNextRequest(w) PROVE FALSE
  BY <1>a, <1>39 DEF TypeOK, NoNextRequest
<1>40. ASSUME Touch(w) PROVE FALSE
  BY <1>a, <1>40 DEF TypeOK, Touch, InTree
<1>41. ASSUME HoldTree(w) PROVE FALSE
  BY <1>a, <1>41 DEF TypeOK, HoldTree, TreePCs
<1>42. ASSUME Crash(w) PROVE Stays
  BY <1>a, <1>42 DEF TypeOK, Crash
<1>43. Stays
  BY <1>1, <1>2, <1>3, <1>4, <1>5, <1>6, <1>7, <1>8, <1>9, <1>10, <1>11,
     <1>12, <1>13, <1>14, <1>15, <1>16, <1>17, <1>18, <1>19, <1>20,
     <1>21, <1>22, <1>23, <1>24, <1>25, <1>26, <1>27, <1>28, <1>29,
     <1>30, <1>31, <1>32, <1>33, <1>34, <1>35, <1>36, <1>37, <1>38,
     <1>39, <1>40, <1>41, <1>42 DEF Step
<1>44. SameBytes
  BY <1>6, <1>25, <1>31, <1>34, StepKeepsBytes
<1> QED
  BY <1>43, <1>44

(* A file of dim d leaves: so do its bytes. *)
LEMMA RemovedBytes ==
  ASSUME IInv, NEW n \in Names, file[n] # NULL, NEW S \in SUBSET Live, n \in S
  PROVE  /\ file[n].dim \in Nat /\ IsFiniteSet(S \ {n})
         /\ Sum(file, S) = file[n].dim + Sum(file, S \ {n})
         /\ Sum(file, S \ {n}) \in Nat
<1>1. IsFiniteSet(S) /\ \A x \in S : file[x].dim \in Nat
  BY StoredBytes, FS_Subset
<1>2. IsFiniteSet(S \ {n})
  BY <1>1, FS_RemoveElement
<1> QED
  BY <1>1, <1>2, SumWithout, SumNat

(* The file n takes the place of r, or of no file. *)
LEMMA NewFileBytes ==
  ASSUME IInv, TypeOK', NEW n \in Names, NEW R \in SUBSET Live,
         n \notin R, Live' = R \cup {n}, file'[n].dim = 0,
         \A x \in R : file'[x] = file[x]
  PROVE  Sum(file', Live') = Sum(file, R)
<1>1. IsFiniteSet(R) /\ \A x \in R : file[x].dim \in Nat
  BY StoredBytes, FS_Subset
<1>2. IsFiniteSet(R \cup {n}) /\ (R \cup {n}) \ {n} = R
  BY <1>1, FS_AddElement
<1>3. \A x \in R \cup {n} : file'[x].dim \in Nat
  BY <1>1
<1>4. Sum(file', R \cup {n}) = 0 + Sum(file', R)
  BY <1>2, <1>3, SumWithout
<1>5. Sum(file', R) = Sum(file, R) /\ Sum(file', R) \in Nat
  BY <1>1, SumSame, SumNat
<1> QED
  BY <1>4, <1>5

(* A write makes one file, and the sum, larger by AppendDim. *)
LEMMA StoreBytes ==
  ASSUME IInv, NEW w \in Workers, node[w] \in Names, File(w) \in ServerFile,
         Store(w)
  PROVE  Live' = Live /\ Sum(file', Live) = Sum(file, Live) + AppendDim
<1> DEFINE n == node[w]
           f == [File(w) EXCEPT !.dim = @ + AppendDim]
<1>1. /\ file' = [file EXCEPT ![n] = f] /\ file \in [Names -> ServerFile \cup {NULL}]
      /\ f # NULL /\ file[n] # NULL /\ f.dim = file[n].dim + AppendDim
      /\ AppendDim \in Nat
  BY FileFacts, CapacityAssumption DEF Store, SetFile, File, IInv, TypeOK, ServerFile
<1> HIDE DEF f
<1>2. Live' = Live
  BY <1>1 DEF Live
<1>3. n \in Live /\ \A x \in Live \ {n} : file'[x] = file[x]
  BY <1>1 DEF Live
<1>4. file'[n].dim = file[n].dim + AppendDim
  BY <1>1
<1>5. /\ Sum(file, Live) = file[n].dim + Sum(file, Live \ {n})
      /\ IsFiniteSet(Live \ {n}) /\ Sum(file, Live \ {n}) \in Nat
      /\ file[n].dim \in Nat
  BY <1>1, <1>3, RemovedBytes
<1>6. Sum(file', Live \ {n}) = Sum(file, Live \ {n})
  BY <1>3, <1>5, SumSame
<1>7. \A x \in Live : file'[x].dim \in Nat
  BY <1>1, <1>3, <1>4, <1>5, StoredBytes
<1>8. Sum(file', Live) = file'[n].dim + Sum(file', Live \ {n})
  BY <1>3, <1>7, StoredBytes, SumWithout
<1> DEFINE d == file[n].dim
           rest == Sum(file, Live \ {n})
<1>9. /\ Sum(file, Live) = d + rest /\ Sum(file', Live) = (d + AppendDim) + rest
      /\ d \in Nat /\ rest \in Nat
  BY <1>4, <1>5, <1>6, <1>8
<1> HIDE DEF d, rest
<1> QED
  BY <1>1, <1>2, <1>9

(* Every step keeps the bytes' accounts. *)
LEMMA BytesStep ==
  ASSUME IInv, TypeOK', IInv', BytesInv, [Next]_vars
  PROVE  BytesInv'
<1> USE DEF treeVars, tableVars, clientVars, jobVars, evictVars, lockVars, At
<1>a. /\ TypeOK /\ Placed /\ FilesAccounted
      /\ filedim = Sum(file, Live) /\ filedim <= MaxFileDim /\ filedim \in Int
      /\ MaxFileDim \in Nat /\ AppendDim \in Nat
  BY CapacityAssumption, BytesAreSum
     DEF IInv, TypeOK, BytesInv, BytesAccounted
<1>b. \A v \in Workers : MakesRoom(v) => MissingSpace <= Sum(file, victims[v])
  BY BytesAreSum DEF BytesInv, RoomComing
<1> DEFINE Coming(v) ==
             MakesRoom(v)' => MissingSpace' <= Sum(file', victims'[v])
           Total == filedim' = Sum(file', Live') /\ filedim' <= MaxFileDim
<1>c. ASSUME Total, \A v \in Workers : Coming(v) PROVE BytesInv'
  <2>1. BytesAccounted'
    BY <1>c, NextLiveBytes DEF BytesAccounted
  <2>2. ASSUME NEW v \in Workers, MakesRoom(v)'
        PROVE  MissingSpace' <= Bytes(victims[v])'
    BY <1>c, <2>2, NextVictimBytes
  <2>3. RoomComing'
    BY <2>2 DEF RoomComing
  <2> QED
    BY <2>1, <2>3 DEF BytesInv
<1>t. ASSUME SameBytes PROVE Total
  <2>1. Live' = Live
    BY <1>t DEF SameBytes, SameDims, SameFiles, Live
  <2> QED
    BY <1>a, <1>t, <2>1, SameSums DEF SameBytes
<1>v. ASSUME NEW v \in Workers, SameBytes,
             MakesRoom(v)' => MakesRoom(v) /\ victims'[v] = victims[v]
      PROVE  Coming(v)
  <2> SUFFICES ASSUME MakesRoom(v)'
               PROVE  MissingSpace' <= Sum(file', victims'[v])
    OBVIOUS
  <2>1. MissingSpace' = MissingSpace
    BY <1>v DEF MissingSpace, SameBytes
  <2>2. Sum(file', victims[v]) = Sum(file, victims[v])
    BY <1>v, StoredBytes, SameSums DEF SameBytes
  <2> QED
    BY <1>b, <1>v, <2>1, <2>2
<1>k. ASSUME SameBytes,
             \A v \in Workers :
               MakesRoom(v)' => MakesRoom(v) /\ victims'[v] = victims[v]
      PROVE  BytesInv'
  BY <1>c, <1>k, <1>t, <1>v
<1>1. CASE UNCHANGED vars
  BY <1>1, <1>k DEF vars, SameBytes, SameDims, SameFiles, MakesRoom
<1>2. ASSUME NEW c \in Clients, Die(c) PROVE BytesInv'
  BY <1>2, <1>k DEF Die, SameBytes, SameDims, SameFiles, MakesRoom
<1>3. ASSUME NEW w \in Workers, NEW c \in Clients, NEW op \in OpKinds,
             NEW n \in Names, Take(w, c, op, n)
      PROVE  BytesInv'
  <2>1. SameBytes
    BY <1>3 DEF Take, SameBytes, SameDims, SameFiles
  <2>2. ASSUME NEW v \in Workers, MakesRoom(v)'
        PROVE  MakesRoom(v) /\ victims'[v] = victims[v]
    BY <1>a, <1>3, <2>2 DEF Take, Goto, MakesRoom, TypeOK
  <2> QED
    BY <1>k, <2>1, <2>2
<1>4. ASSUME NEW w \in Workers, NEW c \in Clients, TakeEOF(w, c) PROVE BytesInv'
  BY <1>a, <1>4, <1>k, DisconnectDims DEF TakeEOF, SameBytes, MakesRoom
<1>5. ASSUME NEW w \in Workers, Step(w) PROVE BytesInv'
  <2>a. ASSUME NEW v \in Workers, v # w, MakesRoom(v)'
        PROVE  MakesRoom(v) /\ victims'[v] = victims[v] /\ treeLock = v
    <3>1. MakesRoom(v) /\ victims'[v] = victims[v]
      BY <1>5, <2>a, OthersKept DEF MakesRoom
    <3>2. EvictsFiles(v)
      BY <3>1 DEF MakesRoom, EvictsFiles
    <3> QED
      BY <1>a, <3>1, <3>2 DEF Placed, WellPlaced, HasTree
  (* While w holds the tree's mutex no other worker makes room. *)
  <2>b. ASSUME treeLock \in {NULL, w}, Total, Coming(w) PROVE BytesInv'
    <3>1. \A v \in Workers : v # NULL
      BY NULLAssumption
    <3>2. ASSUME NEW v \in Workers PROVE Coming(v)
      BY <2>a, <2>b, <3>1
    <3> QED
      BY <1>c, <2>b, <3>2
  <2>1. CASE InsertNew(w)
    <3> DEFINE n == node[w]
               new == NewServerFile(Client(w), O_LOCK(req[w].op), n)
    <3>1. n \in Names /\ new \in ServerFile /\ new # NULL /\ new.dim = 0
      <4>1. O_LOCK(req[w].op) \in BOOLEAN
        BY DEF O_LOCK
      <4>2. n \in Names /\ Client(w) \in Clients
        BY <1>a, <2>1, AtWork DEF InsertNew, Inserting, InTree
      <4>3. new \in ServerFile
        BY <4>1, <4>2, NewServerFileFacts
      <4> QED
        BY <4>2, <4>3, NULLAssumption DEF NewServerFile
    <3>2. treeLock \in {NULL, w}
      BY <2>1 DEF InsertNew, Inserting, InTree, TreeFree
    <3>3. ~MakesRoom(w)'
      BY <1>5, <2>1, StaysMakingRoom DEF MakeRoom, Evict, InsertNew, MakesRoom,
         Inserting, InTree
    <3>4. CASE ~TreeIsFull
      <4>1. /\ file[n] = NULL /\ file' = [file EXCEPT ![n] = new]
            /\ filedim' = filedim
        BY <2>1, <3>4 DEF InsertNew, File, SetFile
      <4> HIDE DEF new
      <4>2. Live' = Live \cup {n} /\ n \notin Live
        BY <1>a, <3>1, <4>1 DEF Live, TypeOK
      <4>3. file'[n].dim = 0 /\ \A x \in Live : file'[x] = file[x]
        BY <1>a, <3>1, <4>1, <4>2 DEF Live, TypeOK
      <4>4. Sum(file', Live') = Sum(file, Live)
        BY <3>1, <4>2, <4>3, NewFileBytes
      <4> QED
        BY <1>a, <2>b, <3>2, <3>3, <4>1, <4>4
    <3>5. CASE TreeIsFull
      <4> DEFINE r == ToRemove
      <4>1. r \in Names /\ file[r] # NULL /\ (file[n] = NULL \/ n = r)
        BY <1>a, <2>1, <3>5, ToRemoveFacts DEF InsertNew, File
      <4>2. /\ file' = [file EXCEPT ![r] = NULL, ![n] = new]
            /\ filedim' = filedim - file[r].dim
        BY <2>1, <3>5 DEF InsertNew
      <4> HIDE DEF new, r
      <4>3. /\ Live' = (Live \ {r}) \cup {n} /\ n \notin Live \ {r}
            /\ Live \ {r} \in SUBSET Live /\ r \in Live
        BY <1>a, <3>1, <4>1, <4>2 DEF Live, TypeOK
      <4>4. file'[n].dim = 0 /\ \A x \in Live \ {r} : file'[x] = file[x]
        BY <1>a, <3>1, <4>2, <4>3 DEF Live, TypeOK
      <4>5. Sum(file', Live') = Sum(file, Live \ {r})
        BY <3>1, <4>3, <4>4, NewFileBytes
      <4>6. /\ Sum(file, Live) = file[r].dim + Sum(file, Live \ {r})
            /\ Sum(file, Live \ {r}) \in Nat /\ file[r].dim \in Nat
        BY <4>1, <4>3, RemovedBytes
      <4> DEFINE d == file[r].dim
                 rest == Sum(file, Live \ {r})
      <4>7. /\ filedim = d + rest /\ rest \in Nat /\ d \in Nat
            /\ filedim' = filedim - d /\ Sum(file', Live') = rest
        BY <1>a, <4>2, <4>5, <4>6
      <4> HIDE DEF d, rest
      <4>8. Total
        BY <1>a, <4>7
      <4> QED
        BY <2>b, <3>2, <3>3, <4>8
    <3> QED
      BY <3>4, <3>5
  <2>d. ASSUME NEW n \in Names, file[n] # NULL, Detach(w, n)
        PROVE  /\ Total /\ n \in Live /\ file[n].dim \in Nat
               /\ filedim' = filedim - file[n].dim
               /\ \A x \in Names \ {n} : file'[x] = file[x]
    <3>1. /\ file' = [file EXCEPT ![n] = NULL] /\ n \in Live
          /\ filedim' = filedim - file[n].dim
      BY <2>d DEF Detach, SetFile, Live
    <3>2. /\ Live' = Live \ {n} /\ Live \ {n} \in SUBSET Live
          /\ \A x \in Names \ {n} : file'[x] = file[x]
      BY <1>a, <3>1 DEF Live, TypeOK
    <3>3. /\ Sum(file, Live) = file[n].dim + Sum(file, Live \ {n})
          /\ Sum(file, Live \ {n}) \in Nat /\ file[n].dim \in Nat
          /\ IsFiniteSet(Live \ {n})
      BY <2>d, <3>1, RemovedBytes
    <3>4. Sum(file', Live \ {n}) = Sum(file, Live \ {n})
      BY <3>2, <3>3, SumSame DEF Live
    <3> DEFINE d == file[n].dim
               rest == Sum(file, Live \ {n})
    <3>5. /\ filedim = d + rest /\ rest \in Nat /\ d \in Nat
          /\ filedim' = filedim - d /\ Sum(file', Live') = rest
      BY <1>a, <3>1, <3>2, <3>3, <3>4
    <3> HIDE DEF d, rest
    <3>6. Total
      BY <1>a, <3>5
    <3> QED
      BY <3>1, <3>2, <3>3, <3>6
  <2>2. CASE TreeRemove(w)
    <3>1. treeLock \in {NULL, w}
      BY <2>2 DEF TreeRemove, InTree, TreeFree
    <3>2. ~MakesRoom(w)'
      BY <1>5, <2>2, StaysMakingRoom DEF MakeRoom, Evict, TreeRemove, MakesRoom,
         InTree
    <3>3. CASE File(w) # NULL
      <4>1. node[w] \in Names
        BY <1>a, <2>2, AtWork DEF TreeRemove, InTree
      <4> QED
        BY <2>2, <2>b, <2>d, <3>1, <3>2, <3>3, <4>1 DEF TreeRemove, File
    <3>4. CASE File(w) = NULL
      <4>1. SameBytes
        BY <2>2, <3>4 DEF TreeRemove, SameBytes, SameDims, SameFiles
      <4> QED
        BY <1>t, <2>b, <3>1, <3>2, <4>1
    <3> QED
      BY <3>3, <3>4
  <2>s. ASSUME Store(w), node[w] \in Names, File(w) \in ServerFile,
               MissingSpace <= 0
        PROVE  Total
    <3>1. Live' = Live /\ Sum(file', Live) = Sum(file, Live) + AppendDim
      BY <2>s, StoreBytes
    <3>2. filedim' = filedim + AppendDim /\ filedim + AppendDim <= MaxFileDim
      BY <1>a, <2>s DEF Store, MissingSpace
    <3> QED
      BY <1>a, <3>1, <3>2
  <2>3. CASE RoomEnough(w)
    <3>1. treeLock \in {NULL, w}
      BY <2>3 DEF RoomEnough, InTree, TreeFree
    <3>2. ~MakesRoom(w)'
      BY <1>a, <2>3 DEF RoomEnough, Store, Goto, MakesRoom, TypeOK
    <3>3. node[w] \in Names /\ File(w) \in ServerFile
      BY <1>a, <2>3, AtWork DEF RoomEnough, InTree
    <3> QED
      BY <2>3, <2>b, <2>s, <3>1, <3>2, <3>3 DEF RoomEnough
  <2>4. CASE Evicted(w)
    <3>1. treeLock \in {NULL, w}
      BY <1>a, <2>4 DEF Evicted, Handling, Placed, WellPlaced, HasTree, EvictsFiles
    <3>2. ~MakesRoom(w)'
      BY <1>a, <2>4 DEF Evicted, Store, Goto, MakesRoom, TypeOK
    <3>3. node[w] \in Names /\ File(w) \in ServerFile
      BY <1>a, <2>4, AtWork DEF Evicted, Handling
    <3>4. MissingSpace <= 0
      BY <1>b, <2>4, SumEmpty DEF Evicted, Handling, MakesRoom
    <3> QED
      BY <2>4, <2>b, <2>s, <3>1, <3>2, <3>3, <3>4 DEF Evicted
  <2>5. CASE Evict(w)
    <3> DEFINE n == LeastRecent(victims[w])
               V == victims[w]
    <3>1. n \in V /\ n \in Names /\ file[n] # NULL /\ V \in SUBSET Live
      BY <1>a, <2>5, VictimFacts, StoredBytes DEF Evict
    <3>2. Detach(w, n) /\ victims' = [victims EXCEPT ![w] = @ \ {n}]
      BY <2>5 DEF Evict
    <3> HIDE DEF n
    <3>3. treeLock \in {NULL, w} /\ MakesRoom(w)
      BY <1>a, <2>5 DEF Evict, Placed, WellPlaced, HasTree, EvictsFiles, MakesRoom
    <3>4. /\ Total /\ filedim' = filedim - file[n].dim
          /\ \A x \in Names \ {n} : file'[x] = file[x]
      BY <2>d, <3>1, <3>2
    <3>5. /\ Sum(file, V) = file[n].dim + Sum(file, V \ {n})
          /\ Sum(file, V \ {n}) \in Nat /\ file[n].dim \in Nat
          /\ IsFiniteSet(V \ {n})
      BY <3>1, RemovedBytes
    <3>6. Sum(file', V \ {n}) = Sum(file, V \ {n})
      BY <3>1, <3>4, <3>5, SumSame DEF Live
    <3>7. victims'[w] = V \ {n}
      BY <1>a, <3>2 DEF TypeOK
    <3> DEFINE d == file[n].dim
               rest == Sum(file, V \ {n})
    <3>8. /\ MissingSpace <= d + rest /\ Sum(file', victims'[w]) = rest
          /\ d \in Nat /\ rest \in Nat /\ filedim' = filedim - d
      BY <1>b, <3>3, <3>4, <3>5, <3>6, <3>7
    <3> HIDE DEF d, rest
    <3>9. Coming(w)
      BY <1>a, <3>8 DEF MissingSpace
    <3> QED
      BY <2>b, <3>3, <3>4, <3>9
  <2>6. CASE MakeRoom(w)
    <3> DEFINE S == MakeSpace(0, MissingSpace)
    <3>1. S \in SUBSET Live
      BY <1>a, MakeSpaceFacts DEF FilesAccounted, TypeOK
    <3>2. SameBytes
      <4>1. \A x \in S : file[x] \in ServerFile
        BY <1>a, <3>1 DEF Live, TypeOK
      <4>2. file' = Mark(S) /\ filedim' = filedim
        BY <2>6 DEF MakeRoom
      <4> HIDE DEF S
      <4> QED
        BY <1>a, <4>1, <4>2, MarkDims DEF SameBytes
    <3>3. treeLock \in {NULL, w} /\ victims'[w] = S
      BY <1>a, <2>6 DEF MakeRoom, InTree, TreeFree, TypeOK
    <3>4. Coming(w)
      <4> SUFFICES ASSUME MakesRoom(w)'
                   PROVE  MissingSpace' <= Sum(file', victims'[w])
        OBVIOUS
      <4>1. Enough(S, 0, MissingSpace)
        BY <1>a, <2>6 DEF MakeRoom, Goto, MakesRoom, TypeOK
      <4>2. MissingSpace <= Sum(file, S)
        <5>1. Sum(file, S) >= MissingSpace
          BY <4>1, BytesAreSum DEF Enough
        <5>2. Sum(file, S) \in Nat /\ MissingSpace \in Int
          <6>1. IsFiniteSet(S) /\ \A x \in S : file[x].dim \in Nat
            BY <3>1, StoredBytes, FS_Subset
          <6> QED
            BY <1>a, <6>1, SumNat DEF MissingSpace
        <5> QED
          BY <5>1, <5>2
      <4>3. Sum(file', S) = Sum(file, S)
        BY <3>1, <3>2, SameSums DEF SameBytes
      <4>4. MissingSpace' = MissingSpace
        BY <3>2 DEF SameBytes, MissingSpace
      <4> HIDE DEF S
      <4> QED
        BY <3>3, <4>2, <4>3, <4>4
    <3> QED
      BY <1>t, <2>b, <3>2, <3>3, <3>4
  <2>7. ASSUME ~InsertNew(w), ~TreeRemove(w), ~RoomEnough(w), ~Evict(w),
               ~Evicted(w), ~MakeRoom(w)
        PROVE  BytesInv'
    <3>1. SameBytes
      BY <1>5, <2>7, StepKeepsBytes
    <3>2. ASSUME NEW v \in Workers, MakesRoom(v)'
          PROVE  MakesRoom(v) /\ victims'[v] = victims[v]
      BY <1>5, <2>7, <2>a, <3>2, StaysMakingRoom
    <3> QED
      BY <1>k, <3>1, <3>2
  <2> QED
    BY <2>1, <2>2, <2>3, <2>4, <2>5, <2>6, <2>7
<1> QED
  BY <1>1, <1>2, <1>3, <1>4, <1>5 DEF Next

LEMMA InitBytes == Init => BytesInv
<1> SUFFICES ASSUME Init PROVE BytesInv
  OBVIOUS
<1>1. Live = {} /\ filedim = 0
  BY DEF Init, Live
<1>2. Bytes(Live) = 0
  BY <1>1, BytesAreSum, SumEmpty
<1>3. RoomComing
  BY DEF Init, RoomComing, MakesRoom
<1> QED
  BY <1>1, <1>2, <1>3, CapacityAssumption DEF BytesInv, BytesAccounted

(* The bytes the tree accounts for (tree.c, appendToFileW) are those the   *)
(* stored files add up to, in every reachable state and whatever the       *)
(* workers interleave; and they never exceed the configured capacity: the  *)
(* victims makeSpace marks are enough, and stay enough while they are      *)
(* removed one by one under the tree's mutex.                              *)
THEOREM BytesAreCounted == Spec => []BytesAccounted
<1>1. IInv /\ IInv' /\ BytesInv /\ [Next]_vars => BytesInv'
  BY BytesStep DEF IInv
<1>2. BytesInv => BytesAccounted
  BY DEF BytesInv
<1> QED
  BY <1>1, <1>2, Invariance, InitBytes, PTL DEF Spec

=============================================================================
