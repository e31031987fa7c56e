-------------------------- MODULE Dispatcher_proofs --------------------------
(***************************************************************************)
(* Theorems about Dispatcher, for any number of clients, workers and       *)
(* descriptors:                                                            *)
(*   DispatcherTyped     the variables keep their types                    *)
(*   MaskIsHeard         select looks at every descriptor of the mask      *)
(*   CloseIsClean        the close joins idle workers and an empty FIFO    *)
(* and, when no client leaves in the middle of a payload (Cut = {}):       *)
(*   DescriptorsOnePlace a descriptor is in one place, but for those whose *)
(*                       parked request was destroyed with its file        *)
(*   ClientsCounted      clientNum counts the connections                  *)
(*   NobodyIsCutOff      who is closed has left, or was told               *)
(*   CloseWaits          the slow close waits for the clients              *)
(* Core, the inductive invariant of the first two, is a part of Tally (the *)
(* accounts of the descriptors), and Tally of Fair (what the clients see). *)
(* Ends, with Core, counts the NULLs of collectThreads.                    *)
(***************************************************************************)
EXTENDS Dispatcher, SequenceTheorems, FiniteSetTheorems, WellFoundedInduction,
        TLAPS

-----------------------------------------------------------------------------
(* A finite set of integers has a least and a greatest member.             *)

Ordered(R) ==
  /\ \A x, y \in Int : <<x, y>> \in R \/ <<y, x>> \in R
  /\ \A x, y, z \in Int : <<x, y>> \in R /\ <<y, z>> \in R => <<x, z>> \in R

LEMMA FirstMember ==
  ASSUME NEW R, Ordered(R),
         NEW S \in SUBSET Int, IsFiniteSet(S), S # {}
  PROVE  \E m \in S : \A x \in S : <<m, x>> \in R
<1> DEFINE Bad(T) == T # {} /\ ~ \E m \in T : \A x \in T : <<m, x>> \in R
           F == FiniteSubsetsOf(Int)
<1> SUFFICES ASSUME Bad(S) PROVE FALSE
  OBVIOUS
<1>1. S \in {T \in F : Bad(T)}
  BY DEF FiniteSubsetsOf
<1>2. PICK T \in {T \in F : Bad(T)} :
             \A U \in {U \in F : Bad(U)} : ~(<<U, T>> \in StrictSubsetOrdering(Int))
  <2>1. IsWellFoundedOn(StrictSubsetOrdering(Int), F)
    BY FS_StrictSubsetOrderingWellFounded
  <2>2. {U \in F : Bad(U)} \subseteq F
    OBVIOUS
  <2> HIDE DEF Bad, F
  <2> QED
    BY <1>1, <2>1, <2>2, WFMin
<1>3. T \subseteq Int /\ IsFiniteSet(T) /\ Bad(T)
  BY <1>2 DEF FiniteSubsetsOf
<1>4. PICK a \in T : TRUE
  BY <1>3
<1> DEFINE U == T \ {a}
<1>5. U \in F
  BY <1>3, FS_RemoveElement DEF FiniteSubsetsOf
<1>6. <<U, T>> \in StrictSubsetOrdering(Int)
  BY <1>3, <1>4 DEF StrictSubsetOrdering
<1>7. ~Bad(U)
  BY <1>2, <1>5, <1>6
<1>8. CASE U = {}
  <2>1. T = {a} /\ a \in Int
    BY <1>3, <1>4, <1>8
  <2>2. <<a, a>> \in R
    BY <2>1 DEF Ordered
  <2> QED
    BY <1>3, <2>1, <2>2
<1>9. CASE U # {}
  <2>1. PICK m \in U : \A x \in U : <<m, x>> \in R
    BY <1>7, <1>9
  <2>2. m \in Int /\ a \in Int /\ \A x \in T : x = a \/ x \in U
    BY <1>3, <1>4
  <2>3. CASE <<m, a>> \in R
    BY <1>3, <2>1, <2>2, <2>3 DEF Ordered
  <2>4. CASE <<a, m>> \in R
    <3>1. \A x \in T : <<a, x>> \in R
      BY <1>3, <2>1, <2>2, <2>4 DEF Ordered
    <3> QED
      BY <1>3, <1>4, <3>1
  <2> QED
    BY <2>2, <2>3, <2>4 DEF Ordered
<1> QED
  BY <1>8, <1>9

LEMMA MinMax ==
  ASSUME NEW S \in SUBSET Int, IsFiniteSet(S), S # {}
  PROVE  /\ Min(S) \in S /\ \A x \in S : Min(S) <= x
         /\ Max(S) \in S /\ \A x \in S : x <= Max(S)
<1> DEFINE R == {p \in Int \X Int : p[1] <= p[2]}
           G == {p \in Int \X Int : p[1] >= p[2]}
<1>1. \A x, y \in Int : (<<x, y>> \in R <=> x <= y) /\ (<<x, y>> \in G <=> x >= y)
  OBVIOUS
<1> HIDE DEF R, G
<1>2. \E m \in S : \A x \in S : <<m, x>> \in R
  <2>1. Ordered(R)
    BY <1>1 DEF Ordered
  <2> QED
    BY <2>1, FirstMember
<1>3. \E m \in S : \A x \in S : <<m, x>> \in G
  <2>1. Ordered(G)
    BY <1>1 DEF Ordered
  <2> QED
    BY <2>1, FirstMember
<1>4. \E m \in S : \A x \in S : m <= x
  BY <1>1, <1>2
<1>5. \E m \in S : \A x \in S : m >= x
  BY <1>1, <1>3
<1>6. Min(S) \in S /\ \A x \in S : Min(S) <= x
  BY <1>4 DEF Min
<1>7. Max(S) \in S /\ \A x \in S : Max(S) >= x
  BY <1>5 DEF Max
<1> QED
  BY <1>6, <1>7

(* The larger of two numbers.                                              *)
LEMMA MaxOfTwo ==
  ASSUME NEW a \in Int, NEW b \in Int
  PROVE  /\ Max({a, b}) \in {a, b}
         /\ a <= Max({a, b}) /\ b <= Max({a, b})
<1>1. IsFiniteSet({a, b})
  <2>1. {a, b} = {a} \cup {b}
    OBVIOUS
  <2>2. IsFiniteSet({a})
    BY FS_Singleton
  <2>3. IsFiniteSet({a} \cup {b})
    BY <2>2, FS_AddElement
  <2> QED
    BY <2>1, <2>3
<1> QED
  BY <1>1, MinMax

(* updatemax: the highest descriptor of the mask below the one that left.  *)
LEMMA UpdateMax ==
  ASSUME NEW S \in SUBSET Nat, IsFiniteSet(S), NEW max \in Int,
         \A f \in S : f <= max
  PROVE  /\ updatemax(S \ {max}, max) \in Int
         /\ \A f \in S \ {max} : f <= updatemax(S \ {max}, max)
<1> DEFINE lower == {f \in S \ {max} : f < max}
<1>1. lower \in SUBSET Int /\ IsFiniteSet(lower)
  <2>1. lower \in SUBSET S
    OBVIOUS
  <2>2. S \subseteq Int
    OBVIOUS
  <2> HIDE DEF lower
  <2> QED
    BY <2>1, <2>2, FS_Subset
<1>2. updatemax(S \ {max}, max) = IF lower = {} THEN -1 ELSE Max(lower)
  BY DEF updatemax
<1>3. \A f \in S \ {max} : f \in lower
  OBVIOUS
<1> HIDE DEF lower
<1>4. CASE lower = {}
  BY <1>2, <1>3, <1>4
<1>5. CASE lower # {}
  <2>1. Max(lower) \in lower /\ \A f \in lower : f <= Max(lower)
    BY <1>1, <1>5, MinMax
  <2> QED
    BY <1>1, <1>2, <1>3, <1>5, <2>1
<1> QED
  BY <1>4, <1>5

-----------------------------------------------------------------------------
(* How often a sequence has an element of a set                            *)

At(s, P) == {i \in DOMAIN s : s[i] \in P}
Count(s, P) == Cardinality(At(s, P))

LEMMA CountNat ==
  ASSUME NEW S, NEW s \in Seq(S), NEW P
  PROVE  IsFiniteSet(At(s, P)) /\ Count(s, P) \in Nat
<1>1. Len(s) \in Nat /\ DOMAIN s = 1..Len(s)
  BY LenProperties
<1>2. At(s, P) \in SUBSET (1..Len(s))
  BY <1>1 DEF At
<1>3. IsFiniteSet(At(s, P))
  <2>1. IsFiniteSet(1..Len(s))
    BY <1>1, FS_Interval
  <2> QED
    BY <1>2, <2>1, FS_Subset
<1> QED
  BY <1>3, FS_CardinalityType DEF Count

LEMMA CountAppend ==
  ASSUME NEW S, NEW s \in Seq(S), NEW e \in S, NEW P
  PROVE  Count(Append(s, e), P) = Count(s, P) + (IF e \in P THEN 1 ELSE 0)
<1> DEFINE len == Len(s)
           more == Append(s, e)
<1>1. len \in Nat /\ DOMAIN s = 1..len
  BY LenProperties
<1>2. /\ more \in Seq(S) /\ Len(more) = len + 1 /\ more[len + 1] = e
      /\ \A i \in 1..len : more[i] = s[i]
  BY AppendProperties
<1>3. DOMAIN more = 1..len + 1
  BY <1>2, LenProperties
<1>4. IsFiniteSet(At(s, P)) /\ Count(s, P) \in Nat /\ len + 1 \notin At(s, P)
  BY <1>1, CountNat DEF At
<1> HIDE DEF more
<1>5. CASE e \in P
  <2>1. At(more, P) = At(s, P) \cup {len + 1}
    BY <1>1, <1>2, <1>3, <1>5 DEF At
  <2> QED
    BY <1>4, <1>5, <2>1, FS_AddElement DEF Count, more
<1>6. CASE e \notin P
  <2>1. At(more, P) = At(s, P)
    BY <1>1, <1>2, <1>3, <1>6 DEF At
  <2> QED
    BY <1>4, <1>6, <2>1 DEF Count, more
<1> QED
  BY <1>5, <1>6

LEMMA CountTail ==
  ASSUME NEW S, NEW s \in Seq(S), s # <<>>, NEW P
  PROVE  Count(Tail(s), P) = Count(s, P) - (IF Head(s) \in P THEN 1 ELSE 0)
<1> DEFINE len == Len(s)
           rest == Tail(s)
<1>1. len \in Nat /\ len # 0 /\ DOMAIN s = 1..len
  BY LenProperties, EmptySeq
<1>2. /\ rest \in Seq(S) /\ Len(rest) = len - 1 /\ Head(s) = s[1]
      /\ \A i \in 1..len - 1 : rest[i] = s[i + 1]
  BY HeadTailProperties
<1>3. DOMAIN rest = 1..len - 1
  BY <1>2, LenProperties
<1>4. IsFiniteSet(At(s, P)) /\ Count(s, P) \in Nat /\ IsFiniteSet(At(rest, P))
  BY <1>2, CountNat
<1> HIDE DEF rest
<1> DEFINE shift == [i \in At(rest, P) |-> i + 1]
<1>5. Cardinality(At(s, P) \ {1}) = Cardinality(At(rest, P))
  <2>1. \A i \in At(rest, P) : i \in Nat /\ i + 1 \in At(s, P) \ {1}
    BY <1>1, <1>2, <1>3 DEF At
  <2>2. \A j \in At(s, P) \ {1} : j \in Nat /\ j - 1 \in At(rest, P) /\ (j - 1) + 1 = j
    BY <1>1, <1>2, <1>3 DEF At
  <2>3. shift \in Bijection(At(rest, P), At(s, P) \ {1})
    <3>1. shift \in [At(rest, P) -> At(s, P) \ {1}]
      BY <2>1
    <3>2. \A i, j \in At(rest, P) : shift[i] = shift[j] => i = j
      BY <2>1
    <3>3. \A j \in At(s, P) \ {1} : \E i \in At(rest, P) : shift[i] = j
      BY <2>2
    <3> QED
      BY <3>1, <3>2, <3>3, Zenon
         DEF Bijection, Injection, Surjection, IsInjective
  <2> QED
    BY <1>4, <2>3, FS_Bijection DEF ExistsBijection
<1>6. 1 \in At(s, P) <=> Head(s) \in P
  BY <1>1, <1>2 DEF At
<1>7. Cardinality(At(s, P) \ {1})
        = IF 1 \in At(s, P) THEN Cardinality(At(s, P)) - 1 ELSE Cardinality(At(s, P))
  BY <1>4, FS_RemoveElement
<1> QED
  BY <1>4, <1>5, <1>6, <1>7 DEF Count, rest

-----------------------------------------------------------------------------
(* Types, the mask and who serves a descriptor *)

(* A worker has a descriptor while it reads and runs a request.            *)
Serving == {"read", "work", "handle", "again"}
HasJob == \A w \in Workers : wpc[w] \in Serving <=> job[w] # NULL

(* What select found readable in the pipe is still there: the dispatcher   *)
(* alone reads it.                                                         *)
PipeReady == PIPE \in rdSet => doneReq # <<>>

Core == TypeOK /\ HasJob /\ PipeReady /\ MaskHeard

LEMMA MaskFacts ==
  ASSUME TypeOK
  PROVE  /\ set \in SUBSET Nat /\ IsFiniteSet(set)
         /\ rdSet \in SUBSET Nat /\ IsFiniteSet(rdSet)
         /\ \A f \in Fds : f \in Nat /\ f # PIPE /\ f # SOCKET /\ f # NULL
<1>1. Fds \subseteq Nat /\ IsFiniteSet(Fds)
  BY FdsAssumption
<1> DEFINE all == (Fds \cup {PIPE}) \cup {SOCKET}
<1>2. IsFiniteSet(all)
  <2>1. IsFiniteSet(Fds \cup {PIPE})
    BY <1>1, FS_AddElement
  <2> QED
    BY <2>1, FS_AddElement
<1>3. all \subseteq Nat
  BY <1>1 DEF PIPE, SOCKET
<1>4. set \in SUBSET all /\ rdSet \in SUBSET all
  BY DEF TypeOK
<1>5. \A f \in Fds : f \in Nat /\ f # PIPE /\ f # SOCKET /\ f # NULL
  BY FdsAssumption, NULLAssumption
<1> HIDE DEF all
<1>6. IsFiniteSet(set) /\ IsFiniteSet(rdSet)
  BY <1>2, <1>4, FS_Subset
<1> QED
  BY <1>3, <1>4, <1>5, <1>6

LEMMA InitCore == ASSUME Init PROVE Core
<1>1. TypeOK
  <2>1. /\ wpc \in [Workers ->
                      {"pop", "read", "work", "handle", "again", "next", "exit"}]
        /\ job \in [Workers -> Fds \cup {NULL}]
    BY DEF Init
  <2>2. owner \in [Fds -> Peers \cup {NULL}]
    BY DEF Init
  <2>3. /\ link \in [Peers ->
                      {"away", "pending", "open", "refused", "closed", "cut"}]
        /\ talk \in [Peers -> {"quiet", "asking", "waiting"}]
    BY DEF Init
  <2>4. alive \in [Peers -> BOOLEAN]
    BY DEF Init
  <2>5. /\ toServe \in Seq(Fds \cup {NULL}) /\ backlog \in Seq(Peers)
        /\ doneReq \in Seq([fd: Fds, reset: BOOLEAN])
    BY EmptySeq DEF Init
  <2>6. /\ maxFD \in Int /\ clientNum \in Int
        /\ set \subseteq Fds \cup {PIPE, SOCKET}
        /\ rdSet \subseteq Fds \cup {PIPE, SOCKET}
        /\ parked \subseteq Fds /\ dropped \subseteq Fds
    BY DEF Init, SOCKET
  <2>7. /\ serverStatus \in {"working", "slow", "fast"}
        /\ dpc \in {"test", "mask", "select", "scan", "collect", "join", "end"}
    BY DEF Init
  <2> QED
    BY <2>1, <2>2, <2>3, <2>4, <2>5, <2>6, <2>7 DEF TypeOK
<1>2. HasJob
  BY DEF Init, HasJob, Serving
<1>3. PipeReady /\ MaskHeard
  BY DEF Init, PipeReady, MaskHeard, PIPE, SOCKET
<1> QED
  BY <1>1, <1>2, <1>3 DEF Core

(* The part of TypeOK about the dispatcher's mask.                         *)
MaskTyped ==
  /\ set \subseteq Fds \cup {PIPE, SOCKET} /\ rdSet \subseteq Fds \cup {PIPE, SOCKET}
  /\ maxFD \in Int

(* The mask loses f: maxFD goes down only when f was the highest.          *)
LEMMA MaskLoses ==
  ASSUME Core, NEW f \in Int, set' = set \ {f},
         maxFD' = IF maxFD = f THEN updatemax(set', maxFD) ELSE maxFD
  PROVE  maxFD' \in Int /\ MaskHeard'
<1>1. set \in SUBSET Nat /\ IsFiniteSet(set) /\ maxFD \in Int
  BY MaskFacts DEF Core, TypeOK
<1>2. \A g \in set : g <= maxFD
  BY DEF Core, MaskHeard
<1>3. CASE maxFD = f
  <2>1. /\ updatemax(set \ {maxFD}, maxFD) \in Int
        /\ \A g \in set \ {maxFD} : g <= updatemax(set \ {maxFD}, maxFD)
    BY <1>1, <1>2, UpdateMax
  <2> QED
    BY <1>3, <2>1 DEF MaskHeard
<1>4. CASE maxFD # f
  BY <1>1, <1>2, <1>4 DEF MaskHeard
<1> QED
  BY <1>3, <1>4

(* The mask gets f, and maxFD follows.                                     *)
LEMMA MaskGets ==
  ASSUME Core, NEW f \in Int, set' = set \cup {f}, maxFD' = Max({maxFD, f})
  PROVE  maxFD' \in Int /\ MaskHeard'
<1>1. set \in SUBSET Nat /\ maxFD \in Int
  BY MaskFacts DEF Core, TypeOK
<1>2. \A g \in set : g <= maxFD
  BY DEF Core, MaskHeard
<1>3. maxFD' \in {maxFD, f} /\ maxFD <= maxFD' /\ f <= maxFD'
  BY <1>1, MaxOfTwo
<1>4. maxFD' \in Int
  BY <1>1, <1>3
<1>5. ASSUME NEW g \in set' PROVE g <= maxFD'
  <2>1. CASE g \in set
    <3>1. g \in Int /\ g <= maxFD
      BY <1>1, <1>2, <2>1
    <3> QED
      BY <1>1, <1>3, <1>4, <3>1
  <2>2. CASE g = f
    BY <1>3, <2>2
  <2> QED
    BY <2>1, <2>2
<1> QED
  BY <1>4, <1>5 DEF MaskHeard

(* accept returns the lowest free descriptor.                              *)
LEMMA NewDescriptor ==
  ASSUME TypeOK, Accept
  PROVE  /\ Min({f \in Fds : owner[f] = NULL}) \in Fds
         /\ owner[Min({f \in Fds : owner[f] = NULL})] = NULL
         /\ backlog # <<>> /\ Head(backlog) \in Peers
<1> DEFINE free == {f \in Fds : owner[f] = NULL}
<1>1. free # {} /\ backlog # <<>>
  BY DEF Accept
<1>2. free \in SUBSET Fds
  OBVIOUS
<1>3. Fds \subseteq Int /\ IsFiniteSet(Fds)
  BY FdsAssumption
<1>4. Min(free) \in free
  <2> HIDE DEF free
  <2>1. free \in SUBSET Int /\ IsFiniteSet(free)
    BY <1>2, <1>3, FS_Subset
  <2> QED
    BY <1>1, <2>1, MinMax
<1>5. Head(backlog) \in Peers
  BY <1>1, HeadTailProperties DEF TypeOK
<1> QED
  BY <1>1, <1>4, <1>5

(* The descriptor the scan handles is one that select found readable.      *)
LEMMA ReadyFound ==
  ASSUME TypeOK, NEW f, Ready(f)
  PROVE  f \in rdSet
<1>1. rdSet \in SUBSET Int /\ IsFiniteSet(rdSet) /\ rdSet # {} /\ f = Min(rdSet)
  BY MaskFacts DEF Ready
<1> QED
  BY <1>1, MinMax

(* What comes out of the pipe.                                             *)
LEMMA PipeHead ==
  ASSUME Core, FromPipe
  PROVE  /\ doneReq # <<>> /\ Head(doneReq) \in [fd: Fds, reset: BOOLEAN]
         /\ Head(doneReq).fd \in Fds
<1>1. PIPE \in rdSet
  BY ReadyFound DEF Core, FromPipe
<1>2. doneReq # <<>> /\ doneReq \in Seq([fd: Fds, reset: BOOLEAN])
  BY <1>1 DEF Core, TypeOK, PipeReady
<1>3. Head(doneReq) \in [fd: Fds, reset: BOOLEAN]
  BY <1>2, HeadTailProperties
<1> QED
  BY <1>2, <1>3

LEMMA MaskStep ==
  ASSUME Core, [Next]_vars
  PROVE  MaskTyped' /\ MaskHeard'
<1>1. MaskTyped /\ MaskHeard /\ TypeOK
  BY DEF Core, TypeOK, MaskTyped
<1>2. CASE UNCHANGED <<set, maxFD, rdSet>>
  BY <1>1, <1>2 DEF MaskTyped, MaskHeard
<1>3. CASE MaskSocket
  <2>1. CASE serverStatus = "slow"
    <3>1. SOCKET \in Int
      BY DEF SOCKET
    <3> QED
      BY <1>1, <1>3, <2>1, <3>1, MaskLoses DEF MaskSocket, MaskTyped
  <2>2. CASE serverStatus # "slow"
    BY <1>1, <1>3, <2>2 DEF MaskSocket, MaskTyped, MaskHeard
  <2> QED
    BY <2>1, <2>2
<1>4. CASE Select
  BY <1>1, <1>4 DEF Select, MaskTyped, MaskHeard
<1>5. CASE Accept
  <2> DEFINE new == Min({f \in Fds : owner[f] = NULL})
  <2>1. new \in Fds /\ new \in Int
    <3>1. new \in Fds
      BY <1>1, <1>5, NewDescriptor
    <3> HIDE DEF new
    <3> QED
      BY <3>1, FdsAssumption
  <2>2. rdSet' = rdSet \ {SOCKET}
    BY <1>5 DEF Accept, Handled
  <2>3. \/ set' = set /\ maxFD' = maxFD
        \/ set' = set \cup {new} /\ maxFD' = Max({maxFD, new})
    BY <1>5 DEF Accept
  <2> HIDE DEF new
  <2>4. CASE set' = set /\ maxFD' = maxFD
    BY <1>1, <2>2, <2>4 DEF MaskTyped, MaskHeard
  <2>5. CASE set' = set \cup {new} /\ maxFD' = Max({maxFD, new})
    BY <1>1, <2>1, <2>2, <2>5, MaskGets DEF MaskTyped
  <2> QED
    BY <2>3, <2>4, <2>5
<1>6. ASSUME NEW errno, AcceptFails(errno) PROVE MaskTyped' /\ MaskHeard'
  <2>1. rdSet' \subseteq rdSet
    BY <1>6 DEF AcceptFails
  <2>2. CASE errno = "other"
    <3>1. SOCKET \in Int
      BY DEF SOCKET
    <3> QED
      BY <1>1, <1>6, <2>1, <2>2, <3>1, MaskLoses DEF AcceptFails, MaskTyped
  <2>3. CASE errno # "other"
    BY <1>1, <1>6, <2>1, <2>3 DEF AcceptFails, MaskTyped, MaskHeard
  <2> QED
    BY <2>2, <2>3
<1>7. CASE FromPipe
  <2> DEFINE m == Head(doneReq)
  <2>1. m.fd \in Fds
    BY <1>7, PipeHead
  <2>2. m.fd \in Int
    <3>1. \A f \in Fds : f \in Int
      BY FdsAssumption
    <3> QED
      BY <2>1, <3>1
  <2>3. rdSet' = rdSet \ {PIPE} /\ (Reset(m.fd) \/ Close(m.fd))
    BY <1>7 DEF FromPipe, Handled
  <2> HIDE DEF m
  <2>4. CASE Reset(m.fd)
    BY <1>1, <2>1, <2>2, <2>3, <2>4, MaskGets DEF Reset, MaskTyped
  <2>5. CASE Close(m.fd)
    BY <1>1, <2>1, <2>2, <2>3, <2>5 DEF Close, MaskTyped, MaskHeard
  <2> QED
    BY <2>3, <2>4, <2>5
<1>8. ASSUME NEW f \in Fds, FromClient(f) PROVE MaskTyped' /\ MaskHeard'
  <2>1. f \in Int
    BY FdsAssumption
  <2> QED
    BY <1>1, <1>8, <2>1, MaskLoses DEF FromClient, Handled, MaskTyped
<1>9. CASE ScanEnds
  BY <1>1, <1>9 DEF ScanEnds, MaskTyped, MaskHeard
<1> QED
  BY <1>2, <1>3, <1>4, <1>5, <1>6, <1>7, <1>8, <1>9
     DEF Next, vars, dispatcherVars, Connect, Ask, Leave, Signal, Dispatch, Test,
         Collect, Join, Work, Pop, ReadRequest, ReadFails, Answer, AnswerFatal,
         Use, Park, PayloadCut, DisconnectAgain, InformClientDelete, NextRequest

LEMMA TypeStep == ASSUME Core, [Next]_vars PROVE TypeOK'
<1>1. TypeOK /\ HasJob
  BY DEF Core
<1>2. MaskTyped'
  BY MaskStep
<1> DEFINE Rest ==
      /\ serverStatus \in {"working", "slow", "fast"}
      /\ dpc \in {"test", "mask", "select", "scan", "collect", "join", "end"}
      /\ clientNum \in Int
      /\ toServe \in Seq(Fds \cup {NULL})
      /\ doneReq \in Seq([fd: Fds, reset: BOOLEAN])
      /\ wpc \in [Workers -> {"pop", "read", "work", "handle", "again", "next", "exit"}]
      /\ job \in [Workers -> Fds \cup {NULL}]
      /\ parked \subseteq Fds /\ dropped \subseteq Fds
      /\ backlog \in Seq(Peers)
      /\ owner \in [Fds -> Peers \cup {NULL}]
      /\ link \in [Peers ->
                    {"away", "pending", "open", "refused", "closed", "cut"}]
      /\ talk \in [Peers -> {"quiet", "asking", "waiting"}]
      /\ alive \in [Peers -> BOOLEAN]
<1>3. SUFFICES Rest'
  BY <1>2 DEF MaskTyped, TypeOK
<1>4. Rest
  BY <1>1 DEF TypeOK
<1>5. CASE UNCHANGED vars
  BY <1>4, <1>5 DEF vars, dispatcherVars, workerVars, peerVars
<1>6. ASSUME NEW p \in Peers, Connect(p) \/ Ask(p) \/ Leave(p) PROVE Rest'
  <2>1. backlog' \in Seq(Peers)
    <3>1. backlog' = backlog \/ backlog' = Append(backlog, p)
      BY <1>6 DEF Connect, Ask, Leave
    <3>2. backlog \in Seq(Peers)
      BY <1>4
    <3> QED
      BY <3>1, <3>2, AppendProperties
  <2> QED
    BY <1>4, <1>6, <2>1 DEF Connect, Ask, Leave, dispatcherVars, workerVars
<1>7. ASSUME NEW status \in {"slow", "fast"}, Signal(status) PROVE Rest'
  BY <1>4, <1>7 DEF Signal, dispatcherVars, workerVars, peerVars
<1>8. CASE Test \/ MaskSocket \/ Select \/ ScanEnds \/ Join
  BY <1>4, <1>8 DEF Test, MaskSocket, Select, ScanEnds, Join, dispatcherVars,
                   workerVars, peerVars
<1>9. CASE Accept
  <2> DEFINE new == Min({f \in Fds : owner[f] = NULL})
             p == Head(backlog)
  <2>1. new \in Fds /\ p \in Peers /\ backlog # <<>>
    BY <1>1, <1>9, NewDescriptor
  <2>2. backlog' \in Seq(Peers)
    <3>1. backlog' = Tail(backlog)
      BY <1>9 DEF Accept
    <3> QED
      BY <1>4, <2>1, <3>1, HeadTailProperties
  <2>3. /\ link' \in {[link EXCEPT ![p] = "refused"], [link EXCEPT ![p] = "open"]}
        /\ owner' \in {owner, [owner EXCEPT ![new] = p]}
        /\ clientNum' \in {clientNum, clientNum + 1}
    BY <1>9 DEF Accept
  <2>4. UNCHANGED <<serverStatus, toServe, doneReq, workerVars, talk, alive, dpc>>
    BY <1>9, Zenon DEF Accept, Handled, workerVars
  <2> HIDE DEF new, p
  <2>5. link' \in [Peers ->
                    {"away", "pending", "open", "refused", "closed", "cut"}]
    BY <1>4, <2>1, <2>3
  <2>6. owner' \in [Fds -> Peers \cup {NULL}]
    BY <1>4, <2>1, <2>3
  <2>7. clientNum' \in Int
    BY <1>4, <2>3
  <2> QED
    BY <1>4, <2>2, <2>4, <2>5, <2>6, <2>7 DEF workerVars
<1>10. ASSUME NEW errno, AcceptFails(errno) PROVE Rest'
  BY <1>4, <1>10 DEF AcceptFails, workerVars, peerVars
<1>11. CASE FromPipe
  <2> DEFINE m == Head(doneReq)
  <2>1. doneReq # <<>> /\ m.fd \in Fds
    BY <1>11, PipeHead
  <2>2. doneReq' \in Seq([fd: Fds, reset: BOOLEAN])
    <3>1. doneReq' = Tail(doneReq)
      BY <1>11 DEF FromPipe
    <3> QED
      BY <1>4, <2>1, <3>1, HeadTailProperties
  <2>3. Reset(m.fd) \/ Close(m.fd)
    BY <1>11 DEF FromPipe
  <2>4. UNCHANGED <<serverStatus, toServe, workerVars, backlog, talk, alive, dpc>>
    BY <1>11 DEF FromPipe, Handled
  <2> HIDE DEF m
  <2>5. link' \in [Peers ->
                    {"away", "pending", "open", "refused", "closed", "cut"}]
    <3>1. CASE Reset(m.fd)
      BY <1>4, <3>1 DEF Reset
    <3>2. CASE Close(m.fd)
      BY <1>4, <3>2 DEF Close
    <3> QED
      BY <2>3, <3>1, <3>2
  <2>6. owner' \in [Fds -> Peers \cup {NULL}]
    BY <1>4, <2>1, <2>3 DEF Reset, Close
  <2>7. clientNum' \in Int
    BY <1>4, <2>3 DEF Reset, Close
  <2> QED
    BY <1>4, <2>2, <2>4, <2>5, <2>6, <2>7 DEF workerVars
<1>12. ASSUME NEW f \in Fds, FromClient(f) PROVE Rest'
  <2>1. toServe' \in Seq(Fds \cup {NULL})
    BY <1>4, <1>12, AppendProperties DEF FromClient
  <2> QED
    BY <1>4, <1>12, <2>1 DEF FromClient, Handled, workerVars, peerVars
<1>13. CASE Collect
  <2>1. Cardinality(Workers) \in Nat
    BY WorkersAssumption, FS_CardinalityType
  <2>2. Poison \in Seq(Fds \cup {NULL})
    BY <2>1, IsASeq DEF Poison
  <2>3. toServe' \in Seq(Fds \cup {NULL})
    BY <1>4, <1>13, <2>2, ConcatProperties DEF Collect
  <2> QED
    BY <1>4, <1>13, <2>3 DEF Collect, dispatcherVars, workerVars, peerVars
<1>14. ASSUME NEW w \in Workers, Pop(w) PROVE Rest'
  <2>1. toServe' \in Seq(Fds \cup {NULL}) /\ Head(toServe) \in Fds \cup {NULL}
    BY <1>4, <1>14, HeadTailProperties DEF Pop
  <2> QED
    BY <1>4, <1>14, <2>1 DEF Pop, Moves, dispatcherVars, peerVars
<1>15. ASSUME NEW f \in Fds
       PROVE  /\ owner[f] \in Peers \cup {NULL}
              /\ (ListenClient(f) \/ DisconnClient(f)
                    => doneReq' \in Seq([fd: Fds, reset: BOOLEAN]))
              /\ (sendClientResult(f) \/ sendClientFatalError(f)
                    => /\ doneReq' \in Seq([fd: Fds, reset: BOOLEAN])
                       /\ talk' \in [Peers -> {"quiet", "asking", "waiting"}]
                       /\ link' \in [Peers -> {"away", "pending", "open",
                                               "refused", "closed", "cut"}])
  <2>1. owner[f] \in Peers \cup {NULL}
    BY <1>4
  <2>2. ListenClient(f) \/ DisconnClient(f)
          => doneReq' \in Seq([fd: Fds, reset: BOOLEAN])
    <3>1. \A b \in BOOLEAN : [fd |-> f, reset |-> b] \in [fd: Fds, reset: BOOLEAN]
      OBVIOUS
    <3>2. doneReq \in Seq([fd: Fds, reset: BOOLEAN])
      BY <1>4
    <3>3. \A b \in BOOLEAN : Append(doneReq, [fd |-> f, reset |-> b])
                              \in Seq([fd: Fds, reset: BOOLEAN])
      BY <3>1, <3>2, AppendProperties
    <3> QED
      BY <3>3 DEF ListenClient, DisconnClient
  <2>3. ASSUME sendClientResult(f)
        PROVE  /\ doneReq' \in Seq([fd: Fds, reset: BOOLEAN])
               /\ talk' \in [Peers -> {"quiet", "asking", "waiting"}]
               /\ link' \in [Peers -> {"away", "pending", "open", "refused",
                                       "closed", "cut"}]
    BY <1>4, <2>1, <2>2, <2>3 DEF sendClientResult, Reachable
  <2>4. ASSUME sendClientFatalError(f)
        PROVE  /\ doneReq' \in Seq([fd: Fds, reset: BOOLEAN])
               /\ talk' \in [Peers -> {"quiet", "asking", "waiting"}]
               /\ link' \in [Peers -> {"away", "pending", "open", "refused",
                                       "closed", "cut"}]
    BY <1>4, <2>1, <2>2, <2>4 DEF sendClientFatalError
  <2> HIDE DEF Rest
  <2> QED
    BY <2>1, <2>2, <2>3, <2>4
<1>16. ASSUME NEW w \in Workers, wpc[w] \in Serving
       PROVE  job[w] \in Fds /\ Client(w) \in Peers \cup {NULL}
  BY <1>1, <1>4, <1>15, <1>16 DEF HasJob, Client
<1>17. ASSUME NEW w \in Workers, ReadRequest(w) PROVE Rest'
  <2>1. job[w] \in Fds /\ Client(w) \in Peers
    BY <1>16, <1>17 DEF ReadRequest, Serving
  <2> QED
    BY <1>4, <1>17, <2>1 DEF ReadRequest, Moves, dispatcherVars, peerVars
<1>18. ASSUME NEW w \in Workers, ReadFails(w) PROVE Rest'
  <2>1. doneReq' \in Seq([fd: Fds, reset: BOOLEAN])
    BY <1>15, <1>16, <1>18 DEF ReadFails, Serving
  <2> QED
    BY <1>4, <1>18, <2>1 DEF ReadFails, Moves, dispatcherVars, peerVars
<1>19. ASSUME NEW w \in Workers, Answer(w) \/ AnswerFatal(w) PROVE Rest'
  <2>1. job[w] \in Fds
    BY <1>16, <1>19 DEF Answer, AnswerFatal, Serving
  <2>2. /\ doneReq' \in Seq([fd: Fds, reset: BOOLEAN])
        /\ talk' \in [Peers -> {"quiet", "asking", "waiting"}]
        /\ link' \in [Peers -> {"away", "pending", "open", "refused", "closed",
                                "cut"}]
    BY <1>15, <1>19, <2>1 DEF Answer, AnswerFatal
  <2> QED
    BY <1>4, <1>19, <2>2 DEF Answer, AnswerFatal, Finishes, Moves, dispatcherVars
<1>20. ASSUME NEW w \in Workers, Use(w) PROVE Rest'
  <2>1. job[w] \in Fds
    BY <1>16, <1>20 DEF Use, Serving
  <2> QED
    BY <1>4, <1>20, <2>1 DEF Use, Moves, dispatcherVars, peerVars
<1>21. ASSUME NEW w \in Workers, Park(w) PROVE Rest'
  <2>1. job[w] \in Fds
    BY <1>16, <1>21 DEF Park, Serving
  <2> QED
    BY <1>4, <1>21, <2>1 DEF Park, Moves, dispatcherVars, peerVars
<1>22. ASSUME NEW w \in Workers, PayloadCut(w) \/ DisconnectAgain(w) PROVE Rest'
  <2>1. doneReq' \in Seq([fd: Fds, reset: BOOLEAN]) /\ job[w] \in Fds
    BY <1>15, <1>16, <1>22 DEF PayloadCut, DisconnectAgain, Serving
  <2> QED
    BY <1>4, <1>22, <2>1 DEF PayloadCut, DisconnectAgain, Moves, dispatcherVars,
                             peerVars
<1>23. ASSUME NEW w \in Workers, InformClientDelete(w) PROVE Rest'
  <2>1. PICK f \in parked :
               /\ parked' = parked \ {f}
               /\ \/ sendClientResult(f) /\ UNCHANGED dropped
                  \/ sendClientFatalError(f) /\ UNCHANGED dropped
                  \/ /\ dropped' = dropped \cup {f}
                     /\ UNCHANGED <<doneReq, link, talk>>
    BY <1>23 DEF InformClientDelete
  <2>2. f \in Fds
    BY <1>4
  <2>3. /\ doneReq' \in Seq([fd: Fds, reset: BOOLEAN])
        /\ talk' \in [Peers -> {"quiet", "asking", "waiting"}]
        /\ link' \in [Peers -> {"away", "pending", "open", "refused", "closed",
                                "cut"}]
    BY <1>4, <1>15, <2>1, <2>2
  <2>4. parked' \subseteq Fds /\ dropped' \subseteq Fds
    BY <1>4, <2>1, <2>2
  <2> QED
    BY <1>4, <1>23, <2>3, <2>4 DEF InformClientDelete, dispatcherVars
<1>24. ASSUME NEW w \in Workers, NextRequest(w) PROVE Rest'
  BY <1>4, <1>24 DEF NextRequest, Moves, dispatcherVars, peerVars
<1> HIDE DEF Rest
<1> QED
  BY <1>5, <1>6, <1>7, <1>8, <1>9, <1>10, <1>11, <1>12, <1>13, <1>14, <1>17,
     <1>18, <1>19, <1>20, <1>21, <1>22, <1>23, <1>24 DEF Next, Dispatch, Work

LEMMA CoreStep == ASSUME Core, [Next]_vars PROVE Core'
<1>1. TypeOK /\ HasJob /\ PipeReady
  BY DEF Core
<1>2. /\ wpc \in [Workers -> {"pop", "read", "work", "handle", "again", "next", "exit"}]
      /\ job \in [Workers -> Fds \cup {NULL}]
      /\ NULL \notin Fds /\ parked \subseteq Fds
  BY <1>1, NULLAssumption DEF TypeOK
<1>3. TypeOK' /\ MaskHeard'
  BY TypeStep, MaskStep
<1>4. HasJob'
  <2>1. ASSUME NEW w \in Workers, NEW l, NEW f, Moves(w, l, f),
               l \in Serving <=> f # NULL
        PROVE  HasJob'
    BY <1>1, <1>2, <2>1 DEF HasJob, Moves
  <2>2. ASSUME NEW w \in Workers, Work(w) PROVE HasJob'
    <3>1. CASE Pop(w)
      BY <2>1, <3>1 DEF Pop, Serving
    <3>2. CASE ReadRequest(w) \/ Use(w) \/ PayloadCut(w)
      <4>1. job[w] # NULL
        BY <1>1, <3>2 DEF HasJob, Serving, ReadRequest, Use, PayloadCut
      <4> QED
        BY <2>1, <3>2, <4>1 DEF ReadRequest, Use, PayloadCut, Serving
    <3>3. CASE \/ ReadFails(w) \/ Answer(w) \/ AnswerFatal(w) \/ Park(w)
               \/ DisconnectAgain(w)
      BY <2>1, <3>3 DEF ReadFails, Answer, AnswerFatal, Finishes, Park,
                        DisconnectAgain, Serving
    <3>4. CASE NextRequest(w)
      <4>1. \A f \in parked : f # NULL
        BY <1>2
      <4> QED
        BY <2>1, <3>4, <4>1 DEF NextRequest, Serving
    <3>5. CASE InformClientDelete(w)
      BY <1>1, <3>5 DEF InformClientDelete, HasJob
    <3> QED
      BY <2>2, <3>1, <3>2, <3>3, <3>4, <3>5 DEF Work
  <2>3. CASE UNCHANGED <<wpc, job>>
    BY <1>1, <2>3 DEF HasJob
  <2> QED
    BY <2>2, <2>3
       DEF Next, vars, workerVars, Connect, Ask, Leave, Signal, Dispatch, Test,
           MaskSocket, Select, Accept, AcceptFails, FromPipe, FromClient, ScanEnds,
           Collect, Join
<1>5. PipeReady'
  <2>1. CASE Select
    <3>1. Readable(PIPE) <=> doneReq # <<>>
      BY DEF Readable, PIPE, SOCKET
    <3>2. PIPE \in rdSet' => Readable(PIPE)
      BY <2>1 DEF Select
    <3>3. UNCHANGED doneReq
      BY <2>1 DEF Select
    <3> QED
      BY <3>1, <3>2, <3>3 DEF PipeReady
  <2>2. CASE FromPipe
    BY <2>2 DEF FromPipe, Handled, PipeReady
  <2>3. CASE rdSet' \subseteq rdSet /\ UNCHANGED doneReq
    BY <1>1, <2>3 DEF PipeReady
  <2>4. ASSUME NEW w \in Workers, Work(w) PROVE PipeReady'
    <3>1. UNCHANGED rdSet
      BY <2>4 DEF Work, Pop, ReadRequest, ReadFails, Answer, AnswerFatal, Use, Park,
                  PayloadCut, DisconnectAgain, InformClientDelete, NextRequest,
                  dispatcherVars
    <3>2. CASE UNCHANGED doneReq
      BY <2>3, <3>1, <3>2
    <3>3. ASSUME NEW f \in Fds, ListenClient(f) \/ DisconnClient(f)
          PROVE  PipeReady'
      <4>1. \A b \in BOOLEAN : Append(doneReq, [fd |-> f, reset |-> b]) # <<>>
        <5>1. \A b \in BOOLEAN :
                [fd |-> f, reset |-> b] \in [fd: Fds, reset: BOOLEAN]
          OBVIOUS
        <5>2. doneReq \in Seq([fd: Fds, reset: BOOLEAN])
          BY <1>1 DEF TypeOK
        <5> DEFINE M == [fd: Fds, reset: BOOLEAN]
        <5>3. doneReq \in Seq(M) /\ \A b \in BOOLEAN : [fd |-> f, reset |-> b] \in M
          BY <5>1, <5>2
        <5> HIDE DEF M
        <5>4. \A m \in M : Append(doneReq, m) # <<>>
          BY <5>3, AppendProperties
        <5> QED
          BY <5>3, <5>4
      <4> QED
        BY <3>3, <4>1 DEF PipeReady, ListenClient, DisconnClient
    <3>4. wpc[w] \in Serving => job[w] \in Fds
      BY <1>1, <1>2 DEF HasJob
    <3>5. CASE InformClientDelete(w)
      BY <1>2, <3>2, <3>3, <3>5
         DEF InformClientDelete, sendClientResult, sendClientFatalError
    <3>6. CASE \/ Pop(w) \/ ReadRequest(w) \/ Use(w) \/ Park(w) \/ NextRequest(w)
      BY <3>2, <3>6 DEF Pop, ReadRequest, Use, Park, NextRequest
    <3>7. CASE ReadFails(w) \/ PayloadCut(w) \/ DisconnectAgain(w)
      <4>1. wpc[w] \in Serving /\ DisconnClient(job[w])
        BY <3>7 DEF ReadFails, PayloadCut, DisconnectAgain, Serving
      <4> QED
        BY <3>3, <3>4, <4>1
    <3>8. CASE Answer(w) \/ AnswerFatal(w)
      <4>1. wpc[w] \in Serving /\ (ListenClient(job[w]) \/ DisconnClient(job[w]))
        BY <3>8 DEF Answer, AnswerFatal, sendClientResult, sendClientFatalError,
                    Serving
      <4> QED
        BY <3>3, <3>4, <4>1
    <3> QED
      BY <2>4, <3>5, <3>6, <3>7, <3>8 DEF Work
  <2> QED
    BY <2>1, <2>2, <2>3, <2>4
       DEF Next, vars, dispatcherVars, Connect, Ask, Leave, Signal, Dispatch, Test,
           MaskSocket, Accept, AcceptFails, FromClient, Handled, ScanEnds, Collect,
           Join
<1> QED
  BY <1>3, <1>4, <1>5 DEF Core

-----------------------------------------------------------------------------
(* The places a descriptor can be in *)

Messages(f) == {m \in [fd: Fds, reset: BOOLEAN] : m.fd = f}
Masked(f) == IF f \in set THEN 1 ELSE 0
Waiting(f) == IF f \in parked THEN 1 ELSE 0
Queued(f) == Count(toServe, {f})
Hands(f) == {w \in Workers : job[w] = f}
InHand(f) == Cardinality(Hands(f))
Done(f) == Count(doneReq, Messages(f))
Lost(f) == IF f \in dropped THEN 1 ELSE 0
One(f, g) == IF f = g THEN 1 ELSE 0

LEMMA PlacesSum ==
  ASSUME TypeOK, NEW f \in Fds
  PROVE  /\ Places(f) = Masked(f) + Waiting(f) + Queued(f) + InHand(f) + Done(f)
         /\ Masked(f) \in Nat /\ Waiting(f) \in Nat /\ Queued(f) \in Nat
         /\ InHand(f) \in Nat /\ Done(f) \in Nat /\ IsFiniteSet(Hands(f))
<1>1. toServe \in Seq(Fds \cup {NULL}) /\ doneReq \in Seq([fd: Fds, reset: BOOLEAN])
  BY DEF TypeOK
<1>2. {i \in DOMAIN toServe : toServe[i] = f} = At(toServe, {f})
  BY DEF At
<1>3. {i \in DOMAIN doneReq : doneReq[i].fd = f} = At(doneReq, Messages(f))
  <2>1. \A i \in DOMAIN doneReq : doneReq[i] \in [fd: Fds, reset: BOOLEAN]
    BY <1>1, LenProperties, ElementOfSeq
  <2> QED
    BY <2>1 DEF At, Messages
<1>4. Queued(f) \in Nat /\ Done(f) \in Nat
  BY <1>1, CountNat DEF Queued, Done
<1>5. IsFiniteSet(Hands(f)) /\ InHand(f) \in Nat
  <2>1. Hands(f) \in SUBSET Workers
    BY DEF Hands
  <2> QED
    BY <2>1, WorkersAssumption, FS_Subset, FS_CardinalityType DEF InHand
<1>6. Masked(f) \in Nat /\ Waiting(f) \in Nat
  BY DEF Masked, Waiting
<1>7. /\ Cardinality({i \in DOMAIN toServe : toServe[i] = f}) = Queued(f)
      /\ Cardinality({i \in DOMAIN doneReq : doneReq[i].fd = f}) = Done(f)
      /\ Cardinality({w \in Workers : job[w] = f}) = InHand(f)
  BY <1>2, <1>3 DEF Queued, Done, InHand, Hands, Count
<1>8. Places(f) = Masked(f) + Waiting(f) + Queued(f) + InHand(f) + Done(f)
  BY <1>7 DEF Places, Masked, Waiting
<1> QED
  BY <1>4, <1>5, <1>6, <1>8

LEMMA QueuedAppend ==
  ASSUME TypeOK, NEW g \in Fds, toServe' = Append(toServe, g), NEW f \in Fds
  PROVE  Queued(f)' = Queued(f) + One(f, g)
<1>1. toServe \in Seq(Fds \cup {NULL}) /\ g \in Fds \cup {NULL}
  BY DEF TypeOK
<1>2. Count(toServe', {f}) = Count(toServe, {f}) + (IF g \in {f} THEN 1 ELSE 0)
  BY <1>1, CountAppend
<1> QED
  BY <1>2 DEF Queued, One

LEMMA QueuedTail ==
  ASSUME TypeOK, toServe # <<>>, toServe' = Tail(toServe), NEW f \in Fds
  PROVE  Queued(f)' = Queued(f) - One(f, Head(toServe))
<1>1. toServe \in Seq(Fds \cup {NULL})
  BY DEF TypeOK
<1>2. Count(toServe', {f})
        = Count(toServe, {f}) - (IF Head(toServe) \in {f} THEN 1 ELSE 0)
  BY <1>1, CountTail
<1> QED
  BY <1>2 DEF Queued, One

LEMMA DoneAppend ==
  ASSUME TypeOK, NEW g \in Fds, ListenClient(g) \/ DisconnClient(g), NEW f \in Fds
  PROVE  Done(f)' = Done(f) + One(f, g)
<1>1. doneReq \in Seq([fd: Fds, reset: BOOLEAN])
  BY DEF TypeOK
<1>2. PICK b \in BOOLEAN : doneReq' = Append(doneReq, [fd |-> g, reset |-> b])
  BY DEF ListenClient, DisconnClient
<1> DEFINE m == [fd |-> g, reset |-> b]
<1>3. m \in Messages(f) <=> f = g
  BY DEF Messages
<1>4. m \in [fd: Fds, reset: BOOLEAN] /\ doneReq' = Append(doneReq, m)
  BY <1>2
<1> HIDE DEF m
<1>5. Count(doneReq', Messages(f))
        = Count(doneReq, Messages(f)) + (IF m \in Messages(f) THEN 1 ELSE 0)
  <2> DEFINE M == [fd: Fds, reset: BOOLEAN]
  <2>1. doneReq \in Seq(M) /\ m \in M
    BY <1>1, <1>4
  <2> HIDE DEF M
  <2>2. \A P : Count(Append(doneReq, m), P)
                = Count(doneReq, P) + (IF m \in P THEN 1 ELSE 0)
    BY <2>1, CountAppend
  <2> QED
    BY <1>4, <2>2
<1> QED
  BY <1>3, <1>5 DEF Done, One, Messages

LEMMA DoneTail ==
  ASSUME Core, FromPipe, NEW f \in Fds
  PROVE  Done(f)' = Done(f) - One(f, Head(doneReq).fd)
<1> DEFINE m == Head(doneReq)
<1>1. doneReq \in Seq([fd: Fds, reset: BOOLEAN])
  BY DEF Core, TypeOK
<1>2. doneReq # <<>> /\ m \in [fd: Fds, reset: BOOLEAN] /\ doneReq' = Tail(doneReq)
  BY PipeHead DEF FromPipe
<1>3. m \in Messages(f) <=> f = m.fd
  BY <1>2 DEF Messages
<1>4. Count(doneReq', Messages(f))
        = Count(doneReq, Messages(f)) - (IF m \in Messages(f) THEN 1 ELSE 0)
  BY <1>1, <1>2, CountTail
<1> QED
  BY <1>3, <1>4 DEF Done, One, Messages

LEMMA InHandMoves ==
  ASSUME TypeOK, NEW w \in Workers, NEW l, NEW g, Moves(w, l, g), NEW f \in Fds
  PROVE  InHand(f)' = InHand(f) - One(f, job[w]) + One(f, g)
<1>1. job \in [Workers -> Fds \cup {NULL}] /\ job' = [job EXCEPT ![w] = g]
  BY DEF TypeOK, Moves
<1>2. IsFiniteSet(Hands(f)) /\ InHand(f) \in Nat
  BY PlacesSum
<1> DEFINE others == Hands(f) \ {w}
<1>3. IsFiniteSet(others) /\ Cardinality(others) = InHand(f) - One(f, job[w])
  BY <1>2, FS_RemoveElement DEF Hands, InHand, One
<1>4. Hands(f)' = IF f = g THEN others \cup {w} ELSE others
  BY <1>1 DEF Hands
<1>5. w \notin others
  OBVIOUS
<1> HIDE DEF others
<1>6. Cardinality(others \cup {w}) = Cardinality(others) + 1
  BY <1>3, <1>5, FS_AddElement
<1>7. Cardinality(others) \in Nat
  BY <1>3, FS_CardinalityType
<1>8. InHand(f)' = Cardinality(others) + One(f, g)
  BY <1>4, <1>6, <1>7 DEF InHand, One
<1> QED
  BY <1>3, <1>8

Counted(f) ==
  /\ Places(f) = Masked(f) + Waiting(f) + Queued(f) + InHand(f) + Done(f)
  /\ Masked(f) \in Nat /\ Waiting(f) \in Nat /\ Queued(f) \in Nat
  /\ InHand(f) \in Nat /\ Done(f) \in Nat /\ Places(f) \in Nat
  /\ Lost(f) \in Nat

(* The counts are numbers, before and after a step.                        *)
LEMMA AllCounted ==
  (TypeOK => \A f \in Fds : Counted(f)) /\ (TypeOK' => \A f \in Fds : Counted(f)')
<1>1. TypeOK => \A f \in Fds : Counted(f)
  BY PlacesSum DEF Counted, Lost
<1>2. TypeOK' => (\A f \in Fds : Counted(f))'
  BY <1>1, PTL
<1> QED
  BY <1>1, <1>2

-----------------------------------------------------------------------------
(* One place for each descriptor, when no payload is cut                   *)

(* An open descriptor is in one place, or its request was destroyed; a     *)
(* closed one is in none, and none of its requests was.                    *)
Balanced ==
  \A f \in Fds : Places(f) + Lost(f) = IF owner[f] = NULL THEN 0 ELSE 1

(* What the scan still has to handle is in the mask.                       *)
Scanned == \A f \in rdSet \cap Fds : f \in set
NoAgain == \A w \in Workers : wpc[w] # "again"
Tally == Core /\ Balanced /\ Scanned /\ NoAgain /\ ClientNumExact

LEMMA BalancedOnePlace == ASSUME Tally PROVE OnePlace
<1>1. ASSUME NEW f \in Fds
      PROVE  Places(f) = IF owner[f] = NULL \/ f \in dropped THEN 0 ELSE 1
  <2>1. Counted(f)
    BY AllCounted DEF Tally, Core
  <2>2. Places(f) + Lost(f) = IF owner[f] = NULL THEN 0 ELSE 1
    BY DEF Tally, Balanced
  <2> QED
    BY <2>1, <2>2 DEF Counted, Lost
<1> QED
  BY <1>1 DEF OnePlace

Sum(f) == Masked(f) + Waiting(f) + Queued(f) + InHand(f) + Done(f) + Lost(f)

LEMMA Balance ==
  ASSUME Tally, Core', UNCHANGED owner, \A f \in Fds : Sum(f)' = Sum(f)
  PROVE  Balanced'
<1>1. \A f \in Fds : /\ Places(f) + Lost(f) = Sum(f)
                     /\ (Places(f) + Lost(f))' = Sum(f)'
  BY AllCounted DEF Tally, Core, Counted, Sum
<1>2. \A f \in Fds : Places(f) + Lost(f) = IF owner[f] = NULL THEN 0 ELSE 1
  BY DEF Tally, Balanced
<1> QED
  BY <1>1, <1>2 DEF Balanced

(* A descriptor that is in a place is in no other, and it is open.         *)
LEMMA Alone ==
  ASSUME Tally, NEW f \in Fds
  PROVE  /\ owner[f] = NULL => /\ Masked(f) = 0 /\ Waiting(f) = 0 /\ Queued(f) = 0
                               /\ InHand(f) = 0 /\ Done(f) = 0 /\ Lost(f) = 0
         /\ f \in set => /\ owner[f] # NULL /\ Waiting(f) = 0 /\ Queued(f) = 0
                         /\ InHand(f) = 0 /\ Done(f) = 0
         /\ f \in parked => owner[f] # NULL /\ f \notin set /\ f \notin dropped
         /\ Done(f) > 0 => owner[f] # NULL /\ f \notin set
         /\ InHand(f) > 0 => owner[f] # NULL /\ f \notin parked /\ f \notin set
         /\ Queued(f) > 0 => owner[f] # NULL /\ f \notin set
<1>1. Counted(f)
  BY AllCounted DEF Tally, Core
<1>2. Places(f) + Lost(f) = IF owner[f] = NULL THEN 0 ELSE 1
  BY DEF Tally, Balanced
<1>3. /\ f \in set <=> Masked(f) = 1
      /\ f \in parked <=> Waiting(f) = 1
      /\ f \in dropped <=> Lost(f) = 1
  BY DEF Masked, Waiting, Lost
<1>4. Masked(f) + Waiting(f) + Queued(f) + InHand(f) + Done(f) + Lost(f)
        = IF owner[f] = NULL THEN 0 ELSE 1
  BY <1>1, <1>2 DEF Counted
<1>5. /\ Masked(f) \in Nat /\ Waiting(f) \in Nat /\ Queued(f) \in Nat
      /\ InHand(f) \in Nat /\ Done(f) \in Nat /\ Lost(f) \in Nat
  BY <1>1 DEF Counted
<1>6. CASE owner[f] = NULL
  <2>1. /\ Masked(f) = 0 /\ Waiting(f) = 0 /\ Queued(f) = 0
        /\ InHand(f) = 0 /\ Done(f) = 0 /\ Lost(f) = 0
    BY <1>4, <1>5, <1>6
  <2> QED
    BY <1>3, <2>1
<1>7. CASE owner[f] # NULL
  <2>1. Masked(f) = 1 => /\ Waiting(f) = 0 /\ Queued(f) = 0
                         /\ InHand(f) = 0 /\ Done(f) = 0
    BY <1>4, <1>5, <1>7
  <2>2. /\ Waiting(f) = 1 => Masked(f) # 1 /\ Lost(f) # 1
        /\ Done(f) > 0 => Masked(f) # 1
        /\ InHand(f) > 0 => Waiting(f) # 1 /\ Masked(f) # 1
        /\ Queued(f) > 0 => Masked(f) # 1
    BY <1>4, <1>5, <1>7
  <2>3. /\ f \in parked => f \notin set /\ f \notin dropped
        /\ Done(f) > 0 => f \notin set
        /\ InHand(f) > 0 => f \notin parked /\ f \notin set
        /\ Queued(f) > 0 => f \notin set
    BY <1>3, <2>2
  <2>4. f \in set => /\ Waiting(f) = 0 /\ Queued(f) = 0
                     /\ InHand(f) = 0 /\ Done(f) = 0
    BY <1>3, <2>1
  <2> QED
    BY <1>7, <2>3, <2>4
<1> QED
  BY <1>6, <1>7

LEMMA HandCounted ==
  ASSUME TypeOK, NEW w \in Workers, job[w] \in Fds
  PROVE  InHand(job[w]) > 0
<1>1. IsFiniteSet(Hands(job[w])) /\ w \in Hands(job[w])
  BY PlacesSum DEF Hands
<1>2. Cardinality(Hands(job[w])) # 0
  BY <1>1, FS_EmptySet
<1>3. Cardinality(Hands(job[w])) \in Nat
  BY <1>1, FS_CardinalityType
<1> QED
  BY <1>2, <1>3 DEF InHand

(* The mask and the FIFO.                                                  *)
LEMMA FromClientOne ==
  ASSUME Tally, Core', NEW g \in Fds, FromClient(g)
  PROVE  Balanced'
<1>1. TypeOK /\ g \in set
  BY ReadyFound DEF Tally, Core, Scanned, FromClient
<1>2. /\ toServe' = Append(toServe, g) /\ set' = set \ {g}
      /\ UNCHANGED <<owner, doneReq, parked, dropped, job>>
  BY DEF FromClient, workerVars
<1>3. ASSUME NEW f \in Fds PROVE Sum(f)' = Sum(f)
  <2>1. Counted(f)
    BY <1>1, AllCounted
  <2>2. Queued(f)' = Queued(f) + One(f, g)
    BY <1>1, <1>2, QueuedAppend
  <2>3. Masked(f)' = Masked(f) - One(f, g)
    BY <1>1, <1>2 DEF Masked, One
  <2>4. /\ Waiting(f)' = Waiting(f) /\ InHand(f)' = InHand(f)
        /\ Done(f)' = Done(f) /\ Lost(f)' = Lost(f)
    BY <1>2 DEF Waiting, InHand, Hands, Done, Lost
  <2>5. One(f, g) \in Nat
    BY DEF One
  <2> QED
    BY <2>1, <2>2, <2>3, <2>4, <2>5 DEF Sum, Counted
<1> QED
  BY <1>2, <1>3, Balance

(* The FIFO and a worker.                                                  *)
LEMMA PopOne ==
  ASSUME Tally, Core', NEW w \in Workers, Pop(w)
  PROVE  Balanced'
<1> DEFINE g == Head(toServe)
<1>1. /\ TypeOK /\ toServe # <<>> /\ toServe' = Tail(toServe)
      /\ UNCHANGED <<owner, doneReq, parked, dropped, set>>
  BY DEF Tally, Core, Pop, dispatcherVars
<1>2. job[w] = NULL
  BY DEF Tally, Core, HasJob, Serving, Pop
<1>3. PICK l : Moves(w, l, g)
  BY DEF Pop
<1>4. ASSUME NEW f \in Fds PROVE Sum(f)' = Sum(f)
  <2>1. Counted(f)
    BY <1>1, AllCounted
  <2>2. Queued(f)' = Queued(f) - One(f, g)
    BY <1>1, QueuedTail
  <2>3. InHand(f)' = InHand(f) - One(f, job[w]) + One(f, g)
    BY <1>1, <1>3, InHandMoves
  <2>4. One(f, job[w]) = 0
    BY <1>2, NULLAssumption DEF One
  <2>5. /\ Waiting(f)' = Waiting(f) /\ Masked(f)' = Masked(f)
        /\ Done(f)' = Done(f) /\ Lost(f)' = Lost(f)
    BY <1>1 DEF Waiting, Masked, Done, Lost
  <2>6. One(f, g) \in Nat
    BY DEF One
  <2> QED
    BY <2>1, <2>2, <2>3, <2>4, <2>5, <2>6 DEF Sum, Counted
<1> QED
  BY <1>1, <1>4, Balance

(* A worker and the pipe.                                                  *)
LEMMA ReturnOne ==
  ASSUME Tally, Core', NEW w \in Workers, NEW l, Moves(w, l, NULL),
         job[w] \in Fds, ListenClient(job[w]) \/ DisconnClient(job[w]),
         UNCHANGED <<set, parked, dropped, toServe, owner>>
  PROVE  Balanced'
<1>1. TypeOK
  BY DEF Tally, Core
<1>2. ASSUME NEW f \in Fds PROVE Sum(f)' = Sum(f)
  <2>1. Counted(f)
    BY <1>1, AllCounted
  <2>2. Done(f)' = Done(f) + One(f, job[w])
    BY <1>1, DoneAppend
  <2>3. InHand(f)' = InHand(f) - One(f, job[w]) + One(f, NULL)
    BY <1>1, InHandMoves
  <2>4. One(f, NULL) = 0
    BY NULLAssumption DEF One
  <2>5. /\ Waiting(f)' = Waiting(f) /\ Masked(f)' = Masked(f)
        /\ Queued(f)' = Queued(f) /\ Lost(f)' = Lost(f)
    BY DEF Waiting, Masked, Queued, Lost
  <2>6. One(f, job[w]) \in Nat
    BY DEF One
  <2> QED
    BY <2>1, <2>2, <2>3, <2>4, <2>5, <2>6 DEF Sum, Counted
<1> QED
  BY <1>2, Balance

(* A worker and the queue of a file.                                       *)
LEMMA ParkOne ==
  ASSUME Tally, Core', NEW w \in Workers, Park(w)
  PROVE  Balanced'
<1>1. /\ TypeOK /\ Moves(w, "pop", NULL) /\ parked' = parked \cup {job[w]}
      /\ UNCHANGED <<set, toServe, doneReq, dropped, owner>>
  BY DEF Tally, Core, Park, dispatcherVars
<1>2. job[w] \in Fds
  BY <1>1 DEF Tally, Core, HasJob, Serving, Park, TypeOK
<1>3. job[w] \notin parked
  BY <1>1, <1>2, Alone, HandCounted
<1>4. ASSUME NEW f \in Fds PROVE Sum(f)' = Sum(f)
  <2>1. Counted(f)
    BY <1>1, AllCounted
  <2>2. Waiting(f)' = Waiting(f) + One(f, job[w])
    BY <1>1, <1>3 DEF Waiting, One
  <2>3. InHand(f)' = InHand(f) - One(f, job[w]) + One(f, NULL)
    BY <1>1, InHandMoves
  <2>4. One(f, NULL) = 0
    BY NULLAssumption DEF One
  <2>5. /\ Done(f)' = Done(f) /\ Masked(f)' = Masked(f)
        /\ Queued(f)' = Queued(f) /\ Lost(f)' = Lost(f)
    BY <1>1 DEF Done, Masked, Queued, Lost
  <2>6. One(f, job[w]) \in Nat
    BY DEF One
  <2> QED
    BY <2>1, <2>2, <2>3, <2>4, <2>5, <2>6 DEF Sum, Counted
<1> QED
  BY <1>1, <1>4, Balance

LEMMA NextRequestOne ==
  ASSUME Tally, Core', NEW w \in Workers, NextRequest(w)
  PROVE  Balanced'
<1>1. TypeOK /\ UNCHANGED <<set, toServe, doneReq, dropped, owner>>
  BY DEF Tally, Core, NextRequest, dispatcherVars
<1>2. job[w] = NULL
  BY DEF Tally, Core, HasJob, Serving, NextRequest
<1>3. ASSUME NEW f \in Fds
      PROVE  /\ Counted(f) /\ One(f, NULL) = 0
             /\ Done(f)' = Done(f) /\ Masked(f)' = Masked(f)
             /\ Queued(f)' = Queued(f) /\ Lost(f)' = Lost(f)
  BY <1>1, AllCounted, NULLAssumption DEF Done, Masked, Queued, Lost, One
<1>4. CASE \E g \in parked : parked' = parked \ {g} /\ Moves(w, "handle", g)
  <2>1. PICK g \in parked : parked' = parked \ {g} /\ Moves(w, "handle", g)
    BY <1>4
  <2>2. ASSUME NEW f \in Fds PROVE Sum(f)' = Sum(f)
    <3>1. Waiting(f)' = Waiting(f) - One(f, g) /\ One(f, g) \in Nat
      BY <2>1 DEF Waiting, One
    <3>2. InHand(f)' = InHand(f) - One(f, NULL) + One(f, g)
      BY <1>1, <1>2, <2>1, InHandMoves
    <3> QED
      BY <1>3, <3>1, <3>2 DEF Sum, Counted
  <2> QED
    BY <1>1, <2>2, Balance
<1>5. CASE Moves(w, "pop", NULL) /\ UNCHANGED parked
  <2>1. ASSUME NEW f \in Fds PROVE Sum(f)' = Sum(f)
    <3>1. InHand(f)' = InHand(f) - One(f, NULL) + One(f, NULL)
      BY <1>1, <1>2, <1>5, InHandMoves
    <3>2. Waiting(f)' = Waiting(f)
      BY <1>5 DEF Waiting
    <3> QED
      BY <1>3, <3>1, <3>2 DEF Sum, Counted
  <2> QED
    BY <1>1, <2>1, Balance
<1> QED
  BY <1>4, <1>5 DEF NextRequest

(* informClientDelete: to the pipe, or nowhere.                            *)
LEMMA InformOne ==
  ASSUME Tally, Core', NEW w \in Workers, InformClientDelete(w)
  PROVE  Balanced'
<1>1. PICK g \in parked :
             /\ parked' = parked \ {g}
             /\ \/ /\ ListenClient(g) \/ DisconnClient(g)
                   /\ UNCHANGED dropped
                \/ dropped' = dropped \cup {g} /\ UNCHANGED doneReq
  BY DEF InformClientDelete, sendClientResult, sendClientFatalError
<1>2. TypeOK /\ g \in Fds /\ UNCHANGED <<set, toServe, job, owner>>
  BY DEF Tally, Core, TypeOK, InformClientDelete, dispatcherVars
<1>3. g \notin dropped
  BY <1>2, Alone
<1>4. ASSUME NEW f \in Fds PROVE Sum(f)' = Sum(f)
  <2>1. Counted(f)
    BY <1>2, AllCounted
  <2>2. Waiting(f)' = Waiting(f) - One(f, g) /\ One(f, g) \in Nat
    BY <1>1 DEF Waiting, One
  <2>3. /\ Masked(f)' = Masked(f) /\ Queued(f)' = Queued(f)
        /\ InHand(f)' = InHand(f)
    BY <1>2 DEF Masked, Queued, InHand, Hands
  <2>4. CASE (ListenClient(g) \/ DisconnClient(g)) /\ UNCHANGED dropped
    <3>1. Done(f)' = Done(f) + One(f, g) /\ Lost(f)' = Lost(f)
      BY <1>2, <2>4, DoneAppend DEF Lost
    <3> QED
      BY <2>1, <2>2, <2>3, <3>1 DEF Sum, Counted
  <2>5. CASE dropped' = dropped \cup {g} /\ UNCHANGED doneReq
    <3>1. Done(f)' = Done(f) /\ Lost(f)' = Lost(f) + One(f, g)
      BY <1>3, <2>5 DEF Done, Lost, One
    <3> QED
      BY <2>1, <2>2, <2>3, <3>1 DEF Sum, Counted
  <2> QED
    BY <1>1, <2>4, <2>5
<1> QED
  BY <1>2, <1>4, Balance

(* collectThreads puts no descriptor into the FIFO.                        *)
LEMMA CollectOne ==
  ASSUME Tally, Core', Collect
  PROVE  Balanced'
<1>1. /\ TypeOK /\ toServe' = toServe \o Poison
      /\ UNCHANGED <<set, parked, dropped, doneReq, job, owner>>
  BY DEF Tally, Core, Collect, dispatcherVars, workerVars
<1>2. toServe \in Seq(Fds \cup {NULL}) /\ Poison \in Seq(Fds \cup {NULL})
  <2>1. Cardinality(Workers) \in Nat
    BY WorkersAssumption, FS_CardinalityType
  <2>2. Poison \in Seq(Fds \cup {NULL})
    BY <2>1, IsASeq DEF Poison
  <2> QED
    BY <1>1, <2>2 DEF TypeOK
<1> DEFINE len == Len(toServe)
           n == Len(Poison)
<1>3. /\ len \in Nat /\ n \in Nat /\ DOMAIN toServe = 1..len /\ DOMAIN Poison = 1..n
      /\ \A i \in 1..n : Poison[i] = NULL
  BY <1>2, LenProperties DEF Poison
<1>4. /\ DOMAIN toServe' = 1..len + n
      /\ \A i \in 1..len + n :
           toServe'[i] = IF i <= len THEN toServe[i] ELSE Poison[i - len]
  BY <1>1, <1>2, ConcatProperties, LenProperties
<1>5. ASSUME NEW f \in Fds PROVE Sum(f)' = Sum(f)
  <2>1. f # NULL
    BY NULLAssumption
  <2>2. At(toServe', {f}) = At(toServe, {f})
    <3>1. ASSUME NEW i \in 1..len + n, ~(i <= len) PROVE toServe'[i] # f
      <4>1. i - len \in 1..n
        BY <1>3, <3>1
      <4> QED
        BY <1>3, <1>4, <2>1, <3>1, <4>1
    <3>2. ASSUME NEW i \in 1..len PROVE i \in 1..len + n /\ toServe'[i] = toServe[i]
      BY <1>3, <1>4
    <3>3. \A i \in 1..len + n : i <= len => i \in 1..len
      BY <1>3
    <3> HIDE DEF len, n
    <3> QED
      BY <1>3, <1>4, <3>1, <3>2, <3>3 DEF At
  <2>3. Queued(f)' = Queued(f)
    BY <2>2 DEF Queued, Count
  <2>4. /\ Waiting(f)' = Waiting(f) /\ Masked(f)' = Masked(f)
        /\ InHand(f)' = InHand(f) /\ Done(f)' = Done(f) /\ Lost(f)' = Lost(f)
    BY <1>1 DEF Waiting, Masked, InHand, Hands, Done, Lost
  <2> QED
    BY <2>3, <2>4 DEF Sum
<1> QED
  BY <1>1, <1>5, Balance

(* The pipe and the mask: what comes out of the pipe is open and was not   *)
(* in the mask.                                                            *)
LEMMA FromPipeOne ==
  ASSUME Tally, Core', FromPipe
  PROVE  LET g == Head(doneReq).fd IN
         /\ Balanced' /\ g \in Fds /\ owner[g] # NULL /\ g \notin set
<1> DEFINE g == Head(doneReq).fd
<1>1. TypeOK /\ TypeOK' /\ g \in Fds
  BY PipeHead DEF Tally, Core
<1>2. UNCHANGED <<toServe, parked, dropped, job>>
  BY DEF FromPipe, workerVars
<1>3. \A f \in Fds : Done(f)' = Done(f) - One(f, g)
  BY DoneTail DEF Tally
<1>4. Reset(g) \/ Close(g)
  BY DEF FromPipe
<1> HIDE DEF g
<1>5. \A f \in Fds : Counted(f) /\ Counted(f)'
  BY <1>1, AllCounted
<1>6. Done(g) > 0
  BY <1>1, <1>3, <1>5 DEF Counted, One
<1>7. owner[g] # NULL /\ g \notin set
  BY <1>1, <1>6, Alone
<1>8. \A f \in Fds : /\ Waiting(f)' = Waiting(f) /\ Queued(f)' = Queued(f)
                     /\ InHand(f)' = InHand(f) /\ Lost(f)' = Lost(f)
  BY <1>2 DEF Waiting, Queued, InHand, Hands, Lost
<1>9. CASE Reset(g)
  <2>1. ASSUME NEW f \in Fds PROVE Sum(f)' = Sum(f)
    <3>1. Masked(f)' = Masked(f) + One(f, g) /\ One(f, g) \in Nat
      BY <1>7, <1>9 DEF Reset, Masked, One
    <3> QED
      BY <1>3, <1>5, <1>8, <3>1 DEF Sum, Counted
  <2>2. UNCHANGED owner
    BY <1>9 DEF Reset
  <2> QED
    BY <1>1, <1>7, <2>1, <2>2, Balance DEF g
<1>10. CASE Close(g)
  <2>1. owner' = [owner EXCEPT ![g] = NULL] /\ set' = set \ {g}
    BY <1>10 DEF Close
  <2>2. owner \in [Fds -> Peers \cup {NULL}]
    BY <1>1 DEF TypeOK
  <2>3. ASSUME NEW f \in Fds
        PROVE  (Places(f) + Lost(f))' = IF owner'[f] = NULL THEN 0 ELSE 1
    <3>1. Masked(f)' = Masked(f)
      BY <1>7, <2>1 DEF Masked
    <3>2. Places(f)' = Places(f) - One(f, g)
      BY <1>3, <1>5, <1>8, <3>1 DEF Counted, One
    <3>3. Places(f) + Lost(f) = IF owner[f] = NULL THEN 0 ELSE 1
      BY DEF Tally, Balanced
    <3>4. owner'[f] = IF f = g THEN NULL ELSE owner[f]
      BY <2>1, <2>2
    <3> QED
      BY <1>5, <1>7, <1>8, <3>2, <3>3, <3>4 DEF Counted, One
  <2> QED
    BY <1>1, <1>7, <2>3 DEF Balanced, g
<1> QED
  BY <1>4, <1>9, <1>10

(* A new connection gets a descriptor that was nowhere.                    *)
LEMMA AcceptOne ==
  ASSUME Tally, Core', Accept
  PROVE  Balanced'
<1> DEFINE new == Min({f \in Fds : owner[f] = NULL})
           p == Head(backlog)
<1>1. /\ TypeOK /\ TypeOK' /\ new \in Fds /\ owner[new] = NULL
      /\ p \in Peers /\ p # NULL
  BY NewDescriptor, NULLAssumption DEF Tally, Core
<1>2. UNCHANGED <<toServe, parked, dropped, job, doneReq>>
  BY DEF Accept, workerVars
<1>3. \/ UNCHANGED <<owner, set>>
      \/ owner' = [owner EXCEPT ![new] = p] /\ set' = set \cup {new}
  BY DEF Accept
<1> HIDE DEF new, p
<1>4. \A f \in Fds : /\ Waiting(f)' = Waiting(f) /\ Queued(f)' = Queued(f)
                     /\ InHand(f)' = InHand(f) /\ Done(f)' = Done(f)
                     /\ Lost(f)' = Lost(f)
  BY <1>2 DEF Waiting, Queued, InHand, Hands, Done, Lost
<1>5. CASE UNCHANGED <<owner, set>>
  <2>1. \A f \in Fds : Sum(f)' = Sum(f)
    BY <1>4, <1>5 DEF Sum, Masked
  <2> QED
    BY <1>5, <2>1, Balance
<1>6. CASE owner' = [owner EXCEPT ![new] = p] /\ set' = set \cup {new}
  <2>1. \A f \in Fds : Counted(f) /\ Counted(f)'
    BY <1>1, AllCounted
  <2>2. new \notin set
    BY <1>1, Alone
  <2>3. ASSUME NEW f \in Fds
        PROVE  (Places(f) + Lost(f))' = IF owner'[f] = NULL THEN 0 ELSE 1
    <3>1. Masked(f)' = Masked(f) + One(f, new)
      BY <1>6, <2>2 DEF Masked, One
    <3>2. Places(f)' = Places(f) + One(f, new)
      BY <1>4, <2>1, <3>1 DEF Counted, One
    <3>3. Places(f) + Lost(f) = IF owner[f] = NULL THEN 0 ELSE 1
      BY DEF Tally, Balanced
    <3>4. owner'[f] = IF f = new THEN p ELSE owner[f]
      BY <1>1, <1>6 DEF TypeOK
    <3> QED
      BY <1>1, <1>4, <2>1, <3>2, <3>3, <3>4 DEF Counted, One
  <2> QED
    BY <2>3 DEF Balanced
<1> QED
  BY <1>3, <1>5, <1>6

(* The other actions leave every descriptor where it is.                   *)
LEMMA BalancedStep ==
  ASSUME Tally, Core', Cut = {}, [Next]_vars
  PROVE  Balanced'
<1>1. CASE /\ UNCHANGED <<parked, dropped, toServe, doneReq, job, owner>>
           /\ set' \cap Fds = set \cap Fds
  <2>1. ASSUME NEW f \in Fds PROVE Sum(f)' = Sum(f)
    <3>1. f \in set' <=> f \in set
      BY <1>1
    <3> QED
      BY <1>1, <3>1 DEF Sum, Masked, Waiting, Queued, InHand, Hands, Done, Lost
  <2> QED
    BY <1>1, <2>1, Balance
<1>2. ASSUME NEW w \in Workers, wpc[w] \in Serving PROVE job[w] \in Fds
  BY <1>2 DEF Tally, Core, HasJob, TypeOK
<1>3. CASE Dispatch
  <2>1. SOCKET \notin Fds
    BY FdsAssumption
  <2>2. CASE Test \/ Select \/ ScanEnds \/ Join
    BY <1>1, <2>2 DEF Test, Select, ScanEnds, Join, dispatcherVars, workerVars
  <2>3. CASE MaskSocket
    BY <1>1, <2>1, <2>3 DEF MaskSocket, workerVars
  <2>4. ASSUME NEW errno, AcceptFails(errno) PROVE Balanced'
    BY <1>1, <2>1, <2>4 DEF AcceptFails, workerVars
  <2> QED
    BY <1>3, <2>2, <2>3, <2>4, AcceptOne, FromPipeOne, FromClientOne, CollectOne
       DEF Dispatch
<1>4. ASSUME NEW w \in Workers, Work(w) PROVE Balanced'
  <2>1. CASE ReadRequest(w) \/ Use(w)
    <3>1. job' = job
      BY <2>1 DEF ReadRequest, Use, Moves, Tally, Core, TypeOK
    <3> QED
      BY <1>1, <2>1, <3>1 DEF ReadRequest, Use, dispatcherVars
  <2>2. CASE ReadFails(w) \/ Answer(w) \/ AnswerFatal(w)
    <3>1. job[w] \in Fds
      BY <1>2, <2>2 DEF ReadFails, Answer, AnswerFatal, Serving
    <3>2. /\ \E l : Moves(w, l, NULL)
          /\ ListenClient(job[w]) \/ DisconnClient(job[w])
          /\ UNCHANGED <<set, parked, dropped, toServe, owner>>
      BY <2>2 DEF ReadFails, Answer, AnswerFatal, Finishes, sendClientResult,
                  sendClientFatalError, dispatcherVars
    <3> QED
      BY <3>1, <3>2, ReturnOne
  <2>3. ~PayloadCut(w) /\ ~DisconnectAgain(w)
    BY DEF PayloadCut, DisconnectAgain, Tally, NoAgain
  <2> QED
    BY <1>4, <2>1, <2>2, <2>3, PopOne, ParkOne, InformOne, NextRequestOne DEF Work
<1>5. CASE UNCHANGED vars
  BY <1>1, <1>5 DEF vars, dispatcherVars, workerVars
<1>6. ASSUME NEW p \in Peers, Connect(p) \/ Ask(p) \/ Leave(p) PROVE Balanced'
  BY <1>1, <1>6 DEF Connect, Ask, Leave, dispatcherVars, workerVars
<1>7. ASSUME NEW status, Signal(status) PROVE Balanced'
  BY <1>1, <1>7 DEF Signal, dispatcherVars, workerVars
<1> QED
  BY <1>3, <1>4, <1>5, <1>6, <1>7 DEF Next

-----------------------------------------------------------------------------
(* The clients are counted                                                 *)

Connected == {f \in Fds : owner[f] # NULL}

LEMMA ClientNumStep ==
  ASSUME Tally, Core', [Next]_vars
  PROVE  ClientNumExact'
<1>1. TypeOK /\ clientNum = Cardinality(Connected)
  BY DEF Tally, Core, ClientNumExact, Connected
<1>2. owner \in [Fds -> Peers \cup {NULL}]
  BY <1>1 DEF TypeOK
<1>3. IsFiniteSet(Connected)
  <2>1. Connected \in SUBSET Fds
    BY DEF Connected
  <2> QED
    BY <2>1, FdsAssumption, FS_Subset
<1>4. ClientNumExact' <=> clientNum' = Cardinality(Connected')
  BY DEF ClientNumExact, Connected
<1>5. CASE UNCHANGED <<owner, clientNum>>
  BY <1>1, <1>5 DEF ClientNumExact, Connected
<1>6. CASE Accept
  <2> DEFINE new == Min({f \in Fds : owner[f] = NULL})
             p == Head(backlog)
  <2>1. new \in Fds /\ owner[new] = NULL /\ p \in Peers /\ p # NULL
    BY <1>1, <1>6, NewDescriptor, NULLAssumption
  <2>2. \/ UNCHANGED <<owner, clientNum>>
        \/ owner' = [owner EXCEPT ![new] = p] /\ clientNum' = clientNum + 1
    BY <1>6 DEF Accept
  <2> HIDE DEF new, p
  <2>3. CASE owner' = [owner EXCEPT ![new] = p] /\ clientNum' = clientNum + 1
    <3>1. Connected' = Connected \cup {new} /\ new \notin Connected
      BY <1>2, <2>1, <2>3 DEF Connected
    <3>2. Cardinality(Connected') = Cardinality(Connected) + 1
      BY <1>3, <3>1, FS_AddElement
    <3> QED
      BY <1>1, <1>4, <2>3, <3>2
  <2> QED
    BY <1>5, <2>2, <2>3
<1>7. CASE FromPipe
  <2> DEFINE g == Head(doneReq).fd
  <2>1. g \in Fds /\ owner[g] # NULL /\ (Reset(g) \/ Close(g))
    BY <1>7, FromPipeOne DEF FromPipe
  <2> HIDE DEF g
  <2>2. CASE Reset(g)
    BY <1>5, <2>2 DEF Reset
  <2>3. CASE Close(g)
    <3>1. Connected' = Connected \ {g} /\ g \in Connected
      BY <1>2, <2>1, <2>3 DEF Connected, Close
    <3>2. Cardinality(Connected') = Cardinality(Connected) - 1
      BY <1>3, <3>1, FS_RemoveElement
    <3> QED
      BY <1>1, <1>4, <2>3, <3>2 DEF Close
  <2> QED
    BY <2>1, <2>2, <2>3
<1> QED
  BY <1>5, <1>6, <1>7
     DEF Next, vars, dispatcherVars, workerVars, Connect, Ask, Leave, Signal,
         Dispatch, Test, MaskSocket, Select, AcceptFails, FromClient, ScanEnds,
         Collect, Join, Work, Pop, ReadRequest, ReadFails, Answer, AnswerFatal,
         Use, Park, PayloadCut, DisconnectAgain, InformClientDelete, NextRequest

-----------------------------------------------------------------------------
(* The invariant when no payload is cut                                    *)

LEMMA ScannedStep ==
  ASSUME Tally, [Next]_vars
  PROVE  Scanned'
<1>1. TypeOK /\ Scanned /\ SOCKET \notin Fds /\ PIPE \notin Fds
  BY FdsAssumption DEF Tally, Core
<1>2. CASE rdSet' \subseteq rdSet /\ \A f \in Fds : f \in set => f \in set'
  BY <1>1, <1>2 DEF Scanned
<1>3. CASE Select
  BY <1>3 DEF Select, Scanned
<1>4. CASE FromPipe
  <2> DEFINE g == Head(doneReq).fd
  <2>1. rdSet' \subseteq rdSet /\ (Reset(g) \/ Close(g))
    BY <1>4 DEF FromPipe, Handled
  <2>2. g \notin set
    <3>1. TypeOK' /\ PipeReady'
      BY CoreStep DEF Tally, Core
    <3>2. Core'
      BY CoreStep DEF Tally
    <3> QED
      BY <1>4, <3>2, FromPipeOne
  <2> HIDE DEF g
  <2> QED
    BY <1>2, <2>1, <2>2 DEF Reset, Close
<1>5. CASE Accept
  BY <1>2, <1>5 DEF Accept, Handled
<1>6. ASSUME NEW f \in Fds, FromClient(f) PROVE Scanned'
  BY <1>1, <1>6 DEF FromClient, Handled, Scanned
<1>7. ASSUME NEW errno, AcceptFails(errno) PROVE Scanned'
  BY <1>1, <1>2, <1>7 DEF AcceptFails
<1>8. CASE MaskSocket
  BY <1>1, <1>2, <1>8 DEF MaskSocket
<1>9. CASE ScanEnds
  BY <1>9 DEF ScanEnds, Scanned
<1>10. CASE UNCHANGED <<set, rdSet>>
  BY <1>2, <1>10
<1> QED
  BY <1>3, <1>4, <1>5, <1>6, <1>7, <1>8, <1>9, <1>10
     DEF Next, vars, dispatcherVars, Connect, Ask, Leave, Signal, Dispatch, Test,
         Collect, Join, Work, Pop, ReadRequest, ReadFails, Answer, AnswerFatal,
         Use, Park, PayloadCut, DisconnectAgain, InformClientDelete, NextRequest

LEMMA NoAgainStep ==
  ASSUME Tally, Cut = {}, [Next]_vars
  PROVE  NoAgain'
<1>1. /\ NoAgain
      /\ wpc \in [Workers -> {"pop", "read", "work", "handle", "again", "next",
                              "exit"}]
  BY DEF Tally, Core, TypeOK
<1>2. CASE UNCHANGED wpc
  BY <1>1, <1>2 DEF NoAgain
<1>3. ASSUME NEW w \in Workers, NEW l, NEW f, Moves(w, l, f), l # "again"
      PROVE  NoAgain'
  BY <1>1, <1>3 DEF NoAgain, Moves
<1>4. ASSUME NEW w \in Workers, Work(w) PROVE NoAgain'
  <2>1. ~PayloadCut(w)
    BY DEF PayloadCut
  <2>2. CASE InformClientDelete(w)
    BY <1>2, <2>2 DEF InformClientDelete
  <2>3. CASE Answer(w) \/ AnswerFatal(w)
    BY <1>3, <2>3 DEF Answer, AnswerFatal, Finishes
  <2> QED
    BY <1>3, <1>4, <2>1, <2>2, <2>3
       DEF Work, Pop, ReadRequest, ReadFails, Use, Park, DisconnectAgain,
           NextRequest
<1> QED
  BY <1>2, <1>4
     DEF Next, vars, workerVars, Connect, Ask, Leave, Signal, Dispatch, Test,
         MaskSocket, Select, Accept, AcceptFails, FromPipe, FromClient, ScanEnds,
         Collect, Join

LEMMA InitTally == ASSUME Init PROVE Tally
<1>1. Core
  BY InitCore
<1>2. \A f \in Fds : Places(f) = 0
  <2>1. \A f \in Fds : /\ f \notin set /\ f \notin parked
                       /\ {i \in DOMAIN toServe : toServe[i] = f} = {}
                       /\ {w \in Workers : job[w] = f} = {}
                       /\ {i \in DOMAIN doneReq : doneReq[i].fd = f} = {}
    BY FdsAssumption, NULLAssumption DEF Init
  <2>2. Cardinality({}) = 0
    BY FS_EmptySet
  <2>3. ASSUME NEW f \in Fds
        PROVE  /\ (IF f \in set THEN 1 ELSE 0) = 0 /\ (IF f \in parked THEN 1 ELSE 0) = 0
               /\ Cardinality({i \in DOMAIN toServe : toServe[i] = f}) = 0
               /\ Cardinality({w \in Workers : job[w] = f}) = 0
               /\ Cardinality({i \in DOMAIN doneReq : doneReq[i].fd = f}) = 0
    BY <2>1, <2>2
  <2> QED
    BY <2>3 DEF Places
<1>3. Balanced
  BY <1>2 DEF Init, Balanced, Lost
<1>4. ClientNumExact
  <2>1. {f \in Fds : owner[f] # NULL} = {}
    BY DEF Init
  <2> QED
    BY <2>1, FS_EmptySet DEF Init, ClientNumExact
<1>5. Scanned /\ NoAgain
  BY DEF Init, Scanned, NoAgain
<1> QED
  BY <1>1, <1>3, <1>4, <1>5 DEF Tally

-----------------------------------------------------------------------------
(* The close                                                               *)

Running == {w \in Workers : wpc[w] # "exit"}
Nulls == Count(toServe, {NULL})

(* No worker ends before collectThreads, then there is a NULL for each that*)
(* has not ended, and one is the last element of the FIFO.                 *)
Ends ==
  /\ dpc \notin {"join", "end"} => Nulls = 0 /\ Running = Workers
  /\ dpc \in {"join", "end"} =>
       /\ Nulls = Cardinality(Running)
       /\ toServe # <<>> => toServe[Len(toServe)] = NULL
  /\ dpc = "end" => Running = {}

LEMMA NullsNat ==
  ASSUME TypeOK
  PROVE  /\ Nulls \in Nat /\ IsFiniteSet(Running)
         /\ Running # {} => Cardinality(Running) # 0
<1>1. toServe \in Seq(Fds \cup {NULL})
  BY DEF TypeOK
<1>2. Nulls \in Nat
  BY <1>1, CountNat DEF Nulls
<1>3. IsFiniteSet(Running)
  <2>1. Running \in SUBSET Workers
    BY DEF Running
  <2> QED
    BY <2>1, WorkersAssumption, FS_Subset
<1> QED
  BY <1>2, <1>3, FS_EmptySet

LEMMA EndsCollect ==
  ASSUME Core, Ends, Workers # {}, Collect
  PROVE  Ends'
<1> DEFINE len == Len(toServe)
           n == Cardinality(Workers)
<1>1. /\ TypeOK /\ toServe' = toServe \o Poison /\ dpc' = "join"
      /\ wpc' = wpc /\ Nulls = 0 /\ Running = Workers
  BY DEF Core, Collect, workerVars, Ends
<1>2. n \in Nat /\ n # 0
  BY WorkersAssumption, FS_CardinalityType, FS_EmptySet
<1>3. toServe \in Seq(Fds \cup {NULL})
  BY <1>1 DEF TypeOK
<1>4. Poison \in Seq(Fds \cup {NULL}) /\ Len(Poison) = n /\ \A i \in 1..n : Poison[i] = NULL
  <2>1. Poison \in Seq(Fds \cup {NULL})
    BY <1>2, IsASeq DEF Poison
  <2>2. DOMAIN Poison = 1..n /\ \A i \in 1..n : Poison[i] = NULL
    BY DEF Poison
  <2> QED
    BY <1>2, <2>1, <2>2
<1>5. /\ len \in Nat /\ Len(toServe') = len + n
      /\ DOMAIN toServe = 1..len /\ DOMAIN toServe' = 1..len + n
      /\ \A i \in 1..len + n :
           toServe'[i] = IF i <= len THEN toServe[i] ELSE Poison[i - len]
  <2>1. /\ len \in Nat /\ DOMAIN toServe = 1..len
    BY <1>3, LenProperties
  <2>2. /\ toServe \o Poison \in Seq(Fds \cup {NULL})
        /\ Len(toServe \o Poison) = len + n
        /\ \A i \in 1..len + n :
             (toServe \o Poison)[i] = IF i <= len THEN toServe[i] ELSE Poison[i - len]
    BY <1>3, <1>4, ConcatProperties
  <2>3. DOMAIN (toServe \o Poison) = 1..len + n
    BY <2>2, LenProperties
  <2> QED
    BY <1>1, <2>1, <2>2, <2>3
<1>6. \A i \in 1..len : toServe[i] # NULL
  <2>1. At(toServe, {NULL}) = {}
    BY <1>1, <1>3, CountNat, FS_EmptySet DEF Nulls, Count
  <2> QED
    BY <1>5, <2>1 DEF At
<1> HIDE DEF len, n
<1>7. \A i \in 1..len + n : toServe'[i] = NULL <=> i \in len + 1..len + n
  <2>1. ASSUME NEW i \in 1..len + n, i <= len PROVE i \in 1..len /\ i \notin len + 1..len + n
    BY <1>2, <1>5, <2>1
  <2>2. ASSUME NEW i \in 1..len + n, ~(i <= len)
        PROVE  i - len \in 1..n /\ i \in len + 1..len + n
    BY <1>2, <1>5, <2>2
  <2> QED
    BY <1>4, <1>5, <1>6, <2>1, <2>2
<1>8. At(toServe', {NULL}) = len + 1..len + n
  <2>1. \A i \in len + 1..len + n : i \in 1..len + n
    BY <1>2, <1>5
  <2> QED
    BY <1>5, <1>7, <2>1 DEF At
<1>9. Nulls' = n
  <2>1. Cardinality(len + 1..len + n) = n
    BY <1>2, <1>5, FS_Interval
  <2> QED
    BY <1>8, <2>1 DEF Nulls, Count
<1>10. toServe'[Len(toServe')] = NULL
  <2>1. len + n \in len + 1..len + n /\ len + n \in 1..len + n
    BY <1>2, <1>5
  <2> QED
    BY <1>5, <1>7, <2>1
<1>11. Running' = Workers
  BY <1>1 DEF Running
<1> QED
  BY <1>1, <1>9, <1>10, <1>11 DEF Ends, n

LEMMA EndsPop ==
  ASSUME Core, Ends, NEW w \in Workers, Pop(w)
  PROVE  Ends'
<1> DEFINE h == Head(toServe)
<1>1. /\ TypeOK /\ toServe \in Seq(Fds \cup {NULL}) /\ toServe # <<>>
      /\ toServe' = Tail(toServe) /\ dpc' = dpc /\ wpc[w] = "pop"
      /\ wpc' = [wpc EXCEPT ![w] = IF h = NULL THEN "exit" ELSE "read"]
  BY DEF Core, TypeOK, Pop, Moves
<1>2. wpc \in [Workers -> {"pop", "read", "work", "handle", "again", "next", "exit"}]
  BY <1>1 DEF TypeOK
<1>3. /\ Nulls \in Nat /\ IsFiniteSet(Running) /\ w \in Running
      /\ Cardinality(Running) \in Nat
  BY <1>1, NullsNat, FS_CardinalityType DEF Running
<1>4. Nulls' = Nulls - (IF h = NULL THEN 1 ELSE 0) /\ Nulls' \in Nat
  <2>1. Count(Tail(toServe), {NULL})
          = Count(toServe, {NULL}) - (IF Head(toServe) \in {NULL} THEN 1 ELSE 0)
    BY <1>1, CountTail
  <2>2. Tail(toServe) \in Seq(Fds \cup {NULL})
    BY <1>1, HeadTailProperties
  <2>3. Count(Tail(toServe), {NULL}) \in Nat
    BY <2>2, CountNat
  <2> QED
    BY <1>1, <2>1, <2>3 DEF Nulls
<1>5. Running' = IF h = NULL THEN Running \ {w} ELSE Running
  BY <1>1, <1>2 DEF Running
<1>6. Cardinality(Running \ {w}) = Cardinality(Running) - 1
  BY <1>3, FS_RemoveElement
<1>7. toServe' # <<>> => toServe'[Len(toServe')] = toServe[Len(toServe)]
  <2>1. /\ Len(toServe) \in Nat /\ Tail(toServe) \in Seq(Fds \cup {NULL})
        /\ Len(Tail(toServe)) = Len(toServe) - 1
        /\ \A i \in 1..Len(Tail(toServe)) : Tail(toServe)[i] = toServe[i + 1]
    BY <1>1, HeadTailProperties, LenProperties
  <2>2. Tail(toServe) # <<>> => Len(Tail(toServe)) \in Nat \ {0}
    BY <2>1, EmptySeq
  <2> QED
    BY <1>1, <2>1, <2>2
<1> HIDE DEF h
<1>8. CASE dpc \notin {"join", "end"}
  <2>1. h # NULL
    BY <1>3, <1>4, <1>8 DEF Ends
  <2> QED
    BY <1>1, <1>4, <1>5, <1>8, <2>1 DEF Ends
<1>9. CASE dpc \in {"join", "end"}
  <2>1. Nulls' = Cardinality(Running')
    BY <1>3, <1>4, <1>5, <1>6, <1>9 DEF Ends
  <2>2. dpc = "end" => Running' = {}
    BY <1>5, <1>9 DEF Ends
  <2>3. toServe' # <<>> => toServe'[Len(toServe')] = NULL
    BY <1>1, <1>7, <1>9 DEF Ends
  <2> QED
    BY <1>1, <1>9, <2>1, <2>2, <2>3 DEF Ends
<1> QED
  BY <1>8, <1>9

LEMMA EndsStep ==
  ASSUME Core, Ends, Workers # {}, [Next]_vars
  PROVE  Ends'
<1>1. /\ TypeOK
      /\ wpc \in [Workers -> {"pop", "read", "work", "handle", "again", "next", "exit"}]
  BY DEF Core, TypeOK
<1>2. CASE /\ UNCHANGED <<toServe, wpc>>
           /\ dpc \in {"join", "end"} <=> dpc' \in {"join", "end"}
           /\ dpc' = "end" => dpc = "end" \/ Running = {}
  BY <1>2 DEF Ends, Nulls, Running
<1>3. CASE Join
  <2>1. Running = {}
    BY <1>3 DEF Join, Running
  <2> QED
    BY <1>2, <1>3, <2>1 DEF Join, workerVars
<1>4. ASSUME NEW f \in Fds, FromClient(f) PROVE Ends'
  <2>1. /\ toServe' = Append(toServe, f) /\ dpc' = dpc /\ wpc' = wpc
        /\ dpc = "scan"
    BY <1>4 DEF FromClient, Handled, Ready, workerVars
  <2>2. f # NULL /\ toServe \in Seq(Fds \cup {NULL}) /\ f \in Fds \cup {NULL}
    BY <1>1, NULLAssumption DEF TypeOK
  <2>3. Count(Append(toServe, f), {NULL})
          = Count(toServe, {NULL}) + (IF f \in {NULL} THEN 1 ELSE 0)
    BY <2>2, CountAppend
  <2>4. Nulls' = Nulls
    BY <1>1, <2>1, <2>2, <2>3, NullsNat DEF Nulls
  <2> QED
    BY <2>1, <2>4 DEF Ends, Running
<1>5. ASSUME NEW w \in Workers, NEW l, NEW f, Moves(w, l, f),
             UNCHANGED <<toServe, dpc>>, wpc[w] # "exit", l # "exit"
      PROVE  Ends'
  <2>1. Running' = Running
    BY <1>1, <1>5 DEF Running, Moves
  <2> QED
    BY <1>5, <2>1 DEF Ends, Nulls
<1>6. ASSUME NEW w \in Workers, Work(w) PROVE Ends'
  <2>1. CASE Pop(w)
    BY <2>1, EndsPop
  <2>2. CASE InformClientDelete(w)
    BY <1>2, <2>2 DEF InformClientDelete
  <2> QED
    BY <1>5, <1>6, <2>1, <2>2
       DEF Work, ReadRequest, ReadFails, Answer, AnswerFatal, Finishes, Use, Park,
           PayloadCut, DisconnectAgain, NextRequest
<1>7. ASSUME NEW status, Signal(status) PROVE Ends'
  BY <1>2, <1>7 DEF Signal, workerVars
<1>8. ASSUME NEW p \in Peers, Connect(p) \/ Ask(p) \/ Leave(p) PROVE Ends'
  BY <1>2, <1>8 DEF Connect, Ask, Leave, workerVars
<1>9. CASE \/ Test \/ MaskSocket \/ Select \/ Accept \/ FromPipe \/ ScanEnds
           \/ \E errno \in {"EMFILE", "EINTR", "other"} : AcceptFails(errno)
  BY <1>2, <1>9 DEF Test, MaskSocket, Select, Accept, FromPipe, ScanEnds,
                    AcceptFails, Ready, Handled, workerVars
<1>10. CASE UNCHANGED vars
  BY <1>2, <1>10 DEF vars, workerVars
<1> QED
  BY <1>3, <1>4, <1>6, <1>7, <1>8, <1>9, <1>10, EndsCollect DEF Next, Dispatch

LEMMA InitEnds == ASSUME Init PROVE Ends
<1>1. At(toServe, {NULL}) = {}
  BY DEF Init, At
<1>2. Nulls = 0
  BY <1>1, FS_EmptySet DEF Nulls, Count
<1> QED
  BY <1>2 DEF Init, Ends, Running

LEMMA EndsMeans ==
  ASSUME Core, Ends
  PROVE  JoinedClean
<1>1. SUFFICES ASSUME dpc = "end"
               PROVE  toServe = <<>> /\ \A w \in Workers : job[w] = NULL
  BY DEF JoinedClean
<1>2. Running = {} /\ Nulls = 0
  BY <1>1, FS_EmptySet DEF Ends
<1>3. toServe \in Seq(Fds \cup {NULL}) /\ IsFiniteSet(At(toServe, {NULL}))
  BY CountNat DEF Core, TypeOK
<1>4. At(toServe, {NULL}) = {}
  BY <1>2, <1>3, FS_EmptySet DEF Nulls, Count
<1>5. toServe = <<>>
  <2>1. SUFFICES ASSUME toServe # <<>> PROVE FALSE
    OBVIOUS
  <2>2. Len(toServe) \in DOMAIN toServe
    BY <1>3, <2>1, LenProperties, EmptySeq
  <2>3. toServe[Len(toServe)] = NULL
    BY <1>1, <2>1 DEF Ends
  <2> QED
    BY <1>4, <2>2, <2>3 DEF At
<1>6. \A w \in Workers : job[w] = NULL
  BY <1>2 DEF Running, Core, HasJob, Serving
<1> QED
  BY <1>5, <1>6

-----------------------------------------------------------------------------
(* Nobody is cut off                                                       *)

(* Who is behind a descriptor was accepted, who is in the backlog was not. *)
Accepted == \A f \in Fds : owner[f] # NULL => link[owner[f]] \notin {"away", "pending"}
Pending ==
  /\ \A i \in DOMAIN backlog : link[backlog[i]] = "pending"
  /\ \A i, j \in DOMAIN backlog : backlog[i] = backlog[j] => i = j

(* A disconnection on its way through the pipe has a reason.               *)
Reason(m, own, lnk, alv) ==
  ~m.reset /\ own[m.fd] # NULL => lnk[own[m.fd]] # "open" \/ ~alv[own[m.fd]]
Excused(m) == Reason(m, owner, link, alive)
AllExcused == \A i \in DOMAIN doneReq : Excused(doneReq[i])

Fair == Tally /\ Accepted /\ Pending /\ AllExcused /\ NobodyCutOff

LEMMA AppendMembers ==
  ASSUME NEW S, NEW s \in Seq(S), NEW e \in S
  PROVE  \A i \in DOMAIN Append(s, e) :
           \/ i \in DOMAIN s /\ Append(s, e)[i] = s[i]
           \/ i \notin DOMAIN s /\ i = Len(s) + 1 /\ Append(s, e)[i] = e
<1>1. Len(s) \in Nat /\ DOMAIN s = 1..Len(s)
  BY LenProperties
<1>2. /\ Append(s, e) \in Seq(S) /\ Len(Append(s, e)) = Len(s) + 1
      /\ \A i \in 1..Len(s) : Append(s, e)[i] = s[i]
      /\ Append(s, e)[Len(s) + 1] = e
  BY AppendProperties
<1>3. DOMAIN Append(s, e) = 1..Len(s) + 1
  BY <1>2, LenProperties
<1> QED
  BY <1>1, <1>2, <1>3

LEMMA TailMembers ==
  ASSUME NEW S, NEW s \in Seq(S), s # <<>>
  PROVE  /\ 1 \in DOMAIN s /\ Head(s) = s[1]
         /\ \A i \in DOMAIN Tail(s) :
              i \in Int /\ i + 1 \in DOMAIN s /\ i + 1 # 1 /\ Tail(s)[i] = s[i + 1]
<1>1. Len(s) \in Nat \ {0} /\ DOMAIN s = 1..Len(s)
  BY LenProperties, EmptySeq
<1>2. /\ Tail(s) \in Seq(S) /\ Len(Tail(s)) = Len(s) - 1 /\ Head(s) = s[1]
      /\ \A i \in 1..Len(s) - 1 : Tail(s)[i] = s[i + 1]
  BY HeadTailProperties
<1>3. DOMAIN Tail(s) = 1..Len(s) - 1
  BY <1>2, LenProperties
<1> QED
  BY <1>1, <1>2, <1>3

LEMMA MessageTyped ==
  ASSUME TypeOK, NEW i \in DOMAIN doneReq
  PROVE  doneReq[i] \in [fd: Fds, reset: BOOLEAN] /\ doneReq[i].fd \in Fds
<1>1. doneReq \in Seq([fd: Fds, reset: BOOLEAN])
  BY DEF TypeOK
<1>2. doneReq[i] \in [fd: Fds, reset: BOOLEAN]
  BY <1>1, LenProperties, ElementOfSeq
<1> QED
  BY <1>2

(* The clients' steps.                                                     *)
LEMMA PeerFair ==
  ASSUME Fair, Tally', NEW p \in Peers, Connect(p) \/ Ask(p) \/ Leave(p)
  PROVE  Fair'
<1>1. /\ TypeOK /\ link \in [Peers ->
                 {"away", "pending", "open", "refused", "closed", "cut"}]
      /\ alive \in [Peers -> BOOLEAN] /\ backlog \in Seq(Peers)
      /\ owner \in [Fds -> Peers \cup {NULL}]
  BY DEF Fair, Tally, Core, TypeOK
<1>2. UNCHANGED <<owner, doneReq>>
  BY DEF Connect, Ask, Leave
<1>3. \A i \in DOMAIN doneReq : doneReq[i].fd \in Fds
  BY <1>1, MessageTyped
<1>4. CASE Connect(p)
  <2>1. /\ link[p] = "away" /\ link' = [link EXCEPT ![p] = "pending"]
        /\ alive' = [alive EXCEPT ![p] = TRUE] /\ backlog' = Append(backlog, p)
    BY <1>4 DEF Connect
  <2>2. \A f \in Fds : owner[f] # NULL => owner[f] # p /\ owner[f] \in Peers
    BY <1>1, <2>1 DEF Fair, Accepted
  <2>3. Accepted'
    BY <1>1, <1>2, <2>1, <2>2 DEF Accepted, Fair
  <2>4. AllExcused'
    BY <1>1, <1>2, <1>3, <2>1, <2>2 DEF AllExcused, Excused, Reason, Fair
  <2>5. \A i \in DOMAIN backlog : backlog[i] \in Peers /\ backlog[i] # p
    <3>1. \A i \in DOMAIN backlog : backlog[i] \in Peers
      BY <1>1, LenProperties, ElementOfSeq
    <3> QED
      BY <2>1, <3>1 DEF Fair, Pending
  <2>6. \A i \in DOMAIN backlog' :
           \/ i \in DOMAIN backlog /\ backlog'[i] = backlog[i]
           \/ i \notin DOMAIN backlog /\ i = Len(backlog) + 1 /\ backlog'[i] = p
    BY <1>1, <2>1, AppendMembers
  <2>7. Pending'
    BY <1>1, <2>1, <2>5, <2>6 DEF Fair, Pending
  <2>8. NobodyCutOff'
    BY <1>1, <2>1 DEF Fair, NobodyCutOff
  <2> QED
    BY <2>3, <2>4, <2>7, <2>8 DEF Fair
<1>5. CASE Ask(p)
  BY <1>2, <1>5
     DEF Ask, Fair, Accepted, Pending, AllExcused, Excused, Reason, NobodyCutOff
<1>6. CASE Leave(p)
  <2>1. link' = link /\ backlog' = backlog /\ alive' = [alive EXCEPT ![p] = FALSE]
    BY <1>6 DEF Leave
  <2>2. AllExcused'
    BY <1>1, <1>2, <1>3, <2>1 DEF AllExcused, Excused, Reason, Fair
  <2> QED
    BY <1>2, <2>1, <2>2 DEF Fair, Accepted, Pending, NobodyCutOff
<1> QED
  BY <1>4, <1>5, <1>6

LEMMA AcceptFair ==
  ASSUME Fair, Tally', Accept
  PROVE  Fair'
<1> DEFINE new == Min({f \in Fds : owner[f] = NULL})
           p == Head(backlog)
<1>1. /\ TypeOK /\ new \in Fds /\ owner[new] = NULL /\ backlog # <<>>
      /\ p \in Peers /\ p # NULL
  BY NewDescriptor, NULLAssumption DEF Fair, Tally, Core
<1>2. /\ link \in [Peers -> {"away", "pending", "open", "refused", "closed", "cut"}]
      /\ backlog \in Seq(Peers) /\ owner \in [Fds -> Peers \cup {NULL}]
  BY <1>1 DEF TypeOK
<1>3. /\ backlog' = Tail(backlog) /\ UNCHANGED <<doneReq, alive>>
      /\ \/ link' = [link EXCEPT ![p] = "refused"] /\ owner' = owner
         \/ link' = [link EXCEPT ![p] = "open"] /\ owner' = [owner EXCEPT ![new] = p]
  BY DEF Accept
<1> HIDE DEF new
<1>4. /\ 1 \in DOMAIN backlog /\ p = backlog[1]
      /\ \A i \in DOMAIN backlog' : /\ i + 1 \in DOMAIN backlog /\ i + 1 # 1
                                    /\ i \in Int /\ backlog'[i] = backlog[i + 1]
  BY <1>1, <1>2, <1>3, TailMembers
<1>5. link[p] = "pending"
  BY <1>4 DEF Fair, Pending
<1> HIDE DEF p
<1>6. \A f \in Fds : owner[f] # p
  BY <1>1, <1>5 DEF Fair, Accepted
<1>7. Pending'
  <2>1. \A i \in DOMAIN backlog : backlog[i] \in Peers
    BY <1>2, LenProperties, ElementOfSeq
  <2>2. \A i \in DOMAIN backlog' : backlog'[i] # p /\ backlog'[i] \in Peers
    BY <1>4, <2>1 DEF Fair, Pending
  <2>3. \A i \in DOMAIN backlog' : link[backlog'[i]] = "pending"
    BY <1>4 DEF Fair, Pending
  <2>4. \A i \in DOMAIN backlog' : link'[backlog'[i]] = "pending"
    BY <1>2, <1>3, <2>2, <2>3
  <2>5. \A i, j \in DOMAIN backlog' : backlog'[i] = backlog'[j] => i = j
    <3>1. ASSUME NEW i \in DOMAIN backlog', NEW j \in DOMAIN backlog',
                 backlog'[i] = backlog'[j]
          PROVE  i = j
      <4>1. i + 1 = j + 1
        BY <1>4, <3>1 DEF Fair, Pending
      <4> QED
        BY <1>4, <4>1
    <3> QED
      BY <3>1
  <2> QED
    BY <2>4, <2>5 DEF Pending
<1>8. Accepted'
  BY <1>1, <1>2, <1>3, <1>6 DEF Fair, Accepted
<1>9. AllExcused'
  <2>1. ASSUME NEW i \in DOMAIN doneReq
        PROVE  Reason(doneReq[i], owner', link', alive')
    <3>1. doneReq[i].fd \in Fds
      BY <1>1, MessageTyped
    <3>2. doneReq[i].fd # new
      <4>1. Done(new) = 0
        BY <1>1, Alone DEF Fair
      <4>2. /\ doneReq \in Seq([fd: Fds, reset: BOOLEAN])
            /\ doneReq[i] \in [fd: Fds, reset: BOOLEAN]
        BY <1>1, MessageTyped DEF TypeOK
      <4>3. At(doneReq, Messages(new)) = {}
        BY <4>1, <4>2, CountNat, FS_EmptySet DEF Done, Count
      <4> QED
        BY <4>2, <4>3 DEF At, Messages
    <3>3. owner'[doneReq[i].fd] = owner[doneReq[i].fd]
      BY <1>2, <1>3, <3>1, <3>2
    <3>4. owner[doneReq[i].fd] # p
      BY <1>6, <3>1
    <3>5. owner[doneReq[i].fd] # NULL => owner[doneReq[i].fd] \in Peers
      BY <1>2, <3>1
    <3>6. Excused(doneReq[i])
      BY DEF Fair, AllExcused
    <3> QED
      BY <1>2, <1>3, <3>3, <3>4, <3>5, <3>6 DEF Excused, Reason
  <2> QED
    BY <1>3, <2>1 DEF AllExcused, Excused, Reason
<1>10. NobodyCutOff'
  BY <1>2, <1>3 DEF Fair, NobodyCutOff
<1> QED
  BY <1>7, <1>8, <1>9, <1>10 DEF Fair

LEMMA FromPipeFair ==
  ASSUME Fair, Tally', FromPipe
  PROVE  Fair'
<1> DEFINE m == Head(doneReq)
           g == m.fd
<1>1. /\ TypeOK /\ doneReq # <<>> /\ m \in [fd: Fds, reset: BOOLEAN] /\ g \in Fds
      /\ doneReq' = Tail(doneReq)
      /\ IF m.reset THEN Reset(g) ELSE Close(g)
      /\ UNCHANGED <<backlog, alive>>
  BY PipeHead DEF Fair, Tally, Core, FromPipe
<1>2. /\ link \in [Peers -> {"away", "pending", "open", "refused", "closed", "cut"}]
      /\ backlog \in Seq(Peers) /\ owner \in [Fds -> Peers \cup {NULL}]
      /\ doneReq \in Seq([fd: Fds, reset: BOOLEAN])
  BY <1>1 DEF TypeOK
<1>3. /\ 1 \in DOMAIN doneReq /\ m = doneReq[1]
      /\ \A i \in DOMAIN doneReq' : i + 1 \in DOMAIN doneReq
                                    /\ doneReq'[i] = doneReq[i + 1]
  BY <1>1, <1>2, TailMembers
<1>4. \A i \in DOMAIN doneReq' : Excused(doneReq'[i]) /\ doneReq'[i].fd \in Fds
  BY <1>1, <1>3, MessageTyped DEF Fair, AllExcused
<1>5. Excused(m)
  BY <1>3 DEF Fair, AllExcused
<1> HIDE DEF m
<1>6. CASE Reset(g)
  <2>1. UNCHANGED <<owner, link>>
    BY <1>6 DEF Reset
  <2>2. AllExcused'
    BY <1>1, <1>4, <2>1 DEF AllExcused, Excused, Reason
  <2> QED
    BY <1>1, <2>1, <2>2 DEF Fair, Accepted, Pending, NobodyCutOff
<1>7. CASE ~m.reset /\ Close(g)
  <2>1. /\ owner' = [owner EXCEPT ![g] = NULL]
        /\ link' = [p \in Peers |->
                      IF owner[g] = p /\ link[p] = "open"
                      THEN IF alive[p] THEN "cut" ELSE "closed"
                      ELSE link[p]]
    BY <1>7 DEF Close
  <2>2. \A p \in Peers : link'[p] = link[p] \/ (link[p] = "open" /\ link'[p] = "closed")
    <3>1. ASSUME NEW p \in Peers, owner[g] = p, link[p] = "open" PROVE ~alive[p]
      <4>1. p # NULL
        BY NULLAssumption
      <4> QED
        BY <1>5, <1>7, <3>1, <4>1 DEF Excused, Reason
    <3> QED
      BY <2>1, <3>1
  <2>3. NobodyCutOff'
    BY <2>2 DEF Fair, NobodyCutOff
  <2>4. \A f \in Fds : /\ owner'[f] # NULL => owner'[f] = owner[f]
                       /\ owner[f] # NULL => owner[f] \in Peers
    BY <1>2, <2>1
  <2>5. Accepted'
    BY <2>2, <2>4 DEF Fair, Accepted
  <2>6. Pending'
    <3>1. \A i \in DOMAIN backlog : backlog[i] \in Peers
      BY <1>2, LenProperties, ElementOfSeq
    <3> QED
      BY <1>1, <2>2, <3>1 DEF Fair, Pending
  <2>7. AllExcused'
    <3>1. ASSUME NEW i \in DOMAIN doneReq'
          PROVE  Reason(doneReq'[i], owner', link', alive')
      BY <1>1, <1>4, <2>2, <2>4, <3>1 DEF Excused, Reason
    <3> QED
      BY <3>1 DEF AllExcused, Excused, Reason
  <2> QED
    BY <2>3, <2>5, <2>6, <2>7 DEF Fair
<1> QED
  BY <1>1, <1>6, <1>7

(* The workers' steps.                                                     *)
LEMMA WorkFair ==
  ASSUME Fair, Tally', Cut = {}, NEW w \in Workers, Work(w)
  PROVE  Fair'
<1>1. /\ TypeOK
      /\ link \in [Peers -> {"away", "pending", "open", "refused", "closed", "cut"}]
      /\ backlog \in Seq(Peers) /\ owner \in [Fds -> Peers \cup {NULL}]
      /\ doneReq \in Seq([fd: Fds, reset: BOOLEAN])
  BY DEF Fair, Tally, Core, TypeOK
<1>2. UNCHANGED <<owner, alive, backlog>>
  BY DEF Work, Pop, ReadRequest, ReadFails, Answer, AnswerFatal, Use, Park,
         PayloadCut, DisconnectAgain, InformClientDelete, NextRequest, peerVars
<1>3. \A i \in DOMAIN doneReq : doneReq[i].fd \in Fds
  BY <1>1, MessageTyped
<1>4. \A f \in Fds : owner[f] # NULL => owner[f] \in Peers
  BY <1>1
<1>5. CASE UNCHANGED <<doneReq, link>>
  BY <1>2, <1>5 DEF Fair, Accepted, Pending, AllExcused, Excused, Reason, NobodyCutOff
<1>6. ASSUME NEW f \in Fds, NEW b \in BOOLEAN,
             doneReq' = Append(doneReq, [fd |-> f, reset |-> b]),
             \A i \in DOMAIN doneReq : Reason(doneReq[i], owner', link', alive'),
             Reason([fd |-> f, reset |-> b], owner', link', alive')
      PROVE  AllExcused'
  <2> DEFINE m == [fd |-> f, reset |-> b]
  <2>1. m \in [fd: Fds, reset: BOOLEAN]
    OBVIOUS
  <2>2. doneReq' = Append(doneReq, m) /\ Reason(m, owner', link', alive')
    BY <1>6
  <2> HIDE DEF m
  <2>3. \A i \in DOMAIN doneReq' :
          \/ i \in DOMAIN doneReq /\ doneReq'[i] = doneReq[i]
          \/ doneReq'[i] = m
    BY <1>1, <2>1, <2>2, AppendMembers
  <2>4. ASSUME NEW i \in DOMAIN doneReq'
        PROVE  Reason(doneReq'[i], owner', link', alive')
    BY <1>6, <2>2, <2>3
  <2> QED
    BY <2>4 DEF AllExcused, Excused, Reason
<1>7. ASSUME NEW f \in Fds, UNCHANGED link,
             \/ ListenClient(f)
             \/ DisconnClient(f) /\ (owner[f] # NULL => ~alive[owner[f]])
      PROVE  Fair'
  <2>1. \A i \in DOMAIN doneReq : Reason(doneReq[i], owner', link', alive')
    BY <1>2, <1>7 DEF Fair, AllExcused, Excused, Reason
  <2>2. PICK b \in BOOLEAN :
          /\ doneReq' = Append(doneReq, [fd |-> f, reset |-> b])
          /\ ~b => (owner[f] # NULL => ~alive[owner[f]])
    BY <1>7 DEF ListenClient, DisconnClient
  <2>3. Reason([fd |-> f, reset |-> b], owner', link', alive')
    BY <1>2, <2>2 DEF Reason
  <2>4. AllExcused'
    BY <1>6, <2>1, <2>2, <2>3
  <2> QED
    BY <1>2, <1>7, <2>4 DEF Fair, Accepted, Pending, NobodyCutOff
<1>8. ASSUME NEW f \in Fds, sendClientFatalError(f) PROVE Fair'
  <2>1. /\ doneReq' = Append(doneReq, [fd |-> f, reset |-> FALSE])
        /\ link' = IF owner[f] # NULL THEN [link EXCEPT ![owner[f]] = "refused"]
                                      ELSE link
    BY <1>8 DEF sendClientFatalError, DisconnClient
  <2>2. owner[f] # NULL => /\ owner[f] \in Peers
                           /\ link[owner[f]] \notin {"away", "pending"}
    BY <1>4 DEF Fair, Accepted
  <2>3. \A p \in Peers : \/ link'[p] = link[p]
                         \/ link[p] # "pending" /\ link'[p] = "refused"
    BY <1>1, <2>1, <2>2
  <2>4. \A i \in DOMAIN doneReq : Reason(doneReq[i], owner', link', alive')
    BY <1>2, <1>3, <1>4, <2>3 DEF Fair, AllExcused, Excused, Reason
  <2>5. Reason([fd |-> f, reset |-> FALSE], owner', link', alive')
    BY <1>1, <1>2, <2>1, <2>2 DEF Reason
  <2>6. AllExcused'
    BY <1>6, <2>1, <2>4, <2>5
  <2>7. Pending'
    <3>1. \A i \in DOMAIN backlog : backlog[i] \in Peers
      BY <1>1, LenProperties, ElementOfSeq
    <3> QED
      BY <1>2, <2>3, <3>1 DEF Fair, Pending
  <2>8. Accepted' /\ NobodyCutOff'
    BY <1>2, <1>4, <2>3 DEF Fair, Accepted, NobodyCutOff
  <2> QED
    BY <2>6, <2>7, <2>8 DEF Fair
<1>9. ASSUME NEW f \in Fds, sendClientResult(f) PROVE Fair'
  BY <1>7, <1>9 DEF sendClientResult, Reachable
<1>10. wpc[w] \in Serving => job[w] \in Fds
  BY DEF Fair, Tally, Core, TypeOK, HasJob
<1>11. CASE ReadFails(w)
  <2>1. /\ job[w] \in Fds /\ UNCHANGED link /\ DisconnClient(job[w])
        /\ owner[job[w]] # NULL => ~alive[owner[job[w]]]
    BY <1>10, <1>11 DEF ReadFails, Serving, Client, peerVars
  <2> QED
    BY <1>7, <2>1
<1>12. CASE Answer(w) \/ AnswerFatal(w)
  BY <1>8, <1>9, <1>10, <1>12 DEF Answer, AnswerFatal, Serving
<1>13. CASE InformClientDelete(w)
  <2>1. parked \subseteq Fds
    BY <1>1 DEF TypeOK
  <2> QED
    BY <1>5, <1>8, <1>9, <1>13, <2>1 DEF InformClientDelete
<1>14. ~PayloadCut(w) /\ ~DisconnectAgain(w)
  BY DEF PayloadCut, DisconnectAgain, Fair, Tally, NoAgain
<1> QED
  BY <1>5, <1>11, <1>12, <1>13, <1>14
     DEF Work, Pop, ReadRequest, Use, Park, NextRequest, peerVars

LEMMA TallyStep == ASSUME Tally, Cut = {}, [Next]_vars PROVE Tally'
<1>1. Core'
  BY CoreStep DEF Tally
<1> QED
  BY <1>1, BalancedStep, ClientNumStep, ScannedStep, NoAgainStep DEF Tally

LEMMA FairStep == ASSUME Fair, Cut = {}, [Next]_vars PROVE Fair'
<1>1. Tally'
  BY TallyStep DEF Fair
<1>2. CASE UNCHANGED <<doneReq, link, owner, alive, backlog>>
  BY <1>1, <1>2 DEF Fair, Accepted, Pending, AllExcused, Excused, Reason, NobodyCutOff
<1> QED
  BY <1>1, <1>2, PeerFair, AcceptFair, FromPipeFair, WorkFair
     DEF Next, vars, peerVars, Dispatch, Signal, Test, MaskSocket, Select,
         AcceptFails, FromClient, ScanEnds, Collect, Join

LEMMA InitFair == ASSUME Init PROVE Fair
<1>1. Tally
  BY InitTally
<1> QED
  BY <1>1 DEF Init, Fair, Accepted, Pending, AllExcused, NobodyCutOff

-----------------------------------------------------------------------------
(* The theorems                                                            *)

(* Whatever the clients do, with payloads cut or not: the variables keep   *)
(* their types, and select looks at every descriptor of the mask.          *)
THEOREM CoreInvariance == Spec => []Core
<1>1. Init => Core
  BY InitCore
<1>2. Core /\ [Next]_vars => Core'
  BY CoreStep
<1> QED
  BY <1>1, <1>2, PTL DEF Spec

THEOREM DispatcherTyped == Spec => []TypeOK
<1>1. Core => TypeOK
  BY DEF Core
<1> QED
  BY <1>1, CoreInvariance, PTL

(* maxFD is never below a descriptor of the mask (server.c:429).           *)
THEOREM MaskIsHeard == Spec => []MaskHeard
<1>1. Core => MaskHeard
  BY DEF Core
<1> QED
  BY <1>1, CoreInvariance, PTL

(* With at least one worker, collectThreads leaves an empty FIFO and idle  *)
(* workers behind (server.c:254).                                          *)
THEOREM CloseIsClean ==
  ASSUME Workers # {} PROVE Spec => []JoinedClean
<1>1. Init => Core /\ Ends
  BY InitCore, InitEnds
<1>2. (Core /\ Ends) /\ [Next]_vars => (Core /\ Ends)'
  BY CoreStep, EndsStep
<1>3. Core /\ Ends => JoinedClean
  BY EndsMeans
<1> QED
  BY <1>1, <1>2, <1>3, PTL DEF Spec

(* When no client leaves in the middle of a payload: the accounts of the   *)
(* descriptors and of the connections are an inductive invariant.          *)
THEOREM FairInvariance ==
  ASSUME Cut = {} PROVE Spec => []Fair
<1>1. Init => Fair
  BY InitFair
<1>2. Fair /\ [Next]_vars => Fair'
  BY FairStep
<1> QED
  BY <1>1, <1>2, PTL DEF Spec

(* A connection's descriptor is in one place, unless informClientDelete    *)
(* destroyed its parked WRITE (server.c:1806): then it is in none, and it  *)
(* stays open.  A closed descriptor is in none and was not destroyed so.   *)
THEOREM DescriptorsOnePlace ==
  ASSUME Cut = {}
  PROVE  Spec => [](OnePlace /\ \A f \in dropped : owner[f] # NULL)
<1>1. Fair => OnePlace /\ \A f \in dropped : owner[f] # NULL
  <2>1. ASSUME Fair, NEW f \in dropped PROVE owner[f] # NULL
    <3>1. f \in Fds /\ Lost(f) = 1
      BY <2>1 DEF Fair, Tally, Core, TypeOK, Lost
    <3> QED
      BY <2>1, <3>1, Alone DEF Fair
  <2> QED
    BY <2>1, BalancedOnePlace DEF Fair
<1>2. Spec => []Fair
  BY FairInvariance
<1> QED
  BY <1>1, <1>2, PTL

(* clientNum counts the connected clients.                                 *)
THEOREM ClientsCounted ==
  ASSUME Cut = {} PROVE Spec => []ClientNumExact
<1>1. Fair => ClientNumExact
  BY DEF Fair, Tally
<1>2. Spec => []Fair
  BY FairInvariance
<1> QED
  BY <1>1, <1>2, PTL

(* The server closes only connections whose client has left or was told.   *)
THEOREM NobodyIsCutOff ==
  ASSUME Cut = {} PROVE Spec => []NobodyCutOff
<1>1. Fair => NobodyCutOff
  BY DEF Fair
<1>2. Spec => []Fair
  BY FairInvariance
<1> QED
  BY <1>1, <1>2, PTL

(* After SIGHUP the loop ends only when nobody is connected.               *)
THEOREM CloseWaits ==
  ASSUME Cut = {} PROVE Spec => SlowCloseWaits
<1>1. Fair /\ [Next]_vars
        => [dpc = "test" /\ dpc' = "collect" /\ serverStatus = "slow"
            => \A f \in Fds : owner[f] = NULL]_vars
  <2> SUFFICES ASSUME Fair, Next, dpc = "test", dpc' = "collect",
                      serverStatus = "slow"
               PROVE  Connected = {}
    BY DEF Connected
  <2>1. ~GoOn
    BY DEF Next, Dispatch, Connect, Ask, Leave, Signal, Test, MaskSocket, Select,
           Accept, AcceptFails, FromPipe, FromClient, Handled, Ready, ScanEnds,
           Collect, Join, Work, Pop, ReadRequest, ReadFails, Answer, AnswerFatal,
           Use, Park, PayloadCut, DisconnectAgain, InformClientDelete, NextRequest
  <2>2. ~(clientNum > 0) /\ clientNum = Cardinality(Connected)
    BY <2>1 DEF GoOn, Fair, Tally, ClientNumExact, Connected
  <2>3. IsFiniteSet(Connected)
    <3>1. Connected \in SUBSET Fds
      BY DEF Connected
    <3> QED
      BY <3>1, FdsAssumption, FS_Subset
  <2>4. Cardinality(Connected) \in Nat
    BY <2>3, FS_CardinalityType
  <2>5. Cardinality(Connected) = 0
    BY <2>2, <2>4
  <2> QED
    BY <2>3, <2>5, FS_EmptySet
<1>2. Spec => []Fair
  BY FairInvariance
<1> QED
  BY <1>1, <1>2, PTL DEF Spec, SlowCloseWaits

=============================================================================
