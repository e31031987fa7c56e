---------------------------- MODULE FifoList_proofs ----------------------------
(***************************************************************************)
(* Theorems about FifoList, for any number of threads and nodes, and with  *)
(* a malloc that may fail:                                                 *)
(*   ListTyped      the variables keep their types                         *)
(*   ListLinked     the pointers lead through the nodes in order           *)
(*   NobodySleeps   no consumer sleeps over an element                     *)
(*   QueueRefined   insert and pop are the operations of FifoQueue         *)
(*   CloseLeavesNothing  when the closer has joined the consumers nothing  *)
(*                  is left in the list                                    *)
(* The inductive invariant IInv adds to these who is inside the mutex, and *)
(* who has no element in hand.                                             *)
(***************************************************************************)
EXTENDS FifoList, SequenceTheorems, FiniteSetTheorems, TLAPS

(* Who is between Pthread_mutex_lock and Pthread_mutex_unlock owns the     *)
(* mutex.  (The converse fails: malloc may fail.)                          *)
Inside == {"malloc", "signal", "inserted", "test", "popped"}
Exclusive == \A t \in Threads : pc[t] \in Inside => mutex = t

EmptyHanded ==
  \A t \in Threads :
    pc[t] \in {"idle", "pop", "test", "wait", "exit"} => elem[t] = NULL

IInv == TypeOK /\ Exclusive /\ EmptyHanded /\ Linked /\ NoSleepOnWork

-----------------------------------------------------------------------------
(* The chain of the nodes *)

(* An empty chain, and only that, has no head; the head is a node.         *)
LEMMA ChainFacts ==
  ASSUME TypeOK, Linked
  PROVE  /\ Len(chain) \in Nat /\ DOMAIN chain = 1..Len(chain)
         /\ \A i \in 1..Len(chain) : chain[i] \in Nodes
         /\ chain = <<>> <=> dim = 0
         /\ chain = <<>> <=> Len(chain) = 0
         /\ chain # <<>> => /\ headPtr = chain[1] /\ queuePtr = chain[Len(chain)]
                            /\ headPtr \in Nodes /\ queuePtr \in Nodes
         /\ chain = <<>> => headPtr = NULL /\ queuePtr = NULL
         /\ NULL \notin Nodes
<1>1. chain \in Seq(Nodes)
  BY DEF TypeOK
<1>2. Len(chain) \in Nat /\ DOMAIN chain = 1..Len(chain)
  BY <1>1, LenProperties
<1>3. \A i \in 1..Len(chain) : chain[i] \in Nodes
  BY <1>1, ElementOfSeq
<1>4. chain = <<>> <=> Len(chain) = 0
  BY <1>1, EmptySeq
<1>5. chain # <<>> => headPtr = chain[1] /\ queuePtr = chain[Len(chain)]
  BY DEF Linked, Last
<1>6. chain = <<>> => headPtr = NULL /\ queuePtr = NULL
  BY DEF Linked
<1>7. NULL \notin Nodes
  BY NULLAssumption
<1>8. chain # <<>> => 1 \in 1..Len(chain) /\ Len(chain) \in 1..Len(chain)
  BY <1>2, <1>4
<1> QED
  BY <1>2, <1>3, <1>4, <1>5, <1>6, <1>7, <1>8 DEF Linked

(* The queue whose operations the list implements. *)
Items == [i \in DOMAIN chain |-> data[chain[i]]]

-----------------------------------------------------------------------------
(* Types *)

LEMMA TypeStep == ASSUME IInv, [Next]_vars PROVE TypeOK'
<1> USE DEF IInv
<1> Producers \subseteq Threads /\ Consumers \subseteq Threads
  BY DEF Threads
<1>1. CASE UNCHANGED vars
  BY <1>1 DEF TypeOK, vars, listVars
<1>2. ASSUME NEW t \in Producers \cup {closer}, NEW e \in Elems \cup {END},
             CallInsert(t, e)
      PROVE  TypeOK'
  <2>1. t \in Threads /\ pc[t] = "idle"
    BY <1>2 DEF CallInsert, Threads
  <2>2. ends' \in Nat
    BY <1>2 DEF CallInsert, TypeOK
  <2> QED
    BY <1>2, <2>1, <2>2 DEF TypeOK, CallInsert, Goto, Holds, listVars
<1>3. ASSUME NEW t \in Threads, LockInsert(t) PROVE TypeOK'
  BY <1>3 DEF TypeOK, LockInsert, Lock, Goto, listVars
<1>4. ASSUME NEW t \in Threads, MallocNull(t) PROVE TypeOK'
  BY <1>4 DEF TypeOK, MallocNull, Goto, Holds, listVars
<1>5. ASSUME NEW t \in Threads, NEW n \in Nodes, LinkIn(t, n) PROVE TypeOK'
  <2>1. dim' \in Int /\ headPtr' \in Nodes \cup {NULL} /\ queuePtr' \in Nodes \cup {NULL}
    BY <1>5 DEF TypeOK, LinkIn
  <2>2. nextPtr' \in [Nodes -> Nodes \cup {NULL}]
    BY <1>5 DEF TypeOK, LinkIn
  <2>3. data' \in [Nodes -> Elems \cup {END, NULL}] /\ heap' \subseteq Nodes
    BY <1>5 DEF TypeOK, LinkIn
  <2>4. chain' \in Seq(Nodes)
    BY <1>5, AppendProperties DEF TypeOK, LinkIn
  <2>5. /\ waiting' \subseteq {c \in Consumers : pc'[c] = "wait"}
        /\ pc' \in [Threads -> {"idle", "insert", "malloc", "signal", "inserted",
                         "pop", "test", "wait", "popped", "exit"}]
    BY <1>5 DEF TypeOK, LinkIn, Goto
  <2> QED
    BY <1>5, <2>1, <2>2, <2>3, <2>4, <2>5 DEF TypeOK, LinkIn
<1>6. ASSUME NEW t \in Threads, Signal(t) PROVE TypeOK'
  BY <1>6 DEF TypeOK, Signal, Goto, listVars
<1>7. ASSUME NEW t \in Threads, UnlockInsert(t) PROVE TypeOK'
  BY <1>7 DEF TypeOK, UnlockInsert, Unlock, Goto, Holds, listVars
<1>8. ASSUME NEW t \in Consumers, CallPop(t) PROVE TypeOK'
  BY <1>8 DEF TypeOK, CallPop, Goto, listVars
<1>9. ASSUME NEW t \in Threads, LockPop(t) PROVE TypeOK'
  BY <1>9 DEF TypeOK, LockPop, Lock, Goto, listVars
<1>10. ASSUME NEW t \in Consumers, Wait(t) PROVE TypeOK'
  <2>1. waiting' \subseteq {c \in Consumers : pc'[c] = "wait"}
    BY <1>10 DEF TypeOK, Wait, Goto, Threads
  <2> QED
    BY <1>10, <2>1 DEF TypeOK, Wait, Goto, listVars
<1>11. ASSUME NEW t \in Threads, Woken(t) PROVE TypeOK'
  BY <1>11 DEF TypeOK, Woken, Lock, Goto, listVars
<1>12. ASSUME NEW t \in Consumers, Spurious(t) PROVE TypeOK'
  BY <1>12 DEF TypeOK, Spurious, listVars
<1>13. ASSUME NEW t \in Threads, Take(t) PROVE TypeOK'
  <2>1. chain # <<>> /\ headPtr \in Nodes
    BY <1>13, ChainFacts DEF Take
  <2>2. chain' \in Seq(Nodes)
    BY <1>13, <2>1, HeadTailProperties DEF TypeOK, Take, Unlink
  <2>3. headPtr' \in Nodes \cup {NULL} /\ queuePtr' \in Nodes \cup {NULL}
    BY <1>13, <2>1 DEF TypeOK, Take, Unlink
  <2>4. /\ nextPtr' \in [Nodes -> Nodes \cup {NULL}]
        /\ data' \in [Nodes -> Elems \cup {END, NULL}]
        /\ heap' \subseteq Nodes /\ dim' \in Int
    BY <1>13, <2>1 DEF TypeOK, Take, Unlink
  <2>5. elem' \in [Threads -> Elems \cup {END, NULL}]
    BY <1>13, <2>1 DEF TypeOK, Take, Holds
  <2>6. /\ waiting' \subseteq {c \in Consumers : pc'[c] = "wait"}
        /\ pc' \in [Threads -> {"idle", "insert", "malloc", "signal", "inserted",
                         "pop", "test", "wait", "popped", "exit"}]
    BY <1>13 DEF TypeOK, Take, Goto
  <2> QED
    BY <1>13, <2>2, <2>3, <2>4, <2>5, <2>6 DEF TypeOK, Take
<1>14. ASSUME NEW t \in Threads, UnlockPop(t) PROVE TypeOK'
  BY <1>14 DEF TypeOK, UnlockPop, Unlock, Goto, Holds, listVars
<1>15. ASSUME NEW p \in Producers, Leave(p) PROVE TypeOK'
  BY <1>15 DEF TypeOK, Leave, Goto, listVars
<1> QED
  BY <1>1, <1>2, <1>3, <1>4, <1>5, <1>6, <1>7, <1>8, <1>9, <1>10, <1>11, <1>12,
     <1>13, <1>14, <1>15 DEF Next, Insert, Pop, Threads

-----------------------------------------------------------------------------
(* The mutex, and the elements in hand *)

LEMMA ExclusiveStep == ASSUME IInv, [Next]_vars PROVE Exclusive'
<1> USE DEF IInv
<1> Producers \subseteq Threads /\ Consumers \subseteq Threads
  BY DEF Threads
<1>1. pc \in [Threads -> {"idle", "insert", "malloc", "signal", "inserted",
                         "pop", "test", "wait", "popped", "exit"}]
  BY DEF TypeOK
<1>2. CASE UNCHANGED vars
  BY <1>2 DEF Exclusive, vars
<1>3. ASSUME NEW t \in Threads, NEW from, NEW to, Lock(t, from, to)
      PROVE  Exclusive'
  BY <1>1, <1>3, NULLAssumption DEF Exclusive, Lock, Goto
<1>4. ASSUME NEW t \in Threads, NEW from \in {"inserted", "popped"}, Unlock(t, from)
      PROVE  Exclusive'
  BY <1>1, <1>4 DEF Exclusive, Unlock, Goto, Inside
<1>5. ASSUME NEW t \in Threads, NEW from, NEW to,
             pc[t] = from, mutex' = mutex, Goto(t, to),
             to \in Inside => from \in Inside
      PROVE  Exclusive'
  BY <1>1, <1>5 DEF Exclusive, Goto
<1>6. ASSUME NEW t \in Consumers, Wait(t) PROVE Exclusive'
  BY <1>1, <1>6 DEF Exclusive, Wait, Goto, Inside
<1>7. ASSUME NEW t \in Threads, Insert(t) PROVE Exclusive'
  BY <1>3, <1>4, <1>5, <1>7
     DEF Insert, LockInsert, MallocNull, LinkIn, Signal, UnlockInsert, Inside
<1>8. ASSUME NEW t \in Consumers, Pop(t) PROVE Exclusive'
  BY <1>3, <1>4, <1>5, <1>6, <1>8
     DEF Pop, CallPop, LockPop, Woken, Take, UnlockPop, Inside
<1>9. ASSUME NEW t \in Threads, NEW e, CallInsert(t, e) PROVE Exclusive'
  BY <1>5, <1>9 DEF CallInsert, Inside
<1>10. ASSUME NEW t \in Consumers, Spurious(t) PROVE Exclusive'
  BY <1>10 DEF Exclusive, Spurious
<1>11. ASSUME NEW p \in Producers, Leave(p) PROVE Exclusive'
  BY <1>5, <1>11 DEF Leave, Inside
<1> QED
  BY <1>2, <1>7, <1>8, <1>9, <1>10, <1>11 DEF Next, Threads

LEMMA EmptyHandedStep == ASSUME IInv, [Next]_vars PROVE EmptyHanded'
<1> USE DEF IInv
<1> Producers \subseteq Threads /\ Consumers \subseteq Threads
  BY DEF Threads
<1>1. /\ pc \in [Threads -> {"idle", "insert", "malloc", "signal", "inserted",
                            "pop", "test", "wait", "popped", "exit"}]
      /\ elem \in [Threads -> Elems \cup {END, NULL}]
  BY DEF TypeOK
<1> DEFINE Free == {"idle", "pop", "test", "wait", "exit"}
<1>2. CASE UNCHANGED vars
  BY <1>2 DEF EmptyHanded, vars
<1>3. ASSUME NEW t \in Threads, NEW from, NEW to,
             pc[t] = from, Goto(t, to), elem' = elem,
             to \in Free => from \in Free
      PROVE  EmptyHanded'
  BY <1>1, <1>3 DEF EmptyHanded, Goto
<1>4. ASSUME NEW t \in Threads, NEW to, Goto(t, to), Holds(t, NULL)
      PROVE  EmptyHanded'
  BY <1>1, <1>4 DEF EmptyHanded, Goto, Holds
<1>5. ASSUME NEW t \in Threads, NEW to, NEW e, Goto(t, to), Holds(t, e), to \notin Free
      PROVE  EmptyHanded'
  BY <1>1, <1>5 DEF EmptyHanded, Goto, Holds
<1>6. ASSUME NEW t \in Threads, NEW from, Unlock(t, from)
      PROVE  EmptyHanded'
  BY <1>4, <1>6 DEF Unlock
<1>7. ASSUME NEW t \in Threads, Insert(t) PROVE EmptyHanded'
  BY <1>3, <1>4, <1>6, <1>7
     DEF Insert, LockInsert, Lock, MallocNull, LinkIn, Signal, UnlockInsert
<1>8. ASSUME NEW t \in Consumers, Pop(t) PROVE EmptyHanded'
  BY <1>3, <1>5, <1>6, <1>8
     DEF Pop, CallPop, LockPop, Lock, Wait, Woken, Take, UnlockPop
<1>9. ASSUME NEW t \in Threads, NEW e, CallInsert(t, e) PROVE EmptyHanded'
  BY <1>5, <1>9 DEF CallInsert
<1>10. ASSUME NEW t \in Consumers, Spurious(t) PROVE EmptyHanded'
  BY <1>10 DEF EmptyHanded, Spurious
<1>11. ASSUME NEW p \in Producers, Leave(p) PROVE EmptyHanded'
  BY <1>3, <1>11 DEF Leave
<1> QED
  BY <1>2, <1>7, <1>8, <1>9, <1>10, <1>11 DEF Next, Threads

-----------------------------------------------------------------------------
(* The pointers *)

(* insert: malloc's node comes after the last one.                         *)
LEMMA LinkInLinked ==
  ASSUME IInv, NEW t \in Threads, NEW n \in Nodes, LinkIn(t, n)
  PROVE  Linked'
<1> DEFINE len == Len(chain)
<1> USE DEF IInv
<1>1. /\ chain \in Seq(Nodes) /\ len \in Nat /\ DOMAIN chain = 1..len
      /\ len # 0 => queuePtr = chain[len]
      /\ \A i \in 1..len : chain[i] \in Nodes
  BY ChainFacts DEF TypeOK
<1>2. n \notin heap /\ \A i \in 1..len : chain[i] # n
  BY <1>1 DEF LinkIn, Linked, Range
<1>3. chain' = Append(chain, n)
  BY DEF LinkIn
<1>4. /\ Len(chain') = len + 1 /\ DOMAIN chain' = 1..len + 1
      /\ chain' # <<>> /\ chain'[len + 1] = n
      /\ \A i \in 1..len : chain'[i] = chain[i]
  BY <1>1, <1>3, AppendProperties, LenProperties
<1>5. dim' = Len(chain')
  BY <1>4 DEF LinkIn, Linked
<1>6. headPtr' = Head(chain')
  <2>1. headPtr' = IF chain = <<>> THEN n ELSE headPtr
    BY ChainFacts DEF LinkIn
  <2> QED
    BY <1>1, <1>3, <2>1, HeadTailAppend DEF Linked
<1>7. queuePtr' = Last(chain')
  BY <1>4 DEF LinkIn, Last
<1>8. /\ n # queuePtr
       /\ \A m \in Nodes : nextPtr'[m] = IF m = n THEN NULL
                                        ELSE IF m = queuePtr THEN n ELSE nextPtr[m]
  <2>1. n # queuePtr
    BY <1>1, <1>2, ChainFacts
  <2>2. nextPtr' = [m \in Nodes |-> CASE m = n        -> NULL
                                     [] m = queuePtr -> n
                                     [] OTHER        -> nextPtr[m]]
    BY DEF LinkIn
  <2> QED
    BY <2>1, <2>2
<1>9. \A i, j \in 1..len : chain[i] = chain[j] => i = j
  BY <1>1 DEF Linked
<1>10. ASSUME NEW i \in 1..len + 1
      PROVE  nextPtr'[chain'[i]] = IF i = len + 1 THEN NULL ELSE chain'[i + 1]
  <2>1. CASE i = len + 1
    BY <1>4, <1>8, <2>1
  <2>2. CASE i = len
    <3>1. i \in 1..len /\ chain[i] = queuePtr /\ chain[i] # n /\ chain[i] \in Nodes
      BY <1>1, <1>2, <2>2
    <3> QED
      BY <1>1, <1>4, <1>8, <2>2, <3>1
  <2>3. CASE i < len
    <3>1. chain[i] # n /\ chain[i] \in Nodes /\ i \in 1..len /\ i + 1 \in 1..len
      BY <1>1, <1>2, <2>3
    <3>2. chain[i] # queuePtr
      <4>1. queuePtr = chain[len] /\ len \in 1..len /\ i # len
        <5>1. len \in Nat /\ (len # 0 => queuePtr = chain[len])
          BY <1>1
        <5> HIDE DEF len
        <5> QED
          BY <2>3, <5>1
      <4> QED
        BY <1>9, <3>1, <4>1
    <3>3. nextPtr'[chain[i]] = nextPtr[chain[i]]
      BY <1>8, <3>1, <3>2
    <3>4. nextPtr[chain[i]] = chain[i + 1]
      BY <1>1, <2>3, <3>1 DEF Linked
    <3> QED
      BY <1>1, <1>4, <2>3, <3>1, <3>3, <3>4
  <2>4. i = len + 1 \/ i = len \/ i < len
    <3>1. len \in Nat
      BY <1>1
    <3> HIDE DEF len
    <3> QED
      BY <3>1
  <2> QED
    BY <2>1, <2>2, <2>3, <2>4
<1>11. heap' = Range(chain')
  <2>1. Range(chain') = Range(chain) \cup {n}
    BY <1>1, <1>4 DEF Range
  <2> QED
    BY <2>1 DEF LinkIn, Linked
<1>12. ASSUME NEW i \in 1..len + 1, NEW j \in 1..len + 1, chain'[i] = chain'[j]
       PROVE  i = j
  <2>1. CASE i \in 1..len /\ j \in 1..len
    BY <1>1, <1>4, <1>12, <2>1 DEF Linked
  <2>2. CASE i = len + 1 \/ j = len + 1
    BY <1>1, <1>2, <1>4, <1>12, <2>2
  <2> QED
    BY <1>1, <2>1, <2>2
<1> HIDE DEF IInv
<1> QED
  BY <1>4, <1>5, <1>6, <1>7, <1>10, <1>11, <1>12 DEF Linked

(* pop: the first node goes.                                               *)
LEMMA UnlinkLinked ==
  ASSUME IInv, dim > 0, Unlink
  PROVE  Linked'
<1> DEFINE len == Len(chain)
<1> USE DEF IInv
<1>1. /\ chain \in Seq(Nodes) /\ len \in Nat /\ DOMAIN chain = 1..len
      /\ chain # <<>> /\ len # 0 /\ dim = len
      /\ headPtr = chain[1] /\ queuePtr = chain[len]
      /\ \A i \in 1..len : chain[i] \in Nodes
  BY ChainFacts DEF TypeOK, Linked
<1>2. chain' = Tail(chain)
  BY DEF Unlink
<1>3. /\ chain' \in Seq(Nodes) /\ Len(chain') = len - 1
      /\ \A i \in 1..len - 1 : chain'[i] = chain[i + 1]
  BY <1>1, <1>2, HeadTailProperties
<1>4. /\ DOMAIN chain' = 1..len - 1
      /\ chain' = <<>> <=> len = 1
  BY <1>1, <1>3, LenProperties, EmptySeq
<1>5. nextPtr[chain[1]] = IF len = 1 THEN NULL ELSE chain[2]
  BY <1>1 DEF Linked
<1>6. dim' = Len(chain')
  BY <1>1, <1>3 DEF Unlink
<1>7. headPtr' = IF chain' = <<>> THEN NULL ELSE Head(chain')
  <2>1. chain' # <<>> => Head(chain') = chain[2]
    BY <1>1, <1>3, <1>4
  <2> QED
    BY <1>1, <1>4, <1>5, <2>1 DEF Unlink
<1>8. queuePtr' = IF chain' = <<>> THEN NULL ELSE Last(chain')
  <2>1. headPtr' = NULL <=> len = 1
    BY <1>1, <1>5, ChainFacts DEF Unlink
  <2>2. len # 1 => chain'[len - 1] = chain[len]
    BY <1>1, <1>3
  <2> QED
    BY <1>1, <1>3, <1>4, <2>1, <2>2 DEF Unlink, Last
<1>9. ASSUME NEW i \in 1..len - 1
      PROVE  /\ chain'[i] # chain[1]
             /\ nextPtr'[chain'[i]] = IF i = len - 1 THEN NULL ELSE chain'[i + 1]
  <2>1. chain'[i] = chain[i + 1] /\ i + 1 \in 1..len /\ 1 \in 1..len /\ i + 1 # 1
    BY <1>1, <1>3
  <2>2. chain[i + 1] # chain[1]
    BY <1>1, <2>1 DEF Linked
  <2>3. nextPtr'[chain[i + 1]] = nextPtr[chain[i + 1]]
    BY <1>1, <2>1, <2>2 DEF Unlink, TypeOK
  <2>4. \A k \in 1..len : nextPtr[chain[k]] = IF k = len THEN NULL ELSE chain[k + 1]
    BY <1>1 DEF Linked
  <2>5. /\ (i + 1) + 1 = i + 2 /\ (i + 1 = len <=> i = len - 1)
        /\ i # len - 1 => i + 1 \in 1..len - 1
    <3>1. len \in Nat
      BY <1>1
    <3> HIDE DEF len
    <3> QED
      BY <3>1
  <2>6. i # len - 1 => chain'[i + 1] = chain[i + 2]
    BY <1>3, <2>5
  <2>7. nextPtr[chain[i + 1]] = IF i = len - 1 THEN NULL ELSE chain[i + 2]
    BY <2>1, <2>4, <2>5
  <2> QED
    BY <2>1, <2>2, <2>3, <2>6, <2>7
<1>10. heap' = Range(chain')
  <2>1. Range(chain') = Range(chain) \ {chain[1]}
    <3>1. ASSUME NEW x \in Range(chain') PROVE x \in Range(chain) \ {chain[1]}
      <4>1. PICK i \in 1..len - 1 : x = chain'[i]
        BY <1>4 DEF Range
      <4>2. i + 1 \in 1..len /\ x = chain[i + 1]
        BY <1>1, <1>3, <4>1
      <4> QED
        BY <1>1, <1>9, <4>1, <4>2 DEF Range
    <3>2. ASSUME NEW x \in Range(chain) \ {chain[1]} PROVE x \in Range(chain')
      <4>1. PICK i \in 1..len : x = chain[i]
        BY <1>1 DEF Range
      <4>2. i - 1 \in 1..len - 1 /\ x = chain'[i - 1]
        BY <1>1, <1>3, <4>1
      <4> QED
        BY <1>4, <4>2 DEF Range
    <3> QED
      BY <3>1, <3>2
  <2> QED
    BY <1>1, <2>1 DEF Unlink, Linked
<1>11. ASSUME NEW i \in 1..len - 1, NEW j \in 1..len - 1, chain'[i] = chain'[j]
       PROVE  i = j
  <2>1. chain[i + 1] = chain[j + 1] /\ i + 1 \in 1..len /\ j + 1 \in 1..len
    BY <1>1, <1>3, <1>11
  <2>2. i + 1 = j + 1
    BY <1>1, <2>1 DEF Linked
  <2> QED
    BY <2>2
<1> HIDE DEF IInv
<1> QED
  BY <1>3, <1>4, <1>6, <1>7, <1>8, <1>9, <1>10, <1>11 DEF Linked

LEMMA LinkedStep == ASSUME IInv, [Next]_vars PROVE Linked'
<1>1. CASE UNCHANGED listVars
  BY <1>1 DEF IInv, Linked, listVars
<1>2. ASSUME NEW t \in Threads, NEW n \in Nodes, LinkIn(t, n) PROVE Linked'
  BY <1>2, LinkInLinked
<1>3. ASSUME NEW t \in Consumers, Take(t) PROVE Linked'
  BY <1>3, UnlinkLinked DEF Take
<1> QED
  BY <1>1, <1>2, <1>3
     DEF Next, vars, CallInsert, Insert, LockInsert, Lock, MallocNull, Signal,
         UnlockInsert, Unlock, Pop, CallPop, LockPop, Wait, Woken, UnlockPop,
         Spurious, Leave, Threads

-----------------------------------------------------------------------------
(* Sleepers *)

Signalling == {t \in Threads : pc[t] = "signal"}

LEMMA Countable ==
  ASSUME IInv
  PROVE  /\ IsFiniteSet(Awake) /\ Cardinality(Awake) \in Nat
         /\ IsFiniteSet(Signalling) /\ Cardinality(Signalling) \in Nat
<1>1. IsFiniteSet(Awake)
  <2>1. Awake \in SUBSET Consumers
    BY DEF Awake
  <2> QED
    BY <2>1, ThreadsAssumption, FS_Subset
<1>2. IsFiniteSet(Signalling)
  <2>1. Signalling \in SUBSET {mutex}
    BY DEF IInv, Exclusive, Inside, Signalling
  <2>2. IsFiniteSet({mutex})
    BY FS_Singleton
  <2> QED
    BY <2>1, <2>2, FS_Subset
<1> QED
  BY <1>1, <1>2, FS_CardinalityType

LEMMA NoSleepStep == ASSUME IInv, [Next]_vars PROVE NoSleepOnWork'
<1> DEFINE a == Cardinality(Awake)
           g == Cardinality(Signalling)
<1> Producers \subseteq Threads /\ Consumers \subseteq Threads
  BY DEF Threads
<1>1. /\ pc \in [Threads -> {"idle", "insert", "malloc", "signal", "inserted",
                            "pop", "test", "wait", "popped", "exit"}]
      /\ waiting \subseteq {c \in Consumers : pc[c] = "wait"}
      /\ dim \in Int
  BY DEF IInv, TypeOK
<1>2. NoSleepOnWork <=> (waiting # {} => dim <= a + g)
  BY DEF NoSleepOnWork, Signalling
<1>3. NoSleepOnWork' <=> (waiting' # {} => dim' <= a' + g')
  BY DEF NoSleepOnWork, Signalling
<1>4. NoSleepOnWork
  BY DEF IInv
<1>5. /\ IsFiniteSet(Awake) /\ a \in Nat
      /\ IsFiniteSet(Signalling) /\ g \in Nat
  BY Countable
<1>6. CASE UNCHANGED <<pc, waiting, dim>>
  <2>1. Awake' = Awake /\ Signalling' = Signalling
    BY <1>6 DEF Awake, Signalling
  <2> QED
    BY <1>2, <1>3, <1>4, <1>6, <2>1
<1>7. ASSUME NEW t \in Threads, NEW to, Goto(t, to), UNCHANGED <<waiting, dim>>,
             pc[t] # "signal", to # "signal",
             t \in Awake <=> to \in {"pop", "test"} \/ (to = "wait" /\ t \notin waiting),
             t \in Consumers
      PROVE  NoSleepOnWork'
  <2>1. Awake' = Awake
    BY <1>1, <1>7 DEF Awake, Goto
  <2>2. Signalling' = Signalling
    BY <1>1, <1>7 DEF Signalling, Goto
  <2> QED
    BY <1>2, <1>3, <1>4, <1>7, <2>1, <2>2
<1>8. ASSUME NEW t \in Threads, NEW to, Goto(t, to), UNCHANGED <<waiting, dim>>,
             pc[t] \notin {"signal", "pop", "test", "wait"},
             to \notin {"signal", "pop", "test", "wait"}
      PROVE  NoSleepOnWork'
  <2>1. Awake' = Awake
    BY <1>1, <1>8 DEF Awake, Goto
  <2>2. Signalling' = Signalling
    BY <1>1, <1>8 DEF Signalling, Goto
  <2> QED
    BY <1>2, <1>3, <1>4, <1>8, <2>1, <2>2
<1>9. ASSUME NEW t \in Threads, NEW n \in Nodes, LinkIn(t, n) PROVE NoSleepOnWork'
  <2>1. Awake' = Awake
    BY <1>1, <1>9 DEF Awake, LinkIn, Goto
  <2>2. Signalling' = Signalling \cup {t} /\ t \notin Signalling
    BY <1>1, <1>9 DEF Signalling, LinkIn, Goto
  <2>3. g' = g + 1
    BY <1>5, <2>2, FS_AddElement
  <2>4. dim' = dim + 1 /\ waiting' = waiting
    BY <1>9 DEF LinkIn
  <2> HIDE DEF a, g
  <2>5. a' = a
    BY <2>1 DEF a
  <2> QED
    BY <1>1, <1>2, <1>3, <1>4, <1>5, <2>3, <2>4, <2>5
<1>10. ASSUME NEW t \in Threads, Signal(t) PROVE NoSleepOnWork'
  <2>1. CASE waiting = {}
    BY <1>3, <1>10, <2>1 DEF Signal
  <2>2. CASE waiting # {}
    <3>1. PICK c \in waiting : waiting' = waiting \ {c}
      BY <1>10, <2>2 DEF Signal
    <3>2. Awake' = Awake \cup {c} /\ c \notin Awake
      BY <1>1, <1>10, <3>1 DEF Awake, Signal, Goto
    <3>3. Signalling' = Signalling \ {t} /\ t \in Signalling
      BY <1>1, <1>10 DEF Signalling, Signal, Goto
    <3>4. a' = a + 1
      BY <1>5, <3>2, FS_AddElement
    <3>5. g' = g - 1
      BY <1>5, <3>3, FS_RemoveElement
    <3>6. dim' = dim
      BY <1>10 DEF Signal, listVars
    <3> HIDE DEF a, g
    <3> QED
      BY <1>1, <1>2, <1>3, <1>4, <1>5, <2>2, <3>4, <3>5, <3>6
  <2> QED
    BY <2>1, <2>2
<1>11. ASSUME NEW t \in Consumers, CallPop(t) \/ Spurious(t) PROVE NoSleepOnWork'
  <2>1. Awake' = Awake \cup {t}
    BY <1>1, <1>11 DEF Awake, CallPop, Spurious, Goto
  <2>2. Signalling' = Signalling
    BY <1>1, <1>11 DEF Signalling, CallPop, Spurious, Goto
  <2>3. a' = a \/ a' = a + 1
    BY <1>5, <2>1, FS_AddElement
  <2>4. dim' = dim /\ (waiting' # {} => waiting # {})
    BY <1>11 DEF CallPop, Spurious, listVars
  <2> HIDE DEF a, g
  <2>5. g' = g
    BY <2>2 DEF g
  <2> QED
    BY <1>1, <1>2, <1>3, <1>4, <1>5, <2>3, <2>4, <2>5
<1>12. ASSUME NEW t \in Consumers, Wait(t) PROVE NoSleepOnWork'
  <2>1. Awake' = Awake \ {t}
    BY <1>1, <1>12 DEF Awake, Wait, Goto
  <2>2. Signalling' = Signalling
    BY <1>1, <1>12 DEF Signalling, Wait, Goto
  <2>3. a' \in Nat /\ g' \in Nat
    BY <1>5, <2>1, <2>2, FS_RemoveElement, FS_CardinalityType
  <2>4. dim' \in Int /\ dim' <= 0
    BY <1>1, <1>12 DEF Wait, listVars
  <2>5. \A d \in Int, x, y \in Nat : d <= 0 => d <= x + y
    OBVIOUS
  <2>6. dim' <= a' + g'
    BY <2>3, <2>4, <2>5
  <2> QED
    BY <1>3, <2>6
<1>13. ASSUME NEW t \in Consumers, Take(t) PROVE NoSleepOnWork'
  <2>1. Awake' = Awake \ {t} /\ t \in Awake
    BY <1>1, <1>13 DEF Awake, Take, Goto
  <2>2. Signalling' = Signalling
    BY <1>1, <1>13 DEF Signalling, Take, Goto
  <2>3. a' = a - 1
    BY <1>5, <2>1, FS_RemoveElement
  <2>4. dim' = dim - 1 /\ waiting' = waiting
    BY <1>13 DEF Take, Unlink
  <2> HIDE DEF a, g
  <2>5. g' = g
    BY <2>2 DEF g
  <2> QED
    BY <1>1, <1>2, <1>3, <1>4, <1>5, <2>3, <2>4, <2>5
<1>14. ASSUME NEW t \in Consumers, LockPop(t) \/ Woken(t) PROVE NoSleepOnWork'
  <2>1. pc[t] # "signal" /\ t \in Awake
    BY <1>14 DEF LockPop, Woken, Lock, Awake
  <2>2. Goto(t, "test") /\ waiting' = waiting /\ dim' = dim
    BY <1>14 DEF LockPop, Woken, Lock, listVars
  <2> QED
    BY <1>7, <2>1, <2>2
<1>15. ASSUME NEW t \in Threads, NEW from \in {"inserted", "popped"}, Unlock(t, from)
       PROVE  NoSleepOnWork'
  BY <1>8, <1>15 DEF Unlock, listVars
<1>16. ASSUME NEW t \in Threads, Insert(t) PROVE NoSleepOnWork'
  <2>1. CASE LockInsert(t)
    BY <1>8, <2>1 DEF LockInsert, Lock, listVars
  <2>2. CASE MallocNull(t)
    BY <1>8, <2>2 DEF MallocNull, listVars
  <2>3. CASE UnlockInsert(t)
    BY <1>15, <2>3 DEF UnlockInsert
  <2> QED
    BY <1>9, <1>10, <1>16, <2>1, <2>2, <2>3 DEF Insert
<1>17. ASSUME NEW t \in Consumers, Pop(t) PROVE NoSleepOnWork'
  BY <1>11, <1>12, <1>13, <1>14, <1>15, <1>17 DEF Pop, UnlockPop
<1>18. ASSUME NEW t \in Threads, NEW e, CallInsert(t, e) PROVE NoSleepOnWork'
  BY <1>8, <1>18 DEF CallInsert, listVars
<1>19. ASSUME NEW p \in Producers, Leave(p) PROVE NoSleepOnWork'
  BY <1>8, <1>19 DEF Leave, listVars
<1> QED
  BY <1>6, <1>11, <1>16, <1>17, <1>18, <1>19 DEF Next, vars, listVars, Threads

-----------------------------------------------------------------------------
(* The invariant and what it says *)

LEMMA InitIInv == ASSUME Init PROVE IInv
<1>1. TypeOK
  <2>1. <<>> \in Seq(Nodes)
    OBVIOUS
  <2>2. /\ pc \in [Threads -> {"idle", "insert", "malloc", "signal", "inserted",
                              "pop", "test", "wait", "popped", "exit"}]
        /\ elem \in [Threads -> Elems \cup {END, NULL}]
    BY DEF Init
  <2>3. /\ nextPtr \in [Nodes -> Nodes \cup {NULL}]
        /\ data \in [Nodes -> Elems \cup {END, NULL}]
    BY DEF Init
  <2>4. waiting \subseteq {c \in Consumers : pc[c] = "wait"}
    BY DEF Init
  <2>5. /\ dim \in Int /\ ends \in Nat /\ heap \subseteq Nodes
        /\ headPtr \in Nodes \cup {NULL} /\ queuePtr \in Nodes \cup {NULL}
        /\ mutex \in Threads \cup {NULL}
    BY DEF Init
  <2>6. failed \in BOOLEAN
    BY DEF Init
  <2>7. chain \in Seq(Nodes)
    BY <2>1, Zenon DEF Init
  <2> QED
    BY <2>2, <2>3, <2>4, <2>5, <2>6, <2>7 DEF TypeOK
<1>2. Exclusive /\ EmptyHanded
  BY DEF Init, Exclusive, EmptyHanded, Inside
<1>3. Linked
  <2>1. Len(<<>>) = 0 /\ DOMAIN <<>> = {}
    OBVIOUS
  <2>2. Range(<<>>) = {}
    BY <2>1 DEF Range
  <2> QED
    BY <2>1, <2>2 DEF Init, Linked
<1>4. NoSleepOnWork
  BY DEF Init, NoSleepOnWork
<1> QED
  BY <1>1, <1>2, <1>3, <1>4 DEF IInv

(* IInv holds in every state of the list's users.                          *)
THEOREM Invariance == Spec => []IInv
<1>1. Init => IInv
  BY InitIInv
<1>2. IInv /\ [Next]_vars => IInv'
  BY TypeStep, ExclusiveStep, EmptyHandedStep, LinkedStep, NoSleepStep DEF IInv
<1> QED
  BY <1>1, <1>2, PTL DEF Spec

(* The variables keep their types.                                         *)
THEOREM ListTyped == Spec => []TypeOK
<1>1. IInv => TypeOK
  BY DEF IInv
<1> QED
  BY <1>1, Invariance, PTL

(* The list is what its users think, whatever insert and pop do at once:   *)
(* the pointers lead through all the allocated nodes, in order.            *)
THEOREM ListLinked == Spec => []Linked
<1>1. IInv => Linked
  BY DEF IInv
<1> QED
  BY <1>1, Invariance, PTL

(* No consumer sleeps in pthread_cond_wait over an element nobody comes    *)
(* for: one signal for each insertion is enough.                           *)
THEOREM NobodySleeps == Spec => []NoSleepOnWork
<1>1. IInv => NoSleepOnWork
  BY DEF IInv
<1> QED
  BY <1>1, Invariance, PTL

-----------------------------------------------------------------------------
(* insert and pop are operations of a queue *)

PhaseAt(l) ==
  CASE l \in {"insert", "malloc"}    -> "insert"
    [] l \in {"signal", "inserted"}  -> "inserted"
    [] l \in {"pop", "test", "wait"} -> "pop"
    [] l = "popped"                  -> "popped"
    [] OTHER                         -> "none"
Calls == [t \in Threads |-> [op |-> Phase(t), elem |-> elem[t]]]

(* A step of one thread changes the call of this thread.                   *)
LEMMA CallMoves ==
  ASSUME IInv, NEW t \in Threads, NEW l, NEW e, Goto(t, l),
         Holds(t, e) \/ (elem' = elem /\ e = elem[t])
  PROVE  /\ Calls' = [Calls EXCEPT ![t] = [op |-> PhaseAt(l), elem |-> e]]
         /\ Calls[t] = [op |-> PhaseAt(pc[t]), elem |-> elem[t]]
<1>1. /\ pc \in [Threads -> {"idle", "insert", "malloc", "signal", "inserted",
                            "pop", "test", "wait", "popped", "exit"}]
      /\ elem \in [Threads -> Elems \cup {END, NULL}]
  BY DEF IInv, TypeOK
<1>2. \A u \in Threads : /\ pc'[u] = IF u = t THEN l ELSE pc[u]
                         /\ elem'[u] = IF u = t THEN e ELSE elem[u]
  BY <1>1 DEF Goto, Holds
<1>3. \A u \in Threads : Phase(u) = PhaseAt(pc[u]) /\ Phase(u)' = PhaseAt(pc'[u])
  BY DEF Phase, PhaseAt
<1>4. \A u \in Threads : Phase(u)' = IF u = t THEN PhaseAt(l) ELSE Phase(u)
  BY <1>2, <1>3
<1>5. Calls' = [u \in Threads |-> [op |-> Phase(u)', elem |-> elem'[u]]]
  BY DEF Calls
<1>6. Calls[t] = [op |-> PhaseAt(pc[t]), elem |-> elem[t]]
  BY <1>3 DEF Calls
<1>7. [Calls EXCEPT ![t] = [op |-> PhaseAt(l), elem |-> e]]
        = [u \in Threads |-> IF u = t THEN [op |-> PhaseAt(l), elem |-> e]
                             ELSE [op |-> Phase(u), elem |-> elem[u]]]
  BY DEF Calls
<1> HIDE DEF PhaseAt, Phase
<1> QED
  BY <1>2, <1>4, <1>5, <1>6, <1>7

(* A step inside a call that leaves its phase and the list alone.          *)
LEMMA CallStays ==
  ASSUME IInv, NEW t \in Threads, NEW l, Goto(t, l), elem' = elem,
         PhaseAt(l) = PhaseAt(pc[t])
  PROVE  Calls' = Calls
<1>1. /\ Calls' = [Calls EXCEPT ![t] = [op |-> PhaseAt(l), elem |-> elem[t]]]
      /\ Calls[t] = [op |-> PhaseAt(pc[t]), elem |-> elem[t]]
  BY CallMoves
<1>2. Calls' = [Calls EXCEPT ![t] = Calls[t]]
  BY <1>1
<1> QED
  BY <1>2 DEF Calls

(* The elements of a list: one for each node.                              *)
LEMMA MapFacts ==
  ASSUME NEW S, NEW T, NEW s \in Seq(S), NEW d \in [S -> T],
         NEW m, m = [i \in DOMAIN s |-> d[s[i]]]
  PROVE  /\ m \in Seq(T) /\ Len(m) = Len(s)
         /\ \A i \in 1..Len(s) : m[i] = d[s[i]]
         /\ m = <<>> <=> s = <<>>
<1>1. /\ Len(s) \in Nat /\ DOMAIN s = 1..Len(s)
      /\ \A i \in 1..Len(s) : s[i] \in S
      /\ s = <<>> <=> Len(s) = 0
  BY LenProperties, ElementOfSeq, EmptySeq
<1>2. \A i \in 1..Len(s) : d[s[i]] \in T
  BY <1>1
<1>3. m = [i \in 1..Len(s) |-> d[s[i]]]
  BY <1>1
<1>4. m \in Seq(T)
  BY <1>1, <1>2, <1>3, IsASeq
<1>5. Len(m) = Len(s)
  BY <1>1, <1>3, <1>4, LenProperties
<1> QED
  BY <1>1, <1>3, <1>4, <1>5, EmptySeq

LEMMA ItemsFacts ==
  ASSUME TypeOK
  PROVE  /\ Items \in Seq(Elems \cup {END, NULL}) /\ Len(Items) = Len(chain)
         /\ \A i \in 1..Len(chain) : Items[i] = data[chain[i]]
         /\ Items = <<>> <=> chain = <<>>
<1>1. chain \in Seq(Nodes) /\ data \in [Nodes -> Elems \cup {END, NULL}]
  BY DEF TypeOK
<1> QED
  BY <1>1, MapFacts DEF Items

LEMMA ItemsFactsAfter ==
  ASSUME TypeOK'
  PROVE  /\ Items' \in Seq(Elems \cup {END, NULL}) /\ Len(Items') = Len(chain')
         /\ \A i \in 1..Len(chain') : Items'[i] = data'[chain'[i]]
<1>1. chain' \in Seq(Nodes) /\ data' \in [Nodes -> Elems \cup {END, NULL}]
  BY DEF TypeOK
<1> QED
  BY <1>1, MapFacts DEF Items

(* LinkIn puts the element at the end.                                     *)
LEMMA LinkInAppends ==
  ASSUME IInv, IInv', NEW t \in Threads, NEW n \in Nodes, LinkIn(t, n)
  PROVE  Items' = Append(Items, elem[t])
<1> DEFINE len == Len(chain)
<1>1. /\ chain \in Seq(Nodes) /\ len \in Nat /\ DOMAIN chain = 1..len
      /\ \A i \in 1..len : chain[i] \in Nodes
      /\ n \notin heap /\ heap = Range(chain)
      /\ data \in [Nodes -> Elems \cup {END, NULL}]
      /\ elem \in [Threads -> Elems \cup {END, NULL}]
  BY ChainFacts DEF IInv, TypeOK, LinkIn, Linked
<1>2. \A i \in 1..len : chain[i] # n
  BY <1>1 DEF Range
<1>3. /\ Len(chain') = len + 1 /\ chain'[len + 1] = n
      /\ \A i \in 1..len : chain'[i] = chain[i]
  BY <1>1, AppendProperties DEF LinkIn
<1>4. data' = [data EXCEPT ![n] = elem[t]]
  BY DEF LinkIn
<1>5. /\ Items \in Seq(Elems \cup {END, NULL}) /\ Len(Items) = len
      /\ \A i \in 1..len : Items[i] = data[chain[i]]
  BY ItemsFacts DEF IInv
<1>6. /\ Items' \in Seq(Elems \cup {END, NULL}) /\ Len(Items') = len + 1
      /\ \A i \in 1..len + 1 : Items'[i] = data'[chain'[i]]
  BY <1>3, ItemsFactsAfter DEF IInv
<1> DEFINE more == Append(Items, elem[t])
<1>7. /\ more \in Seq(Elems \cup {END, NULL}) /\ Len(more) = len + 1
      /\ more[len + 1] = elem[t]
      /\ \A i \in 1..len : more[i] = Items[i]
  BY <1>1, <1>5, AppendProperties
<1>8. ASSUME NEW i \in 1..len + 1 PROVE Items'[i] = more[i]
  <2>1. CASE i = len + 1
    <3>1. Items'[i] = data'[n] /\ more[i] = elem[t]
      BY <1>3, <1>6, <1>7, <2>1
    <3> HIDE DEF more
    <3> QED
      BY <1>1, <1>4, <3>1
  <2>2. CASE i \in 1..len
    <3>1. Items'[i] = data'[chain[i]] /\ more[i] = data[chain[i]]
      BY <1>3, <1>5, <1>6, <1>7, <2>2
    <3> HIDE DEF more
    <3> QED
      BY <1>1, <1>2, <1>4, <2>2, <3>1
  <2>3. i = len + 1 \/ i \in 1..len
    <3>1. len \in Nat
      BY <1>1
    <3> HIDE DEF len
    <3> QED
      BY <3>1
  <2> QED
    BY <2>1, <2>2, <2>3
<1> HIDE DEF more
<1>9. Items' = more
  BY <1>6, <1>7, <1>8, SeqEqual
<1> QED
  BY <1>9 DEF more

(* Take returns the first element and leaves the others.                   *)
LEMMA TakeShifts ==
  ASSUME IInv, IInv', NEW t \in Threads, Take(t)
  PROVE  /\ Items # <<>> /\ Head(Items) = data[headPtr]
         /\ Items' = Tail(Items)
<1> DEFINE len == Len(chain)
<1>1. /\ chain \in Seq(Nodes) /\ len \in Nat /\ DOMAIN chain = 1..len
      /\ \A i \in 1..len : chain[i] \in Nodes
      /\ chain # <<>> /\ len # 0 /\ headPtr = chain[1]
      /\ data \in [Nodes -> Elems \cup {END, NULL}]
  BY ChainFacts DEF IInv, TypeOK, Take, Linked
<1>2. \A i, j \in 1..len : chain[i] = chain[j] => i = j
  BY <1>1 DEF IInv, Linked
<1>3. Len(chain') = len - 1 /\ \A i \in 1..len - 1 : chain'[i] = chain[i + 1]
  BY <1>1, HeadTailProperties DEF Take, Unlink
<1>4. data' = [data EXCEPT ![chain[1]] = NULL]
  BY <1>1 DEF Take, Unlink
<1>5. /\ Items \in Seq(Elems \cup {END, NULL}) /\ Len(Items) = len /\ Items # <<>>
      /\ \A i \in 1..len : Items[i] = data[chain[i]]
  BY <1>1, ItemsFacts DEF IInv
<1>6. /\ Items' \in Seq(Elems \cup {END, NULL}) /\ Len(Items') = len - 1
      /\ \A i \in 1..len - 1 : Items'[i] = data'[chain'[i]]
  BY <1>3, ItemsFactsAfter DEF IInv
<1>7. /\ Tail(Items) \in Seq(Elems \cup {END, NULL}) /\ Len(Tail(Items)) = len - 1
      /\ \A i \in 1..len - 1 : Tail(Items)[i] = Items[i + 1]
      /\ Head(Items) = Items[1]
  BY <1>5, HeadTailProperties
<1>8. ASSUME NEW i \in 1..len - 1 PROVE Items'[i] = Tail(Items)[i]
  <2>1. i + 1 \in 1..len /\ 1 \in 1..len /\ i + 1 # 1
    BY <1>1
  <2>2. chain[i + 1] # chain[1] /\ chain[i + 1] \in Nodes /\ chain[1] \in Nodes
    BY <1>1, <1>2, <2>1
  <2>3. data'[chain[i + 1]] = data[chain[i + 1]]
    BY <1>1, <1>4, <2>2
  <2> QED
    BY <1>3, <1>5, <1>6, <1>7, <2>1, <2>3
<1>9. Items' = Tail(Items)
  BY <1>6, <1>7, <1>8, SeqEqual
<1>10. 1 \in 1..len
  BY <1>1
<1> QED
  BY <1>1, <1>5, <1>7, <1>9, <1>10

LEMMA QueueInit == ASSUME Init PROVE Q!Init
<1>1. Items = <<>>
  BY DEF Init, Items
<1>2. \A t \in Threads : Phase(t) = "none" /\ elem[t] = NULL
  BY DEF Init, Phase
<1>3. Calls = [t \in Threads |-> [op |-> "none", elem |-> NULL]]
  BY <1>2 DEF Calls
<1> QED
  BY <1>1, <1>3 DEF Q!Init, Q!None, Items, Calls

(* Every step is one of the queue's, or changes nothing a caller sees.     *)
LEMMA QueueStep ==
  ASSUME IInv, IInv', [Next]_vars
  PROVE  Q!Next \/ (Items' = Items /\ Calls' = Calls)
<1> Producers \subseteq Threads /\ Consumers \subseteq Threads
  BY DEF Threads
<1>1. ASSUME UNCHANGED listVars PROVE Items' = Items
  BY <1>1 DEF listVars, Items
<1>2. \A t \in Threads :
        pc[t] \in {"idle", "pop", "test", "wait", "exit"} => elem[t] = NULL
  BY DEF IInv, EmptyHanded
<1>3. CASE UNCHANGED vars
  <2>1. \A t \in Threads : Phase(t)' = Phase(t)
    BY <1>3 DEF vars, Phase
  <2> QED
    BY <1>1, <1>3, <2>1 DEF vars, Calls
<1>4. ASSUME NEW t \in Threads, NEW e \in Elems \cup {END}, CallInsert(t, e)
      PROVE  Q!Next
  <2>1. /\ Calls' = [Calls EXCEPT ![t] = [op |-> "insert", elem |-> e]]
        /\ Calls[t] = [op |-> "none", elem |-> NULL]
    BY <1>2, <1>4, CallMoves DEF CallInsert, PhaseAt
  <2>2. Items' = Items
    BY <1>1, <1>4 DEF CallInsert
  <2>3. Q!CallInsert(t, e)
    BY <2>1, <2>2 DEF Q!CallInsert, Q!None, Q!Becomes, Items, Calls
  <2> QED
    BY <2>3 DEF Q!Next
<1>5. ASSUME NEW t \in Threads, NEW n \in Nodes, LinkIn(t, n) PROVE Q!Next
  <2>1. /\ Calls' = [Calls EXCEPT ![t] = [op |-> "inserted", elem |-> elem[t]]]
        /\ Calls[t] = [op |-> "insert", elem |-> elem[t]]
    BY <1>5, CallMoves DEF LinkIn, PhaseAt
  <2>2. Items' = Append(Items, elem[t])
    BY <1>5, LinkInAppends
  <2>3. Calls[t].op = "insert" /\ Calls[t].elem = elem[t]
    BY <2>1
  <2>4. Q!Put(t)
    BY <2>1, <2>2, <2>3 DEF Q!Put, Q!Becomes, Items, Calls
  <2> QED
    BY <2>4 DEF Q!Next
<1>6. ASSUME NEW t \in Threads, MallocNull(t) PROVE Q!Next
  <2>1. /\ Calls' = [Calls EXCEPT ![t] = [op |-> "none", elem |-> NULL]]
        /\ Calls[t] = [op |-> "insert", elem |-> elem[t]]
    BY <1>6, CallMoves DEF MallocNull, PhaseAt
  <2>2. Items' = Items
    BY <1>1, <1>6 DEF MallocNull
  <2>3. Q!Refuse(t)
    BY <2>1, <2>2 DEF Q!Refuse, Q!Becomes, Items, Calls
  <2> QED
    BY <2>3 DEF Q!Next
<1>7. ASSUME NEW t \in Consumers, CallPop(t) PROVE Q!Next
  <2>1. /\ Calls' = [Calls EXCEPT ![t] = [op |-> "pop", elem |-> NULL]]
        /\ Calls[t] = [op |-> "none", elem |-> NULL]
    <3>1. /\ t \in Threads /\ pc[t] = "idle" /\ Goto(t, "pop")
          /\ elem' = elem /\ elem[t] = NULL
      BY <1>2, <1>7 DEF CallPop
    <3>2. PhaseAt("pop") = "pop" /\ PhaseAt("idle") = "none"
      BY DEF PhaseAt
    <3> QED
      BY <3>1, <3>2, CallMoves
  <2>2. Items' = Items
    BY <1>1, <1>7 DEF CallPop
  <2>3. Q!CallPop(t)
    BY <2>1, <2>2 DEF Q!CallPop, Q!None, Q!Becomes, Items, Calls
  <2> QED
    BY <2>3 DEF Q!Next
<1>8. ASSUME NEW t \in Threads, Take(t) PROVE Q!Next
  <2>1. /\ Calls' = [Calls EXCEPT ![t] = [op |-> "popped", elem |-> data[headPtr]]]
        /\ Calls[t] = [op |-> "pop", elem |-> elem[t]]
    BY <1>8, CallMoves DEF Take, PhaseAt
  <2>2. Items # <<>> /\ Head(Items) = data[headPtr] /\ Items' = Tail(Items)
    BY <1>8, TakeShifts
  <2>3. Q!Take(t)
    BY <2>1, <2>2 DEF Q!Take, Q!Becomes, Items, Calls
  <2> QED
    BY <2>3 DEF Q!Next
<1>9. ASSUME NEW t \in Threads, NEW from \in {"inserted", "popped"}, Unlock(t, from)
      PROVE  Q!Next
  <2>1. PICK l \in {"idle", "exit"} : Goto(t, l)
    BY <1>9 DEF Unlock
  <2>2. /\ Calls' = [Calls EXCEPT ![t] = [op |-> "none", elem |-> NULL]]
        /\ Calls[t] = [op |-> from, elem |-> elem[t]]
    BY <1>9, <2>1, CallMoves DEF Unlock, PhaseAt
  <2>3. Items' = Items
    BY <1>1, <1>9 DEF Unlock
  <2>4. Q!Return(t)
    BY <2>2, <2>3 DEF Q!Return, Q!Becomes, Items, Calls
  <2> QED
    BY <2>4 DEF Q!Next
<1>10. ASSUME NEW t \in Threads, Insert(t)
       PROVE  Q!Next \/ (Items' = Items /\ Calls' = Calls)
  <2>1. CASE LockInsert(t)
    <3>1. Calls' = Calls
      BY <2>1, CallStays DEF LockInsert, Lock, PhaseAt
    <3> QED
      BY <1>1, <2>1, <3>1 DEF LockInsert, Lock
  <2>2. CASE Signal(t)
    <3>1. Calls' = Calls
      BY <2>2, CallStays DEF Signal, PhaseAt
    <3> QED
      BY <1>1, <2>2, <3>1 DEF Signal
  <2> QED
    BY <1>5, <1>6, <1>9, <1>10, <2>1, <2>2 DEF Insert, UnlockInsert
<1>11. ASSUME NEW t \in Consumers, Pop(t)
       PROVE  Q!Next \/ (Items' = Items /\ Calls' = Calls)
  <2>1. CASE LockPop(t) \/ Woken(t)
    <3>1. Calls' = Calls
      BY <2>1, CallStays DEF LockPop, Woken, Lock, PhaseAt
    <3> QED
      BY <1>1, <2>1, <3>1 DEF LockPop, Woken, Lock
  <2>2. CASE Wait(t)
    <3>1. Calls' = Calls
      BY <2>2, CallStays DEF Wait, PhaseAt
    <3> QED
      BY <1>1, <2>2, <3>1 DEF Wait
  <2> QED
    BY <1>7, <1>8, <1>9, <1>11, <2>1, <2>2 DEF Pop, UnlockPop
<1>12. ASSUME NEW t \in Consumers, Spurious(t)
       PROVE  Items' = Items /\ Calls' = Calls
  <2>1. \A u \in Threads : Phase(u)' = Phase(u)
    BY <1>12 DEF Spurious, Phase
  <2> QED
    BY <1>1, <1>12, <2>1 DEF Spurious, Calls
<1>13. ASSUME NEW p \in Producers, Leave(p)
       PROVE  Items' = Items /\ Calls' = Calls
  <2>1. Calls' = Calls
    BY <1>13, CallStays DEF Leave, PhaseAt
  <2> QED
    BY <1>1, <1>13, <2>1 DEF Leave
<1> QED
  BY <1>3, <1>4, <1>10, <1>11, <1>12, <1>13 DEF Next, Threads

(* insert and pop are operations of a queue that happen at one instant.    *)
THEOREM QueueRefined == Spec => ImplementsQueue
<1>1. Init => Q!Init
  BY QueueInit
<1>2. IInv /\ IInv' /\ [Next]_vars => [Q!Next]_(Q!vars)
  BY QueueStep DEF Q!vars, Items, Calls
<1> QED
  BY <1>1, <1>2, Invariance, PTL DEF Spec, ImplementsQueue, Q!Spec


-----------------------------------------------------------------------------
(* The end of the list *)

EndNodes == {n \in heap : data[n] = END}
Finished == {c \in Consumers :
               pc[c] = "exit" \/ (pc[c] = "popped" /\ elem[c] = END)}
Closing == IF pc[closer] \in {"insert", "malloc"} THEN 1 ELSE 0
Delivered == Cardinality(EndNodes) + Cardinality(Finished) + Closing

(* Each END the closer has asked for is on its way, in the list, with a    *)
(* consumer, or lost to a failing malloc; then the closer has left the     *)
(* mutex locked.                                                           *)
EndsCounted ==
  /\ Delivered <= ends /\ ends <= Cardinality(Consumers)
  /\ mutex = closer /\ pc[closer] \notin Inside => Delivered < ends

(* The ENDs are the last elements, and come when the producers have left.  *)
EndsLast ==
  /\ \A i, j \in 1..Len(Items) : i < j /\ Items[i] = END => Items[j] = END
  /\ Finished # {} => heap = EndNodes
  /\ pc[closer] # "idle" => \A p \in Producers : pc[p] = "exit"
  /\ EndNodes \cup Finished # {} =>
       \A p \in Producers : pc[p] = "exit" /\ mutex # p

(* Only the closer inserts END, only a producer or the closer may leave    *)
(* the mutex locked.                                                       *)
InHand ==
  /\ \A p \in Producers : elem[p] # END
  /\ pc[closer] \in {"insert", "malloc"} => elem[closer] = END
  /\ \A c \in Consumers : mutex = c => pc[c] \in Inside

Close == EndsCounted /\ EndsLast /\ InHand

LEMMA EndsFinite ==
  ASSUME IInv
  PROVE  /\ IsFiniteSet(EndNodes) /\ Cardinality(EndNodes) \in Nat
         /\ IsFiniteSet(Finished) /\ Cardinality(Finished) \in Nat
         /\ Closing \in {0, 1} /\ ends \in Nat /\ Cardinality(Consumers) \in Nat
<1>1. EndNodes \subseteq Nodes /\ Finished \subseteq Consumers
  BY DEF IInv, TypeOK, EndNodes, Finished
<1>2. IsFiniteSet(EndNodes) /\ IsFiniteSet(Finished)
  BY <1>1, NodesAssumption, ThreadsAssumption, FS_Subset
<1> QED
  BY <1>2, ThreadsAssumption, FS_CardinalityType DEF Closing, IInv, TypeOK

(* A step that neither links in, takes out nor counts anything.            *)
LEMMA EndsStay ==
  ASSUME IInv, EndsCounted, EndNodes' = EndNodes, Finished' = Finished,
         Closing' = Closing, ends' = ends,
         mutex' = closer /\ pc'[closer] \notin Inside =>
           mutex = closer /\ pc[closer] \notin Inside
  PROVE  EndsCounted'
BY DEF EndsCounted, Delivered

LEMMA InHandStep ==
  ASSUME IInv, InHand, [Next]_vars PROVE InHand'
<1> Producers \subseteq Threads /\ Consumers \subseteq Threads /\ closer \in Threads
  BY DEF Threads
<1> USE DEF Goto, Holds, Inside
<1>1. /\ pc \in [Threads -> {"idle", "insert", "malloc", "signal", "inserted",
                            "pop", "test", "wait", "popped", "exit"}]
      /\ elem \in [Threads -> Elems \cup {END, NULL}]
      /\ END # NULL /\ END \notin Elems
      /\ Producers \cap Consumers = {} /\ closer \notin Producers \cup Consumers
      /\ NULL \notin Threads
  BY ThreadsAssumption, NULLAssumption DEF IInv, TypeOK
<1>2. CASE UNCHANGED vars
  BY <1>2 DEF InHand, vars
<1>3. ASSUME NEW t \in Producers \cup {closer}, NEW e \in Elems \cup {END},
             CallInsert(t, e)
      PROVE  InHand'
  BY <1>1, <1>3 DEF InHand, CallInsert
<1>4. ASSUME NEW t \in Producers \cup {closer}, Insert(t) PROVE InHand'
  <2>1. CASE LockInsert(t)
    BY <1>1, <2>1 DEF InHand, LockInsert, Lock
  <2>2. CASE MallocNull(t)
    BY <1>1, <2>2 DEF InHand, MallocNull
  <2>3. ASSUME NEW n \in Nodes, LinkIn(t, n) PROVE InHand'
    BY <1>1, <2>3 DEF InHand, LinkIn
  <2>4. CASE Signal(t)
    BY <1>1, <2>4 DEF InHand, Signal
  <2>5. CASE UnlockInsert(t)
    BY <1>1, <2>5 DEF InHand, UnlockInsert, Unlock
  <2> QED
    BY <1>4, <2>1, <2>2, <2>3, <2>4, <2>5 DEF Insert
<1>5. ASSUME NEW t \in Consumers, Pop(t) \/ Spurious(t) PROVE InHand'
  <2>1. CASE CallPop(t) \/ Spurious(t)
    BY <1>1, <2>1 DEF InHand, CallPop, Spurious
  <2>2. CASE LockPop(t) \/ Woken(t)
    BY <1>1, <2>2 DEF InHand, LockPop, Woken, Lock
  <2>3. CASE Wait(t)
    BY <1>1, <2>3 DEF InHand, Wait
  <2>4. CASE Take(t)
    <3>1. \A u \in Threads \ {t} : elem'[u] = elem[u] /\ pc'[u] = pc[u]
      BY <1>1, <2>4 DEF Take
    <3>2. pc'[t] = "popped" /\ mutex' = mutex
      BY <1>1, <2>4 DEF Take
    <3> QED
      BY <1>1, <3>1, <3>2 DEF InHand
  <2>5. CASE UnlockPop(t)
    BY <1>1, <2>5 DEF InHand, UnlockPop, Unlock
  <2> QED
    BY <1>5, <2>1, <2>2, <2>3, <2>4, <2>5 DEF Pop
<1>6. ASSUME NEW p \in Producers, Leave(p) PROVE InHand'
  BY <1>1, <1>6 DEF InHand, Leave
<1> QED
  BY <1>2, <1>3, <1>4, <1>5, <1>6 DEF Next

(* Whatever leaves the list alone keeps the order of its elements.         *)
LEMMA SameItems ==
  ASSUME UNCHANGED listVars PROVE Items' = Items /\ EndNodes' = EndNodes
BY DEF listVars, Items, EndNodes

(* The steps of insert and pop that leave the list alone.                  *)
LEMMA QuietEnds ==
  ASSUME IInv, Close, NEW t \in Threads, UNCHANGED listVars,
         \A u \in Threads \ {t} : pc'[u] = pc[u] /\ elem'[u] = elem[u],
         t \in Consumers => (t \in Finished' <=> t \in Finished),
         t = closer => /\ Closing' = Closing /\ ends' = ends
                       /\ mutex' = closer /\ pc'[closer] \notin Inside =>
                            mutex = closer /\ pc[closer] \notin Inside
                       /\ pc[closer] # "idle",
         t # closer => /\ ends' = ends
                       /\ mutex' = closer => mutex = closer,
         t \in Producers => /\ pc[t] = "exit" => pc'[t] = "exit"
                            /\ mutex' = t => mutex = t \/ pc[t] # "exit",
         mutex' \in {mutex, NULL, t}
  PROVE  EndsCounted' /\ EndsLast'
<1>1. /\ Producers \cap Consumers = {} /\ closer \notin Producers \cup Consumers
      /\ NULL \notin Threads /\ Producers \subseteq Threads
      /\ Consumers \subseteq Threads /\ closer \in Threads
  BY ThreadsAssumption, NULLAssumption DEF Threads
<1>2. EndNodes' = EndNodes /\ Items' = Items /\ heap' = heap
  BY SameItems DEF listVars
<1>3. Finished' = Finished
  BY <1>1 DEF Finished
<1>4. Closing' = Closing
  BY <1>1 DEF Closing
<1>5. EndsCounted'
  BY <1>1, <1>2, <1>3, <1>4, EndsStay DEF Close
<1>6. EndsLast'
  <2>1. \A i, j \in 1..Len(Items') :
          i < j /\ Items'[i] = END => Items'[j] = END
    BY <1>2 DEF Close, EndsLast
  <2>2. Finished' # {} => heap' = EndNodes'
    BY <1>2, <1>3 DEF Close, EndsLast
  <2>3. pc'[closer] # "idle" => \A p \in Producers : pc'[p] = "exit"
    BY <1>1 DEF Close, EndsLast
  <2>4. EndNodes' \cup Finished' # {} =>
          \A p \in Producers : pc'[p] = "exit" /\ mutex' # p
    BY <1>1, <1>2, <1>3 DEF Close, EndsLast
  <2> QED
    BY <2>1, <2>2, <2>3, <2>4 DEF EndsLast
<1> QED
  BY <1>5, <1>6

(* The closer asks for one more END.                                       *)
LEMMA CallEnds ==
  ASSUME IInv, Close, CallInsert(closer, END)
  PROVE  EndsCounted' /\ EndsLast'
<1>1. /\ Producers \cap Consumers = {} /\ closer \notin Producers \cup Consumers
      /\ Producers \subseteq Threads /\ Consumers \subseteq Threads
      /\ closer \in Threads /\ DOMAIN pc = Threads
      /\ elem \in [Threads -> Elems \cup {END, NULL}]
  BY ThreadsAssumption DEF Threads, IInv, TypeOK
<1>2. /\ EndNodes' = EndNodes /\ Items' = Items /\ heap' = heap /\ mutex' = mutex
      /\ pc[closer] = "idle" /\ pc' = [pc EXCEPT ![closer] = "insert"]
      /\ elem' = [elem EXCEPT ![closer] = END]
      /\ ends' = ends + 1 /\ ends < Cardinality(Consumers)
      /\ \A p \in Producers : pc[p] = "exit"
  BY <1>1, SameItems DEF CallInsert, Goto, Holds, listVars
<1>3. Finished' = Finished
  BY <1>1, <1>2 DEF Finished
<1>4. Closing = 0 /\ Closing' = 1
  BY <1>1, <1>2 DEF Closing
<1>5. EndsCounted'
  <2> DEFINE a == Cardinality(EndNodes)
             b == Cardinality(Finished)
  <2>1. a' = a /\ b' = b
    BY <1>2, <1>3
  <2>2. a \in Nat /\ b \in Nat /\ ends \in Nat /\ Cardinality(Consumers) \in Nat
    BY EndsFinite
  <2>3. /\ a + b + 0 <= ends
        /\ mutex = closer => a + b + 0 < ends
    BY <1>2, <1>4 DEF Close, EndsCounted, Delivered, Inside
  <2> HIDE DEF a, b
  <2>4. a' + b' + 1 <= ends' /\ ends' <= Cardinality(Consumers)
    BY <1>2, <2>1, <2>2, <2>3
  <2>5. mutex' = closer => a' + b' + 1 < ends'
    BY <1>2, <2>1, <2>2, <2>3
  <2> QED
    BY <1>4, <2>4, <2>5 DEF a, b, EndsCounted, Delivered
<1>6. EndsLast'
  BY <1>1, <1>2, <1>3 DEF Close, EndsLast
<1> QED
  BY <1>5, <1>6

(* malloc fails: an END is lost, and the mutex stays with the closer.      *)
LEMMA LoseEnd ==
  ASSUME IInv, Close, MallocNull(closer)
  PROVE  EndsCounted' /\ EndsLast'
<1>1. /\ Producers \cap Consumers = {} /\ closer \notin Producers \cup Consumers
      /\ Producers \subseteq Threads /\ Consumers \subseteq Threads
      /\ closer \in Threads /\ DOMAIN pc = Threads
      /\ elem \in [Threads -> Elems \cup {END, NULL}]
  BY ThreadsAssumption DEF Threads, IInv, TypeOK
<1>2. /\ EndNodes' = EndNodes /\ Items' = Items /\ heap' = heap /\ mutex' = mutex
      /\ pc[closer] = "malloc" /\ pc' = [pc EXCEPT ![closer] = "idle"]
      /\ elem' = [elem EXCEPT ![closer] = NULL] /\ ends' = ends
  BY <1>1, SameItems DEF MallocNull, Goto, Holds, listVars
<1>3. Finished' = Finished
  BY <1>1, <1>2 DEF Finished
<1>4. Closing = 1 /\ Closing' = 0
  BY <1>1, <1>2 DEF Closing
<1>5. EndsCounted'
  <2> DEFINE a == Cardinality(EndNodes)
             b == Cardinality(Finished)
  <2>1. a' = a /\ b' = b
    BY <1>2, <1>3
  <2>2. a \in Nat /\ b \in Nat /\ ends \in Nat /\ Cardinality(Consumers) \in Nat
    BY EndsFinite
  <2>3. a + b + 1 <= ends /\ ends <= Cardinality(Consumers)
    BY <1>4 DEF Close, EndsCounted, Delivered
  <2> HIDE DEF a, b
  <2>4. a' + b' + 0 < ends' /\ a' + b' + 0 <= ends' /\ ends' <= Cardinality(Consumers)
    BY <1>2, <2>1, <2>2, <2>3
  <2> QED
    BY <1>4, <2>4 DEF a, b, EndsCounted, Delivered
<1>6. EndsLast'
  BY <1>1, <1>2, <1>3 DEF Close, EndsLast
<1> QED
  BY <1>5, <1>6

(* insert links an element in: an END only the closer, and then at the end *)
(* of a list in which nothing comes after an END.                          *)
LEMMA LinkInEnds ==
  ASSUME IInv, IInv', Close, NEW t \in Producers \cup {closer}, NEW n \in Nodes,
         LinkIn(t, n)
  PROVE  EndsCounted' /\ EndsLast'
<1>1. /\ Producers \cap Consumers = {} /\ closer \notin Producers \cup Consumers
      /\ Producers \subseteq Threads /\ Consumers \subseteq Threads
      /\ closer \in Threads /\ t \in Threads /\ t \notin Consumers
      /\ DOMAIN pc = Threads /\ NULL \notin Threads
      /\ elem \in [Threads -> Elems \cup {END, NULL}]
      /\ data \in [Nodes -> Elems \cup {END, NULL}] /\ heap \subseteq Nodes
  BY ThreadsAssumption, NULLAssumption DEF Threads, IInv, TypeOK
<1>2. /\ pc[t] = "malloc" /\ n \notin heap /\ heap' = heap \cup {n}
      /\ data' = [data EXCEPT ![n] = elem[t]]
      /\ mutex' = mutex /\ elem' = elem /\ ends' = ends
      /\ pc' = [pc EXCEPT ![t] = "signal"]
  BY DEF LinkIn, Goto
<1>3. mutex = t
  BY <1>1, <1>2 DEF IInv, Exclusive, Inside
<1>4. Finished' = Finished
  BY <1>1, <1>2 DEF Finished
<1>5. EndNodes' = IF elem[t] = END THEN EndNodes \cup {n} ELSE EndNodes
  BY <1>1, <1>2 DEF EndNodes
<1>6. elem[t] = END <=> t = closer
  BY <1>1, <1>2 DEF Close, InHand
<1>7. t # closer => EndNodes = {} /\ Finished = {}
  BY <1>1, <1>2 DEF Close, EndsLast
<1>8. EndsCounted'
  <2>1. CASE t = closer
    <3> DEFINE a == Cardinality(EndNodes)
               b == Cardinality(Finished)
    <3>1. a' = a + 1 /\ b' = b
      <4>1. n \notin EndNodes
        BY <1>2 DEF EndNodes
      <4> QED
        BY <1>4, <1>5, <1>6, <2>1, <4>1, EndsFinite, FS_AddElement
    <3>2. Closing = 1 /\ Closing' = 0 /\ pc'[closer] \in Inside
      BY <1>1, <1>2, <2>1 DEF Closing, Inside
    <3>3. a \in Nat /\ b \in Nat /\ ends \in Nat /\ Cardinality(Consumers) \in Nat
      BY EndsFinite
    <3>4. a + b + 1 <= ends /\ ends <= Cardinality(Consumers)
      BY <3>2 DEF Close, EndsCounted, Delivered
    <3> HIDE DEF a, b
    <3>5. a' + b' + 0 <= ends' /\ ends' <= Cardinality(Consumers)
      BY <1>2, <3>1, <3>3, <3>4
    <3> QED
      BY <3>2, <3>5 DEF a, b, EndsCounted, Delivered
  <2>2. CASE t # closer
    <3>1. Closing' = Closing /\ EndNodes' = EndNodes
      BY <1>1, <1>2, <1>5, <1>6, <2>2 DEF Closing
    <3> QED
      BY <1>1, <1>2, <1>3, <1>4, <2>2, <3>1, EndsStay DEF Close
  <2> QED
    BY <2>1, <2>2
<1>9. EndsLast'
  <2>1. /\ Items' = Append(Items, elem[t])
        /\ Items \in Seq(Elems \cup {END, NULL})
        /\ DOMAIN Items = 1..Len(Items)
    BY <1>1, LinkInAppends, ItemsFacts DEF IInv
  <2>2. /\ Len(Items') = Len(Items) + 1 /\ Len(Items) \in Nat
        /\ Items'[Len(Items) + 1] = elem[t]
        /\ \A i \in 1..Len(Items) : Items'[i] = Items[i]
    BY <1>1, <2>1, AppendProperties, LenProperties
  <2>3. \A i \in 1..Len(Items) : Items[i] = END => EndNodes # {}
    <3>1. ASSUME NEW i \in 1..Len(Items), Items[i] = END PROVE EndNodes # {}
      <4>1. /\ DOMAIN chain = 1..Len(chain) /\ Len(chain) \in Nat
            /\ heap = Range(chain)
        BY ChainFacts DEF IInv, Linked
      <4>2. i \in DOMAIN chain /\ Items[i] = data[chain[i]]
        BY <2>1, <3>1 DEF Items
      <4>3. chain[i] \in heap
        BY <4>1, <4>2 DEF Range
      <4> QED
        BY <3>1, <4>2, <4>3 DEF EndNodes
    <3> QED
      BY <3>1
  <2>4. \A i, j \in 1..Len(Items') :
          i < j /\ Items'[i] = END => Items'[j] = END
    <3>1. ASSUME NEW i \in 1..Len(Items'), NEW j \in 1..Len(Items'),
                 i < j, Items'[i] = END
          PROVE  Items'[j] = END
      <4>1. i \in 1..Len(Items) /\ Items[i] = END
        BY <2>2, <3>1
      <4>2. t = closer
        BY <1>7, <2>3, <4>1
      <4>3. j \in 1..Len(Items) \/ j = Len(Items) + 1
        BY <2>2, <3>1
      <4> QED
        BY <1>6, <2>2, <3>1, <4>1, <4>2, <4>3 DEF Close, EndsLast
    <3> QED
      BY <3>1
  <2>5. Finished' # {} => heap' = EndNodes'
    BY <1>2, <1>4, <1>5, <1>6, <1>7 DEF Close, EndsLast
  <2>6. pc'[closer] # "idle" => \A p \in Producers : pc'[p] = "exit"
    BY <1>1, <1>2 DEF Close, EndsLast
  <2>7. EndNodes' \cup Finished' # {} =>
          \A p \in Producers : pc'[p] = "exit" /\ mutex' # p
    BY <1>1, <1>2, <1>3, <1>4, <1>5, <1>6, <1>7 DEF Close, EndsLast
  <2> QED
    BY <2>4, <2>5, <2>6, <2>7 DEF EndsLast
<1> QED
  BY <1>8, <1>9

(* pop takes the first element: with an END everything behind it is END.   *)
LEMMA TakeEnds ==
  ASSUME IInv, IInv', Close, NEW t \in Consumers, Take(t)
  PROVE  EndsCounted' /\ EndsLast'
<1>1. /\ Producers \cap Consumers = {} /\ closer \notin Producers \cup Consumers
      /\ Producers \subseteq Threads /\ Consumers \subseteq Threads
      /\ closer \in Threads /\ t \in Threads
      /\ DOMAIN pc = Threads /\ NULL \notin Threads
      /\ elem \in [Threads -> Elems \cup {END, NULL}]
      /\ data \in [Nodes -> Elems \cup {END, NULL}] /\ heap \subseteq Nodes
  BY ThreadsAssumption, NULLAssumption DEF Threads, IInv, TypeOK
<1>2. /\ chain \in Seq(Nodes) /\ DOMAIN chain = 1..Len(chain) /\ Len(chain) \in Nat
      /\ chain # <<>> /\ Len(chain) # 0 /\ headPtr = chain[1] /\ headPtr \in Nodes
      /\ heap = Range(chain)
  BY ChainFacts DEF IInv, TypeOK, Linked, Take
<1>3. headPtr \in heap
  <2>1. 1 \in DOMAIN chain
    BY <1>2
  <2> QED
    BY <1>2, <2>1 DEF Range
<1> DEFINE e == data[headPtr]
<1>4. /\ pc[t] = "test" /\ heap' = heap \ {headPtr}
      /\ data' = [data EXCEPT ![headPtr] = NULL]
      /\ mutex' = mutex /\ ends' = ends
      /\ pc' = [pc EXCEPT ![t] = "popped"] /\ elem' = [elem EXCEPT ![t] = e]
  BY DEF Take, Unlink, Goto, Holds
<1>5. mutex = t
  BY <1>1, <1>4 DEF IInv, Exclusive, Inside
<1>6. Closing' = Closing
  BY <1>1, <1>4 DEF Closing
<1>7. /\ Finished' = IF e = END THEN Finished \cup {t} ELSE Finished
      /\ t \notin Finished
  BY <1>1, <1>4 DEF Finished
<1>8. /\ EndNodes' = EndNodes \ {headPtr}
      /\ headPtr \in EndNodes <=> e = END
  BY <1>1, <1>2, <1>3, <1>4 DEF EndNodes
<1>9. EndsCounted'
  <2> DEFINE a == Cardinality(EndNodes)
             b == Cardinality(Finished)
  <2>1. CASE e = END
    <3>1. a' = a - 1 /\ b' = b + 1
      BY <1>7, <1>8, <2>1, EndsFinite, FS_AddElement, FS_RemoveElement
    <3>2. /\ a \in Nat /\ b \in Nat /\ ends \in Nat /\ Cardinality(Consumers) \in Nat
          /\ Closing \in {0, 1}
      BY EndsFinite
    <3>3. a + b + Closing <= ends /\ ends <= Cardinality(Consumers)
      BY DEF Close, EndsCounted, Delivered
    <3> HIDE DEF a, b
    <3>4. a' + b' + Closing' <= ends' /\ ends' <= Cardinality(Consumers)
      BY <1>4, <1>6, <3>1, <3>2, <3>3
    <3> QED
      BY <1>1, <1>4, <1>5, <3>4 DEF a, b, EndsCounted, Delivered
  <2>2. CASE e # END
    BY <1>1, <1>4, <1>5, <1>6, <1>7, <1>8, <2>2, EndsStay DEF Close
  <2> QED
    BY <2>1, <2>2
<1>10. EndsLast'
  <2>1. /\ Items' = Tail(Items) /\ Items # <<>>
        /\ Items \in Seq(Elems \cup {END, NULL}) /\ Items[1] = e
        /\ DOMAIN Items = 1..Len(Items)
    BY <1>1, <1>2, TakeShifts, ItemsFacts DEF IInv
  <2>2. /\ Len(Items') = Len(Items) - 1 /\ Len(Items) \in Nat
        /\ Len(Items) = Len(chain)
        /\ \A i \in 1..Len(Items) - 1 : Items'[i] = Items[i + 1]
    BY <1>2, <2>1, HeadTailProperties, LenProperties, ItemsFacts DEF IInv
  <2>3. \A i, j \in 1..Len(Items') :
          i < j /\ Items'[i] = END => Items'[j] = END
    <3>1. ASSUME NEW i \in 1..Len(Items'), NEW j \in 1..Len(Items'),
                 i < j, Items'[i] = END
          PROVE  Items'[j] = END
      <4>1. /\ i + 1 \in 1..Len(Items) /\ j + 1 \in 1..Len(Items) /\ i + 1 < j + 1
            /\ Items'[i] = Items[i + 1] /\ Items'[j] = Items[j + 1]
        BY <2>2, <3>1
      <4> QED
        BY <3>1, <4>1 DEF Close, EndsLast
    <3> QED
      BY <3>1
  <2>4. Finished' # {} => heap' = EndNodes'
    <3>1. e = END => heap = EndNodes
      <4>1. ASSUME e = END, NEW n \in heap PROVE data[n] = END
        <5>1. PICK i \in 1..Len(chain) : chain[i] = n
          BY <1>2, <4>1 DEF Range
        <5>2. Items[i] = data[n]
          BY <1>2, <5>1 DEF Items
        <5>3. 1 \in 1..Len(Items) /\ i \in 1..Len(Items) /\ (i = 1 \/ 1 < i)
          BY <1>2, <2>2, <5>1
        <5> QED
          BY <2>1, <4>1, <5>2, <5>3 DEF Close, EndsLast
      <4> QED
        BY <4>1 DEF EndNodes
    <3> QED
      BY <1>4, <1>7, <1>8, <3>1 DEF Close, EndsLast
  <2>5. pc'[closer] # "idle" => \A p \in Producers : pc'[p] = "exit"
    BY <1>1, <1>4 DEF Close, EndsLast
  <2>6. EndNodes' \cup Finished' # {} =>
          \A p \in Producers : pc'[p] = "exit" /\ mutex' # p
    BY <1>1, <1>4, <1>5, <1>7, <1>8 DEF Close, EndsLast
  <2> QED
    BY <2>3, <2>4, <2>5, <2>6 DEF EndsLast
<1> QED
  BY <1>9, <1>10

LEMMA CloseStep ==
  ASSUME IInv, IInv', Close, [Next]_vars
  PROVE  Close'
<1> USE DEF Goto, Holds
<1>1. /\ Producers \cap Consumers = {} /\ closer \notin Producers \cup Consumers
      /\ Producers \subseteq Threads /\ Consumers \subseteq Threads
      /\ closer \in Threads /\ DOMAIN pc = Threads /\ DOMAIN elem = Threads
      /\ NULL \notin Threads /\ NULL # END /\ END \notin Elems
      /\ waiting \subseteq Consumers
  BY ThreadsAssumption, NULLAssumption DEF Threads, IInv, TypeOK
<1>2. InHand'
  BY InHandStep DEF Close
<1>3. CASE UNCHANGED vars
  BY <1>3 DEF vars, listVars, Close, EndsCounted, EndsLast, InHand, Delivered,
     EndNodes, Finished, Closing, Items
<1>4. ASSUME NEW t \in Producers \cup {closer}, NEW e \in Elems \cup {END},
             CallInsert(t, e)
      PROVE  EndsCounted' /\ EndsLast'
  <2>1. CASE t = closer
    BY <1>1, <1>4, <2>1, CallEnds DEF CallInsert
  <2>2. CASE t # closer
    BY <1>1, <1>4, <2>2, QuietEnds DEF CallInsert
  <2> QED
    BY <2>1, <2>2
<1>5. ASSUME NEW t \in Producers \cup {closer}, Insert(t)
      PROVE  EndsCounted' /\ EndsLast'
  <2>1. t \in Threads /\ t \notin Consumers
    BY <1>1
  <2>2. CASE LockInsert(t)
    <3>1. /\ pc[t] = "insert" /\ pc' = [pc EXCEPT ![t] = "malloc"] /\ mutex' = t
          /\ UNCHANGED <<listVars, waiting, elem, ends>>
      BY <2>2 DEF LockInsert, Lock
    <3>2. t = closer => Closing' = Closing /\ pc'[closer] \in Inside
      BY <1>1, <2>1, <3>1 DEF Closing, Inside
    <3> QED
      BY <1>1, <2>1, <3>1, <3>2, QuietEnds
  <2>3. CASE MallocNull(t)
    <3>1. CASE t = closer
      BY <2>3, <3>1, LoseEnd
    <3>2. CASE t # closer
      BY <1>1, <2>1, <2>3, <3>2, QuietEnds DEF MallocNull
    <3> QED
      BY <3>1, <3>2
  <2>4. ASSUME NEW n \in Nodes, LinkIn(t, n) PROVE EndsCounted' /\ EndsLast'
    BY <2>4, LinkInEnds
  <2>5. CASE Signal(t)
    <3>1. /\ pc[t] = "signal" /\ pc' = [pc EXCEPT ![t] = "inserted"]
          /\ UNCHANGED <<listVars, mutex, elem, ends>>
      BY <2>5 DEF Signal
    <3>2. t = closer => Closing' = Closing /\ pc'[closer] \in Inside
      BY <1>1, <2>1, <3>1 DEF Closing, Inside
    <3> QED
      BY <1>1, <2>1, <3>1, <3>2, QuietEnds
  <2>6. CASE UnlockInsert(t)
    <3>1. /\ pc[t] = "inserted" /\ pc' = [pc EXCEPT ![t] = "idle"]
          /\ elem' = [elem EXCEPT ![t] = NULL] /\ mutex' = NULL
          /\ UNCHANGED <<listVars, ends>>
      BY <2>1, <2>6 DEF UnlockInsert, Unlock
    <3>2. t = closer => Closing' = Closing
      BY <1>1, <2>1, <3>1 DEF Closing
    <3> QED
      BY <1>1, <2>1, <3>1, <3>2, QuietEnds
  <2> QED
    BY <1>5, <2>2, <2>3, <2>4, <2>5, <2>6 DEF Insert
<1>6. ASSUME NEW t \in Consumers, Pop(t) \/ Spurious(t)
      PROVE  EndsCounted' /\ EndsLast'
  <2>1. t \in Threads /\ t \notin Producers /\ t # closer
    BY <1>1
  <2>2. CASE CallPop(t) \/ Wait(t) \/ Spurious(t)
    <3>1. /\ UNCHANGED <<listVars, elem, ends>> /\ mutex' \in {mutex, NULL}
          /\ \A u \in Threads \ {t} : pc'[u] = pc[u]
          /\ pc[t] # "exit" /\ pc'[t] # "exit"
          /\ pc'[t] = "popped" => pc[t] = "popped"
      <4>1. t \in waiting => pc[t] = "wait"
        BY DEF IInv, TypeOK
      <4> QED
        BY <1>1, <2>1, <2>2, <4>1 DEF CallPop, Wait, Spurious
    <3>2. t \in Finished' <=> t \in Finished
      <4>1. pc[t] = "popped" => UNCHANGED pc
        <5>1. t \in waiting => pc[t] = "wait"
          BY DEF IInv, TypeOK
        <5> QED
          BY <2>2, <5>1 DEF CallPop, Wait, Spurious
      <4> QED
        BY <3>1, <4>1 DEF Finished
    <3> QED
      BY <1>1, <2>1, <3>1, <3>2, QuietEnds
  <2>3. CASE LockPop(t) \/ Woken(t)
    <3>1. /\ UNCHANGED <<listVars, elem, ends>> /\ mutex' = t
          /\ pc[t] \in {"pop", "wait"} /\ pc' = [pc EXCEPT ![t] = "test"]
      BY <2>3 DEF LockPop, Woken, Lock
    <3>2. t \in Finished' <=> t \in Finished
      BY <1>1, <2>1, <3>1 DEF Finished
    <3> QED
      BY <1>1, <2>1, <3>1, <3>2, QuietEnds
  <2>4. CASE Take(t)
    BY <2>4, TakeEnds
  <2>5. CASE UnlockPop(t)
    <3>1. /\ UNCHANGED <<listVars, ends>> /\ mutex' = NULL /\ pc[t] = "popped"
          /\ pc' = [pc EXCEPT ![t] = IF elem[t] = END THEN "exit" ELSE "idle"]
          /\ elem' = [elem EXCEPT ![t] = NULL]
      BY <2>5 DEF UnlockPop, Unlock
    <3>2. t \in Finished' <=> t \in Finished
      BY <1>1, <2>1, <3>1 DEF Finished
    <3> QED
      BY <1>1, <2>1, <3>1, <3>2, QuietEnds
  <2> QED
    BY <1>6, <2>2, <2>3, <2>4, <2>5 DEF Pop
<1>7. ASSUME NEW p \in Producers, Leave(p) PROVE EndsCounted' /\ EndsLast'
  BY <1>1, <1>7, QuietEnds DEF Leave
<1> QED
  BY <1>2, <1>3, <1>4, <1>5, <1>6, <1>7 DEF Next, Close

LEMMA InitClose == ASSUME Init PROVE Close
<1>1. /\ EndNodes = {} /\ Finished = {} /\ Closing = 0
      /\ Items = <<>> /\ Len(Items) = 0
  BY ThreadsAssumption DEF Init, EndNodes, Finished, Closing, Items, Threads
<1>2. Cardinality(EndNodes) = 0 /\ Cardinality(Finished) = 0
  BY <1>1, FS_EmptySet
<1>3. Cardinality(Consumers) \in Nat
  BY ThreadsAssumption, FS_CardinalityType
<1>4. EndsCounted
  BY <1>1, <1>2, <1>3, NULLAssumption
     DEF EndsCounted, Delivered, Init, Threads
<1>5. EndsLast
  BY <1>1 DEF EndsLast, Init, Threads
<1>6. InHand
  BY NULLAssumption DEF InHand, Init, Threads
<1> QED
  BY <1>4, <1>5, <1>6 DEF Close

(* When the last END is popped the list is empty and its mutex free, also  *)
(* when malloc has failed with the mutex locked: then not every END was    *)
(* inserted and not every consumer ends.  There must be a consumer: with   *)
(* none the closer has nothing to wait for.                                *)
THEOREM CloseLeavesNothing ==
  ASSUME Consumers # {} PROVE Spec => []JoinedEmpty
<1>1. Init => IInv /\ Close
  BY InitIInv, InitClose
<1>2. IInv /\ [Next]_vars => IInv'
  BY TypeStep, ExclusiveStep, EmptyHandedStep, LinkedStep, NoSleepStep DEF IInv
<1>3. (IInv /\ Close) /\ [Next]_vars => (IInv /\ Close)'
  BY <1>2, CloseStep
<1>4. IInv /\ Close => JoinedEmpty
  <2> SUFFICES ASSUME IInv, Close, Joined, pc[closer] = "idle"
               PROVE  heap = {} /\ mutex = NULL
    BY DEF JoinedEmpty
  <2>1. Finished = Consumers
    BY DEF Joined, Finished
  <2>2. Cardinality(EndNodes) = 0 /\ mutex # closer
    <3> DEFINE a == Cardinality(EndNodes)
               b == Cardinality(Finished)
    <3>1. a \in Nat /\ b \in Nat /\ Closing = 0 /\ b = ends
      BY <2>1, EndsFinite DEF Joined, Closing
    <3>2. a + b + Closing <= ends /\ (mutex = closer => a + b + Closing < ends)
      BY DEF Close, EndsCounted, Delivered, Inside
    <3> HIDE DEF a, b
    <3>3. a = 0 /\ mutex # closer
      BY <3>1, <3>2
    <3> QED
      BY <3>3 DEF a
  <2>3. EndNodes = {}
    BY <2>2, EndsFinite, FS_EmptySet
  <2>4. heap = {}
    BY <2>1, <2>3 DEF Close, EndsLast
  <2>5. \A p \in Producers : mutex # p
    BY <2>1 DEF Close, EndsLast
  <2>6. \A c \in Consumers : mutex # c
    BY DEF Close, InHand, Joined, Inside
  <2> QED
    BY <2>2, <2>4, <2>5, <2>6 DEF IInv, TypeOK, Threads
<1> QED
  BY <1>1, <1>3, <1>4, PTL DEF Spec
=============================================================================
