------------------------------- MODULE FifoList -------------------------------
(***************************************************************************)
(* The blocking list of FifoList.c: the queue of ready sockets between the *)
(* dispatcher and the workers, and the queue of records between everybody  *)
(* and the log thread.  Nodes linked by pointers, a mutex, a condition     *)
(* variable; malloc may fail.                                              *)
(*                                                                         *)
(* The threads use it as the server does: producers insert, consumers pop  *)
(* until they get the element END, the closer (the main thread, in         *)
(* collectThreads) inserts one END for each consumer when no producer is   *)
(* left, waits for the consumers and destroys the list.                    *)
(*                                                                         *)
(* A definition whose name ends in a capitalised remark is a faulty        *)
(* variant of the definition that follows it; no action uses it.           *)
(***************************************************************************)
EXTENDS Integers, FiniteSets, SequencesExt

CONSTANTS
  Producers, Consumers,
  closer,       \* the thread that ends the others
  Elems,        \* what is inserted, END apart
  END,          \* NULL in the queue of sockets, endLog in the queue of records
  Nodes,        \* addresses of FifoNodes: a bound on what is stored at once
  MallocFails,  \* whether malloc may return NULL
  NULL

Threads == Producers \cup Consumers \cup {closer}

ASSUME ThreadsAssumption ==
  /\ Producers \cap Consumers = {} /\ closer \notin Producers \cup Consumers
  /\ IsFiniteSet(Consumers)
ASSUME NodesAssumption == IsFiniteSet(Nodes)
ASSUME MallocAssumption == MallocFails \in BOOLEAN
ASSUME NULLAssumption ==
  NULL \notin Threads \cup Nodes \cup Elems \cup {END} /\ END \notin Elems

VARIABLES
  dim, headPtr, queuePtr,  \* the fields of the FifoList
  nextPtr, data,           \* the fields of each node
  heap,                    \* the nodes that are allocated
  mutex,                   \* the thread that holds list->lock, or NULL
  waiting,                 \* the threads in pthread_cond_wait, not woken yet
  pc,                      \* where each thread is
  elem,                    \* what it inserts, or what pop returned
  ends,                    \* how often the closer has inserted END
  failed,                  \* malloc has failed (history)
  chain                    \* the nodes from head to tail (history)

listVars == <<dim, headPtr, queuePtr, nextPtr, data, heap, chain>>
vars == <<listVars, mutex, waiting, pc, elem, ends, failed>>

(* Each variable has its type. *)
TypeOK ==
  /\ dim \in Int
  /\ headPtr \in Nodes \cup {NULL} /\ queuePtr \in Nodes \cup {NULL}
  /\ nextPtr \in [Nodes -> Nodes \cup {NULL}]
  /\ data \in [Nodes -> Elems \cup {END, NULL}]
  /\ heap \subseteq Nodes
  /\ mutex \in Threads \cup {NULL}
  /\ waiting \subseteq {c \in Consumers : pc[c] = "wait"}
  /\ pc \in [Threads -> {"idle", "insert", "malloc", "signal", "inserted",
                         "pop", "test", "wait", "popped", "exit"}]
  /\ elem \in [Threads -> Elems \cup {END, NULL}]
  /\ ends \in Nat
  /\ failed \in BOOLEAN
  /\ chain \in Seq(Nodes)

(* newList, and the threads before their first call *)
Init ==
  /\ dim = 0 /\ headPtr = NULL /\ queuePtr = NULL
  /\ nextPtr = [n \in Nodes |-> NULL] /\ data = [n \in Nodes |-> NULL]
  /\ heap = {} /\ chain = <<>>
  /\ mutex = NULL /\ waiting = {}
  /\ pc = [t \in Threads |-> "idle"] /\ elem = [t \in Threads |-> NULL]
  /\ ends = 0 /\ failed = FALSE

Goto(t, l) == pc' = [pc EXCEPT ![t] = l]
Holds(t, e) == elem' = [elem EXCEPT ![t] = e]

(* Pthread_mutex_lock: the owner of the mutex gets in again (EDEADLK) *)
Lock(t, from, to) ==
  /\ pc[t] = from /\ mutex \in {NULL, t}
  /\ mutex' = t
  /\ Goto(t, to)
  /\ UNCHANGED <<listVars, waiting, elem, ends, failed>>

Unlock(t, from) ==
  /\ pc[t] = from
  /\ mutex' = NULL
  /\ Goto(t, IF elem[t] = END /\ t \in Consumers THEN "exit" ELSE "idle")
  /\ Holds(t, NULL)
  /\ UNCHANGED <<listVars, waiting, ends, failed>>

-----------------------------------------------------------------------------
(* insert *)

(* The addresses left bound the calls of insert in progress *)
Room ==
  Cardinality(heap) + Cardinality({t \in Threads : pc[t] \in {"insert", "malloc"}})
    < Cardinality(Nodes)

CallInsert(t, e) ==
  /\ pc[t] = "idle" /\ Room
  /\ \/ t \in Producers /\ e \in Elems /\ UNCHANGED ends
     \/ /\ t = closer /\ e = END
        /\ \A p \in Producers : pc[p] = "exit"
        /\ ends < Cardinality(Consumers)
        /\ ends' = ends + 1
  /\ Goto(t, "insert") /\ Holds(t, e)
  /\ UNCHANGED <<listVars, mutex, waiting, failed>>

LockInsert(t) == Lock(t, "insert", "malloc")

(* perror and return 0, without Pthread_mutex_unlock *)
MallocNull(t) ==
  /\ MallocFails /\ pc[t] = "malloc"
  /\ Goto(t, "idle") /\ Holds(t, NULL)
  /\ failed' = TRUE
  /\ UNCHANGED <<listVars, mutex, waiting, ends>>

LinkIn(t, n) ==
  /\ pc[t] = "malloc" /\ n \in Nodes \ heap
  /\ heap' = heap \cup {n}
  /\ dim' = dim + 1
  /\ data' = [data EXCEPT ![n] = elem[t]]
  /\ nextPtr' = [m \in Nodes |-> CASE m = n        -> NULL
                                   [] m = queuePtr -> n
                                   [] OTHER        -> nextPtr[m]]
  /\ headPtr' = IF queuePtr = NULL THEN n ELSE headPtr
  /\ queuePtr' = n
  /\ chain' = Append(chain, n)
  /\ Goto(t, "signal")
  /\ UNCHANGED <<mutex, waiting, elem, ends, failed>>

(* pthread_cond_signal wakes a thread, if one waits *)
Signal_IfFirst(t) ==
  /\ pc[t] = "signal"
  /\ IF waiting = {} \/ dim > 1
     THEN Goto(t, "inserted") /\ UNCHANGED waiting
     ELSE \E c \in waiting :
            /\ waiting' = waiting \ {c}
            /\ Goto(t, "inserted")
  /\ UNCHANGED <<listVars, mutex, elem, ends, failed>>
Signal(t) ==
  /\ pc[t] = "signal"
  /\ IF waiting = {}
     THEN UNCHANGED waiting
     ELSE \E c \in waiting : waiting' = waiting \ {c}
  /\ Goto(t, "inserted")
  /\ UNCHANGED <<listVars, mutex, elem, ends, failed>>

UnlockInsert_Forgotten(t) ==
  /\ pc[t] = "inserted"
  /\ Goto(t, "idle") /\ Holds(t, NULL)
  /\ UNCHANGED <<listVars, mutex, waiting, ends, failed>>
UnlockInsert(t) == Unlock(t, "inserted")

-----------------------------------------------------------------------------
(* pop *)

CallPop(t) ==
  /\ t \in Consumers /\ pc[t] = "idle"
  /\ Goto(t, "pop")
  /\ UNCHANGED <<listVars, mutex, waiting, elem, ends, failed>>

LockPop(t) == Lock(t, "pop", "test")

(* pthread_cond_wait lets go of the mutex *)
Wait(t) ==
  /\ pc[t] = "test" /\ dim <= 0
  /\ waiting' = waiting \cup {t}
  /\ mutex' = NULL
  /\ Goto(t, "wait")
  /\ UNCHANGED <<listVars, elem, ends, failed>>

Spurious(t) ==
  /\ t \in waiting
  /\ waiting' = waiting \ {t}
  /\ UNCHANGED <<listVars, mutex, pc, elem, ends, failed>>

(* ... and takes it again before it returns: the test is repeated *)
Woken_InQueue(t) == Lock(t, "wait", "test")
Woken(t) == t \notin waiting /\ Lock(t, "wait", "test")

(* The first node is taken out and freed, its contents are gone *)
Unlink_KeepsTail ==
  /\ dim' = dim - 1
  /\ headPtr' = nextPtr[headPtr]
  /\ heap' = heap \ {headPtr}
  /\ chain' = Tail(chain)
  /\ nextPtr' = [nextPtr EXCEPT ![headPtr] = NULL]
  /\ data' = [data EXCEPT ![headPtr] = NULL]
  /\ UNCHANGED queuePtr
Unlink ==
  /\ dim' = dim - 1
  /\ headPtr' = nextPtr[headPtr]
  /\ queuePtr' = IF headPtr' = NULL THEN NULL ELSE queuePtr
  /\ heap' = heap \ {headPtr}
  /\ chain' = Tail(chain)
  /\ nextPtr' = [nextPtr EXCEPT ![headPtr] = NULL]
  /\ data' = [data EXCEPT ![headPtr] = NULL]

Take_Last(t) ==
  /\ pc[t] = "test" /\ dim > 0
  /\ Holds(t, data[queuePtr])
  /\ Unlink
  /\ Goto(t, "popped")
  /\ UNCHANGED <<mutex, waiting, ends, failed>>
Take(t) ==
  /\ pc[t] = "test" /\ dim > 0
  /\ Holds(t, data[headPtr])
  /\ Unlink
  /\ Goto(t, "popped")
  /\ UNCHANGED <<mutex, waiting, ends, failed>>

(* A consumer that got END returns for good *)
UnlockPop(t) == Unlock(t, "popped")

-----------------------------------------------------------------------------
(* The threads end *)

Leave(p) ==
  /\ p \in Producers /\ pc[p] = "idle"
  /\ Goto(p, "exit")
  /\ UNCHANGED <<listVars, mutex, waiting, elem, ends, failed>>

Insert(t) ==
  \/ LockInsert(t) \/ MallocNull(t) \/ (\E n \in Nodes : LinkIn(t, n))
  \/ Signal(t) \/ UnlockInsert(t)
Pop(t) ==
  \/ CallPop(t) \/ LockPop(t) \/ Wait(t) \/ Woken(t) \/ Take(t)
  \/ UnlockPop(t)

Next ==
  \/ \E t \in Producers \cup {closer} :
       \/ \E e \in Elems \cup {END} : CallInsert(t, e)
       \/ Insert(t)
  \/ \E t \in Consumers : Pop(t) \/ Spurious(t)
  \/ \E p \in Producers : Leave(p)

Spec == Init /\ [][Next]_vars

(* Every thread that can run does, and one that waits for a mutex which is *)
(* released again and again gets it.  Producers call when they like; a     *)
(* consumer comes back for more, the closer for every END.                 *)
FairSpec ==
  /\ Spec
  /\ WF_vars(CallInsert(closer, END))
  /\ \A t \in Producers \cup {closer} :
       WF_vars(Insert(t)) /\ SF_vars(LockInsert(t))
  /\ \A t \in Consumers :
       WF_vars(Pop(t)) /\ SF_vars(LockPop(t)) /\ SF_vars(Woken(t))

-----------------------------------------------------------------------------
(* Properties *)

(* The list is what its users think: headPtr, the nextPtr of each node and *)
(* queuePtr lead through the nodes in the order of their insertion, dim    *)
(* counts them, and an empty list has no head and no tail.  The nodes of   *)
(* the list, once each, are those that are allocated: no pointer leads to  *)
(* a freed node, none is lost.                                             *)
Linked ==
  /\ dim = Len(chain)
  /\ headPtr = IF chain = <<>> THEN NULL ELSE Head(chain)
  /\ queuePtr = IF chain = <<>> THEN NULL ELSE Last(chain)
  /\ \A i \in DOMAIN chain :
       nextPtr[chain[i]] = IF i = Len(chain) THEN NULL ELSE chain[i + 1]
  /\ heap = Range(chain)
  /\ \A i, j \in DOMAIN chain : chain[i] = chain[j] => i = j

(* Nobody sleeps over work: while a consumer sleeps in pthread_cond_wait,  *)
(* there is for each element in the list a consumer that was woken and has *)
(* not tested yet, or an insertion that is about to signal.                *)
Awake == {c \in Consumers : \/ pc[c] \in {"pop", "test"}
                            \/ pc[c] = "wait" /\ c \notin waiting}
NoSleepOnWork ==
  waiting # {} =>
    dim <= Cardinality(Awake)
           + Cardinality({t \in Threads : pc[t] = "signal"})

(* When collectThreads has joined the consumers nothing is left: every     *)
(* element was popped before the last END, destroyList frees an empty list *)
(* and destroys a mutex nobody holds.                                      *)
Joined == ends = Cardinality(Consumers) /\ \A c \in Consumers : pc[c] = "exit"
JoinedEmpty ==
  Joined /\ pc[closer] = "idle" => heap = {} /\ mutex = NULL

(* insert and pop are the operations of a queue that happen at one instant *)
(* each (FifoQueue): an element takes its place when it is linked in, and  *)
(* is popped once, in the order of these instants.                         *)
Phase(t) ==
  CASE pc[t] \in {"insert", "malloc"}      -> "insert"
    [] pc[t] \in {"signal", "inserted"}    -> "inserted"
    [] pc[t] \in {"pop", "test", "wait"}   -> "pop"
    [] pc[t] = "popped"                    -> "popped"
    [] OTHER                               -> "none"
Q == INSTANCE FifoQueue WITH
       Elems <- Elems \cup {END},
       queue <- [i \in DOMAIN chain |-> data[chain[i]]],
       call  <- [t \in Threads |-> [op |-> Phase(t), elem |-> elem[t]]]
ImplementsQueue == Q!Spec

(* As long as malloc does not fail, every insertion returns and no element *)
(* stays in the list while a consumer wants one.                           *)
NoFailure == [](~failed)
ServesQueue == NoFailure => Q!Fairness

(* The close ends: when the producers have left, every consumer gets its   *)
(* END, and collectThreads comes back from its joins.                      *)
CloseEnds ==
  NoFailure /\ <>(\A p \in Producers : pc[p] = "exit") => <>Joined
=============================================================================
