------------------------------ MODULE FifoQueue ------------------------------
(***************************************************************************)
(* What FifoList.h promises of a list, seen from the threads that call it: *)
(* insert puts an element at the end of a queue or fails and changes       *)
(* nothing, pop returns the first element and waits while there is none,   *)
(* each of them at one instant between its call and its return.  FifoList  *)
(* is shown to implement it.                                               *)
(***************************************************************************)
EXTENDS Sequences

CONSTANTS Threads, Elems, NULL

VARIABLES
  queue,   \* the elements, the oldest first
  call     \* call[t]: what t called and how far the call is

vars == <<queue, call>>

Calls == [op: {"none", "insert", "inserted", "pop", "popped"},
          elem: Elems \cup {NULL}]
None == [op |-> "none", elem |-> NULL]

Init == queue = <<>> /\ call = [t \in Threads |-> None]

Becomes(t, op, e) == call' = [call EXCEPT ![t] = [op |-> op, elem |-> e]]

CallInsert(t, e) ==
  call[t] = None /\ Becomes(t, "insert", e) /\ UNCHANGED queue
Put(t) ==
  /\ call[t].op = "insert"
  /\ queue' = Append(queue, call[t].elem)
  /\ Becomes(t, "inserted", call[t].elem)
Refuse(t) ==
  call[t].op = "insert" /\ Becomes(t, "none", NULL) /\ UNCHANGED queue

CallPop(t) == call[t] = None /\ Becomes(t, "pop", NULL) /\ UNCHANGED queue
Take(t) ==
  /\ call[t].op = "pop" /\ queue # <<>>
  /\ Becomes(t, "popped", Head(queue))
  /\ queue' = Tail(queue)

Return(t) ==
  call[t].op \in {"inserted", "popped"} /\ Becomes(t, "none", NULL)
  /\ UNCHANGED queue

Next ==
  \E t \in Threads :
    \/ \E e \in Elems : CallInsert(t, e)
    \/ Put(t) \/ Refuse(t) \/ CallPop(t) \/ Take(t) \/ Return(t)

Spec == Init /\ [][Next]_vars

(* Every insertion returns, and while there are elements and calls of pop  *)
(* that wait for them, one of these takes one.                             *)
Fairness ==
  /\ \A t \in Threads : WF_vars(Put(t) \/ Refuse(t)) /\ WF_vars(Return(t))
  /\ WF_vars(\E t \in Threads : Take(t))
=============================================================================
