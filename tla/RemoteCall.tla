----------------------------- MODULE RemoteCall -----------------------------
(***************************************************************************)
(* What api.h promises of the calls of the client library: one at a time;  *)
(* the server carries each out at most once, between the call and its      *)
(* return; 0 means that it did, -1 that it did not.  Once the two have     *)
(* parted, until they are connected anew, nothing is promised.  Session is *)
(* shown to implement it.                                                  *)
(***************************************************************************)
EXTENDS Naturals

CONSTANTS Ops, NULL

VARIABLES
  asked,     \* the call in progress, or NULL
  done,      \* how often the server has carried out the latest call
  together,  \* the client and the server are connected and in step
  ret        \* what the latest call returned: "ok", "error", or NULL

vars == <<asked, done, together, ret>>

Init == asked = NULL /\ done = 0 /\ together = FALSE /\ ret = NULL

Meet ==
  asked = NULL /\ together' = TRUE /\ done' = 0 /\ ret' = NULL
  /\ UNCHANGED asked
Part ==
  /\ together' = FALSE
  /\ ret' = ret \/ (asked = NULL /\ ret' = NULL)
  /\ UNCHANGED <<asked, done>>

Call(o) ==
  /\ asked = NULL
  /\ asked' = o /\ done' = 0 /\ ret' = NULL
  /\ UNCHANGED together

Execute ==
  /\ together => asked # NULL /\ done = 0
  /\ done' = done + 1
  /\ UNCHANGED <<asked, together, ret>>

Return(r) == asked # NULL /\ asked' = NULL /\ ret' = r /\ UNCHANGED done
Succeed ==
  Return("ok") /\ (together => done = 1) /\ UNCHANGED together
Fail ==
  Return("error") /\ (together' => together /\ done = 0)

Next ==
  Meet \/ Part \/ (\E o \in Ops : Call(o)) \/ Execute \/ Succeed \/ Fail

Spec == Init /\ [][Next]_vars
=============================================================================
