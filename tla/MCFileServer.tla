---------------------------- MODULE MCFileServer ----------------------------
(* Instances of FileServer: what each client of a run may ask for. *)
EXTENDS FileServer
CONSTANTS c1, c2, c3

Interchangeable == Permutations(Clients) \cup Permutations(Workers)
                   \cup Permutations(Names)
SameWorkers     == Permutations(Workers)
SameButFirst    == SameWorkers \cup Permutations(Clients \ {c1})

(* Every operation, by the first client or by both *)
Everything == [c \in Clients |->
  IF c = c1 THEN OpKinds \ {"CLOSE", "READ_N"}
            ELSE {"OPEN", "LOCK", "CLOSE", "APPEND", "REMOVE", "READ_N"}]

(* Clients that create and fill files under eviction, and may vanish *)
Filling == [c \in Clients |-> {"OPEN_CREATE", "OPEN", "APPEND"}]

(* c1 makes the file, which is never removed, and uses it without locks;   *)
(* the others lock it.                                                     *)
Sharing == [c \in Clients |->
  IF c = c1 THEN {"OPEN_CREATE", "READ", "APPEND", "CLOSE"}
            ELSE {"OPEN", "OPEN_LOCK", "LOCK", "UNLOCK", "WRITE", "CLOSE"}]

(* No locks and no removals *)
LockFree == [c \in Clients |->
  CASE c = c1 -> {"OPEN_CREATE", "READ_N"}
    [] c = c2 -> {"OPEN_CREATE", "OPEN", "READ", "WRITE", "APPEND", "CLOSE"}
    [] OTHER  -> {"OPEN", "APPEND"}]

(* c1 makes and fills the files, c2 locks and removes them *)
Evicting == [c \in Clients |->
  IF c = c1 THEN {"OPEN_CREATE", "OPEN", "APPEND", "CLOSE"}
            ELSE {"OPEN", "OPEN_LOCK", "LOCK", "UNLOCK", "CLOSE", "REMOVE"}]

(* c1 creates a file that is locked, c2 asks for it *)
Owner(ops1, ops2) == [c \in Clients |->
  IF c = c1 THEN {"OPEN_CREATE_LOCK"} \cup ops1 ELSE ops2]
OwnerCreates == Owner({}, {"OPEN"})
CreateAndOpen == [c \in Clients |->
  IF c = c1 THEN {"OPEN_CREATE"} ELSE {"OPEN"}]
=============================================================================
