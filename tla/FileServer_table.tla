-------------------------- MODULE FileServer_table --------------------------
(***************************************************************************)
(* The client table against the files, for every value of FileServer's     *)
(* constants:                                                              *)
(*   OnlyTheseLoseEntries  the two agree on who has opened and locked what *)
(*   OnlyTheseStrand       a request waits for the lock of a connected     *)
(*                         client only                                     *)
(*   OnlyOwnersEndLocks    a lock ends with its file or by its owner       *)
(* as long as the steps the theorems name, in which the code breaks these  *)
(* rules, are not taken:                                                   *)
(*   TableKept, WaitersKept  instances in which they are never taken       *)
(* The invariant says, name by name, what each side may lack of the other  *)
(* while a worker is between the two updates (Entries); a step disturbs it *)
(* at the names it works on only (Undisturbed).                            *)
(***************************************************************************)
EXTENDS FileServer_use

-----------------------------------------------------------------------------
(* What the two sides say, and what a worker has still to tell the table *)

IsOpenFor(n, c)  == file[n] # NULL /\ c \in file[n].openList
IsLockedBy(n, c) ==
  file[n] # NULL /\ file[n].flagO_lock /\ file[n].lockOwner = c

(* The file was opened or locked, and the table does not know; openFileW   *)
(* tells the table first; or the file is gone, and the table still has it. *)
Opening(w, n)  == /\ node[w] = n
                  /\ \/ pc[w] = "opened"
                     \/ pc[w] \in {"filedel", "inform"} /\ req[w].op \in OpenOps
Locking(w, n)  == \/ pc[w] = "table" /\ node[w] = n
                  \/ Opening(w, n) /\ O_LOCK(req[w].op)
Claiming(w, n) == pc[w] = "setlock" /\ node[w] = n
Removing(w, n) == pc[w] = "filedel" /\ dead[w].namePath = n

Named(n) == file[n] # NULL => file[n].namePath = n
NewEntry(w, n) ==
  /\ Opening(w, n) => IsOpenFor(n, Client(w))
  /\ Locking(w, n) => IsLockedBy(n, Client(w))
  /\ Claiming(w, n) => n \in nodeLocked[Client(w)]
OldEntry(w, n) == Removing(w, n) =>
  /\ file[n] = NULL
  /\ \A c \in Clients :
       /\ n \in nodeInUse[c] => c \in dead[w].openList
       /\ n \in nodeLocked[c] => dead[w].flagO_lock /\ dead[w].lockOwner = c
OpenEntry(n, c) ==
  \/ n \in nodeInUse[c] <=> IsOpenFor(n, c)
  \/ \E w \in Workers : Removing(w, n) \/ (Opening(w, n) /\ Client(w) = c)
LockEntry(n, c) ==
  /\ n \in nodeLocked[c] =>
       \/ IsLockedBy(n, c)
       \/ \E w \in Workers : Removing(w, n) \/ (Claiming(w, n) /\ Client(w) = c)
  /\ IsLockedBy(n, c) =>
       \/ n \in nodeLocked[c]
       \/ \E w \in Workers : Locking(w, n) /\ Client(w) = c
Entries(n) == /\ Named(n)
              /\ \A w \in Workers : NewEntry(w, n) /\ OldEntry(w, n)
              /\ \A c \in Clients : OpenEntry(n, c) /\ LockEntry(n, c)

-----------------------------------------------------------------------------
(* A step keeps the entries of a name it does not touch *)

(* Two states of a file that say the same about its clients. *)
Alike(g, f) == /\ g.namePath = f.namePath /\ g.openList = f.openList
               /\ g.flagO_lock = f.flagO_lock /\ g.lockOwner = f.lockOwner

SameFile(n) == /\ file'[n] = NULL <=> file[n] = NULL
               /\ file[n] # NULL => Alike(file'[n], file[n])
SameEntries(n) == \A c \in Clients :
  /\ n \in nodeInUse'[c] <=> n \in nodeInUse[c]
  /\ n \in nodeLocked'[c] <=> n \in nodeLocked[c]
SamePlace(w, n) ==
  /\ Opening(w, n)' <=> Opening(w, n)
  /\ Locking(w, n)' <=> Locking(w, n)
  /\ Claiming(w, n)' <=> Claiming(w, n)
  /\ Removing(w, n)' <=> Removing(w, n)
  /\ Opening(w, n) \/ Locking(w, n) \/ Claiming(w, n) => req'[w] = req[w]
  /\ Removing(w, n) => Alike(dead'[w], dead[w])
Undisturbed(n) == /\ SameFile(n) /\ SameEntries(n)
                /\ \A w \in Workers : SamePlace(w, n)

LEMMA SameViews ==
  ASSUME NEW n \in Names, SameFile(n), NEW c
  PROVE  /\ IsOpenFor(n, c)' <=> IsOpenFor(n, c)
         /\ IsLockedBy(n, c)' <=> IsLockedBy(n, c)
BY DEF SameFile, Alike, IsOpenFor, IsLockedBy

LEMMA EntriesKept ==
  ASSUME TypeOK, Placed, NEW n \in Names, Entries(n), Undisturbed(n)
  PROVE  Entries(n)'
<1>1. \A c : /\ IsOpenFor(n, c)' <=> IsOpenFor(n, c)
             /\ IsLockedBy(n, c)' <=> IsLockedBy(n, c)
  BY SameViews DEF Undisturbed
<1>2. Named(n)'
  BY DEF Entries, Named, Undisturbed, SameFile, Alike
<1>3. ASSUME NEW w \in Workers PROVE NewEntry(w, n)' /\ OldEntry(w, n)'
  <2>1. SamePlace(w, n) /\ SameEntries(n) /\ SameFile(n)
    BY DEF Undisturbed
  <2>2. Opening(w, n) \/ Locking(w, n) \/ Claiming(w, n)
          => Client(w)' = Client(w) /\ Client(w) \in Clients
    <3>1. Opening(w, n) \/ Locking(w, n) \/ Claiming(w, n)
            => pc[w] \in {"opened", "filedel", "inform", "table", "setlock"}
      BY DEF Opening, Locking, Claiming
    <3> QED
      BY <2>1, <3>1, AtWork DEF SamePlace, Client
  <2>3. NewEntry(w, n)'
    BY <1>1, <2>1, <2>2 DEF Entries, NewEntry, SamePlace, SameEntries
  <2>4. OldEntry(w, n)'
    BY <2>1 DEF Entries, OldEntry, SamePlace, SameEntries, SameFile, Alike
  <2> QED
    BY <2>3, <2>4
<1>4. ASSUME NEW c \in Clients PROVE OpenEntry(n, c)' /\ LockEntry(n, c)'
  <2>1. \A w \in Workers :
          /\ Removing(w, n)' <=> Removing(w, n)
          /\ (Opening(w, n) /\ Client(w) = c)'
               <=> (Opening(w, n) /\ Client(w) = c)
          /\ (Locking(w, n) /\ Client(w) = c)'
               <=> (Locking(w, n) /\ Client(w) = c)
          /\ (Claiming(w, n) /\ Client(w) = c)'
               <=> (Claiming(w, n) /\ Client(w) = c)
    BY DEF Undisturbed, SamePlace, Client
  <2>2. /\ n \in nodeInUse'[c] <=> n \in nodeInUse[c]
        /\ n \in nodeLocked'[c] <=> n \in nodeLocked[c]
    BY DEF Undisturbed, SameEntries
  <2>3. OpenEntry(n, c) /\ LockEntry(n, c)
    BY DEF Entries
  <2>4. OpenEntry(n, c)'
    BY <1>1, <2>1, <2>2, <2>3 DEF OpenEntry
  <2>5. LockEntry(n, c)'
    BY <1>1, <2>1, <2>2, <2>3 DEF LockEntry
  <2> QED
    BY <2>4, <2>5
<1> QED
  BY <1>2, <1>3, <1>4 DEF Entries

(* Where a worker is none of these. *)
LEMMA NoPlace ==
  ASSUME NEW w \in Workers, NEW n \in Names
  PROVE  /\ pc[w] \notin {"opened", "filedel", "inform", "table", "setlock"}
              => /\ ~Opening(w, n) /\ ~Locking(w, n)
                 /\ ~Claiming(w, n) /\ ~Removing(w, n)
         /\ node[w] # n => ~Opening(w, n) /\ ~Locking(w, n) /\ ~Claiming(w, n)
BY DEF Opening, Locking, Claiming, Removing

(* What the others are about stays as it is. *)
LEMMA OthersPlace ==
  ASSUME IInv, NEW w \in Workers, Step(w), NEW v \in Workers, v # w,
         NEW n \in Names
  PROVE  SamePlace(v, n)
<1>1. /\ pc'[v] = pc[v] /\ node'[v] = node[v] /\ req'[v] = req[v]
      /\ dead'[v] = dead[v]
  BY OthersKept
<1> QED
  BY <1>1 DEF SamePlace, Opening, Locking, Claiming, Removing, Alike

-----------------------------------------------------------------------------
(* The steps that update neither side *)

Updates(w) ==
  \/ AbsentFatal(w) \/ InsertNew(w) \/ Opened(w) \/ FileDel(w) \/ InformReply(w)
  \/ InformAppend(w) \/ OpenFile(w) \/ SetLock(w) \/ LockFile(w) \/ TableLock(w)
  \/ UnlockFile(w) \/ CloseFile(w) \/ TreeRemove(w) \/ PayloadCut(w) \/ Evict(w)
  \/ Reply(w)

LEMMA FileAlike ==
  ASSUME NEW f \in ServerFile
  PROVE  /\ Alike(f, f) /\ Alike(Released(f), f) /\ Alike(Written(f), f)
         /\ Alike([f EXCEPT !.flagUse = TRUE], f)
         /\ Alike([f EXCEPT !.dim = @ + AppendDim], f)
         /\ Alike([f EXCEPT !.requestList = Tail(@)], f)
         /\ \A r \in Request : Alike(Parked(f, r), f)
BY DEF ServerFile, Alike, Released, Written, Parked

LEMMA MarkAlike ==
  ASSUME TypeOK, NEW S, \A n \in S : file[n] \in ServerFile, file' = Mark(S)
  PROVE  \A n \in Names : SameFile(n)
<1>1. ASSUME NEW n \in Names PROVE SameFile(n)
  <2>1. CASE n \in S
    <3>1. file[n] \in ServerFile /\ file'[n] = [file[n] EXCEPT !.flagUse = TRUE]
      BY <2>1 DEF Mark
    <3> QED
      BY <3>1, FileFacts, FileAlike DEF SameFile
  <2>2. CASE n \notin S
    BY <2>2 DEF Mark, SameFile, Alike
  <2> QED
    BY <2>1, <2>2
<1> QED
  BY <1>1

LEMMA PlainFiles ==
  ASSUME IInv, NEW w \in Workers, Step(w), ~Updates(w)
  PROVE  /\ \A n \in Names : SameFile(n)
         /\ UNCHANGED <<nodeInUse, nodeLocked, conn>>
<1> DEFINE Plain == /\ \A n \in Names : SameFile(n)
                    /\ UNCHANGED <<nodeInUse, nodeLocked, conn>>
<1> USE DEF treeVars, tableVars, clientVars, jobVars, evictVars, lockVars,
            At, Handling, Exec, InTree
<1>a. TypeOK /\ Placed /\ FilesAccounted
  BY DEF IInv
<1>1. CASE UNCHANGED <<file, nodeInUse, nodeLocked, conn>>
  BY <1>1 DEF SameFile, Alike
<1>2. ASSUME NEW n \in Names, NEW f \in ServerFile, file[n] \in ServerFile,
             SetFile(n, f), Alike(f, file[n]),
             UNCHANGED <<nodeInUse, nodeLocked, conn>>
      PROVE  Plain
  <2>1. file'[n] = f /\ \A m \in Names : m # n => file'[m] = file[m]
    BY <1>a, <1>2 DEF TypeOK, SetFile
  <2> QED
    BY <1>2, <2>1, FileFacts DEF SameFile, Alike
<1>3. CASE Find(w)
  BY <1>1, <1>3 DEF Find
<1>4. CASE AbsentError(w)
  BY <1>1, <1>4 DEF AbsentError
<1>5. CASE TryUse(w)
  <2>1. node[w] \in Names /\ File(w) \in ServerFile
    BY <1>a, <1>5, AtWork DEF TryUse
  <2> DEFINE g == [File(w) EXCEPT !.flagUse = TRUE]
  <2>3. g \in ServerFile /\ Alike(g, File(w))
    BY <2>1, FileFacts, FileAlike
  <2>5. SetFile(node[w], g) /\ UNCHANGED <<nodeInUse, nodeLocked, conn>>
    BY <1>5 DEF TryUse
  <2> QED
    BY <1>2, <2>1, <2>3, <2>5 DEF File
<1>6. CASE Park(w)
  <2>1. node[w] \in Names /\ File(w) \in ServerFile
    BY <1>a, <1>6, AtWork DEF Park
  <2> DEFINE g == Parked(File(w), req[w])
  <2>2. req[w] \in Request
    BY <1>a, <1>6, AtWork DEF Park
  <2>3. g \in ServerFile /\ Alike(g, File(w))
    BY <2>1, <2>2, FileFacts, FileAlike
  <2>5. SetFile(node[w], g) /\ UNCHANGED <<nodeInUse, nodeLocked, conn>>
    BY <1>6 DEF Park
  <2> QED
    BY <1>2, <2>1, <2>3, <2>5 DEF File
<1>7. CASE InsertExists(w)
  <2>1. CASE ~TreeIsFull
    BY <1>1, <1>7, <2>1 DEF InsertExists
  <2>2. CASE TreeIsFull
    <3>1. file[ToRemove] \in ServerFile /\ file' = Mark({ToRemove})
      BY <1>a, <1>7, <2>2, ToRemoveFacts DEF InsertExists
    <3>2. \A n \in Names : SameFile(n)
      BY <1>a, <3>1, MarkAlike
    <3> QED
      BY <1>7, <3>2 DEF InsertExists
  <2> QED
    BY <2>1, <2>2
<1>8. CASE InsertNoMemory(w)
  BY <1>1, <1>8 DEF InsertNoMemory, Inserting
<1>9. CASE Release(w)
  <2>1. node[w] \in Names /\ File(w) \in ServerFile
    BY <1>a, <1>9, AtWork DEF Release
  <2> DEFINE g == Released(File(w))
  <2>3. g \in ServerFile /\ Alike(g, File(w))
    BY <2>1, FileFacts, FileAlike
  <2>5. SetFile(node[w], g) /\ UNCHANGED <<nodeInUse, nodeLocked, conn>>
    BY <1>9 DEF Release
  <2> QED
    BY <1>2, <2>1, <2>3, <2>5 DEF File
<1>10. CASE InformWrite(w)
  BY <1>1, <1>10 DEF InformWrite, Informing
<1>11. CASE InformDone(w)
  BY <1>1, <1>11 DEF InformDone
<1>12. CASE Refuse(w)
  BY <1>1, <1>12 DEF Refuse, Refused
<1>13. CASE ReadFile(w)
  BY <1>1, <1>13 DEF ReadFile
<1>14. CASE RemoveFile(w)
  BY <1>1, <1>14 DEF RemoveFile
<1>15. CASE WriteFile(w)
  <2>1. node[w] \in Names /\ File(w) \in ServerFile
    BY <1>a, <1>15, AtWork DEF WriteFile
  <2> DEFINE g == Written(File(w))
  <2>3. g \in ServerFile /\ Alike(g, File(w))
    BY <2>1, FileFacts, FileAlike
  <2>5. SetFile(node[w], g) /\ UNCHANGED <<nodeInUse, nodeLocked, conn>>
    BY <1>15 DEF WriteFile
  <2> QED
    BY <1>2, <2>1, <2>3, <2>5 DEF File
<1>16. CASE AppendToFile(w)
  <2>1. node[w] \in Names /\ File(w) \in ServerFile
    BY <1>a, <1>16, AtWork DEF AppendToFile
  <2> DEFINE g == Written(File(w))
  <2>3. g \in ServerFile /\ Alike(g, File(w))
    BY <2>1, FileFacts, FileAlike
  <2>5. SetFile(node[w], g) /\ UNCHANGED <<nodeInUse, nodeLocked, conn>>
    BY <1>16 DEF AppendToFile
  <2> QED
    BY <1>2, <2>1, <2>3, <2>5 DEF File
<1>17. CASE Discard(w)
  BY <1>1, <1>17 DEF Discard
<1>18. CASE Payload(w)
  BY <1>1, <1>18 DEF Payload
<1>19. CASE RoomEnough(w)
  <2>1. node[w] \in Names /\ File(w) \in ServerFile
    BY <1>a, <1>19, AtWork DEF RoomEnough
  <2> DEFINE g == [File(w) EXCEPT !.dim = @ + AppendDim]
  <2>3. g \in ServerFile /\ Alike(g, File(w))
    BY <2>1, FileFacts, FileAlike
  <2>5. SetFile(node[w], g) /\ UNCHANGED <<nodeInUse, nodeLocked, conn>>
    BY <1>19 DEF RoomEnough, Store
  <2> QED
    BY <1>2, <2>1, <2>3, <2>5 DEF File
<1>20. CASE MakeRoom(w)
  <2> DEFINE S == MakeSpace(0, MissingSpace)
  <2>1. S \subseteq ToSet(lru)
    BY <1>a, MakeSpaceFacts DEF TypeOK
  <2>2. \A m \in S : file[m] \in ServerFile
    BY <1>a, <2>1 DEF TypeOK, FilesAccounted, Live
  <2>3. file' = Mark(S)
    BY <1>20 DEF MakeRoom
  <2>4. \A n \in Names : SameFile(n)
    BY <1>a, <2>2, <2>3, MarkAlike
  <2> QED
    BY <1>20, <2>4 DEF MakeRoom
<1>21. CASE Unmark(w)
  <2> DEFINE m == LeastRecent(victims[w])
  <2>1. m \in Names /\ file[m] \in ServerFile
    BY <1>a, <1>21, VictimFacts DEF Unmark
  <2>2. /\ SetFile(m, Released(file[m])) /\ Alike(Released(file[m]), file[m])
        /\ Released(file[m]) \in ServerFile
    BY <1>21, <2>1, FileFacts, FileAlike DEF Unmark
  <2> HIDE DEF m
  <2>3. UNCHANGED <<nodeInUse, nodeLocked, conn>>
    BY <1>21 DEF Unmark
  <2> QED
    BY <1>2, <2>1, <2>2, <2>3
<1>22. CASE NoRoom(w)
  BY <1>1, <1>22 DEF NoRoom
<1>23. CASE Evicted(w)
  <2>1. node[w] \in Names /\ File(w) \in ServerFile
    BY <1>a, <1>23, AtWork DEF Evicted
  <2> DEFINE g == [File(w) EXCEPT !.dim = @ + AppendDim]
  <2>3. g \in ServerFile /\ Alike(g, File(w))
    BY <2>1, FileFacts, FileAlike
  <2>5. SetFile(node[w], g) /\ UNCHANGED <<nodeInUse, nodeLocked, conn>>
    BY <1>23 DEF Evicted, Store
  <2> QED
    BY <1>2, <2>1, <2>3, <2>5 DEF File
<1>24. CASE Finish(w)
  <2>1. node[w] \in Names /\ File(w) \in ServerFile
    BY <1>a, <1>24, AtWork DEF Finish
  <2> DEFINE g == IF GivesUp(File(w)) THEN Released(File(w)) ELSE File(w)
  <2>3. g \in ServerFile /\ Alike(g, File(w))
    BY <2>1, FileFacts, FileAlike DEF GivesUp
  <2>5. SetFile(node[w], g) /\ UNCHANGED <<nodeInUse, nodeLocked, conn>>
    BY <1>24 DEF Finish
  <2> QED
    BY <1>2, <2>1, <2>3, <2>5 DEF File
<1>25. CASE ReadNFiles(w)
  BY <1>1, <1>25 DEF ReadNFiles
<1>26. CASE NextRequest(w)
  <2>1. node[w] \in Names /\ File(w) \in ServerFile
    BY <1>a, <1>26, AtWork DEF NextRequest
  <2> DEFINE g == [File(w) EXCEPT !.requestList = Tail(@)]
  <2>2. File(w).requestList # <<>>
    BY <1>26 DEF NextRequest
  <2>3. g \in ServerFile /\ Alike(g, File(w))
    BY <2>1, <2>2, QueueFacts, FileAlike
  <2>5. SetFile(node[w], g) /\ UNCHANGED <<nodeInUse, nodeLocked, conn>>
    BY <1>26 DEF NextRequest
  <2> QED
    BY <1>2, <2>1, <2>3, <2>5 DEF File
<1>27. CASE NoNextRequest(w)
  <2>1. node[w] \in Names /\ File(w) \in ServerFile
    BY <1>a, <1>27, AtWork DEF NoNextRequest
  <2> DEFINE g == Released(File(w))
  <2>3. g \in ServerFile /\ Alike(g, File(w))
    BY <2>1, FileFacts, FileAlike
  <2>5. SetFile(node[w], g) /\ UNCHANGED <<nodeInUse, nodeLocked, conn>>
    BY <1>27 DEF NoNextRequest
  <2> QED
    BY <1>2, <2>1, <2>3, <2>5 DEF File
<1>28. CASE Touch(w)
  BY <1>1, <1>28 DEF Touch
<1>29. CASE HoldTree(w)
  BY <1>1, <1>29 DEF HoldTree
<1>30. CASE Crash(w)
  BY <1>1, <1>30 DEF Crash
<1> QED
  BY <1>3, <1>4, <1>5, <1>6, <1>7, <1>8, <1>9, <1>10, <1>11, <1>12, <1>13,
     <1>14, <1>15, <1>16, <1>17, <1>18, <1>19, <1>20, <1>21, <1>22, <1>23,
     <1>24, <1>25, <1>26, <1>27, <1>28, <1>29, <1>30
     DEF Step, Updates

(* A worker that goes on without an update is as far with it as before. *)
LEMMA PlainPlace ==
  ASSUME IInv, NEW w \in Workers, Step(w), ~Updates(w), NEW n \in Names
  PROVE  SamePlace(w, n)
<1> DEFINE Away == {"opened", "filedel", "inform", "table", "setlock"}
<1> USE DEF treeVars, tableVars, clientVars, jobVars, evictVars, lockVars,
            Goto, ReplyThen, Done, NoRequest, At, Handling, Exec
<1>a. TypeOK /\ WellPlaced(w) /\ Placed
  BY DEF IInv, Placed
<1>b. ASSUME pc[w] \notin Away, pc'[w] \notin Away PROVE SamePlace(w, n)
  BY <1>b DEF SamePlace, Opening, Locking, Claiming, Removing
<1>c. ASSUME UNCHANGED <<pc, node, req, dead>> PROVE SamePlace(w, n)
  BY <1>c DEF SamePlace, Opening, Locking, Claiming, Removing, Alike
<1>1. CASE Find(w)
  BY <1>a, <1>b, <1>1 DEF TypeOK, Find, InTree
<1>2. CASE AbsentError(w)
  BY <1>a, <1>b, <1>2 DEF TypeOK, AbsentError
<1>3. CASE TryUse(w)
  BY <1>a, <1>b, <1>3 DEF TypeOK, TryUse
<1>4. CASE Park(w)
  BY <1>a, <1>b, <1>4 DEF TypeOK, Park
<1>5. CASE InsertExists(w)
  BY <1>a, <1>b, <1>5 DEF TypeOK, InsertExists, Inserting, InTree
<1>6. CASE InsertNoMemory(w)
  BY <1>a, <1>b, <1>6 DEF TypeOK, InsertNoMemory, Inserting, InTree
<1>7. CASE Release(w)
  BY <1>a, <1>b, <1>7 DEF TypeOK, Release
<1>8. CASE InformWrite(w)
  <2>1. pc[w] = "inform" /\ UNCHANGED <<pc, node, req>>
    BY <1>8 DEF InformWrite, Informing
  <2> QED
    BY <2>1 DEF SamePlace, Opening, Locking, Claiming, Removing
<1>9. CASE InformDone(w)
  <2>1. /\ pc[w] = "inform" /\ UNCHANGED <<node, req>>
        /\ pc'[w] \in {"opened", "reply", "evict"}
        /\ pc'[w] = "opened" <=> req[w].op \in OpenOps
    BY <1>a, <1>9 DEF TypeOK, InformDone, OpenOps
  <2> QED
    BY <2>1 DEF SamePlace, Opening, Locking, Claiming, Removing
<1>10. CASE Refuse(w)
  BY <1>a, <1>b, <1>10 DEF TypeOK, Refuse, Refused
<1>11. CASE ReadFile(w)
  BY <1>a, <1>b, <1>11 DEF TypeOK, ReadFile
<1>12. CASE RemoveFile(w)
  BY <1>a, <1>b, <1>12 DEF TypeOK, RemoveFile
<1>13. CASE WriteFile(w)
  BY <1>a, <1>b, <1>13 DEF TypeOK, WriteFile
<1>14. CASE AppendToFile(w)
  BY <1>a, <1>b, <1>14 DEF TypeOK, AppendToFile
<1>15. CASE Discard(w)
  BY <1>a, <1>b, <1>15 DEF TypeOK, Discard
<1>16. CASE Payload(w)
  BY <1>a, <1>b, <1>16 DEF TypeOK, Payload
<1>17. CASE RoomEnough(w)
  BY <1>a, <1>b, <1>17 DEF TypeOK, RoomEnough, Store, InTree
<1>18. CASE MakeRoom(w)
  BY <1>a, <1>b, <1>18 DEF TypeOK, MakeRoom, InTree
<1>19. CASE Unmark(w)
  BY <1>a, <1>b, <1>19 DEF TypeOK, Unmark
<1>20. CASE NoRoom(w)
  BY <1>a, <1>b, <1>20 DEF TypeOK, NoRoom
<1>21. CASE Evicted(w)
  BY <1>a, <1>b, <1>21 DEF TypeOK, Evicted, Store
<1>22. CASE Finish(w)
  BY <1>a, <1>b, <1>22 DEF TypeOK, Finish
<1>23. CASE ReadNFiles(w)
  BY <1>a, <1>b, <1>23 DEF TypeOK, ReadNFiles, InTree
<1>24. CASE NextRequest(w)
  BY <1>a, <1>b, <1>24 DEF TypeOK, NextRequest
<1>25. CASE NoNextRequest(w)
  BY <1>a, <1>b, <1>25 DEF TypeOK, NoNextRequest
<1>26. CASE Touch(w)
  BY <1>a, <1>b, <1>26 DEF TypeOK, Touch, InTree
<1>27. CASE HoldTree(w)
  BY <1>c, <1>27 DEF HoldTree
<1>28. CASE Crash(w)
  BY <1>c, <1>28 DEF Crash
<1> QED
  BY <1>1, <1>2, <1>3, <1>4, <1>5, <1>6, <1>7, <1>8, <1>9, <1>10, <1>11,
     <1>12, <1>13, <1>14, <1>15, <1>16, <1>17, <1>18, <1>19, <1>20, <1>21,
     <1>22, <1>23, <1>24, <1>25, <1>26, <1>27, <1>28
     DEF Step, Updates

LEMMA PlainEntries ==
  ASSUME IInv, NEW w \in Workers, Step(w), ~Updates(w), NEW n \in Names,
         Entries(n)
  PROVE  Entries(n)'
<1>1. SameFile(n) /\ SameEntries(n)
  BY PlainFiles DEF SameEntries
<1>2. \A v \in Workers : SamePlace(v, n)
  BY PlainPlace, OthersPlace
<1> QED
  BY <1>1, <1>2, EntriesKept DEF Undisturbed, IInv

-----------------------------------------------------------------------------
(* Disconnections *)

(* A client nobody is updating an entry of. *)
Settled(n, c) == \A v \in Workers :
  Opening(v, n) \/ Locking(v, n) \/ Claiming(v, n) => Client(v) # c

(* On a stored file its entries are exact then. *)
LEMMA SettledEntries ==
  ASSUME NEW n \in Names, Entries(n), NEW c \in Clients, Settled(n, c)
  PROVE  /\ IsOpenFor(n, c) => n \in nodeInUse[c]
         /\ IsLockedBy(n, c) => n \in nodeLocked[c]
         /\ file[n] # NULL => /\ n \in nodeInUse[c] => IsOpenFor(n, c)
                              /\ n \in nodeLocked[c] => IsLockedBy(n, c)
<1>1. OpenEntry(n, c) /\ LockEntry(n, c)
  BY DEF Entries
<1>2. file[n] # NULL => \A v \in Workers : ~Removing(v, n)
  BY DEF Entries, OldEntry
<1>3. IsOpenFor(n, c) \/ IsLockedBy(n, c) => file[n] # NULL
  BY DEF IsOpenFor, IsLockedBy
<1>4. IsOpenFor(n, c) => n \in nodeInUse[c]
  BY <1>1, <1>2, <1>3 DEF OpenEntry, Settled
<1>5. IsLockedBy(n, c) => n \in nodeLocked[c]
  BY <1>1, <1>2, <1>3 DEF LockEntry, Settled
<1>6. file[n] # NULL /\ n \in nodeInUse[c] => IsOpenFor(n, c)
  BY <1>1, <1>2 DEF OpenEntry, Settled
<1>7. file[n] # NULL /\ n \in nodeLocked[c] => IsLockedBy(n, c)
  BY <1>1, <1>2 DEF LockEntry, Settled
<1> QED
  BY <1>4, <1>5, <1>6, <1>7

LEMMA ForgottenFacts ==
  ASSUME NEW f \in ServerFile, NEW c \in Clients, NEW b \in BOOLEAN
  PROVE  LET g == Forgotten(f, c, b)
         IN /\ g.namePath = f.namePath /\ g.openList = f.openList \ {c}
            /\ g.flagO_lock <=> (f.flagO_lock /\ ~b)
            /\ g.lockOwner = f.lockOwner
BY DEF ServerFile, Forgotten

(* A disconnection takes the client out on both sides. *)
LEMMA DisconnectViews ==
  ASSUME TypeOK, NEW w \in Workers, NEW c \in Clients, NEW n \in Names,
         Entries(n), Settled(n, c), DisconnectClient(w, c)
  PROVE  /\ file'[n] = NULL <=> file[n] = NULL
         /\ file[n] # NULL => file'[n].namePath = file[n].namePath
         /\ ~IsOpenFor(n, c)' /\ ~IsLockedBy(n, c)'
         /\ n \notin nodeInUse'[c] /\ n \notin nodeLocked'[c]
         /\ \A d \in Clients : d # c =>
              /\ IsOpenFor(n, d)' <=> IsOpenFor(n, d)
              /\ IsLockedBy(n, d)' <=> IsLockedBy(n, d)
              /\ n \in nodeInUse'[d] <=> n \in nodeInUse[d]
              /\ n \in nodeLocked'[d] <=> n \in nodeLocked[d]
<1>1. /\ nodeInUse' = [nodeInUse EXCEPT ![c] = {}]
      /\ nodeLocked' = [nodeLocked EXCEPT ![c] = {}]
  BY DEF DisconnectClient
<1>2. /\ n \notin nodeInUse'[c] /\ n \notin nodeLocked'[c]
      /\ \A d \in Clients : d # c =>
           /\ n \in nodeInUse'[d] <=> n \in nodeInUse[d]
           /\ n \in nodeLocked'[d] <=> n \in nodeLocked[d]
  BY <1>1 DEF TypeOK
<1>3. CASE n \in nodeInUse[c] \cup nodeLocked[c] /\ file[n] # NULL
  <2> DEFINE b == n \in nodeLocked[c]
  <2>1. file'[n] = Forgotten(file[n], c, b)
    BY <1>3 DEF DisconnectClient
  <2>2. file[n] \in ServerFile /\ b \in BOOLEAN
    BY <1>3 DEF TypeOK
  <2>4. b <=> IsLockedBy(n, c)
    BY <1>3, SettledEntries
  <2> HIDE DEF b
  <2>3. /\ file'[n].namePath = file[n].namePath
        /\ file'[n].openList = file[n].openList \ {c}
        /\ file'[n].flagO_lock <=> (file[n].flagO_lock /\ ~b)
        /\ file'[n].lockOwner = file[n].lockOwner
    BY <2>1, <2>2, ForgottenFacts
  <2>5. file'[n] # NULL
    BY <1>3, DisconnectFacts
  <2>6. ~IsOpenFor(n, c)' /\ ~IsLockedBy(n, c)'
    BY <1>3, <2>3, <2>4 DEF IsOpenFor, IsLockedBy
  <2>7. \A d \in Clients : d # c => /\ IsOpenFor(n, d)' <=> IsOpenFor(n, d)
                                    /\ IsLockedBy(n, d)' <=> IsLockedBy(n, d)
    BY <1>3, <2>3, <2>4, <2>5 DEF IsOpenFor, IsLockedBy
  <2> QED
    BY <1>2, <1>3, <2>3, <2>5, <2>6, <2>7
<1>4. CASE ~(n \in nodeInUse[c] \cup nodeLocked[c] /\ file[n] # NULL)
  <2>1. file'[n] = file[n]
    BY <1>4 DEF DisconnectClient
  <2>2. ~IsOpenFor(n, c) /\ ~IsLockedBy(n, c)
    BY <1>4, SettledEntries DEF IsOpenFor, IsLockedBy
  <2> QED
    BY <1>2, <2>1, <2>2 DEF IsOpenFor, IsLockedBy
<1> QED
  BY <1>3, <1>4

LEMMA DisconnectEntries ==
  ASSUME TypeOK, Placed, NEW w \in Workers, NEW c \in Clients, NEW n \in Names,
         Entries(n), Settled(n, c), DisconnectClient(w, c),
         \A v \in Workers : SamePlace(v, n)
  PROVE  Entries(n)'
<1>1. /\ file'[n] = NULL <=> file[n] = NULL
      /\ file[n] # NULL => file'[n].namePath = file[n].namePath
      /\ ~IsOpenFor(n, c)' /\ ~IsLockedBy(n, c)'
      /\ n \notin nodeInUse'[c] /\ n \notin nodeLocked'[c]
      /\ \A d \in Clients : d # c =>
           /\ IsOpenFor(n, d)' <=> IsOpenFor(n, d)
           /\ IsLockedBy(n, d)' <=> IsLockedBy(n, d)
           /\ n \in nodeInUse'[d] <=> n \in nodeInUse[d]
           /\ n \in nodeLocked'[d] <=> n \in nodeLocked[d]
  BY DisconnectViews
<1>2. Named(n)'
  BY <1>1 DEF Entries, Named
<1>3. ASSUME NEW v \in Workers PROVE NewEntry(v, n)' /\ OldEntry(v, n)'
  <2>1. SamePlace(v, n) /\ NewEntry(v, n) /\ OldEntry(v, n)
    BY DEF Entries
  <2>2. Opening(v, n) \/ Locking(v, n) \/ Claiming(v, n)
          => /\ Client(v)' = Client(v) /\ Client(v) \in Clients
             /\ Client(v) # c
    <3>1. Opening(v, n) \/ Locking(v, n) \/ Claiming(v, n)
            => pc[v] \in {"opened", "filedel", "inform", "table", "setlock"}
      BY DEF Opening, Locking, Claiming
    <3> QED
      BY <2>1, <3>1, AtWork DEF SamePlace, Client, Settled
  <2>3. NewEntry(v, n)'
    BY <1>1, <2>1, <2>2 DEF NewEntry, SamePlace
  <2>4. OldEntry(v, n)'
    BY <1>1, <2>1 DEF OldEntry, SamePlace, Alike
  <2> QED
    BY <2>3, <2>4
<1>4. ASSUME NEW d \in Clients PROVE OpenEntry(n, d)' /\ LockEntry(n, d)'
  <2>1. \A v \in Workers :
          /\ Removing(v, n)' <=> Removing(v, n)
          /\ (Opening(v, n) /\ Client(v) = d)'
               <=> (Opening(v, n) /\ Client(v) = d)
          /\ (Locking(v, n) /\ Client(v) = d)'
               <=> (Locking(v, n) /\ Client(v) = d)
          /\ (Claiming(v, n) /\ Client(v) = d)'
               <=> (Claiming(v, n) /\ Client(v) = d)
    BY DEF SamePlace, Client
  <2>2. OpenEntry(n, d) /\ LockEntry(n, d)
    BY DEF Entries
  <2>3. OpenEntry(n, d)'
    BY <1>1, <2>1, <2>2 DEF OpenEntry
  <2>4. LockEntry(n, d)'
    BY <1>1, <2>1, <2>2 DEF LockEntry
  <2> QED
    BY <2>3, <2>4
<1> QED
  BY <1>2, <1>3, <1>4 DEF Entries

LEMMA SendEntries ==
  ASSUME TypeOK, Placed, NEW w \in Workers, NEW c \in Clients, NEW n \in Names,
         Entries(n), Settled(n, c), SendClientResult(w, c),
         \A v \in Workers : SamePlace(v, n)
  PROVE  Entries(n)'
<1>1. CASE DisconnectClient(w, c)
  BY <1>1, DisconnectEntries
<1>2. CASE UNCHANGED <<file, tableVars>>
  <2>1. SameFile(n) /\ SameEntries(n)
    BY <1>2 DEF SameFile, SameEntries, Alike, tableVars
  <2> QED
    BY <2>1, EntriesKept DEF Undisturbed
<1> QED
  BY <1>1, <1>2 DEF SendClientResult

(* The one who is updating an entry has the client's request. *)
LEMMA SettledByRequest ==
  ASSUME Placed, NEW n \in Names, NEW c,
         \A v \in Workers : req[v] # NULL /\ Client(v) = c
           => \A m \in Names :
                ~Opening(v, m) /\ ~Locking(v, m) /\ ~Claiming(v, m)
  PROVE  Settled(n, c)
<1>1. ASSUME NEW v \in Workers, Opening(v, n) \/ Locking(v, n) \/ Claiming(v, n)
      PROVE  req[v] # NULL
  <2>1. pc[v] \in {"opened", "filedel", "inform", "table", "setlock"}
    BY <1>1 DEF Opening, Locking, Claiming
  <2> QED
    BY <2>1 DEF Placed, WellPlaced, HasRequest
<1> QED
  BY <1>1 DEF Settled

(* The client a worker answers or disconnects: nobody else runs a request  *)
(* of it, and the worker is not updating an entry.                         *)
LEMMA EndingClient ==
  ASSUME IInv, RequestsUnique, NEW w \in Workers,
         AbsentFatal(w) \/ PayloadCut(w) \/ Reply(w)
  PROVE  /\ Client(w) \in Clients /\ req[w] # NULL
         /\ DisconnectClient(w, Client(w)) \/ SendClientResult(w, Client(w))
         /\ \A n \in Names : Settled(n, Client(w))
<1>a. TypeOK /\ Placed
  BY DEF IInv
<1>1. /\ pc[w] \in {"absent", "discard", "payload", "reply"}
      /\ DisconnectClient(w, Client(w)) \/ SendClientResult(w, Client(w))
  BY DEF AbsentFatal, PayloadCut, Reply, At
<1>2. PICK c \in Clients : c = Client(w) /\ req[w] # NULL
  BY <1>a, <1>1, AtWork, NULLAssumption
<1>3. ASSUME NEW n \in Names PROVE Settled(n, c)
  <2>1. ASSUME NEW v \in Workers, req[v] # NULL, Client(v) = c
        PROVE  v = w
    BY <1>2, <2>1 DEF RequestsUnique, HeldOnce
  <2> QED
    BY <1>a, <1>1, <2>1, NoPlace, SettledByRequest
<1> QED
  BY <1>1, <1>2, <1>3

LEMMA InformedClient ==
  ASSUME IInv, RequestsUnique, NEW w \in Workers,
         InformReply(w) \/ InformAppend(w)
  PROVE  \E c \in Clients :
           /\ DisconnectClient(w, c) \/ SendClientResult(w, c)
           /\ \A v \in Workers : req[v] # NULL => Client(v) # c
           /\ \A n \in Names : Settled(n, c)
<1>a. TypeOK /\ Placed
  BY DEF IInv
<1>1. /\ pc[w] = "inform" /\ dead[w].requestList # <<>>
      /\ \/ SendClientResult(w, Head(dead[w].requestList).client)
         \/ DisconnectClient(w, Head(dead[w].requestList).client)
  BY DEF InformReply, InformAppend, Informing, At
<1>2. dead[w] \in ServerFile /\ dead[w] # NULL
  BY <1>a, <1>1, AtWork, NULLAssumption
<1>3. PICK c \in Clients : c = Head(dead[w].requestList).client
  BY <1>1, <1>2, QueueFacts
<1>4. ASSUME NEW v \in Workers, req[v] # NULL PROVE Client(v) # c
  <2>1. PICK q \in Queues : q = <<"dead", w>>
    BY DeadQueue
  <2>2. Queue(q) = dead[w].requestList
    BY <1>2, <2>1, DeadQueue DEF Parking
  <2>3. Queue(q) \in Seq(Request) /\ Queue(q) # <<>>
    BY <1>1, <1>2, <2>2 DEF ServerFile
  <2>4. 1 \in DOMAIN Queue(q) /\ Queue(q)[1] = Head(Queue(q))
    BY <2>3
  <2> QED
    BY <1>3, <1>4, <2>2, <2>4 DEF RequestsUnique, HeldNotParked
<1>5. \A n \in Names : Settled(n, c)
  BY <1>a, <1>4, SettledByRequest
<1> QED
  BY <1>1, <1>3, <1>4, <1>5

LEMMA EndingEntries ==
  ASSUME IInv, RequestsUnique, NEW w \in Workers, Step(w),
         AbsentFatal(w) \/ PayloadCut(w) \/ Reply(w),
         NEW n \in Names, Entries(n)
  PROVE  Entries(n)'
<1>a. TypeOK /\ Placed
  BY DEF IInv
<1>1. /\ pc[w] \in {"absent", "discard", "payload", "reply"}
      /\ pc'[w] \in {"idle", "finish", "next", "touch"}
  BY <1>a DEF AbsentFatal, PayloadCut, Reply, At, Goto, Done, TypeOK
<1>2. PICK c \in Clients : /\ DisconnectClient(w, c) \/ SendClientResult(w, c)
                          /\ Settled(n, c)
  BY EndingClient
<1>3. \A v \in Workers : SamePlace(v, n)
  <2>1. SamePlace(w, n)
    BY <1>1 DEF SamePlace, Opening, Locking, Claiming, Removing
  <2> QED
    BY <2>1, OthersPlace
<1> QED
  BY <1>a, <1>2, <1>3, DisconnectEntries, SendEntries

LEMMA InformEntries ==
  ASSUME IInv, RequestsUnique, NEW w \in Workers, Step(w),
         InformReply(w) \/ InformAppend(w), NEW n \in Names, Entries(n)
  PROVE  Entries(n)'
<1>a. TypeOK /\ Placed
  BY DEF IInv
<1>1. pc[w] = "inform" /\ UNCHANGED <<pc, node, req>>
  BY DEF InformReply, InformAppend, Informing, At, jobVars
<1>2. PICK c \in Clients : /\ DisconnectClient(w, c) \/ SendClientResult(w, c)
                          /\ Settled(n, c)
  BY InformedClient
<1>3. \A v \in Workers : SamePlace(v, n)
  <2>1. SamePlace(w, n)
    BY <1>1 DEF SamePlace, Opening, Locking, Claiming, Removing
  <2> QED
    BY <2>1, OthersPlace
<1> QED
  BY <1>a, <1>2, <1>3, DisconnectEntries, SendEntries

(* Outside the steps of the workers, too.                                  *)
LEMMA OutsideEntries ==
  ASSUME IInv, TypeOK', RequestsUnique, [Next]_vars,
         ~\E w \in Workers : Step(w), NEW n \in Names, Entries(n)
  PROVE  Entries(n)'
<1>a. TypeOK /\ Placed
  BY DEF IInv
<1>b. ASSUME UNCHANGED <<file, nodeInUse, nodeLocked>>,
             \A v \in Workers : SamePlace(v, n)
      PROVE  Entries(n)'
  <2>1. SameFile(n) /\ SameEntries(n)
    BY <1>b DEF SameFile, SameEntries, Alike
  <2> QED
    BY <1>a, <1>b, <2>1, EntriesKept DEF Undisturbed
<1>c. ASSUME UNCHANGED <<pc, node, req, dead>>
      PROVE  \A v \in Workers : SamePlace(v, n)
  BY <1>c DEF SamePlace, Opening, Locking, Claiming, Removing, Alike
<1>1. CASE UNCHANGED vars
  BY <1>1, <1>b, <1>c DEF vars, tableVars, jobVars, evictVars
<1>2. ASSUME NEW c \in Clients, Die(c) PROVE Entries(n)'
  BY <1>2, <1>b, <1>c DEF Die, tableVars, jobVars, evictVars
<1>3. ASSUME NEW w \in Workers, NEW c \in Clients, NEW op \in OpKinds,
             NEW m \in Names, Take(w, c, op, m)
      PROVE  Entries(n)'
  <2>1. /\ pc[w] = "idle" /\ pc'[w] \in {"readn", "find"}
        /\ UNCHANGED <<file, nodeInUse, nodeLocked, dead>>
        /\ \A v \in Workers : v # w => /\ pc'[v] = pc[v] /\ node'[v] = node[v]
                                       /\ req'[v] = req[v]
    BY <1>a, <1>3 DEF Take, At, Goto, TypeOK, tableVars, evictVars
  <2>2. \A v \in Workers : SamePlace(v, n)
    BY <2>1 DEF SamePlace, Opening, Locking, Claiming, Removing, Alike
  <2> QED
    BY <1>b, <2>1, <2>2
<1>4. ASSUME NEW w \in Workers, NEW c \in Clients, TakeEOF(w, c)
      PROVE  Entries(n)'
  <2>1. /\ DisconnectClient(w, c) /\ UNCHANGED <<pc, node, req, dead>>
        /\ conn[c] = "listening"
    BY <1>4 DEF TakeEOF, jobVars, evictVars
  <2>2. \A v \in Workers : req[v] # NULL => Client(v) # c
    BY <2>1 DEF RequestsUnique, PendingIsServed
  <2> QED
    BY <1>a, <1>c, <2>1, <2>2, SettledByRequest, DisconnectEntries
<1> QED
  BY <1>1, <1>2, <1>3, <1>4 DEF Next

-----------------------------------------------------------------------------
(* A handler's client may use the file *)

HandlersPermitted == \A w \in Workers, n \in Names :
  Handles(w, n) /\ req[w] # NULL /\ file[n] # NULL
    => FileUsePermitted(Client(w), file[n])

(* A worker becomes a handler by tryUse or with a file it has created. *)
LEMMA HandledBefore ==
  ASSUME IInv, TokenInv, NEW w \in Workers, Step(w),
         ~TryUse(w), ~InsertNew(w), NEW n \in Names, Handles(w, n)'
  PROVE  Handles(w, n) /\ ~SetLock(w) /\ ~LockFile(w)
<1> USE DEF treeVars, tableVars, clientVars, jobVars, evictVars, lockVars,
            Goto, ReplyThen, At, Handling, Exec
<1>a. TypeOK /\ WellPlaced(w) /\ CreatesAsked(w) /\ HeldInUse(w)
  BY DEF IInv, Placed, TokenInv
<1>b. \A m \in Names : m # NULL
  BY NULLAssumption
<1>1. CASE ~Turns(w)
  BY <1>a, <1>1, OthersKeepWork DEF Turns
<1>2. ASSUME InsertExists(w) PROVE FALSE
  BY <1>a, <1>2 DEF TypeOK, InsertExists, Inserting, InTree, Handles
<1>3. ASSUME Release(w) PROVE FALSE
  BY <1>a, <1>3 DEF TypeOK, Release, Handles
<1>4. ASSUME SetLock(w) PROVE FALSE
  BY <1>a, <1>4 DEF TypeOK, SetLock, Handles
<1>5. ASSUME LockFile(w) PROVE FALSE
  BY <1>a, <1>5 DEF TypeOK, LockFile, Handles
<1>6. ASSUME NoNextRequest(w) PROVE FALSE
  BY <1>a, <1>6 DEF TypeOK, NoNextRequest, Handles
<1>7. CASE ReadFile(w)
  BY <1>a, <1>4, <1>5, <1>7 DEF TypeOK, ReadFile, Handles
<1>8. CASE MakeRoom(w)
  BY <1>a, <1>4, <1>5, <1>8 DEF TypeOK, MakeRoom, InTree, Handles
<1>9. CASE Unmark(w)
  BY <1>a, <1>4, <1>5, <1>9 DEF Unmark, Handles
<1>10. CASE Evict(w)
  BY <1>a, <1>4, <1>5, <1>10 DEF TypeOK, Evict, Detach, Handles
<1>11. CASE Finish(w)
  BY <1>a, <1>4, <1>5, <1>11 DEF TypeOK, Finish, Handles
<1>12. CASE TreeRemove(w)
  <2>1. pc[w] = "remove" /\ node' = node
    BY <1>12 DEF TreeRemove, InTree
  <2>2. Handles(w, n)
    BY <2>1 DEF Handles
  <2> QED
    BY <1>4, <1>5, <2>2
<1> QED
  BY <1>1, <1>2, <1>3, <1>4, <1>5, <1>6, <1>7, <1>8, <1>9, <1>10, <1>11,
     <1>12 DEF Turns

(* Its request changes from the queue only. *)
LEMMA RequestBefore ==
  ASSUME IInv, NEW w \in Workers, Step(w), ~NextRequest(w)
  PROVE  req'[w] \in {req[w], NULL}
<1>a. TypeOK
  BY DEF IInv
<1>1. CASE \/ Park(w) \/ AbsentFatal(w) \/ PayloadCut(w) \/ Reply(w)
  BY <1>a, <1>1 DEF TypeOK, Park, AbsentFatal, PayloadCut, Reply, NoRequest
<1>2. CASE \/ InsertNew(w) \/ InformReply(w) \/ InformAppend(w)
           \/ InformWrite(w) \/ TreeRemove(w) \/ Evict(w)
  BY <1>2 DEF InsertNew, InformReply, InformAppend, InformWrite, Informing,
     TreeRemove, Evict, jobVars
<1>3. CASE Quiet
  BY <1>3 DEF Quiet
<1> QED
  BY <1>1, <1>2, <1>3, QuietStep

LEMMA PermittedStep ==
  ASSUME IInv, TypeOK', TokenInv, HandlersPermitted,
         NEW w \in Workers, Step(w), ~Intrudes(w)
  PROVE  HandlersPermitted'
<1> USE DEF treeVars, tableVars, clientVars, jobVars, evictVars, lockVars,
            Goto, ReplyThen, At, Handling, Exec
<1>a. TypeOK /\ Placed
  BY DEF IInv
<1> SUFFICES ASSUME NEW v \in Workers, NEW n \in Names, Handles(v, n)',
                    req'[v] # NULL, file'[n] # NULL
             PROVE  FileUsePermitted(req'[v].client, file'[n])
  BY DEF HandlersPermitted, Client
<1>1. CASE v # w
  <2>1. /\ pc'[v] = pc[v] /\ node'[v] = node[v] /\ req'[v] = req[v]
        /\ after'[v] = after[v]
    BY <1>1, OthersKept
  <2>2. Handles(v, n)
    BY <2>1 DEF Handles
  <2>3. FileUsePermitted(req[v].client, file[n])
    BY <2>1, <2>2 DEF HandlersPermitted, Client, TokenInv, HeldInUse, Holds,
       InUse
  <2> QED
    BY <1>1, <2>1, <2>2, <2>3, LockIsHandlers
<1>2. CASE v = w /\ TryUse(w)
  <2>1. /\ node[w] \in Names /\ File(w) \in ServerFile
        /\ FileUsePermitted(req[w].client, file[node[w]])
        /\ SetFile(node[w], [File(w) EXCEPT !.flagUse = TRUE])
        /\ node' = node /\ req' = req
    BY <1>a, <1>2, AtWork DEF TryUse, Available, Client, File
  <2>2. file'[node[w]] = [file[node[w]] EXCEPT !.flagUse = TRUE]
    BY <1>a, <2>1 DEF TypeOK, SetFile, File
  <2>3. Looser(file'[node[w]], file[node[w]])
    BY <2>1, <2>2, FileLocks DEF File
  <2>4. n = node[w]
    BY <1>2, <2>1 DEF Handles
  <2> QED
    BY <1>2, <2>1, <2>3, <2>4 DEF Looser, FileUsePermitted
<1>3. CASE v = w /\ NextRequest(w)
  <2>1. node[w] \in Names /\ File(w) \in ServerFile
    BY <1>a, <1>3, AtWork DEF NextRequest
  <2> DEFINE g == [File(w) EXCEPT !.requestList = Tail(@)]
  <2>2. /\ SetFile(node[w], g) /\ node' = node /\ File(w).requestList # <<>>
        /\ req' = [req EXCEPT ![w] = Head(File(w).requestList)]
    BY <1>3 DEF NextRequest
  <2>3. FileUsePermitted(Head(File(w).requestList).client, File(w))
    BY <1>3 DEF Intrudes
  <2>4. Looser(g, File(w))
    BY <2>1, FileLocks
  <2> HIDE DEF g
  <2>5. file'[node[w]] = g /\ req'[w] = Head(File(w).requestList)
    BY <1>a, <2>1, <2>2 DEF TypeOK, SetFile
  <2>6. n = node[w]
    BY <1>3, <2>2 DEF Handles
  <2> QED
    BY <1>3, <2>2, <2>3, <2>4, <2>5, <2>6 DEF Looser, FileUsePermitted
<1>4. CASE v = w /\ InsertNew(w)
  <2>1. /\ pc[w] = "insert" /\ pc'[w] \in {"opened", "filedel"}
        /\ UNCHANGED <<node, req>> /\ node[w] \in Names
        /\ Client(w) \in Clients
    BY <1>a, <1>4, AtWork DEF InsertNew, Inserting, InTree, TypeOK
  <2>2. n = node[w] /\ O_CREATE(req[w].op)
    BY <1>4, <2>1 DEF Handles, TokenInv, CreatesAsked, Creates
  <2>3. req[w].op = "OPEN_CREATE"
    BY <1>4, <2>1, <2>2 DEF Handles, O_CREATE
  <2> DEFINE new == NewServerFile(Client(w), O_LOCK(req[w].op), node[w])
  <2>4. file'[node[w]] = new
    <3>1. CASE ~TreeIsFull
      BY <1>a, <1>4, <2>1, <3>1 DEF InsertNew, SetFile, TypeOK
    <3>2. CASE TreeIsFull
      BY <1>a, <1>4, <2>1, <3>2 DEF InsertNew, TypeOK
    <3> QED
      BY <3>1, <3>2
  <2>5. ~O_LOCK(req[w].op) /\ O_LOCK(req[w].op) \in BOOLEAN
    BY <2>3 DEF O_LOCK
  <2>6. ~new.flagO_lock
    <3> DEFINE lock == O_LOCK(req[w].op)
    <3>1. /\ ~lock /\ lock \in BOOLEAN
          /\ new = NewServerFile(Client(w), lock, node[w])
      BY <2>5
    <3> HIDE DEF lock, new
    <3> QED
      BY <3>1 DEF NewServerFile
  <2> QED
    BY <2>2, <2>4, <2>6 DEF FileUsePermitted
<1>5. CASE v = w /\ ~TryUse(w) /\ ~NextRequest(w) /\ ~InsertNew(w)
  <2>1. Handles(w, n) /\ ~SetLock(w) /\ ~LockFile(w)
    BY <1>5, HandledBefore
  <2>2. req'[w] = req[w]
    BY <1>5, RequestBefore
  <2>3. FileUsePermitted(req[w].client, file[n])
    BY <1>5, <2>1, <2>2 DEF HandlersPermitted, Client, TokenInv, HeldInUse,
       Holds, InUse
  <2>4. NoNewLock
    BY <1>5, <2>1, LocksStep
  <2> QED
    BY <1>5, <2>2, <2>3, <2>4, PermittedKept
<1> QED
  BY <1>1, <1>2, <1>3, <1>4, <1>5

LEMMA OutsidePermitted ==
  ASSUME IInv, TypeOK', HandlersPermitted, [Next]_vars,
         ~\E w \in Workers : Step(w)
  PROVE  HandlersPermitted'
<1> USE DEF treeVars, tableVars, clientVars, jobVars, evictVars, lockVars
<1>a. TypeOK /\ Placed
  BY DEF IInv
<1>b. ASSUME NoNewLock, NEW v \in Workers, NEW n \in Names, Handles(v, n)',
             Handles(v, n), req'[v] = req[v], req'[v] # NULL, file'[n] # NULL
      PROVE  FileUsePermitted(req'[v].client, file'[n])
  BY <1>b, PermittedKept DEF HandlersPermitted, Client, NoNewLock
<1>1. CASE UNCHANGED vars
  BY <1>1 DEF vars, HandlersPermitted, Handles, Client
<1>2. ASSUME NEW c \in Clients, Die(c) PROVE HandlersPermitted'
  BY <1>2 DEF Die, HandlersPermitted, Handles, Client
<1>3. ASSUME NEW w \in Workers, NEW c \in Clients, NEW op \in OpKinds,
             NEW n \in Names, Take(w, c, op, n)
      PROVE  HandlersPermitted'
  <2>1. /\ pc'[w] \in {"readn", "find"} /\ UNCHANGED <<file, after>>
        /\ \A v \in Workers : v # w => /\ pc'[v] = pc[v] /\ node'[v] = node[v]
                                       /\ req'[v] = req[v]
    BY <1>a, <1>3 DEF Take, At, Goto, TypeOK
  <2> QED
    BY <2>1 DEF HandlersPermitted, Handles, Client
<1>4. ASSUME NEW w \in Workers, NEW c \in Clients, TakeEOF(w, c)
      PROVE  HandlersPermitted'
  <2>1. NoNewLock /\ UNCHANGED <<pc, node, req, after>>
    BY <1>a, <1>4, DisconnectLocks DEF TakeEOF
  <2>2. ASSUME NEW v \in Workers, NEW n \in Names, Handles(v, n)',
               req'[v] # NULL, file'[n] # NULL
        PROVE  FileUsePermitted(req'[v].client, file'[n])
    <3>1. Handles(v, n)
      BY <2>1, <2>2 DEF Handles
    <3> QED
      BY <1>b, <2>1, <2>2, <3>1
  <2> QED
    BY <2>2 DEF HandlersPermitted, Client
<1> QED
  BY <1>1, <1>2, <1>3, <1>4 DEF Next

-----------------------------------------------------------------------------
(* The updates of a handler *)

Nowhere(w, n) == /\ ~Opening(w, n) /\ ~Locking(w, n)
                 /\ ~Claiming(w, n) /\ ~Removing(w, n)
Exact(n) == \A c \in Clients : /\ n \in nodeInUse[c] <=> IsOpenFor(n, c)
                               /\ n \in nodeLocked[c] <=> IsLockedBy(n, c)

(* Nobody else is updating the entries of the file a handler works on: who *)
(* creates it without a lock or locks it would be its handler, and who     *)
(* creates it with a lock would run the same client's request.             *)
LEMMA HandlerAlone ==
  ASSUME IInv, TokenInv, RequestsUnique, HandlersPermitted,
         NEW w \in Workers, NEW m \in Names, Handles(w, m), req[w] # NULL,
         Entries(m), NEW v \in Workers, v # w
  PROVE  Nowhere(v, m) /\ (req[v] # NULL => Client(v) # Client(w))
<1>a. TypeOK /\ Placed
  BY DEF IInv
<1>b. file[m] # NULL /\ FileUsePermitted(Client(w), file[m]) /\ ~Handles(v, m)
  BY DEF TokenInv, OneHolder, HeldInUse, Holds, InUse, HandlersPermitted
<1>1. req[v] # NULL => Client(v) # Client(w)
  BY DEF RequestsUnique, HeldOnce
<1>2. ~Removing(v, m)
  BY <1>b DEF Entries, OldEntry
<1>3. ~Claiming(v, m)
  BY <1>b DEF Claiming, Handles
<1>4. ASSUME Locking(v, m) PROVE FALSE
  <2>1. pc[v] \in {"opened", "filedel", "inform", "table"}
    BY <1>4 DEF Locking, Opening
  <2>2. req[v] # NULL
    BY <1>a, <2>1, AtWork, NULLAssumption
  <2>3. IsLockedBy(m, Client(v))
    BY <1>4 DEF Entries, NewEntry
  <2> QED
    BY <1>1, <1>b, <2>2, <2>3 DEF IsLockedBy, FileUsePermitted
<1>5. ASSUME Opening(v, m) PROVE FALSE
  <2>1. O_CREATE(req[v].op)
    BY <1>5 DEF Opening, TokenInv, CreatesAsked, Creates
  <2>2. req[v].op = "OPEN_CREATE" => Handles(v, m)
    BY <1>5 DEF Opening, Handles
  <2>3. req[v].op = "OPEN_CREATE_LOCK" => Locking(v, m)
    BY <1>5 DEF Locking, O_LOCK
  <2> QED
    BY <1>4, <1>b, <2>1, <2>2, <2>3 DEF O_CREATE
<1> QED
  BY <1>1, <1>2, <1>3, <1>4, <1>5 DEF Nowhere

(* Where nobody is at work the two sides agree, and conversely. *)
LEMMA ExactAt ==
  ASSUME NEW n \in Names, Entries(n), \A v \in Workers : Nowhere(v, n)
  PROVE  Exact(n)
BY DEF Entries, OpenEntry, LockEntry, Exact, Nowhere

LEMMA ExactEntries ==
  ASSUME NEW n \in Names, Named(n)', \A v \in Workers : Nowhere(v, n)',
         Exact(n)'
  PROVE  Entries(n)'
<1>1. \A v \in Workers : NewEntry(v, n)' /\ OldEntry(v, n)'
  BY DEF NewEntry, OldEntry, Nowhere
<1>2. \A c \in Clients : OpenEntry(n, c)'
  BY DEF OpenEntry, Exact
<1>3. \A c \in Clients : LockEntry(n, c)'
  BY DEF LockEntry, Exact
<1> QED
  BY <1>1, <1>2, <1>3 DEF Entries

LEMMA StaysNowhere ==
  ASSUME NEW w \in Workers, NEW n \in Names, SamePlace(w, n), Nowhere(w, n)
  PROVE  Nowhere(w, n)'
BY DEF SamePlace, Nowhere

(* A handler at work on file m: what its step leaves alone, and what the   *)
(* step starts from.                                                       *)
LEMMA HandlerAt ==
  ASSUME IInv, TokenInv, RequestsUnique, HandlersPermitted,
         NEW w \in Workers, Step(w), pc[w] \in {"exec", "setlock", "remove"},
         NEW m \in Names, m = node[w], Entries(m)
  PROVE  /\ file[m] \in ServerFile /\ file[m].namePath = m
         /\ Client(w) \in Clients /\ FileUsePermitted(Client(w), file[m])
         /\ \A v \in Workers : v # w => Nowhere(v, m) /\ Nowhere(v, m)'
         /\ pc[w] # "setlock" => Nowhere(w, m) /\ Exact(m)
<1>a. TypeOK /\ Placed
  BY DEF IInv
<1>1. Client(w) \in Clients /\ req[w] # NULL
  BY <1>a, AtWork, NULLAssumption
<1>3. Handles(w, m)
  BY DEF Handles
<1>4. file[m] \in ServerFile /\ file[m].namePath = m
  BY <1>a, <1>3 DEF TokenInv, HeldInUse, Holds, InUse, Entries, Named, TypeOK
<1>5. FileUsePermitted(Client(w), file[m])
  BY <1>1, <1>3, <1>4, FileFacts DEF HandlersPermitted
<1>6. ASSUME NEW v \in Workers, v # w PROVE Nowhere(v, m) /\ Nowhere(v, m)'
  BY <1>1, <1>3, <1>6, HandlerAlone, OthersPlace, StaysNowhere
<1>7. pc[w] # "setlock" => Nowhere(w, m)
  BY DEF Nowhere, Opening, Locking, Claiming, Removing
<1>8. pc[w] # "setlock" => Exact(m)
  BY <1>6, <1>7, ExactAt
<1> QED
  BY <1>1, <1>4, <1>5, <1>6, <1>7, <1>8

(* At other names nothing happens. *)
LEMMA HandlerElsewhere ==
  ASSUME IInv, NEW w \in Workers, Step(w),
         pc[w] \in {"exec", "setlock", "table", "opened"},
         pc'[w] \in {"table", "setlock", "release", "reply"},
         node'[w] = node[w],
         NEW f, SetFile(node[w], f),
         NEW S, nodeInUse' = [nodeInUse EXCEPT ![Client(w)] = S],
         S \ {node[w]} = nodeInUse[Client(w)] \ {node[w]},
         NEW T, nodeLocked' = [nodeLocked EXCEPT ![Client(w)] = T],
         T \ {node[w]} = nodeLocked[Client(w)] \ {node[w]},
         NEW n \in Names, n # node[w], Entries(n)
  PROVE  Entries(n)'
<1>a. TypeOK /\ Placed
  BY DEF IInv
<1>1. SameFile(n)
  BY <1>a DEF SetFile, TypeOK, SameFile, Alike
<1>2. SameEntries(n)
  <2>1. n \in S <=> n \in nodeInUse[Client(w)]
    OBVIOUS
  <2>2. n \in T <=> n \in nodeLocked[Client(w)]
    OBVIOUS
  <2> QED
    BY <1>a, <2>1, <2>2 DEF SameEntries, TypeOK
<1>3. SamePlace(w, n)
  BY DEF SamePlace, Opening, Locking, Claiming, Removing
<1> QED
  BY <1>a, <1>1, <1>2, <1>3, OthersPlace, EntriesKept DEF Undisturbed

TableInv == /\ TokenInv /\ RequestsUnique /\ HandlersPermitted
            /\ \A n \in Names : Entries(n)

OpenedFor(f, c) == [Written(f) EXCEPT !.openList = @ \cup {c}]
ClosedFor(f, c) == [Written(f) EXCEPT !.openList = @ \ {c}]

LEMMA OpenedFacts ==
  ASSUME NEW f \in ServerFile, NEW c \in Clients
  PROVE  LET g == OpenedFor(f, c)
         IN /\ g \in ServerFile /\ g.namePath = f.namePath
            /\ g.openList = f.openList \cup {c}
            /\ g.flagO_lock <=> f.flagO_lock
            /\ g.lockOwner = f.lockOwner
BY DEF ServerFile, Written, Locked, Unlocked, OpenedFor, ClosedFor

LEMMA ClosedFacts ==
  ASSUME NEW f \in ServerFile, NEW c \in Clients
  PROVE  LET g == ClosedFor(f, c)
         IN /\ g \in ServerFile /\ g.namePath = f.namePath
            /\ g.openList = f.openList \ {c}
            /\ g.flagO_lock <=> f.flagO_lock
            /\ g.lockOwner = f.lockOwner
BY DEF ServerFile, Written, Locked, Unlocked, OpenedFor, ClosedFor

LEMMA LockedFacts ==
  ASSUME NEW f \in ServerFile, NEW c \in Clients
  PROVE  LET g == Locked(f, c)
         IN /\ g \in ServerFile /\ g.namePath = f.namePath
            /\ g.openList = f.openList
            /\ g.flagO_lock /\ g.lockOwner = c
BY DEF ServerFile, Written, Locked, Unlocked, OpenedFor, ClosedFor

LEMMA UnlockedFacts ==
  ASSUME NEW f \in ServerFile, NEW c \in Clients
  PROVE  LET g == Unlocked(Written(f))
         IN /\ g \in ServerFile /\ g.namePath = f.namePath
            /\ g.openList = f.openList
            /\ ~g.flagO_lock
BY DEF ServerFile, Written, Locked, Unlocked, OpenedFor, ClosedFor

LEMMA ClosedUnlockedFacts ==
  ASSUME NEW f \in ServerFile, NEW c \in Clients
  PROVE  LET g == Unlocked(ClosedFor(f, c))
         IN /\ g \in ServerFile /\ g.namePath = f.namePath
            /\ g.openList = f.openList \ {c}
            /\ ~g.flagO_lock
BY DEF ServerFile, Written, Locked, Unlocked, OpenedFor, ClosedFor

LEMMA OpenFileEntries ==
  ASSUME IInv, TableInv, NEW w \in Workers, Step(w), OpenFile(w),
         NEW n \in Names
  PROVE  Entries(n)'
<1> USE DEF Goto, ReplyThen, At, Handling, Exec
<1>a. TypeOK /\ Placed
  BY DEF IInv
<1>1. /\ pc[w] = "exec" /\ UNCHANGED <<node, req, conn>>
      /\ pc'[w] \in {"setlock", "release", "reply"}
      /\ pc'[w] = "setlock" <=> O_LOCK(req[w].op)
  BY <1>a DEF OpenFile, jobVars, clientVars, TypeOK
<1>2. PICK m \in Names : m = node[w]
  BY <1>a, <1>1, AtWork
<1>3. /\ file[m] \in ServerFile /\ file[m].namePath = m
      /\ Client(w) \in Clients /\ FileUsePermitted(Client(w), file[m])
      /\ \A v \in Workers : v # w => Nowhere(v, m) /\ Nowhere(v, m)'
      /\ Nowhere(w, m) /\ Exact(m)
  BY <1>1, <1>2, HandlerAt DEF TableInv
<1>4. PICK c \in Clients : c = Client(w)
  BY <1>3
<1>8. PICK f \in ServerFile : f = file[m] /\ f.namePath = m
  BY <1>3
<1> DEFINE lock == O_LOCK(req[w].op) \/ file[m].flagO_lock
           g == OpenedFor(file[m], c)
           T == IF lock THEN nodeLocked[c] \cup {m} ELSE nodeLocked[c]
<1>5. /\ SetFile(m, g)
      /\ nodeInUse' = [nodeInUse EXCEPT ![c] = nodeInUse[c] \cup {m}]
      /\ nodeLocked' = [nodeLocked EXCEPT ![c] = T]
  <2>1. /\ SetFile(m, g)
        /\ TableOpen(c, m, lock)
    BY <1>2, <1>4 DEF OpenFile, File, OpenedFor
  <2>2. nodeLocked' = [nodeLocked EXCEPT ![c] = T]
    <3> HIDE DEF lock
    <3> QED
      BY <1>a, <2>1 DEF TableOpen, TypeOK
  <2> QED
    BY <1>a, <2>1, <2>2 DEF TableOpen, TypeOK
<1>6. CASE n # m
  <2> HIDE DEF lock, g
  <2>1. T \ {m} = nodeLocked[c] \ {m}
    OBVIOUS
  <2> HIDE DEF T
  <2> QED
    BY <1>1, <1>2, <1>4, <1>5, <1>6, <2>1, HandlerElsewhere DEF TableInv
<1>7. CASE n = m
  <2>1. /\ file'[m] = g /\ g \in ServerFile /\ g # NULL
        /\ m \in nodeLocked'[c] <=> lock \/ m \in nodeLocked[c]
        /\ m \in nodeInUse'[c]
        /\ \A d \in Clients : d # c =>
             /\ m \in nodeInUse'[d] <=> m \in nodeInUse[d]
             /\ m \in nodeLocked'[d] <=> m \in nodeLocked[d]
    <3>1. g \in ServerFile
      BY <1>8, OpenedFacts
    <3> HIDE DEF g, lock
    <3> QED
      BY <1>a, <1>5, <3>1, FileFacts DEF TypeOK, SetFile
  <2>2. /\ g.namePath = m /\ g.openList = file[m].openList \cup {c}
        /\ g.flagO_lock <=> file[m].flagO_lock
        /\ g.lockOwner = file[m].lockOwner
    BY <1>8, OpenedFacts
  <2>3. \A d \in Clients : /\ IsOpenFor(m, d)' <=> IsOpenFor(m, d) \/ d = c
                           /\ IsLockedBy(m, d)' <=> IsLockedBy(m, d)
    <3>1. /\ file'[m].openList = file[m].openList \cup {c}
          /\ file'[m].flagO_lock <=> file[m].flagO_lock
          /\ file'[m].lockOwner = file[m].lockOwner
          /\ file'[m] # NULL /\ file[m] # NULL
      BY <1>3, <2>1, <2>2, FileFacts
    <3> QED
      BY <3>1 DEF IsOpenFor, IsLockedBy
  <2>4. /\ ~Opening(w, m)' /\ ~Locking(w, m)' /\ ~Removing(w, m)'
        /\ Claiming(w, m)' <=> O_LOCK(req[w].op)
        /\ Client(w)' = c
    BY <1>1, <1>2, <1>4 DEF Opening, Locking, Removing, Claiming, Client
  <2>5. file[m].flagO_lock => IsLockedBy(m, c)
    BY <1>3, <1>4, FileFacts DEF FileUsePermitted, IsLockedBy
  <2>6. Named(m)'
    BY <2>1, <2>2 DEF Named
  <2>7. ASSUME NEW v \in Workers PROVE NewEntry(v, m)' /\ OldEntry(v, m)'
    BY <1>3, <2>1, <2>4 DEF NewEntry, OldEntry, Nowhere
  <2>8. ASSUME NEW d \in Clients PROVE OpenEntry(m, d)'
    BY <1>3, <2>1, <2>3 DEF OpenEntry, Exact
  <2>9. ASSUME NEW d \in Clients PROVE LockEntry(m, d)'
    <3>1. m \in nodeLocked'[d]
            => IsLockedBy(m, d)' \/ (d = c /\ O_LOCK(req[w].op))
      <4> HIDE DEF g
      <4> QED
        BY <1>3, <2>1, <2>3, <2>5 DEF Exact
    <3>2. IsLockedBy(m, d)' => m \in nodeLocked'[d]
      <4> HIDE DEF g, lock
      <4> QED
        BY <1>3, <2>1, <2>3 DEF Exact
    <3> QED
      BY <2>4, <3>1, <3>2 DEF LockEntry
  <2> QED
    BY <1>7, <2>6, <2>7, <2>8, <2>9 DEF Entries
<1> QED
  BY <1>6, <1>7

LEMMA SetLockEntries ==
  ASSUME IInv, TableInv, NEW w \in Workers, Step(w),
         SetLock(w) \/ LockFile(w), NEW n \in Names
  PROVE  Entries(n)'
<1> USE DEF Goto, ReplyThen, At, Handling, Exec
<1>a. TypeOK /\ Placed
  BY DEF IInv
<1>1. /\ UNCHANGED <<node, req, nodeInUse, nodeLocked>>
      /\ \/ SetLock(w) /\ pc[w] = "setlock" /\ pc'[w] = "reply"
         \/ LockFile(w) /\ pc[w] = "exec" /\ pc'[w] = "table"
  BY <1>a DEF SetLock, LockFile, jobVars, tableVars, TypeOK
<1>2. PICK m \in Names : m = node[w]
  BY <1>a, <1>1, AtWork
<1>3. /\ file[m] \in ServerFile /\ file[m].namePath = m
      /\ Client(w) \in Clients /\ FileUsePermitted(Client(w), file[m])
      /\ \A v \in Workers : v # w => Nowhere(v, m) /\ Nowhere(v, m)'
      /\ pc[w] # "setlock" => Nowhere(w, m) /\ Exact(m)
  BY <1>1, <1>2, HandlerAt DEF TableInv
<1>4. PICK c \in Clients : c = Client(w)
  BY <1>3
<1>8. PICK f \in ServerFile : f = file[m] /\ f.namePath = m
  BY <1>3
<1> DEFINE g == Locked(file[m], c)
<1>5. SetFile(m, g)
  BY <1>1, <1>2, <1>4 DEF SetLock, LockFile, File
<1>6. CASE n # m
  <2> HIDE DEF g
  <2>1. /\ nodeInUse' = [nodeInUse EXCEPT ![c] = nodeInUse[c]]
        /\ nodeLocked' = [nodeLocked EXCEPT ![c] = nodeLocked[c]]
    BY <1>a, <1>1 DEF TypeOK
  <2> QED
    BY <1>1, <1>2, <1>4, <1>5, <1>6, <2>1, HandlerElsewhere DEF TableInv
<1>7. CASE n = m
  <2>1. file'[m] = g /\ g # NULL
    <3>1. g \in ServerFile
      BY <1>3, FileFacts
    <3> HIDE DEF g
    <3> QED
      BY <1>a, <1>5, <3>1, FileFacts DEF TypeOK, SetFile
  <2>2. /\ g.namePath = m /\ g.openList = file[m].openList
        /\ g.flagO_lock /\ g.lockOwner = c
    BY <1>8, LockedFacts
  <2>3. /\ \A d \in Clients : /\ IsOpenFor(m, d)' <=> IsOpenFor(m, d)
                              /\ IsLockedBy(m, d)' <=> d = c
        /\ Named(m)'
    <3> HIDE DEF g
    <3> QED
      BY <1>3, <2>1, <2>2, FileFacts DEF IsOpenFor, IsLockedBy, Named
  <2>4. \A d \in Clients : d # c => ~IsLockedBy(m, d)
    BY <1>3, <1>4 DEF FileUsePermitted, IsLockedBy
  <2>5. CASE LockFile(w) /\ pc[w] = "exec" /\ pc'[w] = "table"
    <3>1. /\ ~Opening(w, m)' /\ Locking(w, m)' /\ ~Claiming(w, m)'
          /\ ~Removing(w, m)' /\ Client(w)' = c
      BY <1>1, <1>2, <1>4, <2>5 DEF Opening, Locking, Removing, Claiming, Client
    <3>2. ASSUME NEW v \in Workers PROVE NewEntry(v, m)' /\ OldEntry(v, m)'
      BY <1>3, <2>3, <3>1 DEF NewEntry, OldEntry, Nowhere
    <3>3. ASSUME NEW d \in Clients PROVE OpenEntry(m, d)'
      BY <1>1, <1>3, <2>3, <2>5 DEF OpenEntry, Exact
    <3>4. ASSUME NEW d \in Clients PROVE LockEntry(m, d)'
      <4>1. m \in nodeLocked'[d] => IsLockedBy(m, d)'
        BY <1>1, <1>3, <2>3, <2>4, <2>5 DEF Exact
      <4> QED
        BY <2>3, <3>1, <4>1 DEF LockEntry
    <3> QED
      BY <1>7, <2>3, <3>2, <3>3, <3>4 DEF Entries
  <2>6. CASE SetLock(w) /\ pc[w] = "setlock" /\ pc'[w] = "reply"
    <3>1. \A v \in Workers : Nowhere(v, m)'
      BY <1>3, <2>6 DEF Opening, Locking, Removing, Claiming, Nowhere
    <3>2. /\ ~Opening(w, m) /\ ~Locking(w, m) /\ Claiming(w, m)
          /\ ~Removing(w, m)
      BY <1>2, <2>6 DEF Opening, Locking, Removing, Claiming
    <3>3. m \in nodeLocked[c]
      BY <1>4, <3>2 DEF TableInv, Entries, NewEntry
    <3>4. ASSUME NEW d \in Clients
          PROVE  /\ m \in nodeInUse[d] <=> IsOpenFor(m, d)
                 /\ d # c => (m \in nodeLocked[d] <=> IsLockedBy(m, d))
      <4>1. OpenEntry(m, d) /\ LockEntry(m, d)
        BY DEF TableInv, Entries
      <4>2. m \in nodeInUse[d] <=> IsOpenFor(m, d)
        BY <1>3, <3>2, <4>1 DEF OpenEntry, Nowhere
      <4>3. d # c => (m \in nodeLocked[d] <=> IsLockedBy(m, d))
        BY <1>3, <1>4, <3>2, <4>1 DEF LockEntry, Nowhere
      <4> QED
        BY <4>2, <4>3
    <3>5. Exact(m)'
      BY <1>1, <2>3, <2>4, <3>3, <3>4 DEF Exact
    <3> QED
      BY <1>7, <2>3, <3>1, <3>5, ExactEntries
  <2> QED
    BY <1>1, <2>5, <2>6
<1> QED
  BY <1>6, <1>7

LEMMA UnlockEntries ==
  ASSUME IInv, TableInv, NEW w \in Workers, Step(w),
         UnlockFile(w) \/ CloseFile(w), NEW n \in Names
  PROVE  Entries(n)'
<1> USE DEF Goto, ReplyThen, At, Handling, Exec
<1>a. TypeOK /\ Placed
  BY DEF IInv
<1>1. pc[w] = "exec" /\ pc'[w] = "reply" /\ UNCHANGED <<node, req>>
  BY <1>a DEF UnlockFile, CloseFile, jobVars, TypeOK
<1>2. PICK m \in Names : m = node[w]
  BY <1>a, <1>1, AtWork
<1>3. /\ file[m] \in ServerFile /\ file[m].namePath = m
      /\ Client(w) \in Clients /\ FileUsePermitted(Client(w), file[m])
      /\ \A v \in Workers : v # w => Nowhere(v, m) /\ Nowhere(v, m)'
      /\ Nowhere(w, m) /\ Exact(m)
  BY <1>1, <1>2, HandlerAt DEF TableInv
<1>4. PICK c \in Clients : c = Client(w)
  BY <1>3
<1>8. PICK f \in ServerFile : f = file[m] /\ f.namePath = m
  BY <1>3
<1> DEFINE lock == file[m].flagO_lock
           d == ClosedFor(file[m], c)
           g == IF UnlockFile(w) THEN Unlocked(Written(file[m]))
                ELSE IF lock THEN Unlocked(d) ELSE d
           S == IF UnlockFile(w) THEN nodeInUse[c] ELSE nodeInUse[c] \ {m}
           T == IF UnlockFile(w) \/ lock THEN nodeLocked[c] \ {m}
                ELSE nodeLocked[c]
<1>5. /\ SetFile(m, g)
      /\ nodeInUse' = [nodeInUse EXCEPT ![c] = S]
      /\ nodeLocked' = [nodeLocked EXCEPT ![c] = T]
  <2>1. CASE UnlockFile(w)
    <3>1. /\ SetFile(m, Unlocked(Written(file[m]))) /\ UNCHANGED nodeInUse
          /\ nodeLocked' = [nodeLocked EXCEPT ![c] = nodeLocked[c] \ {m}]
      BY <1>2, <1>4, <2>1 DEF UnlockFile, File
    <3>2. nodeInUse' = [nodeInUse EXCEPT ![c] = nodeInUse[c]]
      BY <1>a, <3>1 DEF TypeOK
    <3> QED
      BY <2>1, <3>1, <3>2
  <2>2. CASE ~UnlockFile(w)
    <3>0. d.flagO_lock <=> lock
      BY <1>8, ClosedFacts
    <3>1. /\ IF d.flagO_lock
             THEN /\ SetFile(m, Unlocked(d))
                  /\ nodeLocked' =
                       [nodeLocked EXCEPT ![c] = nodeLocked[c] \ {m}]
             ELSE SetFile(m, d) /\ UNCHANGED nodeLocked
          /\ nodeInUse' = [nodeInUse EXCEPT ![c] = nodeInUse[c] \ {m}]
      BY <1>2, <1>4, <2>2 DEF CloseFile, File, ClosedFor
    <3> HIDE DEF d, lock
    <3>2. ~lock => nodeLocked' = [nodeLocked EXCEPT ![c] = nodeLocked[c]]
      BY <1>a, <3>0, <3>1 DEF TypeOK
    <3> QED
      BY <2>2, <3>0, <3>1, <3>2
  <2> QED
    BY <2>1, <2>2
<1>6. CASE n # m
  <2> HIDE DEF d, g, lock
  <2>1. S \ {m} = nodeInUse[c] \ {m} /\ T \ {m} = nodeLocked[c] \ {m}
    OBVIOUS
  <2> HIDE DEF S, T
  <2> QED
    BY <1>1, <1>2, <1>4, <1>5, <1>6, <2>1, HandlerElsewhere DEF TableInv
<1>7. CASE n = m
  <2>1. g \in ServerFile
    <3>1. d \in ServerFile /\ Written(file[m]) \in ServerFile
      BY <1>8, ClosedFacts, FileFacts
    <3> HIDE DEF d, lock
    <3> QED
      BY <3>1, FileFacts
  <2>2. /\ g.namePath = m /\ ~g.flagO_lock
        /\ UnlockFile(w) => g.openList = file[m].openList
        /\ ~UnlockFile(w) => g.openList = file[m].openList \ {c}
    <3>1. CASE UnlockFile(w)
      BY <1>8, <3>1, UnlockedFacts
    <3>2. CASE ~UnlockFile(w) /\ lock
      BY <1>8, <3>2, ClosedUnlockedFacts
    <3>3. CASE ~UnlockFile(w) /\ ~lock
      BY <1>8, <3>3, ClosedFacts
    <3> QED
      BY <3>1, <3>2, <3>3
  <2>3. file'[m] = g /\ g # NULL
    <3> HIDE DEF d, g, lock
    <3> QED
      BY <1>a, <1>5, <2>1, FileFacts DEF TypeOK, SetFile
  <2>4. /\ \A e \in Clients :
             /\ IsOpenFor(m, e)' <=> IsOpenFor(m, e) /\ (e = c => UnlockFile(w))
             /\ ~IsLockedBy(m, e)'
        /\ Named(m)'
    <3> HIDE DEF g
    <3> QED
      BY <1>3, <2>2, <2>3, FileFacts DEF IsOpenFor, IsLockedBy, Named
  <2>5. /\ m \in nodeInUse'[c] <=> UnlockFile(w) /\ m \in nodeInUse[c]
        /\ m \in nodeLocked'[c]
             => ~UnlockFile(w) /\ ~lock /\ m \in nodeLocked[c]
        /\ \A e \in Clients : e # c =>
             /\ m \in nodeInUse'[e] <=> m \in nodeInUse[e]
             /\ m \in nodeLocked'[e] <=> m \in nodeLocked[e]
    <3> HIDE DEF d, g, lock
    <3> QED
      BY <1>a, <1>5 DEF TypeOK
  <2>6. \A e \in Clients : IsLockedBy(m, e) => lock /\ e = c
    BY <1>3, <1>4 DEF FileUsePermitted, IsLockedBy
  <2>7. Exact(m)'
    <3> HIDE DEF d, g, lock
    <3> QED
      BY <1>3, <2>4, <2>5, <2>6 DEF Exact
  <2>8. \A v \in Workers : Nowhere(v, m)'
    BY <1>1, <1>3 DEF Opening, Locking, Removing, Claiming, Nowhere
  <2> QED
    BY <1>7, <2>4, <2>7, <2>8, ExactEntries
<1> QED
  BY <1>6, <1>7

-----------------------------------------------------------------------------
(* A file that was created, locked or taken out: the table is told *)

LEMMA TellEntries ==
  ASSUME IInv, TableInv, NEW w \in Workers, Step(w), Opened(w) \/ TableLock(w),
         NEW n \in Names
  PROVE  Entries(n)'
<1> USE DEF Goto, ReplyThen, At
<1>a. TypeOK /\ Placed
  BY DEF IInv
<1>1. /\ pc[w] \in {"opened", "table"} /\ pc'[w] \in {"release", "reply"}
      /\ pc[w] = "opened" <=> Opened(w)
      /\ UNCHANGED <<node, req, file>>
  BY <1>a DEF Opened, TableLock, jobVars, TypeOK
<1>2. PICK m \in Names : m = node[w]
  BY <1>a, <1>1, AtWork
<1>3. PICK c \in Clients : c = Client(w)
  BY <1>a, <1>1, AtWork
<1> DEFINE lock == pc[w] = "table" \/ O_LOCK(req[w].op)
           S == IF pc[w] = "opened" THEN nodeInUse[c] \cup {m} ELSE nodeInUse[c]
           T == IF lock THEN nodeLocked[c] \cup {m} ELSE nodeLocked[c]
<1>4. /\ nodeInUse' = [nodeInUse EXCEPT ![c] = S]
      /\ nodeLocked' = [nodeLocked EXCEPT ![c] = T]
  <2>1. CASE pc[w] = "opened"
    <3>1. TableOpen(c, m, O_LOCK(req[w].op))
      BY <1>1, <1>2, <1>3, <2>1 DEF Opened
    <3> QED
      BY <1>a, <2>1, <3>1 DEF TableOpen, TypeOK
  <2>2. CASE pc[w] = "table"
    <3>1. /\ nodeLocked' = [nodeLocked EXCEPT ![c] = nodeLocked[c] \cup {m}]
          /\ nodeInUse' = nodeInUse
      BY <1>1, <1>2, <1>3, <2>2 DEF TableLock
    <3> QED
      BY <1>a, <2>2, <3>1 DEF TypeOK
  <2> QED
    BY <1>1, <2>1, <2>2
<1>5. SetFile(m, file[m])
  BY <1>a, <1>1 DEF SetFile, TypeOK
<1>6. CASE n # m
  <2> HIDE DEF lock
  <2>1. S \ {m} = nodeInUse[c] \ {m} /\ T \ {m} = nodeLocked[c] \ {m}
    OBVIOUS
  <2> HIDE DEF S, T
  <2> QED
    BY <1>1, <1>2, <1>3, <1>4, <1>5, <1>6, <2>1, HandlerElsewhere DEF TableInv
<1>7. CASE n = m
  <2>1. /\ m \in nodeInUse'[c] <=> pc[w] = "opened" \/ m \in nodeInUse[c]
        /\ m \in nodeLocked'[c] <=> lock \/ m \in nodeLocked[c]
        /\ \A e \in Clients : e # c =>
             /\ m \in nodeInUse'[e] <=> m \in nodeInUse[e]
             /\ m \in nodeLocked'[e] <=> m \in nodeLocked[e]
    <3> HIDE DEF lock
    <3> QED
      BY <1>a, <1>4 DEF TypeOK
  <2>2. /\ Opening(w, m) <=> pc[w] = "opened"
        /\ Locking(w, m) <=> lock
        /\ ~Claiming(w, m) /\ Nowhere(w, m)'
    BY <1>1, <1>2 DEF Opening, Locking, Claiming, Removing, Nowhere
  <2> HIDE DEF lock
  <2>3. /\ pc[w] = "opened" => IsOpenFor(m, c)
        /\ lock => IsLockedBy(m, c)
    BY <1>3, <2>2 DEF TableInv, Entries, NewEntry
  <2>4. pc[w] = "opened" \/ lock
    BY <1>1 DEF lock
  <2>5. \A v \in Workers : ~Removing(v, m)
    BY <2>3, <2>4 DEF TableInv, Entries, OldEntry, IsOpenFor, IsLockedBy
  <2>6. ASSUME NEW v \in Workers, v # w PROVE SamePlace(v, m)
    BY <2>6, OthersPlace
  <2>7. \A e \in Clients : /\ IsOpenFor(m, e)' <=> IsOpenFor(m, e)
                           /\ IsLockedBy(m, e)' <=> IsLockedBy(m, e)
    BY <1>1 DEF IsOpenFor, IsLockedBy
  <2>8. Named(m)'
    BY <1>1 DEF TableInv, Entries, Named
  <2>9. ASSUME NEW v \in Workers PROVE NewEntry(v, m)' /\ OldEntry(v, m)'
    <3>1. CASE v = w
      BY <2>2, <3>1 DEF NewEntry, OldEntry, Nowhere
    <3>2. CASE v # w
      <4>1. NewEntry(v, m) /\ SamePlace(v, m)
        BY <2>6, <3>2 DEF TableInv, Entries
      <4>2. Opening(v, m) \/ Locking(v, m) \/ Claiming(v, m)
              => Client(v)' = Client(v) /\ Client(v) \in Clients
        <5>1. Opening(v, m) \/ Locking(v, m) \/ Claiming(v, m)
                => pc[v] \in {"opened", "filedel", "inform", "table", "setlock"}
          BY DEF Opening, Locking, Claiming
        <5> QED
          BY <1>a, <1>1, <5>1, AtWork DEF Client
      <4>3. \A e \in Clients : m \in nodeLocked[e] => m \in nodeLocked'[e]
        BY <2>1
      <4>4. NewEntry(v, m)'
        BY <2>7, <4>1, <4>2, <4>3 DEF NewEntry, SamePlace
      <4>5. OldEntry(v, m)'
        BY <2>5, <4>1 DEF OldEntry, SamePlace
      <4> QED
        BY <4>4, <4>5
    <3> QED
      BY <3>1, <3>2
  <2>10. ASSUME NEW e \in Clients PROVE OpenEntry(m, e)' /\ LockEntry(m, e)'
    <3>1. \A v \in Workers : v # w =>
            /\ Opening(v, m) /\ Client(v) = e
                 => (Opening(v, m) /\ Client(v) = e)'
            /\ Locking(v, m) /\ Client(v) = e
                 => (Locking(v, m) /\ Client(v) = e)'
            /\ Claiming(v, m) /\ Client(v) = e
                 => (Claiming(v, m) /\ Client(v) = e)'
      BY <1>1, <2>6 DEF SamePlace, Client
    <3>2. OpenEntry(m, e) /\ LockEntry(m, e)
      BY DEF TableInv, Entries
    <3>3. OpenEntry(m, e)'
      BY <1>3, <2>1, <2>2, <2>3, <2>5, <2>7, <3>1, <3>2 DEF OpenEntry
    <3>4. LockEntry(m, e)'
      BY <1>3, <2>1, <2>2, <2>3, <2>5, <2>7, <3>1, <3>2 DEF LockEntry
    <3> QED
      BY <3>3, <3>4
  <2> QED
    BY <1>7, <2>8, <2>9, <2>10 DEF Entries
<1> QED
  BY <1>6, <1>7

LEMMA FileDelEntries ==
  ASSUME IInv, TableInv, NEW w \in Workers, Step(w), FileDel(w), NEW n \in Names
  PROVE  Entries(n)'
<1> USE DEF Goto, At
<1>a. TypeOK /\ Placed
  BY DEF IInv
<1>1. /\ pc[w] = "filedel" /\ pc'[w] = "inform"
      /\ UNCHANGED <<node, req, file>>
      /\ TableForget(dead[w])
      /\ dead[w] \in ServerFile
  BY <1>a, AtWork DEF FileDel, jobVars, TypeOK
<1>2. PICK m \in Names : m = dead[w].namePath
  BY <1>1 DEF ServerFile
<1>3. Removing(w, m)
  BY <1>1, <1>2 DEF Removing
<1>4. /\ Opening(w, n)' <=> Opening(w, n)
      /\ Locking(w, n)' <=> Locking(w, n)
      /\ ~Claiming(w, n) /\ ~Claiming(w, n)'
      /\ ~Removing(w, n)'
  BY <1>1 DEF Opening, Locking, Claiming, Removing
<1>5. \A c \in Clients :
        /\ nodeInUse'[c] = IF c \in dead[w].openList THEN nodeInUse[c] \ {m}
                           ELSE nodeInUse[c]
        /\ nodeLocked'[c] = IF dead[w].flagO_lock /\ c = dead[w].lockOwner
                            THEN nodeLocked[c] \ {m} ELSE nodeLocked[c]
  BY <1>1, <1>2 DEF TableForget
<1>6. CASE n # m
  <2>1. SameFile(n) /\ SameEntries(n)
    BY <1>1, <1>5, <1>6 DEF SameFile, SameEntries, Alike
  <2>2. SamePlace(w, n)
    BY <1>1, <1>2, <1>4, <1>6 DEF SamePlace, Removing
  <2> QED
    BY <1>a, <2>1, <2>2, OthersPlace, EntriesKept DEF Undisturbed, TableInv
<1>7. CASE n = m
  <2>1. file[m] = NULL /\ file'[m] = NULL
    BY <1>1, <1>3 DEF TableInv, Entries, OldEntry
  <2>2. \A c \in Clients : m \notin nodeInUse'[c] /\ m \notin nodeLocked'[c]
    <3>1. \A c \in Clients :
            /\ m \in nodeInUse[c] => c \in dead[w].openList
            /\ m \in nodeLocked[c]
                 => dead[w].flagO_lock /\ dead[w].lockOwner = c
      BY <1>3 DEF TableInv, Entries, OldEntry
    <3>2. ASSUME NEW c \in Clients, m \in nodeLocked[c]
          PROVE  m \notin nodeLocked'[c]
      <4>1. nodeLocked'[c] = nodeLocked[c] \ {m}
        BY <3>1, <3>2, <1>5
      <4> QED
        BY <4>1
    <3>3. \A c \in Clients : m \notin nodeInUse'[c]
      BY <1>5, <3>1
    <3>4. ASSUME NEW c \in Clients, m \notin nodeLocked[c]
          PROVE  m \notin nodeLocked'[c]
      BY <1>5, <3>4
    <3> QED
      BY <3>2, <3>3, <3>4
  <2>3. ASSUME NEW v \in Workers
        PROVE  ~Opening(v, m)' /\ ~Locking(v, m)' /\ ~Claiming(v, m)'
    <3>1. ~Opening(v, m) /\ ~Locking(v, m)
      BY <2>1 DEF TableInv, Entries, NewEntry, IsOpenFor, IsLockedBy
    <3>2. ~Claiming(v, m)
      BY <2>1 DEF Claiming, Handles, TableInv, TokenInv, HeldInUse, Holds, InUse
    <3>3. v # w => SamePlace(v, m)
      BY OthersPlace
    <3> QED
      BY <1>4, <1>7, <3>1, <3>2, <3>3 DEF SamePlace
  <2>4. \A c \in Clients : ~IsOpenFor(m, c)' /\ ~IsLockedBy(m, c)'
    BY <2>1 DEF IsOpenFor, IsLockedBy
  <2>5. \A v \in Workers : NewEntry(v, m)' /\ OldEntry(v, m)'
    BY <2>1, <2>2, <2>3 DEF NewEntry, OldEntry
  <2>6. \A c \in Clients : OpenEntry(m, c)' /\ LockEntry(m, c)'
    BY <2>2, <2>4 DEF OpenEntry, LockEntry
  <2> QED
    BY <1>7, <2>1, <2>5, <2>6 DEF Entries, Named
<1> QED
  BY <1>6, <1>7

-----------------------------------------------------------------------------
(* Files that are taken out, and files that are created *)

(* TreeFileinsert and appendToFileW take a file nobody uses out of the     *)
(* tree, which another worker may just have created or locked without      *)
(* having told the table (server.c:1207, 1676); and a name may be created  *)
(* again before the table has forgotten the file that was removed          *)
(* (server.c:1562, 1765).                                                  *)
Removes(w, n) == \/ InsertNew(w) /\ TreeIsFull /\ n = ToRemove
                 \/ Evict(w) /\ n = LeastRecent(victims[w])
Outruns(w) == \E n \in Names, v \in Workers :
                Removes(w, n) /\ (Opening(v, n) \/ Locking(v, n))
Recreates(w) == /\ InsertNew(w)
                /\ \/ Removes(w, node[w])
                   \/ \E v \in Workers : Removing(v, node[w])

LEMMA DetachedEntries ==
  ASSUME IInv, TableInv, NEW w \in Workers, Step(w), NEW m \in Names,
         file[m] \in ServerFile,
         \A v \in Workers : ~Opening(v, m) /\ ~Locking(v, m) /\ ~Claiming(v, m),
         file'[m] = NULL, dead'[w] = file[m],
         pc[w] # "filedel", pc'[w] = "filedel", ~Opening(w, m)',
         UNCHANGED <<nodeInUse, nodeLocked>>
  PROVE  Entries(m)'
<1>1. /\ file[m] # NULL /\ file[m].namePath = m
  BY FileFacts DEF TableInv, Entries, Named
<1>2. \A v \in Workers : Nowhere(v, m)
  <2>1. \A v \in Workers : ~Removing(v, m)
    BY <1>1 DEF TableInv, Entries, OldEntry
  <2> QED
    BY <2>1 DEF Nowhere
<1>3. Exact(m)
  BY <1>2, ExactAt DEF TableInv
<1>4. ASSUME NEW v \in Workers, v # w PROVE Nowhere(v, m)'
  BY <1>2, <1>4, OthersPlace, StaysNowhere
<1>5. /\ ~Opening(w, m)' /\ ~Locking(w, m)' /\ ~Claiming(w, m)'
      /\ Removing(w, m)'
  BY <1>1 DEF Locking, Opening, Claiming, Removing
<1>6. \A c \in Clients : ~IsOpenFor(m, c)' /\ ~IsLockedBy(m, c)'
  BY DEF IsOpenFor, IsLockedBy
<1>7. ASSUME NEW c \in Clients
      PROVE  /\ m \in nodeInUse[c] => c \in file[m].openList
             /\ m \in nodeLocked[c]
                  => file[m].flagO_lock /\ file[m].lockOwner = c
  BY <1>3 DEF Exact, IsOpenFor, IsLockedBy
<1>8. ASSUME NEW v \in Workers PROVE NewEntry(v, m)' /\ OldEntry(v, m)'
  <2>1. CASE v # w
    BY <1>4, <2>1 DEF NewEntry, OldEntry, Nowhere
  <2>2. CASE v = w
    <3>1. NewEntry(w, m)'
      BY <1>5 DEF NewEntry
    <3>2. OldEntry(w, m)'
      BY <1>7 DEF OldEntry
    <3> QED
      BY <2>2, <3>1, <3>2
  <2> QED
    BY <2>1, <2>2
<1>9. \A c \in Clients : OpenEntry(m, c)' /\ LockEntry(m, c)'
  BY <1>5, <1>6 DEF OpenEntry, LockEntry
<1> QED
  BY <1>8, <1>9 DEF Entries, Named

(* A file nobody uses is not claimed by openFileW. *)
LEMMA NotClaimed ==
  ASSUME TokenInv, NEW m \in Names, NEW w \in Workers,
         ~InUse(m) \/ (m \in victims[w] /\ pc[w] # "setlock"),
         NEW v \in Workers
  PROVE  ~Claiming(v, m)
<1>1. Claiming(v, m) => Holds(v, m)
  BY DEF Claiming, Handles, Holds
<1> QED
  BY <1>1 DEF TokenInv, OneHolder, HeldInUse, Holds, Claiming

LEMMA RemoveEntries ==
  ASSUME IInv, TableInv, NEW w \in Workers, Step(w),
         TreeRemove(w) \/ Evict(w), ~Outruns(w), NEW n \in Names
  PROVE  Entries(n)'
<1> USE DEF Goto, ReplyThen, At, InTree, Handling
<1>a. TypeOK /\ Placed /\ FilesAccounted /\ WellPlaced(w)
  BY DEF IInv, Placed
<1> DEFINE k == IF pc[w] = "remove" THEN node[w] ELSE LeastRecent(victims[w])
<1>1. /\ pc[w] \in {"remove", "evict"} /\ UNCHANGED <<node, req>>
      /\ UNCHANGED <<nodeInUse, nodeLocked>>
      /\ pc[w] = "remove" <=> TreeRemove(w)
      /\ req[w].op \notin OpenOps
  BY <1>a DEF TreeRemove, Evict, jobVars, tableVars, WellPlaced, HasOp, OpenOps
<1>2. PICK m \in Names : m = k
  BY <1>a, <1>1, AtWork, VictimFacts DEF Evict
<1>3. Holds(w, m)
  <2>1. CASE pc[w] = "remove"
    BY <1>2, <2>1 DEF Holds, Handles
  <2>2. CASE pc[w] = "evict"
    BY <1>a, <1>1, <1>2, <2>2, VictimFacts DEF Evict, Holds
  <2> QED
    BY <1>1, <2>1, <2>2
<1>4. file[m] \in ServerFile /\ file[m] # NULL
  BY <1>a, <1>3 DEF TableInv, TokenInv, HeldInUse, InUse, TypeOK
<1>5. Detach(w, m)
  <2>1. CASE pc[w] = "remove"
    BY <1>1, <1>2, <1>4, <2>1 DEF TreeRemove, File
  <2>2. CASE pc[w] = "evict"
    BY <1>1, <1>2, <2>2 DEF Evict
  <2> QED
    BY <1>1, <2>1, <2>2
<1> HIDE DEF k
<1>6. /\ dead'[w] = file[m] /\ pc'[w] = "filedel" /\ file'[m] = NULL
      /\ \A x \in Names : x # m => file'[x] = file[x]
  BY <1>a, <1>5 DEF Detach, SetFile, TypeOK
<1>7. ~Opening(w, n) /\ ~Opening(w, n)'
  BY <1>1, <1>6 DEF Opening
<1>8. CASE n # m
  <2>1. SameFile(n) /\ SameEntries(n)
    BY <1>1, <1>6, <1>8 DEF SameFile, SameEntries, Alike
  <2>2. file[m].namePath = m
    BY <1>4 DEF TableInv, Entries, Named
  <2>3. SamePlace(w, n)
    BY <1>1, <1>6, <1>7, <1>8, <2>2 DEF SamePlace, Locking, Claiming, Removing
  <2> QED
    BY <1>a, <2>1, <2>3, OthersPlace, EntriesKept DEF Undisturbed, TableInv
<1>9. CASE n = m
  <2>1. ASSUME NEW v \in Workers
        PROVE  ~Opening(v, m) /\ ~Locking(v, m) /\ ~Claiming(v, m)
    <3>1. CASE v = w
      BY <1>1, <1>7, <1>9, <3>1 DEF Locking, Claiming
    <3>2. CASE v # w /\ pc[w] = "remove"
      <4>1. Handles(w, m) /\ req[w] # NULL
        BY <1>a, <1>2, <3>2, AtWork, NULLAssumption DEF k, Handles
      <4> QED
        BY <3>2, <4>1, HandlerAlone DEF TableInv, Nowhere
    <3>3. CASE v # w /\ pc[w] = "evict"
      <4>1. Evict(w) /\ m = LeastRecent(victims[w])
        BY <1>1, <1>2, <3>3 DEF k
      <4>2. m \in victims[w]
        BY <1>3, <1>a, <4>1, VictimFacts DEF Evict
      <4>3. ~Opening(v, m) /\ ~Locking(v, m)
        BY <4>1 DEF Outruns, Removes
      <4> QED
        BY <3>3, <4>2, <4>3, NotClaimed DEF TableInv
    <3> QED
      BY <1>1, <3>1, <3>2, <3>3
  <2> QED
    BY <1>1, <1>4, <1>6, <1>7, <1>9, <2>1, DetachedEntries
<1> QED
  BY <1>8, <1>9

(* What TreeFileinsert does to the file it creates. *)
LEMMA NewFileFacts ==
  ASSUME NEW c \in Clients, NEW lock \in BOOLEAN, NEW n \in Names
  PROVE  LET g == NewServerFile(c, lock, n)
         IN /\ g \in ServerFile /\ g # NULL
            /\ g.namePath = n /\ g.openList = {c}
            /\ g.flagO_lock <=> lock
            /\ lock => g.lockOwner = c
<1>1. NewServerFile(c, lock, n) \in ServerFile
  BY NewServerFileFacts
<1> QED
  BY <1>1, FileFacts DEF NewServerFile

LEMMA CreatedEntries ==
  ASSUME IInv, TableInv, NEW w \in Workers, Step(w), NEW k \in Names,
         pc[w] = "insert", pc'[w] \in {"opened", "filedel"},
         node[w] = k, UNCHANGED <<node, req>>, ~InUse(k), ~Removing(w, k)',
         file[k] = NULL, NEW c \in Clients, c = Client(w),
         file'[k] = NewServerFile(c, O_LOCK(req[w].op), k),
         \A v \in Workers : ~Removing(v, k),
         UNCHANGED <<nodeInUse, nodeLocked>>
  PROVE  Entries(k)'
<1>a. TypeOK /\ Placed
  BY DEF IInv
<1> DEFINE lock == O_LOCK(req[w].op)
<1>1. /\ file'[k] # NULL /\ file'[k].namePath = k /\ file'[k].openList = {c}
      /\ file'[k].flagO_lock <=> lock
      /\ lock => file'[k].lockOwner = c
  <2>1. lock \in BOOLEAN
    BY DEF O_LOCK
  <2> HIDE DEF lock
  <2>2. file'[k] = NewServerFile(c, lock, k)
    BY DEF lock
  <2> QED
    BY <2>1, <2>2, NewFileFacts
<1>2. \A v \in Workers : Nowhere(v, k)
  <2>1. ASSUME NEW v \in Workers PROVE ~Opening(v, k) /\ ~Locking(v, k)
    BY DEF TableInv, Entries, NewEntry, IsOpenFor, IsLockedBy
  <2>2. ASSUME NEW v \in Workers PROVE ~Claiming(v, k)
    BY NotClaimed DEF TableInv
  <2> QED
    BY <2>1, <2>2 DEF Nowhere
<1>3. \A e \in Clients : k \notin nodeInUse'[e] /\ k \notin nodeLocked'[e]
  BY <1>2, ExactAt DEF TableInv, Exact, IsOpenFor, IsLockedBy
<1>4. ASSUME NEW v \in Workers, v # w PROVE Nowhere(v, k)'
  BY <1>2, <1>4, OthersPlace, StaysNowhere
<1>5. /\ Opening(w, k)' /\ ~Claiming(w, k)' /\ Client(w)' = c
      /\ Locking(w, k)' <=> lock
  <2>1. req[w].op \in OpenOps
    BY <1>a DEF Placed, WellPlaced, HasOp
  <2>2. Opening(w, k)'
    BY <2>1 DEF Opening
  <2> QED
    BY <2>2 DEF Locking, Claiming, Client
<1> HIDE DEF lock
<1>6. \A e \in Clients : /\ IsOpenFor(k, e)' <=> e = c
                         /\ IsLockedBy(k, e)' <=> lock /\ e = c
  BY <1>1 DEF IsOpenFor, IsLockedBy
<1>7. ASSUME NEW v \in Workers PROVE NewEntry(v, k)' /\ OldEntry(v, k)'
  BY <1>4, <1>5, <1>6 DEF NewEntry, OldEntry, Nowhere
<1>8. ASSUME NEW e \in Clients PROVE OpenEntry(k, e)' /\ LockEntry(k, e)'
  BY <1>3, <1>5, <1>6 DEF OpenEntry, LockEntry
<1> QED
  BY <1>1, <1>7, <1>8 DEF Entries, Named

LEMMA InsertEntries ==
  ASSUME IInv, TableInv, NEW w \in Workers, Step(w), InsertNew(w),
         ~Outruns(w), ~Recreates(w), NEW n \in Names
  PROVE  Entries(n)'
<1> USE DEF Goto, At
<1>a. TypeOK /\ Placed /\ FilesAccounted
  BY DEF IInv
<1>1. /\ pc[w] = "insert" /\ pc'[w] \in {"opened", "filedel"}
      /\ UNCHANGED <<node, req, nodeInUse, nodeLocked>>
  BY <1>a DEF InsertNew, Inserting, InTree, jobVars, tableVars, TypeOK
<1>2. PICK k \in Names : k = node[w]
  BY <1>a, <1>1, AtWork
<1>3. PICK c \in Clients : c = Client(w)
  BY <1>a, <1>1, AtWork
<1> DEFINE new == NewServerFile(c, O_LOCK(req[w].op), k)
<1>4. \A v \in Workers : ~Removing(v, k)
  BY <1>2 DEF Recreates
<1>5. ASSUME NEW x \in Names, x # k PROVE ~Opening(w, x) /\ ~Locking(w, x)
        /\ ~Claiming(w, x) /\ ~Opening(w, x)' /\ ~Locking(w, x)'
        /\ ~Claiming(w, x)'
  BY <1>1, <1>2, <1>5 DEF Opening, Locking, Claiming
<1>6. CASE ~TreeIsFull
  <2>1. /\ SetFile(k, new) /\ file[k] = NULL /\ pc'[w] = "opened"
    BY <1>a, <1>2, <1>3, <1>6 DEF InsertNew, File, TypeOK
  <2> HIDE DEF new
  <2>2. file'[k] = new /\ \A x \in Names : x # k => file'[x] = file[x]
    BY <1>a, <2>1 DEF SetFile, TypeOK
  <2>3. \A x \in Names : ~Removing(w, x) /\ ~Removing(w, x)'
    BY <1>1, <2>1 DEF Removing
  <2>4. CASE n = k
    BY <1>1, <1>2, <1>3, <1>4, <2>1, <2>2, <2>3, <2>4, CreatedEntries
       DEF new, InUse
  <2>5. CASE n # k
    <3>1. SameFile(n) /\ SameEntries(n)
      BY <1>1, <2>2, <2>5 DEF SameFile, SameEntries, Alike
    <3>2. SamePlace(w, n)
      BY <1>1, <1>5, <2>3, <2>5 DEF SamePlace
    <3> QED
      BY <1>a, <3>1, <3>2, OthersPlace, EntriesKept DEF Undisturbed, TableInv
  <2> QED
    BY <2>4, <2>5
<1>7. CASE TreeIsFull
  <2>1. PICK m \in Names : m = ToRemove /\ ~InUse(m) /\ file[m] \in ServerFile
    <3>1. /\ Expelled # {} /\ Expelled = MakeSpace(1, 0) /\ ToRemove \in Names
          /\ file[ToRemove] \in ServerFile
      BY <1>a, <1>7, ToRemoveFacts DEF InsertNew, Expelled
    <3>2. ToRemove \in Expelled
      BY <1>a, <3>1, MakeSpaceFacts, LeastRecentFacts DEF TypeOK, ToRemove
    <3> QED
      BY <3>1, <3>2, MakeSpaceUnused DEF InUse
  <2>2. m # k /\ Removes(w, m)
    BY <1>2, <1>7, <2>1 DEF Recreates, Removes
  <2>3. /\ file' = [file EXCEPT ![m] = NULL, ![k] = new]
        /\ file[k] = NULL /\ dead' = [dead EXCEPT ![w] = file[m]]
        /\ pc'[w] = "filedel"
    BY <1>a, <1>2, <1>3, <1>7, <2>1, <2>2 DEF InsertNew, File, TypeOK
  <2> HIDE DEF new
  <2>4. /\ file'[k] = new /\ file'[m] = NULL /\ dead'[w] = file[m]
        /\ \A x \in Names : x # k /\ x # m => file'[x] = file[x]
    BY <1>a, <2>2, <2>3 DEF TypeOK
  <2>5. file[m].namePath = m
    BY <2>1, FileFacts DEF TableInv, Entries, Named
  <2>6. \A x \in Names : ~Removing(w, x) /\ (x # m => ~Removing(w, x)')
    BY <1>1, <2>4, <2>5 DEF Removing
  <2>7. CASE n = k
    BY <1>1, <1>2, <1>3, <1>4, <2>2, <2>3, <2>4, <2>6, <2>7, CreatedEntries
       DEF new, InUse
  <2>8. CASE n = m
    <3>1. ASSUME NEW v \in Workers
          PROVE  ~Opening(v, m) /\ ~Locking(v, m) /\ ~Claiming(v, m)
      BY <2>1, <2>2, NotClaimed DEF Outruns, TableInv
    <3> QED
      BY <1>1, <1>5, <2>1, <2>2, <2>3, <2>4, <2>8, <3>1, DetachedEntries
  <2>9. CASE n # k /\ n # m
    <3>1. SameFile(n) /\ SameEntries(n)
      BY <1>1, <2>4, <2>9 DEF SameFile, SameEntries, Alike
    <3>2. SamePlace(w, n)
      BY <1>1, <1>5, <2>6, <2>9 DEF SamePlace
    <3> QED
      BY <1>a, <3>1, <3>2, OthersPlace, EntriesKept DEF Undisturbed, TableInv
  <2> QED
    BY <2>7, <2>8, <2>9
<1> QED
  BY <1>6, <1>7

LEMMA EntriesStep ==
  ASSUME IInv, TableInv, NEW w \in Workers, Step(w),
         ~Outruns(w), ~Recreates(w), NEW n \in Names
  PROVE  Entries(n)'
<1>a. TypeOK /\ Placed /\ RequestsUnique /\ Entries(n)
  BY DEF IInv, TableInv
<1>1. CASE AbsentFatal(w) \/ PayloadCut(w) \/ Reply(w)
  BY <1>a, <1>1, EndingEntries
<1>2. CASE InformReply(w) \/ InformAppend(w)
  BY <1>a, <1>2, InformEntries
<1>3. CASE InsertNew(w)
  BY <1>3, InsertEntries
<1>4. CASE TreeRemove(w) \/ Evict(w)
  BY <1>4, RemoveEntries
<1>5. CASE OpenFile(w)
  BY <1>5, OpenFileEntries
<1>6. CASE SetLock(w) \/ LockFile(w)
  BY <1>6, SetLockEntries
<1>7. CASE UnlockFile(w) \/ CloseFile(w)
  BY <1>7, UnlockEntries
<1>8. CASE Opened(w) \/ TableLock(w)
  BY <1>8, TellEntries
<1>9. CASE FileDel(w)
  BY <1>9, FileDelEntries
<1>10. CASE ~Updates(w)
  BY <1>a, <1>10, PlainEntries
<1> QED
  BY <1>1, <1>2, <1>3, <1>4, <1>5, <1>6, <1>7, <1>8, <1>9, <1>10 DEF Updates

-----------------------------------------------------------------------------
(* A disconnected client has no entries left *)

ClosedOut == \A c \in Clients : conn[c] = "closed" =>
               nodeInUse[c] = {} /\ nodeLocked[c] = {}

LEMMA DisconnectClosed ==
  ASSUME TypeOK, ClosedOut, NEW w \in Workers, NEW c \in Clients,
         DisconnectClient(w, c) \/ SendClientResult(w, c)
  PROVE  ClosedOut'
<1>1. CASE DisconnectClient(w, c)
  <2>1. /\ nodeInUse' = [nodeInUse EXCEPT ![c] = {}]
        /\ nodeLocked' = [nodeLocked EXCEPT ![c] = {}]
        /\ conn' = [conn EXCEPT ![c] = "closed"]
    BY <1>1 DEF DisconnectClient
  <2> QED
    BY <2>1 DEF ClosedOut, TypeOK
<1>2. CASE /\ conn' = [conn EXCEPT ![c] = "listening"]
           /\ UNCHANGED tableVars
  BY <1>2 DEF ClosedOut, TypeOK, tableVars
<1> QED
  BY <1>1, <1>2 DEF SendClientResult

(* Only a client whose request is at work gets entries. *)
LEMMA ClosedStep ==
  ASSUME IInv, RequestsUnique, ClosedOut, NEW w \in Workers, Step(w)
  PROVE  ClosedOut'
<1> USE DEF treeVars, tableVars, clientVars, jobVars, evictVars, lockVars,
            At, Handling, Exec
<1>a. TypeOK /\ Placed
  BY DEF IInv
<1>1. CASE AbsentFatal(w) \/ PayloadCut(w) \/ Reply(w)
  <2>1. PICK c \in Clients : c = Client(w)
    BY <1>a, <1>1, AtWork DEF AbsentFatal, PayloadCut, Reply
  <2> QED
    BY <1>a, <1>1, <2>1, DisconnectClosed DEF AbsentFatal, PayloadCut, Reply
<1>2. CASE InformReply(w) \/ InformAppend(w)
  <2>1. dead[w] \in ServerFile /\ dead[w].requestList # <<>>
    BY <1>a, <1>2, AtWork DEF InformReply, InformAppend, Informing
  <2>2. PICK c \in Clients : c = Head(dead[w].requestList).client
    BY <2>1, QueueFacts
  <2> QED
    BY <1>a, <1>2, <2>2, DisconnectClosed DEF InformReply, InformAppend
<1>3. CASE \/ InsertNew(w) \/ TreeRemove(w) \/ Evict(w) \/ SetLock(w)
           \/ LockFile(w)
  <2>1. UNCHANGED <<nodeInUse, nodeLocked, conn>>
    BY <1>3 DEF InsertNew, TreeRemove, Evict, SetLock, LockFile
  <2> QED
    BY <2>1 DEF ClosedOut
<1>4. CASE ~Updates(w)
  <2>1. UNCHANGED <<nodeInUse, nodeLocked, conn>>
    BY <1>4, PlainFiles
  <2> QED
    BY <2>1 DEF ClosedOut
<1>5. CASE FileDel(w)
  <2>1. /\ UNCHANGED conn
        /\ \A c \in Clients : /\ nodeInUse'[c] \subseteq nodeInUse[c]
                              /\ nodeLocked'[c] \subseteq nodeLocked[c]
    BY <1>5 DEF FileDel, TableForget
  <2> QED
    BY <2>1 DEF ClosedOut
<1>6. CASE \/ UnlockFile(w) \/ CloseFile(w)
           \/ OpenFile(w) \/ Opened(w) \/ TableLock(w)
  <2>1. req[w] # NULL
    BY <1>a, <1>6, AtWork, NULLAssumption
       DEF UnlockFile, CloseFile, OpenFile, Opened, TableLock
  <2>2. PICK d \in Clients : d = Client(w)
    BY <1>a, <1>6, AtWork
       DEF UnlockFile, CloseFile, OpenFile, Opened, TableLock
  <2>3. conn[d] = "served" /\ UNCHANGED conn
    BY <1>6, <2>1, <2>2 DEF RequestsUnique, PendingIsServed, UnlockFile,
       CloseFile, OpenFile, Opened, TableLock
  <2>4. ASSUME NEW c \in Clients, c # d
        PROVE  nodeInUse'[c] = nodeInUse[c] /\ nodeLocked'[c] = nodeLocked[c]
    <3>1. CASE UnlockFile(w)
      BY <1>a, <2>2, <2>4, <3>1 DEF UnlockFile, TypeOK
    <3>2. CASE CloseFile(w)
      BY <1>a, <2>2, <2>4, <3>2 DEF CloseFile, TypeOK
    <3>3. CASE OpenFile(w) \/ Opened(w)
      BY <1>a, <2>2, <2>4, <3>3 DEF OpenFile, Opened, TableOpen, TypeOK
    <3>4. CASE TableLock(w)
      BY <1>a, <2>2, <2>4, <3>4 DEF TableLock, TypeOK
    <3> QED
      BY <1>6, <3>1, <3>2, <3>3, <3>4
  <2> QED
    BY <2>3, <2>4 DEF ClosedOut
<1> QED
  BY <1>1, <1>2, <1>3, <1>4, <1>5, <1>6 DEF Updates

LEMMA OutsideClosed ==
  ASSUME IInv, ClosedOut, [Next]_vars, ~\E w \in Workers : Step(w)
  PROVE  ClosedOut'
<1> USE DEF treeVars, tableVars, clientVars, jobVars, evictVars, lockVars
<1>a. TypeOK
  BY DEF IInv
<1>1. CASE UNCHANGED vars
  BY <1>1 DEF vars, ClosedOut
<1>2. ASSUME NEW c \in Clients, Die(c) PROVE ClosedOut'
  BY <1>2 DEF Die, ClosedOut
<1>3. ASSUME NEW w \in Workers, NEW c \in Clients, NEW op \in OpKinds,
             NEW n \in Names, Take(w, c, op, n)
      PROVE  ClosedOut'
  BY <1>a, <1>3 DEF Take, ClosedOut, TypeOK
<1>4. ASSUME NEW w \in Workers, NEW c \in Clients, TakeEOF(w, c)
      PROVE  ClosedOut'
  BY <1>a, <1>4, DisconnectClosed DEF TakeEOF
<1> QED
  BY <1>1, <1>2, <1>3, <1>4 DEF Next

-----------------------------------------------------------------------------
(* The table is exact *)

(* Apart from what a worker is just updating. *)
LEMMA ExactTable ==
  ASSUME IInv, TableInv
  PROVE  TableMatchesFiles
<1> SUFFICES ASSUME NEW n \in Names, ~InTransit(n)
             PROVE  Exact(n)
  BY DEF TableMatchesFiles, Exact, IsOpenFor, IsLockedBy
<1>1. ASSUME NEW w \in Workers PROVE Nowhere(w, n)
  <2>1. ~Opening(w, n) /\ ~Locking(w, n) /\ ~Claiming(w, n)
    BY DEF InTransit, Opening, Locking, Claiming
  <2>2. pc[w] = "filedel" => dead[w] # NULL
    BY DEF IInv, Placed, WellPlaced, HasDead
  <2>3. ~Removing(w, n)
    BY <2>2 DEF InTransit, Removing
  <2> QED
    BY <2>1, <2>3 DEF Nowhere
<1> QED
  BY <1>1, ExactAt DEF TableInv

LEMMA ClosedEntries ==
  ASSUME IInv, TableInv, ClosedOut, NEW n \in Names, file[n] # NULL,
         NEW c \in Clients, conn[c] = "closed"
  PROVE  ~IsOpenFor(n, c) /\ ~IsLockedBy(n, c)
<1>1. n \notin nodeInUse[c] /\ n \notin nodeLocked[c]
  BY DEF ClosedOut
<1>2. \A w \in Workers : req[w] # NULL => Client(w) # c
  BY DEF TableInv, RequestsUnique, PendingIsServed
<1>3. Settled(n, c)
  BY <1>2, SettledByRequest DEF IInv
<1> QED
  BY <1>1, <1>3, SettledEntries DEF TableInv

LEMMA InitTable == Init => TableInv /\ ClosedOut
<1> SUFFICES ASSUME Init PROVE TableInv /\ ClosedOut
  OBVIOUS
<1>1. HandlersPermitted
  BY DEF Init, HandlersPermitted
<1>2. ASSUME NEW n \in Names PROVE Entries(n)
  <2>1. \A w \in Workers : Nowhere(w, n)
    BY DEF Init, Nowhere, Opening, Locking, Claiming, Removing
  <2>2. file[n] = NULL
    BY DEF Init
  <2>3. \A c \in Clients : ~IsOpenFor(n, c) /\ ~IsLockedBy(n, c)
    BY <2>2 DEF IsOpenFor, IsLockedBy
  <2>4. \A w \in Workers : NewEntry(w, n) /\ OldEntry(w, n)
    BY <2>1 DEF NewEntry, OldEntry, Nowhere
  <2>5. \A c \in Clients : OpenEntry(n, c) /\ LockEntry(n, c)
    BY <2>3 DEF Init, OpenEntry, LockEntry
  <2> QED
    BY <2>2, <2>4, <2>5 DEF Entries, Named
<1>3. ClosedOut
  BY DEF Init, ClosedOut
<1> QED
  BY <1>1, <1>2, <1>3, InitToken, InitRequests DEF TableInv

LEMMA TableStep ==
  ASSUME IInv, TypeOK', TableInv, [Next]_vars,
         \A w \in Workers : Step(w) => /\ ~ReleasesOthers(w) /\ ~Intrudes(w)
                                       /\ ~Outruns(w) /\ ~Recreates(w)
  PROVE  TableInv'
<1>1. RequestsUnique'
  BY RequestsStep DEF TableInv
<1>2. CASE \E w \in Workers : Step(w)
  <2>1. PICK w \in Workers : Step(w)
    BY <1>2
  <2>2. TokenInv' /\ HandlersPermitted'
    BY <2>1, HoldersStep, PermittedStep DEF TableInv
  <2>3. \A n \in Names : Entries(n)'
    BY <2>1, EntriesStep
  <2> QED
    BY <1>1, <2>2, <2>3 DEF TableInv
<1>3. CASE ~\E w \in Workers : Step(w)
  <2>1. TokenInv' /\ HandlersPermitted'
    BY <1>3, OutsideCalm, CalmStep, OutsidePermitted DEF TableInv
  <2>2. \A n \in Names : Entries(n)'
    BY <1>3, OutsideEntries DEF TableInv
  <2> QED
    BY <1>1, <2>1, <2>2 DEF TableInv
<1> QED
  BY <1>2, <1>3

LEMMA TableStutters ==
  ASSUME IInv, TypeOK', TableInv, UNCHANGED vars
  PROVE  TableInv'
<1>a. UNCHANGED <<pc, node, req, dead, after, file, nodeInUse, nodeLocked,
                  conn>>
  BY DEF vars, tableVars, jobVars, evictVars, clientVars
<1>1. TokenInv'
  <2>1. Calm
    BY DEF vars, treeVars, tableVars, jobVars, evictVars, Calm, SameUse, InUse,
           Handles, CreatesAsked, Creates
  <2> QED
    BY <2>1, CalmStep DEF TableInv
<1>2. RequestsUnique'
  <2>1. [Next]_vars
    OBVIOUS
  <2> QED
    BY <2>1, RequestsStep DEF TableInv
<1>3. HandlersPermitted'
  BY <1>a DEF TableInv, HandlersPermitted, Handles, Client, FileUsePermitted
<1>4. ASSUME NEW n \in Names PROVE Entries(n)'
  <2>1. SameFile(n) /\ SameEntries(n)
    BY <1>a DEF SameFile, SameEntries, Alike
  <2>2. \A v \in Workers : SamePlace(v, n)
    BY <1>a DEF SamePlace, Opening, Locking, Claiming, Removing, Alike
  <2> QED
    BY <2>1, <2>2, EntriesKept DEF IInv, TableInv, Undisturbed
<1> QED
  BY <1>1, <1>2, <1>3, <1>4 DEF TableInv

LEMMA ClosedNext ==
  ASSUME IInv, RequestsUnique, ClosedOut, [Next]_vars
  PROVE  ClosedOut'
<1>1. CASE \E w \in Workers : Step(w)
  BY <1>1, ClosedStep
<1>2. CASE ~\E w \in Workers : Step(w)
  BY <1>2, OutsideClosed
<1> QED
  BY <1>1, <1>2

(* The client table and the files agree on who has opened and who has      *)
(* locked what, and a disconnected client holds nothing: the table loses   *)
(* an entry, or keeps one of a file that is gone, only when a worker takes *)
(* a file out of the tree, or creates it again, between the two updates of *)
(* another (openFileW, lockFileW, clientFileDel), or when a file is used   *)
(* by two workers or by a client that does not own its lock.               *)
THEOREM OnlyTheseLoseEntries ==
  Spec /\ [][\A w \in Workers : /\ ~ReleasesOthers(w) /\ ~Intrudes(w)
                                /\ ~Outruns(w) /\ ~Recreates(w)]_vars
    => []TableExact
<1> DEFINE N == \A w \in Workers : /\ ~ReleasesOthers(w) /\ ~Intrudes(w)
                                   /\ ~Outruns(w) /\ ~Recreates(w)
           I == TableInv /\ ClosedOut
<1>1. (IInv /\ IInv' /\ I) /\ [Next]_vars /\ [N]_vars => I'
  <2> SUFFICES ASSUME IInv, IInv', I, [Next]_vars, [N]_vars PROVE I'
    OBVIOUS
  <2>1. TypeOK' /\ ClosedOut'
    BY ClosedNext DEF IInv, TableInv
  <2>2. CASE N
    BY <2>1, <2>2, TableStep
  <2>3. CASE UNCHANGED vars
    BY <2>1, <2>3, TableStutters
  <2> QED
    BY <2>2, <2>3
<1>2. Init => I
  BY InitTable
<1>3. IInv /\ I => TableExact
  <2> SUFFICES ASSUME IInv, I PROVE TableExact
    OBVIOUS
  <2>1. ClosedHoldsNothing
    BY ClosedEntries DEF ClosedHoldsNothing, Live, IsOpenFor, IsLockedBy
  <2> QED
    BY <2>1, ExactTable DEF TableExact
<1> QED
  BY <1>1, <1>2, <1>3, Invariance, PTL DEF Spec

-----------------------------------------------------------------------------
(* Who waits in the queue of a file that nobody uses *)

(* Everybody in the queue waits for the lock. *)
ForLock(f) == \A i \in DOMAIN f.requestList :
                ~FileUsePermitted(f.requestList[i].client, f)
LockedOut(n) == file[n] # NULL /\ ~file[n].flagUse => ForLock(file[n])

(* Two steps leave requests in the queue that nobody will take: fakeFree   *)
(* releases a file that was marked as a victim and does not look into its  *)
(* queue (tree.c:545), and disconnectClient lifts a lock of the client,    *)
(* which others wait for, and wakes nobody (clientTable.c:251).            *)
Strands(w) == Unmark(w) /\ ~ForLock(file[LeastRecent(victims[w])])
Abandons == \E n \in Live :
  /\ ~file[n].flagUse /\ file[n].flagO_lock /\ file[n].requestList # <<>>
  /\ conn[file[n].lockOwner] # "closed" /\ conn'[file[n].lockOwner] = "closed"

SameWait(n) == file'[n] # NULL /\ ~file'[n].flagUse =>
  /\ file[n] # NULL /\ ~file[n].flagUse
  /\ file'[n].requestList = file[n].requestList
  /\ file'[n].flagO_lock <=> file[n].flagO_lock
  /\ file'[n].lockOwner = file[n].lockOwner

LEMMA StillWaits ==
  ASSUME NEW n, LockedOut(n), SameWait(n)
  PROVE  LockedOut(n)'
BY DEF LockedOut, SameWait, ForLock, FileUsePermitted

LEMMA SetWaits ==
  ASSUME TypeOK, NEW n \in Names, LockedOut(n), NEW m \in Names, NEW f,
         SetFile(m, f), f = NULL \/ f.flagUse \/ ForLock(f)
  PROVE  LockedOut(n)'
<1>1. CASE n = m
  <2>1. file'[n] = f
    BY <1>1 DEF SetFile, TypeOK
  <2> QED
    BY <2>1 DEF LockedOut, ForLock, FileUsePermitted
<1>2. CASE n # m
  <2>1. file'[n] = file[n]
    BY <1>2 DEF SetFile, TypeOK
  <2> QED
    BY <2>1, StillWaits DEF SameWait
<1> QED
  BY <1>1, <1>2

LEMMA MarkWaits ==
  ASSUME TypeOK, NEW S, \A m \in S : file[m] \in ServerFile, file' = Mark(S),
         NEW n \in Names, LockedOut(n)
  PROVE  LockedOut(n)'
<1>1. CASE n \in S
  <2>1. file[n] \in ServerFile /\ file'[n] = [file[n] EXCEPT !.flagUse = TRUE]
    BY <1>1 DEF Mark
  <2>2. file'[n].flagUse
    BY <2>1, UseChanges
  <2> QED
    BY <2>2 DEF LockedOut
<1>2. CASE n \notin S
  <2>1. file'[n] = file[n]
    BY <1>2 DEF Mark
  <2> QED
    BY <2>1, StillWaits DEF SameWait
<1> QED
  BY <1>1, <1>2

(* A request that is taken up is in no queue. *)
LEMMA NotInQueue ==
  ASSUME IInv, RequestsUnique, NEW w \in Workers, req[w] # NULL,
         NEW m \in Names, file[m] # NULL
  PROVE  \A i \in DOMAIN file[m].requestList :
           file[m].requestList[i].client # Client(w)
<1>1. PICK q \in Queues : q = <<"file", m>>
  BY FileQueue
<1>2. Queue(q) = file[m].requestList
  BY <1>1, FileQueue DEF Parking
<1> QED
  BY <1>2 DEF RequestsUnique, HeldNotParked

LEMMA ReleasedQueue ==
  ASSUME NEW f \in ServerFile
  PROVE  /\ Released(f).requestList = f.requestList /\ ~Released(f).flagUse
         /\ Released(f).flagO_lock <=> f.flagO_lock
         /\ Released(f).lockOwner = f.lockOwner
         /\ ForLock(f) => ForLock(Released(f))
<1>1. /\ Released(f).requestList = f.requestList /\ ~Released(f).flagUse
      /\ Released(f).flagO_lock <=> f.flagO_lock
      /\ Released(f).lockOwner = f.lockOwner
  BY DEF ServerFile, Released
<1>2. ForLock(f) => ForLock(Released(f))
  BY <1>1 DEF ForLock, FileUsePermitted
<1> QED
  BY <1>1, <1>2

LEMMA LockedQueue ==
  ASSUME NEW f \in ServerFile, NEW c \in Clients
  PROVE  /\ Locked(f, c).requestList = f.requestList
         /\ Locked(f, c).flagO_lock /\ Locked(f, c).lockOwner = c
BY DEF ServerFile, Locked

(* Whom the owner of a lock keeps out. *)
LEMMA OwnerWaits ==
  ASSUME IInv, RequestsUnique, NEW w \in Workers, req[w] # NULL,
         NEW m \in Names, file[m] # NULL, NEW f,
         f.requestList = file[m].requestList, f.flagO_lock,
         f.lockOwner = Client(w)
  PROVE  ForLock(f)
<1>1. \A i \in DOMAIN f.requestList : f.requestList[i].client # Client(w)
  BY NotInQueue
<1> QED
  BY <1>1 DEF ForLock, FileUsePermitted

LEMMA ForgottenHere ==
  ASSUME TypeOK, NEW w \in Workers, NEW c \in Clients, DisconnectClient(w, c),
         NEW n \in Names, n \in nodeInUse[c] \cup nodeLocked[c], file[n] # NULL
  PROVE  /\ file'[n].requestList = file[n].requestList
         /\ file'[n].flagUse <=> file[n].flagUse
         /\ file'[n].flagO_lock <=> file[n].flagO_lock /\ n \notin nodeLocked[c]
         /\ file'[n].lockOwner = file[n].lockOwner
<1>1. file[n] \in ServerFile /\ (n \in nodeLocked[c]) \in BOOLEAN
  BY DEF TypeOK
<1>2. file'[n] = Forgotten(file[n], c, n \in nodeLocked[c])
  BY DEF DisconnectClient
<1> QED
  BY <1>1, <1>2 DEF Forgotten, ServerFile

(* A disconnection that abandons nobody. *)
LEMMA DisconnectWaits ==
  ASSUME TypeOK, ClosedOut, ~Abandons, NEW w \in Workers, NEW c \in Clients,
         DisconnectClient(w, c), NEW n \in Names, Entries(n), Settled(n, c),
         LockedOut(n)
  PROVE  LockedOut(n)'
<1>1. CASE n \in nodeInUse[c] \cup nodeLocked[c] /\ file[n] # NULL
  <2>1. /\ file'[n].requestList = file[n].requestList
        /\ file'[n].flagUse <=> file[n].flagUse
        /\ file'[n].flagO_lock <=> file[n].flagO_lock /\ n \notin nodeLocked[c]
        /\ file'[n].lockOwner = file[n].lockOwner
    BY <1>1, ForgottenHere
  <2>2. CASE n \in nodeLocked[c]
    <3>1. file[n].flagO_lock /\ file[n].lockOwner = c
      BY <1>1, <2>2, SettledEntries DEF IsLockedBy
    <3>2. conn[c] # "closed" /\ conn'[c] = "closed"
      BY <2>2 DEF ClosedOut, DisconnectClient, TypeOK
    <3>3. file[n].flagUse \/ file[n].requestList = <<>>
      BY <1>1, <3>1, <3>2 DEF Abandons, Live
    <3>4. CASE file[n].flagUse
      BY <2>1, <3>4 DEF LockedOut
    <3>5. CASE file[n].requestList = <<>>
      <4>1. DOMAIN file'[n].requestList = {}
        BY <2>1, <3>5
      <4> QED
        BY <4>1 DEF LockedOut, ForLock
    <3> QED
      BY <3>3, <3>4, <3>5
  <2>3. CASE n \notin nodeLocked[c]
    BY <1>1, <2>1, <2>3, StillWaits DEF SameWait
  <2> QED
    BY <2>2, <2>3
<1>2. CASE ~(n \in nodeInUse[c] \cup nodeLocked[c] /\ file[n] # NULL)
  <2>1. file'[n] = file[n]
    BY <1>2 DEF DisconnectClient
  <2> QED
    BY <2>1, StillWaits DEF SameWait
<1> QED
  BY <1>1, <1>2

LEMMA SendWaits ==
  ASSUME TypeOK, ClosedOut, ~Abandons, NEW w \in Workers, NEW c \in Clients,
         DisconnectClient(w, c) \/ SendClientResult(w, c),
         NEW n \in Names, Entries(n), Settled(n, c), LockedOut(n)
  PROVE  LockedOut(n)'
<1>1. CASE DisconnectClient(w, c)
  BY <1>1, DisconnectWaits
<1>2. CASE UNCHANGED file
  BY <1>2, StillWaits DEF SameWait
<1> QED
  BY <1>1, <1>2 DEF SendClientResult

(* A handler works on a file in use; what it leaves in use is no concern.  *)
LEMMA HandlerWaits ==
  ASSUME TypeOK, TokenInv, NEW w \in Workers, NEW m \in Names, Handles(w, m),
         NEW g, SetFile(m, g), g.flagUse = file[m].flagUse,
         NEW n \in Names, LockedOut(n)
  PROVE  LockedOut(n)'
<1>1. file[m].flagUse
  BY DEF TokenInv, HeldInUse, Holds, InUse
<1> QED
  BY <1>1, SetWaits

-----------------------------------------------------------------------------
(* The steps of a worker keep LockedOut *)

(* openFileW releases a file that the client itself has locked; who goes   *)
(* on without its client has lost the lock as well; a lock has an owner.   *)
Owns(w)  == pc[w] = "release" /\ req[w].op # "OPEN_CREATE_LOCK"
              => node[w] \in nodeLocked[Client(w)]
Loses(w) == pc[w] = "finish" /\ req[w] = NULL => ~File(w).flagO_lock
Owned(n) ==
  file[n] # NULL /\ file[n].flagO_lock => file[n].lockOwner \in Clients

StrandInv == /\ \A w \in Workers : Owns(w) /\ Loses(w)
             /\ \A n \in Names : Owned(n) /\ LockedOut(n)

LEMMA PlainWaits ==
  ASSUME IInv, NEW w \in Workers, Step(w), ~Updates(w), ~Turns(w),
         ~Park(w), ~NextRequest(w), ~InformWrite(w),
         NEW n \in Names, LockedOut(n)
  PROVE  LockedOut(n)'
<1>1. SameFile(n)
  BY PlainFiles
<1>2. InUse(n)' <=> InUse(n)
  BY OthersKeepUse DEF SameUse
<1>3. Parking(file'[n]) = Parking(file[n])
  BY QuietStep, FileQueue DEF Updates, Turns, Quiet, SameQueues
<1>4. SameWait(n)
  BY <1>1, <1>2, <1>3 DEF SameFile, Alike, InUse, Parking, SameWait
<1> QED
  BY <1>4, StillWaits

LEMMA UntouchedWaits ==
  ASSUME NEW w \in Workers,
         \/ Opened(w) \/ FileDel(w) \/ TableLock(w) \/ ReadFile(w)
         \/ InformWrite(w),
         NEW n \in Names, LockedOut(n)
  PROVE  LockedOut(n)'
<1>1. UNCHANGED file
  BY DEF Opened, FileDel, TableLock, ReadFile, InformWrite
<1> QED
  BY <1>1, StillWaits DEF SameWait

LEMMA EndWaits ==
  ASSUME IInv, RequestsUnique, ClosedOut, ~Abandons, NEW w \in Workers,
         \/ AbsentFatal(w) \/ PayloadCut(w) \/ Reply(w)
         \/ InformReply(w) \/ InformAppend(w),
         NEW n \in Names, Entries(n), LockedOut(n)
  PROVE  LockedOut(n)'
<1>a. TypeOK
  BY DEF IInv
<1>1. \E c \in Clients : /\ DisconnectClient(w, c) \/ SendClientResult(w, c)
                         /\ Settled(n, c)
  <2>1. CASE AbsentFatal(w) \/ PayloadCut(w) \/ Reply(w)
    BY <2>1, EndingClient
  <2>2. CASE InformReply(w) \/ InformAppend(w)
    BY <2>2, InformedClient
  <2> QED
    BY <2>1, <2>2
<1> QED
  BY <1>a, <1>1, SendWaits

LEMMA HandlerStepWaits ==
  ASSUME IInv, TokenInv, NEW w \in Workers,
         OpenFile(w) \/ UnlockFile(w) \/ CloseFile(w) \/ NextRequest(w),
         NEW n \in Names, LockedOut(n)
  PROVE  LockedOut(n)'
<1> USE DEF At, Handling, Exec
<1>a. TypeOK /\ Placed
  BY DEF IInv
<1>1. pc[w] \in {"exec", "next"}
  BY DEF OpenFile, UnlockFile, CloseFile, NextRequest
<1>2. PICK m \in Names : m = node[w]
  BY <1>a, <1>1, AtWork
<1>3. Handles(w, m) /\ file[m] \in ServerFile
  <2>1. Handles(w, m)
    BY <1>1, <1>2 DEF Handles
  <2> QED
    BY <1>a, <2>1 DEF TypeOK, TokenInv, HeldInUse, Holds, InUse
<1>4. PICK f \in ServerFile : f = file[m]
  BY <1>3
<1>5. CASE OpenFile(w)
  <2>1. PICK c \in Clients : c = Client(w)
    BY <1>a, <1>5, AtWork DEF OpenFile
  <2>2. SetFile(m, [Written(f) EXCEPT !.openList = @ \cup {c}])
    BY <1>2, <1>4, <1>5, <2>1 DEF OpenFile, File
  <2>3. [Written(f) EXCEPT !.openList = @ \cup {c}].flagUse = f.flagUse
    BY FileFacts, FileUses
  <2> QED
    BY <1>a, <1>3, <1>4, <2>2, <2>3, HandlerWaits
<1>6. CASE UnlockFile(w)
  <2>1. SetFile(m, Unlocked(Written(f)))
    BY <1>2, <1>4, <1>6 DEF UnlockFile, File
  <2>2. Unlocked(Written(f)).flagUse = f.flagUse
    BY FileFacts, FileUses
  <2> QED
    BY <1>a, <1>3, <1>4, <2>1, <2>2, HandlerWaits
<1>7. CASE CloseFile(w)
  <2>1. PICK c \in Clients : c = Client(w)
    BY <1>a, <1>7, AtWork DEF CloseFile
  <2>2. PICK g : g = [Written(f) EXCEPT !.openList = @ \ {c}]
    OBVIOUS
  <2>3. g \in ServerFile /\ g.flagUse = f.flagUse
    <3>1. Written(f) \in ServerFile /\ Written(f).flagUse = f.flagUse
      BY FileFacts, FileUses
    <3>2. PICK h \in ServerFile : h = Written(f)
      BY <3>1
    <3>3. /\ [h EXCEPT !.openList = @ \ {c}] \in ServerFile
          /\ [h EXCEPT !.openList = @ \ {c}].flagUse = h.flagUse
      BY FileFacts, FileUses
    <3> QED
      BY <2>2, <3>1, <3>2, <3>3
  <2>4. SetFile(m, g) \/ SetFile(m, Unlocked(g))
    BY <1>2, <1>4, <1>7, <2>1, <2>2 DEF CloseFile, File
  <2>5. Unlocked(g).flagUse = f.flagUse
    BY <2>3, FileUses
  <2> QED
    BY <1>a, <1>3, <1>4, <2>3, <2>4, <2>5, HandlerWaits
<1>8. CASE NextRequest(w)
  <2>1. SetFile(m, [f EXCEPT !.requestList = Tail(@)])
    BY <1>2, <1>4, <1>8 DEF NextRequest, File
  <2>2. [f EXCEPT !.requestList = Tail(@)].flagUse = f.flagUse
    BY FileUses
  <2> QED
    BY <1>a, <1>3, <1>4, <2>1, <2>2, HandlerWaits
<1> QED
  BY <1>5, <1>6, <1>7, <1>8

(* tryUse parks only a request that has to wait for the lock or for a      *)
(* handler.                                                                *)
LEMMA ParkedFacts ==
  ASSUME NEW f \in ServerFile, NEW r \in Request
  PROVE  LET g == Parked(f, r)
         IN /\ g.requestList = Append(f.requestList, r)
            /\ g.flagUse <=> f.flagUse
            /\ g.flagO_lock <=> f.flagO_lock
            /\ g.lockOwner = f.lockOwner
BY DEF ServerFile, Parked

LEMMA ParkWaits ==
  ASSUME IInv, NEW w \in Workers, Park(w), \A m \in Names : LockedOut(m),
         NEW n \in Names
  PROVE  LockedOut(n)'
<1> USE DEF At, Handling
<1>a. TypeOK /\ Placed
  BY DEF IInv
<1>1. PICK m \in Names : m = node[w]
  BY <1>a, AtWork DEF Park
<1>2. PICK r \in Request : r = req[w]
  BY <1>a, AtWork DEF Park
<1>3. PICK f \in ServerFile : f = file[m] /\ f # NULL
  BY <1>a, <1>1, AtWork DEF Park, File
<1>4. PICK g : g = Parked(f, r)
  OBVIOUS
<1>5. SetFile(m, g) /\ ~Available(r.client, f)
  BY <1>1, <1>2, <1>3, <1>4 DEF Park, File, Client
<1>6. /\ g.requestList = Append(f.requestList, r)
      /\ g.flagUse <=> f.flagUse
      /\ g.flagO_lock <=> f.flagO_lock
      /\ g.lockOwner = f.lockOwner
  BY <1>4, ParkedFacts
<1>7. ASSUME ~g.flagUse PROVE ForLock(g)
  <2>1. ForLock(f) /\ ~FileUsePermitted(r.client, f)
    BY <1>3, <1>5, <1>6, <1>7 DEF LockedOut, Available
  <2>2. f.requestList \in Seq(Request)
    BY DEF ServerFile
  <2>3. ASSUME NEW i \in DOMAIN g.requestList
        PROVE  ~FileUsePermitted(g.requestList[i].client, g)
    <3>1. \/ i \in DOMAIN f.requestList /\ g.requestList[i] = f.requestList[i]
          \/ g.requestList[i] = r
      BY <1>6, <2>2
    <3> QED
      BY <1>6, <2>1, <3>1 DEF ForLock, FileUsePermitted
  <2> QED
    BY <2>3 DEF ForLock
<1> QED
  BY <1>a, <1>5, <1>7, SetWaits

LEMMA MarkedWaits ==
  ASSUME IInv, NEW w \in Workers, TryUse(w) \/ InsertExists(w) \/ MakeRoom(w),
         NEW n \in Names, LockedOut(n)
  PROVE  LockedOut(n)'
<1>a. TypeOK /\ Placed /\ FilesAccounted
  BY DEF IInv
<1>1. CASE TryUse(w)
  <2>1. PICK m \in Names : m = node[w]
    BY <1>a, <1>1, AtWork DEF TryUse, Handling, At
  <2>2. PICK f \in ServerFile : f = file[m]
    BY <1>a, <1>1, <2>1, AtWork DEF TryUse, Handling, File
  <2>3. SetFile(m, [f EXCEPT !.flagUse = TRUE])
    BY <1>1, <2>1, <2>2 DEF TryUse, File
  <2>4. [f EXCEPT !.flagUse = TRUE].flagUse = TRUE
    BY UseChanges
  <2> QED
    BY <1>a, <2>3, <2>4, SetWaits
<1>2. CASE InsertExists(w)
  <2>1. CASE ~TreeIsFull
    <3>1. UNCHANGED file
      BY <1>2, <2>1 DEF InsertExists
    <3> QED
      BY <3>1, StillWaits DEF SameWait
  <2>2. CASE TreeIsFull
    <3>1. file[ToRemove] \in ServerFile /\ file' = Mark({ToRemove})
      BY <1>a, <1>2, <2>2, ToRemoveFacts DEF InsertExists
    <3> QED
      BY <1>a, <3>1, MarkWaits
  <2> QED
    BY <2>1, <2>2
<1>3. CASE MakeRoom(w)
  <2> DEFINE S == MakeSpace(0, MissingSpace)
  <2>1. S \subseteq ToSet(lru)
    BY <1>a, MakeSpaceFacts DEF TypeOK
  <2>2. \A m \in S : file[m] \in ServerFile
    BY <1>a, <2>1 DEF TypeOK, FilesAccounted, Live
  <2>3. file' = Mark(S)
    BY <1>3 DEF MakeRoom
  <2> QED
    BY <1>a, <2>2, <2>3, MarkWaits
<1> QED
  BY <1>1, <1>2, <1>3

(* A file that is gone or new has nobody in its queue. *)
LEMMA RemovedWaits ==
  ASSUME IInv, NEW w \in Workers, InsertNew(w) \/ TreeRemove(w) \/ Evict(w),
         NEW n \in Names, LockedOut(n)
  PROVE  LockedOut(n)'
<1> USE DEF At, InTree
<1>a. TypeOK /\ Placed /\ FilesAccounted
  BY DEF IInv
<1>1. CASE InsertNew(w)
  <2>1. PICK k \in Names : k = node[w]
    BY <1>a, <1>1, AtWork DEF InsertNew, Inserting
  <2>2. PICK new : new = NewServerFile(Client(w), O_LOCK(req[w].op), k)
    OBVIOUS
  <2>3. new.requestList = <<>>
    BY <2>2 DEF NewServerFile
  <2>4. \/ SetFile(k, new)
        \/ file' = [file EXCEPT ![ToRemove] = NULL, ![k] = new]
    BY <1>1, <2>1, <2>2 DEF InsertNew
  <2>5. \/ file'[n] = new \/ file'[n] = NULL \/ file'[n] = file[n]
    BY <1>a, <2>4 DEF SetFile, TypeOK
  <2>6. CASE file'[n] = new
    <3>1. DOMAIN file'[n].requestList = {}
      BY <2>3, <2>6
    <3> QED
      BY <3>1 DEF LockedOut, ForLock
  <2>7. CASE file'[n] = NULL
    BY <2>7 DEF LockedOut
  <2>8. CASE file'[n] = file[n]
    BY <2>8, StillWaits DEF SameWait
  <2> QED
    BY <2>5, <2>6, <2>7, <2>8
<1>2. CASE TreeRemove(w)
  <2>1. PICK m \in Names : m = node[w]
    BY <1>a, <1>2, AtWork DEF TreeRemove
  <2>2. SetFile(m, NULL) \/ UNCHANGED file
    BY <1>2, <2>1 DEF TreeRemove, Detach
  <2> QED
    BY <1>a, <2>2, SetWaits, StillWaits DEF SameWait
<1>3. CASE Evict(w)
  <2>1. PICK m \in Names : m = LeastRecent(victims[w])
    BY <1>a, <1>3, VictimFacts DEF Evict
  <2>2. SetFile(m, NULL)
    BY <1>3, <2>1 DEF Evict, Detach
  <2> QED
    BY <1>a, <2>2, SetWaits
<1> QED
  BY <1>1, <1>2, <1>3

(* The steps that release a file: fakeFree, the end of the queue, ...      *)
LEMMA UnmarkWaits ==
  ASSUME IInv, NEW w \in Workers, Unmark(w) \/ NoNextRequest(w), ~Strands(w),
         NEW n \in Names, LockedOut(n)
  PROVE  LockedOut(n)'
<1>a. TypeOK /\ Placed /\ FilesAccounted
  BY DEF IInv
<1>1. CASE Unmark(w)
  <2>1. PICK m \in Names : m = LeastRecent(victims[w])
    BY <1>a, <1>1, VictimFacts DEF Unmark
  <2>2. PICK f \in ServerFile : f = file[m]
    BY <1>a, <1>1, <2>1, VictimFacts DEF Unmark
  <2>3. SetFile(m, Released(f)) /\ ForLock(f)
    BY <1>1, <2>1, <2>2 DEF Unmark, Strands
  <2> QED
    BY <1>a, <2>3, ReleasedQueue, SetWaits
<1>2. CASE NoNextRequest(w)
  <2>1. PICK m \in Names : m = node[w]
    BY <1>a, <1>2, AtWork DEF NoNextRequest, Handling, At
  <2>2. PICK f \in ServerFile : f = file[m]
    BY <1>a, <1>2, <2>1, AtWork DEF NoNextRequest, Handling, File
  <2>3. SetFile(m, Released(f)) /\ f.requestList = <<>>
    BY <1>2, <2>1, <2>2 DEF NoNextRequest, File
  <2>4. DOMAIN Released(f).requestList = {}
    BY <2>3, ReleasedQueue
  <2>5. ForLock(Released(f))
    BY <2>4 DEF ForLock
  <2> QED
    BY <1>a, <2>3, <2>5, SetWaits
<1> QED
  BY <1>1, <1>2

(* ... a lock that is taken, ...                                           *)
LEMMA LockedWaits ==
  ASSUME IInv, RequestsUnique, NEW w \in Workers, SetLock(w) \/ LockFile(w),
         NEW n \in Names, LockedOut(n)
  PROVE  LockedOut(n)'
<1> USE DEF At, Handling, Exec
<1>a. TypeOK /\ Placed
  BY DEF IInv
<1>1. pc[w] \in {"setlock", "exec"} /\ File(w) # NULL
  BY DEF SetLock, LockFile
<1>2. PICK m \in Names : m = node[w]
  BY <1>a, <1>1, AtWork
<1>3. PICK f \in ServerFile : f = file[m]
  BY <1>a, <1>1, <1>2, AtWork DEF File
<1>4. PICK c \in Clients : c = Client(w) /\ req[w] # NULL
  BY <1>a, <1>1, AtWork, NULLAssumption
<1>5. PICK g : g = Locked(f, c)
  OBVIOUS
<1>6. SetFile(m, g)
  BY <1>2, <1>3, <1>4, <1>5 DEF SetLock, LockFile, File
<1>7. g.requestList = f.requestList /\ g.flagO_lock /\ g.lockOwner = c
  BY <1>5, LockedQueue
<1>8. ForLock(g)
  BY <1>1, <1>2, <1>3, <1>4, <1>7, OwnerWaits DEF File
<1> QED
  BY <1>a, <1>6, <1>8, SetWaits

(* ... openFileW and writeFileW on a file that is locked.                  *)
LEMMA ReleaseWaits ==
  ASSUME IInv, TableInv, NEW w \in Workers, Release(w), ~ReleasesOthers(w),
         Owns(w), \A m \in Names : LockedOut(m), NEW n \in Names
  PROVE  LockedOut(n)'
<1> USE DEF At, Handling
<1>a. TypeOK /\ Placed /\ TokenInv /\ RequestsUnique
  BY DEF IInv, TableInv
<1>1. pc[w] = "release" /\ File(w) # NULL
  BY DEF Release
<1>2. PICK m \in Names : m = node[w]
  BY <1>a, <1>1, AtWork
<1>3. PICK f \in ServerFile : f = file[m]
  BY <1>a, <1>1, <1>2, AtWork DEF File
<1>4. PICK c \in Clients : c = Client(w) /\ req[w] # NULL
  BY <1>a, <1>1, AtWork, NULLAssumption
<1>5. SetFile(m, Released(f))
  BY <1>2, <1>3 DEF Release, File
<1>6. CASE req[w].op = "OPEN_CREATE_LOCK"
  <2>1. ~f.flagUse
    BY <1>2, <1>3, <1>6 DEF ReleasesOthers, File
  <2>2. ForLock(f)
    BY <1>1, <1>2, <1>3, <2>1 DEF LockedOut, File
  <2> QED
    BY <1>a, <1>5, <2>2, ReleasedQueue, SetWaits
<1>7. CASE req[w].op # "OPEN_CREATE_LOCK"
  <2>1. m \in nodeLocked[c] /\ file[m] # NULL
    BY <1>1, <1>2, <1>3, <1>4, <1>7 DEF Owns, File
  <2>2. Handles(w, m)
    BY <1>1, <1>2, <1>7 DEF Handles
  <2>3. \A v \in Workers : ~Removing(v, m) /\ ~Claiming(v, m)
    <3>1. ASSUME NEW v \in Workers, Removing(v, m) PROVE FALSE
      BY <2>1, <3>1 DEF TableInv, Entries, OldEntry
    <3>2. ASSUME NEW v \in Workers, Claiming(v, m) PROVE FALSE
      <4>1. Handles(v, m)
        BY <3>2 DEF Claiming, Handles
      <4>2. v = w
        BY <1>a, <2>2, <4>1 DEF TokenInv, OneHolder, Holds
      <4> QED
        BY <1>1, <3>2, <4>2 DEF Claiming
    <3> QED
      BY <3>1, <3>2
  <2>4. IsLockedBy(m, c)
    BY <2>1, <2>3 DEF TableInv, Entries, LockEntry
  <2>5. ForLock(f)
    BY <1>a, <1>3, <1>4, <2>1, <2>4, OwnerWaits DEF IsLockedBy
  <2> QED
    BY <1>a, <1>5, <2>5, ReleasedQueue, SetWaits
<1> QED
  BY <1>6, <1>7

LEMMA FinishWaits ==
  ASSUME IInv, TableInv, NEW w \in Workers, Finish(w), Loses(w),
         NEW n \in Names, LockedOut(n)
  PROVE  LockedOut(n)'
<1> USE DEF At, Handling
<1>a. TypeOK /\ Placed /\ TokenInv /\ RequestsUnique
  BY DEF IInv, TableInv
<1>1. pc[w] = "finish" /\ File(w) # NULL
  BY DEF Finish
<1>2. PICK m \in Names : m = node[w]
  BY <1>a, <1>1, AtWork
<1>3. PICK f \in ServerFile : f = file[m]
  BY <1>a, <1>1, <1>2, AtWork DEF File
<1>4. CASE ~f.flagO_lock
  <2>1. SetFile(m, f)
    BY <1>2, <1>3, <1>4 DEF Finish, GivesUp, File
  <2>2. UNCHANGED file
    BY <1>a, <1>3, <2>1 DEF SetFile, TypeOK
  <2> QED
    BY <2>2, StillWaits DEF SameWait
<1>5. CASE f.flagO_lock
  <2>1. SetFile(m, Released(f))
    BY <1>2, <1>3, <1>5 DEF Finish, GivesUp, File
  <2>2. req[w] # NULL
    BY <1>1, <1>2, <1>3, <1>5 DEF Loses, File
  <2>3. Handles(w, m)
    BY <1>1, <1>2 DEF Handles
  <2>4. f.lockOwner = Client(w)
    BY <1>1, <1>2, <1>3, <1>5, <2>2, <2>3
       DEF TableInv, HandlersPermitted, FileUsePermitted, File
  <2>5. ForLock(f)
    BY <1>a, <1>1, <1>2, <1>3, <1>5, <2>2, <2>4, OwnerWaits DEF File
  <2> QED
    BY <1>a, <2>1, <2>5, ReleasedQueue, SetWaits
<1> QED
  BY <1>4, <1>5

LEMMA WaitsStep ==
  ASSUME IInv, TableInv, ClosedOut, StrandInv, NEW w \in Workers, Step(w),
         ~ReleasesOthers(w), ~Strands(w), ~Abandons, NEW n \in Names
  PROVE  LockedOut(n)'
<1>a. /\ TokenInv /\ RequestsUnique /\ Entries(n) /\ Owns(w) /\ Loses(w)
      /\ LockedOut(n) /\ \A m \in Names : LockedOut(m)
  BY DEF TableInv, StrandInv
<1>1. CASE \/ Opened(w) \/ FileDel(w) \/ TableLock(w) \/ ReadFile(w)
           \/ InformWrite(w)
  BY <1>a, <1>1, UntouchedWaits
<1>2. CASE \/ AbsentFatal(w) \/ PayloadCut(w) \/ Reply(w)
           \/ InformReply(w) \/ InformAppend(w)
  BY <1>a, <1>2, EndWaits
<1>3. CASE OpenFile(w) \/ UnlockFile(w) \/ CloseFile(w) \/ NextRequest(w)
  BY <1>a, <1>3, HandlerStepWaits
<1>4. CASE Park(w)
  BY <1>a, <1>4, ParkWaits
<1>5. CASE TryUse(w) \/ InsertExists(w) \/ MakeRoom(w)
  BY <1>a, <1>5, MarkedWaits
<1>6. CASE InsertNew(w) \/ TreeRemove(w) \/ Evict(w)
  BY <1>a, <1>6, RemovedWaits
<1>7. CASE Unmark(w) \/ NoNextRequest(w)
  BY <1>a, <1>7, UnmarkWaits
<1>8. CASE SetLock(w) \/ LockFile(w)
  BY <1>a, <1>8, LockedWaits
<1>9. CASE Release(w)
  BY <1>a, <1>9, ReleaseWaits
<1>10. CASE Finish(w)
  BY <1>a, <1>10, FinishWaits
<1>11. CASE /\ ~Updates(w) /\ ~Turns(w) /\ ~Park(w) /\ ~NextRequest(w)
            /\ ~InformWrite(w)
  BY <1>a, <1>11, PlainWaits
<1> QED
  BY <1>1, <1>2, <1>3, <1>4, <1>5, <1>6, <1>7, <1>8, <1>9, <1>10, <1>11
     DEF Updates, Turns

-----------------------------------------------------------------------------
(* What the invariant says of openFileW and of a payload that was cut *)

(* The steps that lead to these two places. *)
LEMMA ComesToEnd ==
  ASSUME IInv, NEW w \in Workers, Step(w), pc'[w] \in {"release", "finish"}
  PROVE  \/ pc'[w] = "release" /\ (OpenFile(w) \/ Opened(w))
         \/ /\ pc'[w] = "finish"
            /\ PayloadCut(w) \/ Discard(w) \/ RoomEnough(w) \/ Evicted(w)
         \/ UNCHANGED <<file, tableVars, jobVars, pc>>
<1> USE DEF Goto, ReplyThen, Done, At, Handling, Exec
<1>a. TypeOK /\ WellPlaced(w)
  BY DEF IInv, Placed
<1>1. CASE Find(w)
  BY <1>a, <1>1 DEF TypeOK, Find, InTree
<1>2. CASE AbsentError(w)
  BY <1>a, <1>2 DEF TypeOK, AbsentError
<1>3. CASE AbsentFatal(w)
  BY <1>a, <1>3 DEF TypeOK, AbsentFatal
<1>4. CASE TryUse(w)
  BY <1>a, <1>4 DEF TypeOK, TryUse
<1>5. CASE Park(w)
  BY <1>a, <1>5 DEF TypeOK, Park
<1>6. CASE InsertNew(w)
  BY <1>a, <1>6 DEF TypeOK, InsertNew, Inserting, InTree
<1>7. CASE InsertExists(w)
  BY <1>a, <1>7 DEF TypeOK, InsertExists, Inserting, InTree
<1>8. CASE InsertNoMemory(w)
  BY <1>a, <1>8 DEF TypeOK, InsertNoMemory, Inserting, InTree
<1>9. CASE Release(w)
  BY <1>a, <1>9 DEF TypeOK, Release
<1>10. CASE FileDel(w)
  BY <1>a, <1>10 DEF TypeOK, FileDel
<1>11. CASE InformReply(w)
  BY <1>a, <1>11 DEF TypeOK, InformReply, Informing
<1>12. CASE InformAppend(w)
  BY <1>a, <1>12 DEF TypeOK, InformAppend, Informing
<1>13. CASE InformWrite(w)
  BY <1>a, <1>13 DEF TypeOK, InformWrite, Informing
<1>14. CASE InformDone(w)
  BY <1>a, <1>14 DEF TypeOK, InformDone
<1>15. CASE Refuse(w)
  BY <1>a, <1>15 DEF TypeOK, Refuse, Refused
<1>16. CASE SetLock(w)
  BY <1>a, <1>16 DEF TypeOK, SetLock
<1>17. CASE ReadFile(w)
  BY <1>a, <1>17 DEF TypeOK, ReadFile
<1>18. CASE LockFile(w)
  BY <1>a, <1>18 DEF TypeOK, LockFile
<1>19. CASE TableLock(w)
  BY <1>a, <1>19 DEF TypeOK, TableLock
<1>20. CASE UnlockFile(w)
  BY <1>a, <1>20 DEF TypeOK, UnlockFile
<1>21. CASE CloseFile(w)
  BY <1>a, <1>21 DEF TypeOK, CloseFile
<1>22. CASE RemoveFile(w)
  BY <1>a, <1>22 DEF TypeOK, RemoveFile
<1>23. CASE TreeRemove(w)
  BY <1>a, <1>23 DEF TypeOK, TreeRemove, InTree, Detach
<1>24. CASE WriteFile(w)
  BY <1>a, <1>24 DEF TypeOK, WriteFile
<1>25. CASE AppendToFile(w)
  BY <1>a, <1>25 DEF TypeOK, AppendToFile
<1>26. CASE Payload(w)
  BY <1>a, <1>26 DEF TypeOK, Payload
<1>27. CASE MakeRoom(w)
  BY <1>a, <1>27 DEF TypeOK, MakeRoom, InTree
<1>28. CASE Unmark(w)
  BY <1>a, <1>28 DEF TypeOK, Unmark
<1>29. CASE NoRoom(w)
  BY <1>a, <1>29 DEF TypeOK, NoRoom
<1>30. CASE Evict(w)
  BY <1>a, <1>30 DEF TypeOK, Evict, Detach
<1>31. CASE Finish(w)
  BY <1>a, <1>31 DEF TypeOK, Finish
<1>32. CASE Reply(w)
  BY <1>a, <1>32 DEF TypeOK, Reply, WellPlaced
<1>33. CASE ReadNFiles(w)
  BY <1>a, <1>33 DEF TypeOK, ReadNFiles, InTree
<1>34. CASE NextRequest(w)
  BY <1>a, <1>34 DEF TypeOK, NextRequest
<1>35. CASE NoNextRequest(w)
  BY <1>a, <1>35 DEF TypeOK, NoNextRequest
<1>36. CASE Touch(w)
  BY <1>a, <1>36 DEF TypeOK, Touch, InTree
<1>37. CASE HoldTree(w) \/ Crash(w)
  BY <1>37 DEF HoldTree, Crash
<1>38. CASE OpenFile(w) \/ Opened(w)
  BY <1>a, <1>38 DEF TypeOK, OpenFile, Opened
<1>39. CASE PayloadCut(w) \/ Discard(w) \/ RoomEnough(w) \/ Evicted(w)
  BY <1>a, <1>39 DEF TypeOK, PayloadCut, Discard, RoomEnough, Evicted, Store,
     InTree
<1> QED
  BY <1>1, <1>2, <1>3, <1>4, <1>5, <1>6, <1>7, <1>8, <1>9, <1>10, <1>11,
     <1>12, <1>13, <1>14, <1>15, <1>16, <1>17, <1>18, <1>19, <1>20, <1>21,
     <1>22, <1>23, <1>24, <1>25, <1>26, <1>27, <1>28, <1>29, <1>30, <1>31,
     <1>32, <1>33, <1>34, <1>35, <1>36, <1>37, <1>38, <1>39
     DEF Step

(* The entry of a lock goes away only with its file, or by the client's    *)
(* own request or end.                                                     *)
LEMMA LockedStays ==
  ASSUME IInv, TableInv, NEW v \in Workers, Step(v), NEW w \in Workers, v # w,
         req[w] # NULL, NEW c \in Clients, c = Client(w),
         NEW m \in Names, m \in nodeLocked[c], file[m] # NULL
  PROVE  m \in nodeLocked'[c]
<1> USE DEF treeVars, tableVars, clientVars, jobVars, evictVars, lockVars,
            At, Handling, Exec
<1>a. TypeOK /\ Placed /\ RequestsUnique
  BY DEF IInv, TableInv
<1>b. ASSUME NEW d \in Clients, d # c,
             DisconnectClient(v, d) \/ SendClientResult(v, d)
      PROVE  m \in nodeLocked'[c]
  <2>1. \/ nodeLocked' = [nodeLocked EXCEPT ![d] = {}]
        \/ UNCHANGED nodeLocked
    BY <1>b DEF DisconnectClient, SendClientResult
  <2> QED
    BY <1>a, <1>b, <2>1 DEF TypeOK
<1>c. req[v] # NULL => Client(v) # c
  BY <1>a DEF RequestsUnique, HeldOnce
<1>1. CASE AbsentFatal(v) \/ PayloadCut(v) \/ Reply(v)
  <2>1. /\ Client(v) \in Clients /\ req[v] # NULL
        /\ DisconnectClient(v, Client(v)) \/ SendClientResult(v, Client(v))
    BY <1>a, <1>1, EndingClient
  <2> QED
    BY <1>b, <1>c, <2>1
<1>2. CASE InformReply(v) \/ InformAppend(v)
  <2>1. PICK d \in Clients : /\ DisconnectClient(v, d) \/ SendClientResult(v, d)
                             /\ \A u \in Workers :
                                  req[u] # NULL => Client(u) # d
    BY <1>a, <1>2, InformedClient
  <2> QED
    BY <1>b, <2>1
<1>3. CASE \/ InsertNew(v) \/ TreeRemove(v) \/ Evict(v) \/ SetLock(v)
           \/ LockFile(v)
  BY <1>3 DEF InsertNew, TreeRemove, Evict, SetLock, LockFile
<1>4. CASE Opened(v) \/ OpenFile(v) \/ TableLock(v)
  <2>1. \/ \E S : nodeLocked' = [nodeLocked EXCEPT ![Client(v)] = @ \cup S]
        \/ UNCHANGED nodeLocked
    BY <1>4 DEF Opened, OpenFile, TableLock, TableOpen
  <2> QED
    BY <1>a, <2>1 DEF TypeOK
<1>5. CASE UnlockFile(v) \/ CloseFile(v)
  <2>1. Client(v) # c
    BY <1>a, <1>c, <1>5, AtWork, NULLAssumption DEF UnlockFile, CloseFile
  <2>2. \/ \E S : nodeLocked' = [nodeLocked EXCEPT ![Client(v)] = @ \ S]
        \/ UNCHANGED nodeLocked
    BY <1>5 DEF UnlockFile, CloseFile
  <2> QED
    BY <1>a, <2>1, <2>2 DEF TypeOK
<1>6. CASE FileDel(v)
  <2>1. dead[v].namePath # m
    BY <1>6 DEF FileDel, Removing, TableInv, Entries, OldEntry
  <2> QED
    BY <1>a, <1>6, <2>1 DEF FileDel, TableForget, TypeOK
<1>7. CASE ~Updates(v)
  BY <1>7, PlainFiles
<1> QED
  BY <1>1, <1>2, <1>3, <1>4, <1>5, <1>6, <1>7 DEF Updates

LEMMA OwnsStep ==
  ASSUME IInv, TableInv, NEW w \in Workers, Step(w),
         NEW v \in Workers, Owns(v)
  PROVE  Owns(v)'
<1> USE DEF At, Handling, Exec
<1>a. TypeOK /\ Placed /\ TokenInv
  BY DEF IInv, TableInv
<1> SUFFICES ASSUME pc'[v] = "release", req'[v].op # "OPEN_CREATE_LOCK"
             PROVE  node'[v] \in nodeLocked'[req'[v].client]
  BY DEF Owns, Client
<1>1. CASE v # w
  <2>1. pc'[v] = pc[v] /\ node'[v] = node[v] /\ req'[v] = req[v]
    BY <1>1, OthersKept
  <2>2. PICK m \in Names : m = node[v]
    BY <1>a, <2>1, AtWork
  <2>3. PICK c \in Clients : c = Client(v) /\ req[v] # NULL
    BY <1>a, <2>1, AtWork, NULLAssumption
  <2>4. m \in nodeLocked[c]
    BY <2>1, <2>2, <2>3 DEF Owns
  <2>5. file[m] # NULL
    <3>1. Handles(v, m)
      BY <2>1, <2>2 DEF Handles
    <3> QED
      BY <1>a, <3>1 DEF TokenInv, HeldInUse, Holds, InUse
  <2> QED
    BY <1>1, <2>1, <2>2, <2>3, <2>4, <2>5, LockedStays DEF Client
<1>2. CASE v = w
  <2>1. OpenFile(w) \/ Opened(w) \/ UNCHANGED <<file, tableVars, jobVars, pc>>
    <3>1. pc'[w] = "release"
      BY <1>2
    <3> QED
      BY <3>1, ComesToEnd
  <2>2. CASE UNCHANGED <<file, tableVars, jobVars, pc>>
    BY <1>2, <2>2 DEF Owns, Client, tableVars, jobVars
  <2>3. CASE OpenFile(w) \/ Opened(w)
    <3>1. PICK m \in Names : m = node[w]
      BY <1>a, <2>3, AtWork DEF OpenFile, Opened
    <3>2. PICK c \in Clients : c = Client(w)
      BY <1>a, <2>3, AtWork DEF OpenFile, Opened
    <3>3. UNCHANGED <<node, req>>
      BY <2>3 DEF OpenFile, Opened, jobVars
    <3>4. \E lock : TableOpen(c, m, lock) /\ lock
      <4>1. CASE Opened(w)
        BY <1>a, <1>2, <3>1, <3>2, <4>1 DEF Opened, ReplyThen, Goto, TypeOK
      <4>2. CASE OpenFile(w)
        <5>1. TableOpen(c, m, O_LOCK(req[w].op) \/ File(w).flagO_lock)
          BY <3>1, <3>2, <4>2 DEF OpenFile
        <5>2. File(w).flagO_lock
          BY <1>a, <1>2, <4>2 DEF OpenFile, ReplyThen, Goto, TypeOK
        <5> QED
          BY <5>1, <5>2
      <4> QED
        BY <2>3, <4>1, <4>2
    <3>5. m \in nodeLocked'[c]
      BY <1>a, <3>4 DEF TableOpen, TypeOK
    <3> QED
      BY <1>2, <3>1, <3>2, <3>3, <3>5 DEF Client
  <2> QED
    BY <2>1, <2>2, <2>3
<1> QED
  BY <1>1, <1>2

(* A payload is cut: the end of the client lifts its lock.                 *)
LEMMA CutLosesLock ==
  ASSUME IInv, TableInv, NEW w \in Workers, PayloadCut(w), pc[w] = "discard"
  PROVE  ~file'[node[w]].flagO_lock
<1>a. TypeOK /\ Placed /\ RequestsUnique /\ TokenInv
  BY DEF IInv, TableInv
<1>1. PICK m \in Names : m = node[w]
  BY <1>a, AtWork
<1>2. PICK c \in Clients : c = Client(w) /\ req[w] # NULL
  BY <1>a, AtWork, NULLAssumption
<1>3. DisconnectClient(w, c) /\ Settled(m, c)
  BY <1>a, <1>1, <1>2, EndingClient DEF PayloadCut
<1>4. Handles(w, m)
  BY <1>1 DEF Handles
<1>5. file[m] # NULL /\ FileUsePermitted(c, file[m])
  BY <1>a, <1>2, <1>4 DEF TokenInv, HeldInUse, Holds, InUse, TableInv,
     HandlersPermitted
<1>6. file'[m] # NULL /\ ~IsLockedBy(m, c)'
  BY <1>a, <1>3, <1>5, DisconnectViews DEF TableInv
<1>7. Looser(file'[m], file[m])
  BY <1>a, <1>3, <1>6, DisconnectLocks DEF NoNewLock
<1> QED
  BY <1>1, <1>5, <1>6, <1>7 DEF Looser, FileUsePermitted, IsLockedBy

LEMMA LosesStep ==
  ASSUME IInv, TableInv, TokenInv', NEW w \in Workers, Step(w),
         NEW v \in Workers, Loses(v)
  PROVE  Loses(v)'
<1> USE DEF At, Handling
<1>a. TypeOK /\ Placed /\ TokenInv
  BY DEF IInv, TableInv
<1> SUFFICES ASSUME pc'[v] = "finish", req'[v] = NULL
             PROVE  ~file'[node'[v]].flagO_lock
  BY DEF Loses, File
<1>1. CASE v # w
  <2>1. pc'[v] = pc[v] /\ node'[v] = node[v] /\ req'[v] = req[v]
    BY <1>1, OthersKept
  <2>2. PICK m \in Names : m = node[v]
    BY <1>a, <2>1, AtWork
  <2>3. Handles(v, m) /\ Handles(v, m)'
    BY <2>1, <2>2 DEF Handles
  <2>4. file[m] # NULL /\ file'[m] # NULL
    BY <1>a, <2>3 DEF TokenInv, HeldInUse, Holds, InUse
  <2>5. ~file[m].flagO_lock
    BY <2>1, <2>2 DEF Loses, File
  <2>6. \A c : FileUsePermitted(c, file[m])
    BY <2>5 DEF FileUsePermitted
  <2>7. FileUsePermitted(0, file'[m]) /\ FileUsePermitted(1, file'[m])
    BY <1>1, <1>a, <2>3, <2>4, <2>6, LockIsHandlers
  <2> QED
    BY <2>1, <2>2, <2>7 DEF FileUsePermitted
<1>2. CASE v = w
  <2>1. \/ PayloadCut(w) \/ Discard(w) \/ RoomEnough(w) \/ Evicted(w)
        \/ UNCHANGED <<file, tableVars, jobVars, pc>>
    BY <1>2, ComesToEnd
  <2>2. CASE UNCHANGED <<file, tableVars, jobVars, pc>>
    BY <1>2, <2>2 DEF Loses, File, jobVars
  <2>3. CASE Discard(w) \/ RoomEnough(w) \/ Evicted(w)
    <3>1. /\ pc[w] \in {"discard", "room", "evict"} /\ req' = req
      BY <2>3 DEF Discard, RoomEnough, Evicted, Store, InTree, jobVars
    <3> QED
      BY <1>2, <1>a, <3>1, AtWork, NULLAssumption
  <2>4. CASE PayloadCut(w)
    <3>1. pc[w] = "discard" /\ node' = node
      BY <1>2, <1>a, <2>4 DEF PayloadCut, Goto, TypeOK
    <3> QED
      BY <1>2, <2>4, <3>1, CutLosesLock
  <2> QED
    BY <2>1, <2>2, <2>3, <2>4
<1> QED
  BY <1>1, <1>2

LEMMA OwnedStep ==
  ASSUME IInv, NEW w \in Workers, Step(w), NEW n \in Names, Owned(n)
  PROVE  Owned(n)'
<1> USE DEF At, Handling, Exec
<1>a. TypeOK /\ Placed
  BY DEF IInv
<1>1. CASE ~InsertNew(w) /\ ~SetLock(w) /\ ~LockFile(w)
  BY <1>1, LocksStep DEF NoNewLock, Looser, Owned
<1>2. ASSUME NEW g, file'[n] \in {file[n], g, NULL},
             g.flagO_lock => g.lockOwner \in Clients
      PROVE  Owned(n)'
  BY <1>2 DEF Owned
<1>3. CASE InsertNew(w)
  <2>1. PICK k \in Names : k = node[w]
    BY <1>a, <1>3, AtWork DEF InsertNew, Inserting, InTree
  <2>2. PICK c \in Clients : c = Client(w)
    BY <1>a, <1>3, AtWork DEF InsertNew, Inserting, InTree
  <2>3. O_LOCK(req[w].op) \in BOOLEAN
    BY DEF O_LOCK
  <2>4. PICK new : new = NewServerFile(c, O_LOCK(req[w].op), k)
    OBVIOUS
  <2>5. \/ SetFile(k, new)
        \/ file' = [file EXCEPT ![ToRemove] = NULL, ![k] = new]
    BY <1>3, <2>1, <2>2, <2>4 DEF InsertNew
  <2>6. file'[n] \in {file[n], new, NULL}
    BY <1>a, <2>5 DEF SetFile, TypeOK
  <2>7. new.flagO_lock => new.lockOwner \in Clients
    BY <2>3, <2>4, NewFileFacts
  <2> QED
    BY <1>2, <2>6, <2>7
<1>4. CASE SetLock(w) \/ LockFile(w)
  <2>1. PICK m \in Names : m = node[w]
    BY <1>a, <1>4, AtWork DEF SetLock, LockFile
  <2>2. PICK f \in ServerFile : f = file[m]
    BY <1>a, <1>4, <2>1, AtWork DEF SetLock, LockFile, File
  <2>3. PICK c \in Clients : c = Client(w)
    BY <1>a, <1>4, AtWork DEF SetLock, LockFile
  <2>4. PICK g : g = Locked(f, c)
    OBVIOUS
  <2>5. SetFile(m, g)
    BY <1>4, <2>1, <2>2, <2>3, <2>4 DEF SetLock, LockFile, File
  <2>6. g.lockOwner \in Clients
    BY <2>4, LockedQueue
  <2>7. file'[n] \in {file[n], g, NULL}
    BY <1>a, <2>5 DEF SetFile, TypeOK
  <2> QED
    BY <1>2, <2>6, <2>7
<1> QED
  BY <1>1, <1>3, <1>4

LEMMA StrandStep ==
  ASSUME IInv, TableInv, ClosedOut, TokenInv', StrandInv,
         NEW w \in Workers, Step(w),
         ~ReleasesOthers(w), ~Strands(w), ~Abandons
  PROVE  StrandInv'
<1>1. \A v \in Workers : Owns(v)' /\ Loses(v)'
  BY OwnsStep, LosesStep DEF StrandInv
<1>2. \A n \in Names : Owned(n)'
  BY OwnedStep DEF StrandInv
<1>3. \A n \in Names : LockedOut(n)'
  BY WaitsStep
<1> QED
  BY <1>1, <1>2, <1>3 DEF StrandInv

-----------------------------------------------------------------------------
(* Nobody waits for nothing *)

(* Who has a request at work keeps its locks when another client leaves. *)
LEMMA LeavingStrand ==
  ASSUME IInv, TableInv, ClosedOut, StrandInv, ~Abandons,
         NEW w \in Workers, NEW c \in Clients, TakeEOF(w, c)
  PROVE  StrandInv'
<1>a. TypeOK /\ Placed /\ TokenInv /\ DisconnectClient(w, c)
  BY DEF IInv, TableInv, TakeEOF
<1>b. UNCHANGED <<pc, node, req>> /\ conn[c] = "listening"
  BY DEF TakeEOF, jobVars
<1>c. \A v \in Workers : req[v] # NULL => Client(v) # c
  BY <1>b DEF TableInv, RequestsUnique, PendingIsServed
<1>d. NoNewLock
  BY <1>a, DisconnectLocks
<1>1. ASSUME NEW v \in Workers PROVE Owns(v)'
  <2> SUFFICES ASSUME pc[v] = "release", req[v].op # "OPEN_CREATE_LOCK"
               PROVE  node[v] \in nodeLocked'[req[v].client]
    BY <1>b DEF Owns, Client
  <2>1. PICK d \in Clients : d = Client(v) /\ req[v] # NULL
    BY <1>a, AtWork, NULLAssumption
  <2>2. nodeLocked'[d] = nodeLocked[d]
    BY <1>a, <1>c, <2>1 DEF DisconnectClient, TypeOK
  <2> QED
    BY <2>1, <2>2 DEF StrandInv, Owns, Client
<1>2. ASSUME NEW v \in Workers PROVE Loses(v)'
  <2> SUFFICES ASSUME pc[v] = "finish", req[v] = NULL
               PROVE  ~file'[node[v]].flagO_lock
    BY <1>b DEF Loses, File
  <2>1. PICK m \in Names : m = node[v]
    BY <1>a, AtWork
  <2>2. Handles(v, m)
    BY <2>1 DEF Handles
  <2>3. file[m] # NULL /\ file'[m] # NULL
    BY <1>a, <2>2, DisconnectFacts DEF TokenInv, HeldInUse, Holds, InUse
  <2>4. ~file[m].flagO_lock
    BY <2>1 DEF StrandInv, Loses, File
  <2> QED
    BY <1>d, <2>1, <2>3, <2>4 DEF NoNewLock, Looser
<1>3. ASSUME NEW n \in Names PROVE Owned(n)'
  BY <1>d DEF NoNewLock, Looser, StrandInv, Owned
<1>4. ASSUME NEW n \in Names PROVE LockedOut(n)'
  <2>1. Settled(n, c)
    BY <1>a, <1>c, SettledByRequest
  <2> QED
    BY <1>a, <2>1, DisconnectWaits DEF TableInv, StrandInv
<1> QED
  BY <1>1, <1>2, <1>3, <1>4 DEF StrandInv

(* A job that is neither at openFileW's release nor at writeFileW's end. *)
LEMMA ElsewhereStrand ==
  ASSUME StrandInv, UNCHANGED <<file, nodeLocked>>,
         \A v \in Workers : \/ pc'[v] \notin {"release", "finish"}
                            \/ /\ pc'[v] = pc[v] /\ node'[v] = node[v]
                               /\ req'[v] = req[v]
  PROVE  StrandInv'
<1>1. ASSUME NEW v \in Workers PROVE Owns(v)' /\ Loses(v)'
  BY DEF StrandInv, Owns, Loses, Client, File
<1>2. ASSUME NEW n \in Names PROVE Owned(n)' /\ LockedOut(n)'
  BY StillWaits DEF StrandInv, Owned, SameWait
<1> QED
  BY <1>1, <1>2 DEF StrandInv

LEMMA OutsideStrand ==
  ASSUME IInv, TableInv, ClosedOut, StrandInv, [Next]_vars,
         ~\E w \in Workers : Step(w), ~Abandons
  PROVE  StrandInv'
<1> USE DEF treeVars, tableVars, clientVars, jobVars, evictVars, lockVars
<1>a. TypeOK
  BY DEF IInv
<1>1. CASE UNCHANGED vars
  BY <1>1, ElsewhereStrand DEF vars
<1>2. ASSUME NEW c \in Clients, Die(c) PROVE StrandInv'
  BY <1>2, ElsewhereStrand DEF Die
<1>3. ASSUME NEW w \in Workers, NEW c \in Clients, NEW op \in OpKinds,
             NEW n \in Names, Take(w, c, op, n)
      PROVE  StrandInv'
  <2>1. /\ pc'[w] \in {"readn", "find"} /\ UNCHANGED <<file, nodeLocked>>
        /\ \A v \in Workers : v # w => /\ pc'[v] = pc[v] /\ node'[v] = node[v]
                                       /\ req'[v] = req[v]
    BY <1>a, <1>3 DEF Take, Goto, TypeOK
  <2> QED
    BY <2>1, ElsewhereStrand
<1>4. ASSUME NEW w \in Workers, NEW c \in Clients, TakeEOF(w, c)
      PROVE  StrandInv'
  BY <1>4, LeavingStrand
<1> QED
  BY <1>1, <1>2, <1>3, <1>4 DEF Next

LEMMA InitStrand == Init => StrandInv
BY DEF Init, StrandInv, Owns, Loses, Owned, LockedOut

LEMMA StrandWaits ==
  ASSUME IInv, TableInv, ClosedOut, StrandInv
  PROVE  WaitsForOwner
<1> SUFFICES ASSUME NEW n \in Live, NEW i \in DOMAIN file[n].requestList,
                    ~file[n].flagUse
             PROVE  /\ file[n].flagO_lock
                    /\ file[n].lockOwner # file[n].requestList[i].client
                    /\ conn[file[n].lockOwner] # "closed"
  BY DEF WaitsForOwner
<1>1. n \in Names /\ file[n] # NULL
  BY DEF Live
<1>2. /\ file[n].flagO_lock
      /\ file[n].lockOwner # file[n].requestList[i].client
  BY <1>1 DEF StrandInv, LockedOut, ForLock, FileUsePermitted
<1>3. PICK c \in Clients : c = file[n].lockOwner
  BY <1>1, <1>2 DEF StrandInv, Owned
<1>4. IsLockedBy(n, c)
  BY <1>1, <1>2, <1>3 DEF IsLockedBy
<1>5. conn[c] # "closed"
  BY <1>1, <1>4, ClosedEntries
<1> QED
  BY <1>2, <1>3, <1>5

(* A request in the queue of a file that no worker uses waits for the lock *)
(* of another, connected client, so that the queue is looked at again: a   *)
(* request is left behind only when fakeFree releases a file somebody      *)
(* waits for (tree.c:545) or disconnectClient lifts the lock others wait   *)
(* for (clientTable.c:251), or after a step that makes the table or the    *)
(* file's use wrong (OnlyTheseLoseEntries).                                *)
THEOREM OnlyTheseStrand ==
  Spec /\ [][/\ \A w \in Workers : /\ ~ReleasesOthers(w) /\ ~Intrudes(w)
                                   /\ ~Outruns(w) /\ ~Recreates(w)
                                   /\ ~Strands(w)
             /\ ~Abandons]_vars
    => []WaitsForOwner
<1> DEFINE N == /\ \A w \in Workers : /\ ~ReleasesOthers(w) /\ ~Intrudes(w)
                                      /\ ~Outruns(w) /\ ~Recreates(w)
                                      /\ ~Strands(w)
                /\ ~Abandons
           I == TableInv /\ ClosedOut /\ StrandInv
<1>1. (IInv /\ IInv' /\ I) /\ [Next]_vars /\ [N]_vars => I'
  <2> SUFFICES ASSUME IInv, IInv', I, [Next]_vars, [N]_vars PROVE I'
    OBVIOUS
  <2>1. TypeOK' /\ ClosedOut'
    BY ClosedNext DEF IInv, TableInv
  <2>2. CASE N
    <3>1. TableInv'
      BY <2>1, <2>2, TableStep
    <3>2. CASE \E w \in Workers : Step(w)
      <4>1. PICK w \in Workers : Step(w)
        BY <3>2
      <4>2. TokenInv'
        BY <3>1 DEF TableInv
      <4>3. StrandInv'
        BY <2>2, <4>1, <4>2, StrandStep
      <4> QED
        BY <2>1, <3>1, <4>3
    <3>3. CASE ~\E w \in Workers : Step(w)
      BY <2>1, <2>2, <3>1, <3>3, OutsideStrand
    <3> QED
      BY <3>2, <3>3
  <2>3. CASE UNCHANGED vars
    <3>1. StrandInv'
      BY <2>3, ElsewhereStrand DEF vars, tableVars, jobVars
    <3> QED
      BY <2>1, <2>3, <3>1, TableStutters
  <2> QED
    BY <2>2, <2>3
<1>2. Init => I
  BY InitTable, InitStrand
<1>3. IInv /\ I => WaitsForOwner
  BY StrandWaits
<1> QED
  BY <1>1, <1>2, <1>3, Invariance, PTL DEF Spec

-----------------------------------------------------------------------------
(* Who ends a lock *)

Lifts(w, n, c) ==
  (UnlockFile(w) \/ CloseFile(w)) /\ node[w] = n /\ Client(w) = c
EndsOwn(n, c)  == \/ conn'[c] = "closed"
                  \/ \E w \in Workers : Lifts(w, n, c)

(* The file keeps its lock, or is gone, or its owner has ended the lock. *)
KeepsLock(n, c) == IsLockedBy(n, c) =>
  IsLockedBy(n, c)' \/ file'[n] = NULL \/ EndsOwn(n, c)

LEMMA DisconnectKeeps ==
  ASSUME TypeOK, NEW w \in Workers, NEW c \in Clients,
         DisconnectClient(w, c) \/ SendClientResult(w, c),
         NEW n \in Names, Entries(n), Settled(n, c), NEW d \in Clients
  PROVE  KeepsLock(n, d)
<1>1. CASE DisconnectClient(w, c) /\ d = c
  <2>1. conn'[c] = "closed"
    BY <1>1 DEF DisconnectClient, TypeOK
  <2> QED
    BY <1>1, <2>1 DEF KeepsLock, EndsOwn
<1>2. CASE DisconnectClient(w, c) /\ d # c
  BY <1>2, DisconnectViews DEF KeepsLock
<1>3. CASE UNCHANGED file
  BY <1>3 DEF KeepsLock, IsLockedBy
<1> QED
  BY <1>1, <1>2, <1>3 DEF SendClientResult

LEMMA SetKeeps ==
  ASSUME TypeOK, NEW m \in Names, NEW f, SetFile(m, f),
         NEW n \in Names, NEW c,
         n = m => \/ f = NULL
                  \/ /\ f.flagO_lock = file[m].flagO_lock
                     /\ f.lockOwner = file[m].lockOwner
                  \/ f.flagO_lock /\ f.lockOwner = c
                  \/ EndsOwn(n, c)
  PROVE  KeepsLock(n, c)
<1>1. CASE n = m
  <2>1. file'[n] = f
    BY <1>1 DEF SetFile, TypeOK
  <2> QED
    BY <1>1, <2>1 DEF KeepsLock, IsLockedBy
<1>2. CASE n # m
  <2>1. file'[n] = file[n]
    BY <1>2 DEF SetFile, TypeOK
  <2> QED
    BY <2>1 DEF KeepsLock, IsLockedBy
<1> QED
  BY <1>1, <1>2

(* A handler that locks its file, or lifts the lock, may use it: nobody    *)
(* else has locked it.                                                     *)
LEMMA HandlerKeeps ==
  ASSUME IInv, TableInv, NEW w \in Workers,
         \/ SetLock(w) \/ LockFile(w) \/ UnlockFile(w) \/ CloseFile(w)
         \/ OpenFile(w),
         NEW n \in Names, NEW d \in Clients
  PROVE  KeepsLock(n, d)
<1> USE DEF At, Handling, Exec
<1>a. TypeOK /\ Placed
  BY DEF IInv
<1>1. pc[w] \in {"setlock", "exec"} /\ File(w) # NULL
  BY DEF SetLock, LockFile, UnlockFile, CloseFile, OpenFile
<1>2. PICK m \in Names : m = node[w]
  BY <1>a, <1>1, AtWork
<1>3. PICK f \in ServerFile : f = file[m] /\ f # NULL
  BY <1>a, <1>1, <1>2, AtWork DEF File
<1>4. PICK c \in Clients : c = Client(w) /\ req[w] # NULL
  BY <1>a, <1>1, AtWork, NULLAssumption
<1>5. Handles(w, m)
  BY <1>1, <1>2 DEF Handles
<1>6. IsLockedBy(m, d) => d = c
  BY <1>3, <1>4, <1>5
     DEF TableInv, HandlersPermitted, FileUsePermitted, IsLockedBy
<1>7. CASE ~IsLockedBy(n, d)
  BY <1>7 DEF KeepsLock
<1>8. CASE IsLockedBy(n, d) /\ (SetLock(w) \/ LockFile(w))
  <2>1. PICK g : g = Locked(f, c)
    OBVIOUS
  <2>2. SetFile(m, g)
    BY <1>2, <1>3, <1>4, <1>8, <2>1 DEF SetLock, LockFile, File
  <2>3. g.flagO_lock /\ g.lockOwner = c
    BY <2>1, LockedQueue
  <2> QED
    BY <1>a, <1>6, <1>8, <2>2, <2>3, SetKeeps
<1>9. CASE IsLockedBy(n, d) /\ (UnlockFile(w) \/ CloseFile(w))
  <2>1. n = m => EndsOwn(n, d)
    BY <1>2, <1>4, <1>6, <1>9 DEF EndsOwn, Lifts
  <2>2. \E g : SetFile(m, g)
    BY <1>2, <1>9 DEF UnlockFile, CloseFile
  <2> QED
    BY <1>a, <2>1, <2>2, SetKeeps
<1>10. CASE OpenFile(w)
  <2>1. PICK g : g = [Written(f) EXCEPT !.openList = @ \cup {c}]
    OBVIOUS
  <2>2. SetFile(m, g)
    BY <1>2, <1>3, <1>4, <1>10, <2>1 DEF OpenFile, File
  <2>3. g.flagO_lock = f.flagO_lock /\ g.lockOwner = f.lockOwner
    BY <2>1 DEF Written, ServerFile
  <2> QED
    BY <1>a, <1>3, <2>2, <2>3, SetKeeps
<1> QED
  BY <1>7, <1>8, <1>9, <1>10

LEMMA TakenKeeps ==
  ASSUME IInv, NEW w \in Workers, InsertNew(w) \/ TreeRemove(w) \/ Evict(w),
         ~Recreates(w), NEW n \in Names, NEW d \in Clients
  PROVE  KeepsLock(n, d)
<1> USE DEF At, InTree
<1>a. TypeOK /\ Placed /\ FilesAccounted
  BY DEF IInv
<1>1. CASE InsertNew(w)
  <2>1. PICK k \in Names : k = node[w]
    BY <1>a, <1>1, AtWork DEF InsertNew, Inserting
  <2>2. PICK new : new = NewServerFile(Client(w), O_LOCK(req[w].op), k)
    OBVIOUS
  <2>3. file[k] = NULL
    <3>1. ~Removes(w, k)
      BY <1>1, <2>1 DEF Recreates
    <3> QED
      BY <1>1, <2>1, <3>1 DEF InsertNew, Removes, File
  <2>4. \/ SetFile(k, new)
        \/ file' = [file EXCEPT ![ToRemove] = NULL, ![k] = new]
    BY <1>1, <2>1, <2>2 DEF InsertNew
  <2>5. n # k => file'[n] = NULL \/ file'[n] = file[n]
    BY <1>a, <2>4 DEF SetFile, TypeOK
  <2> QED
    BY <2>3, <2>5 DEF KeepsLock, IsLockedBy
<1>2. CASE TreeRemove(w)
  <2>1. PICK m \in Names : m = node[w]
    BY <1>a, <1>2, AtWork DEF TreeRemove
  <2>2. SetFile(m, NULL) \/ UNCHANGED file
    BY <1>2, <2>1 DEF TreeRemove, Detach
  <2> QED
    BY <1>a, <2>2, SetKeeps DEF KeepsLock, IsLockedBy
<1>3. CASE Evict(w)
  <2>1. PICK m \in Names : m = LeastRecent(victims[w])
    BY <1>a, <1>3, VictimFacts DEF Evict
  <2>2. SetFile(m, NULL)
    BY <1>3, <2>1 DEF Evict, Detach
  <2> QED
    BY <1>a, <2>2, SetKeeps
<1> QED
  BY <1>1, <1>2, <1>3

LEMMA KeepsLockStep ==
  ASSUME IInv, TableInv, NEW w \in Workers, Step(w), ~Recreates(w),
         NEW n \in Names, NEW d \in Clients
  PROVE  KeepsLock(n, d)
<1>a. TypeOK /\ Placed /\ RequestsUnique /\ Entries(n)
  BY DEF IInv, TableInv
<1>1. CASE AbsentFatal(w) \/ PayloadCut(w) \/ Reply(w)
  BY <1>a, <1>1, EndingClient, DisconnectKeeps
<1>2. CASE InformReply(w) \/ InformAppend(w)
  <2>1. PICK c \in Clients : /\ DisconnectClient(w, c) \/ SendClientResult(w, c)
                             /\ Settled(n, c)
    BY <1>a, <1>2, InformedClient
  <2> QED
    BY <1>a, <2>1, DisconnectKeeps
<1>3. CASE \/ SetLock(w) \/ LockFile(w) \/ UnlockFile(w) \/ CloseFile(w)
           \/ OpenFile(w)
  BY <1>3, HandlerKeeps
<1>4. CASE InsertNew(w) \/ TreeRemove(w) \/ Evict(w)
  BY <1>4, TakenKeeps
<1>5. CASE Opened(w) \/ TableLock(w) \/ FileDel(w)
  BY <1>5 DEF Opened, TableLock, FileDel, KeepsLock, IsLockedBy
<1>6. CASE ~Updates(w)
  <2>1. SameFile(n)
    BY <1>6, PlainFiles
  <2> QED
    BY <2>1, SameViews DEF KeepsLock
<1> QED
  BY <1>1, <1>2, <1>3, <1>4, <1>5, <1>6 DEF Updates

LEMMA OutsideKeepsLock ==
  ASSUME IInv, TableInv, Next, ~\E w \in Workers : Step(w),
         NEW n \in Names, NEW d \in Clients
  PROVE  KeepsLock(n, d)
<1>a. TypeOK /\ Placed
  BY DEF IInv
<1>1. CASE UNCHANGED file
  BY <1>1 DEF KeepsLock, IsLockedBy
<1>2. ASSUME NEW w \in Workers, NEW c \in Clients, TakeEOF(w, c)
      PROVE  KeepsLock(n, d)
  <2>1. DisconnectClient(w, c) /\ conn[c] = "listening"
    BY <1>2 DEF TakeEOF
  <2>2. \A v \in Workers : req[v] # NULL => Client(v) # c
    BY <2>1 DEF TableInv, RequestsUnique, PendingIsServed
  <2>3. Settled(n, c)
    BY <1>a, <2>2, SettledByRequest
  <2> QED
    BY <1>a, <2>1, <2>3, DisconnectKeeps DEF TableInv
<1> QED
  BY <1>1, <1>2 DEF Next, Die, Take

(* A lock ends with its file or by its owner, who unlocks or closes the    *)
(* file or is disconnected: no other client lifts it, and none takes it    *)
(* over, in openFileW, lockFileW, unlockFileW, closeFileW and              *)
(* disconnectClient.                                                       *)
THEOREM OnlyOwnersEndLocks ==
  Spec /\ [][\A w \in Workers : /\ ~ReleasesOthers(w) /\ ~Intrudes(w)
                                /\ ~Outruns(w) /\ ~Recreates(w)]_vars
    => [][\A n \in Names, c \in Clients : KeepsLock(n, c)]_vars
<1> DEFINE N == \A w \in Workers : /\ ~ReleasesOthers(w) /\ ~Intrudes(w)
                                   /\ ~Outruns(w) /\ ~Recreates(w)
           A == \A n \in Names, c \in Clients : KeepsLock(n, c)
<1>1. (IInv /\ IInv' /\ TableInv) /\ [Next]_vars /\ [N]_vars => TableInv'
  <2> SUFFICES ASSUME IInv, IInv', TableInv, [Next]_vars, [N]_vars
               PROVE  TableInv'
    OBVIOUS
  <2>1. TypeOK'
    BY DEF IInv
  <2> QED
    BY <2>1, TableStep, TableStutters
<1>2. (IInv /\ TableInv) /\ [Next]_vars /\ [N]_vars => [A]_vars
  <2> SUFFICES ASSUME IInv, TableInv, Next, N PROVE A
    OBVIOUS
  <2> QED
    BY KeepsLockStep, OutsideKeepsLock
<1>3. Init => TableInv
  BY InitTable
<1> QED
  BY <1>1, <1>2, <1>3, Invariance, PTL DEF Spec

-----------------------------------------------------------------------------
(* Instances in which the steps are never taken *)

(* Nobody makes room by evicting files, and none is removed. *)
NobodyStores == \A c \in Clients : Workload[c] \cap {"WRITE", "APPEND"} = {}
NothingTaken == \A w \in Workers : pc[w] \notin {"remove", "filedel"}

LEMMA ComesToRemoval ==
  ASSUME IInv, NEW w \in Workers, Step(w), pc'[w] \in {"remove", "filedel"}
  PROVE  \/ RemoveFile(w) \/ TreeRemove(w) \/ Evict(w)
         \/ InsertNew(w) /\ TreeIsFull
         \/ UNCHANGED pc
<1> USE DEF Goto, ReplyThen, Done, At, Handling, Exec
<1>a. TypeOK /\ WellPlaced(w)
  BY DEF IInv, Placed
<1>1. CASE Find(w)
  BY <1>a, <1>1 DEF TypeOK, Find, InTree
<1>2. CASE AbsentError(w)
  BY <1>a, <1>2 DEF TypeOK, AbsentError
<1>3. CASE AbsentFatal(w)
  BY <1>a, <1>3 DEF TypeOK, AbsentFatal
<1>4. CASE TryUse(w)
  BY <1>a, <1>4 DEF TypeOK, TryUse
<1>5. CASE Park(w)
  BY <1>a, <1>5 DEF TypeOK, Park
<1>6. CASE InsertNew(w)
  BY <1>a, <1>6 DEF TypeOK, InsertNew, Inserting, InTree
<1>7. CASE InsertExists(w)
  BY <1>a, <1>7 DEF TypeOK, InsertExists, Inserting, InTree
<1>8. CASE InsertNoMemory(w)
  BY <1>a, <1>8 DEF TypeOK, InsertNoMemory, Inserting, InTree
<1>9. CASE Release(w)
  BY <1>a, <1>9 DEF TypeOK, Release
<1>10. CASE FileDel(w)
  BY <1>a, <1>10 DEF TypeOK, FileDel
<1>11. CASE InformReply(w)
  BY <1>a, <1>11 DEF TypeOK, InformReply, Informing
<1>12. CASE InformAppend(w)
  BY <1>a, <1>12 DEF TypeOK, InformAppend, Informing
<1>13. CASE InformWrite(w)
  BY <1>a, <1>13 DEF TypeOK, InformWrite, Informing
<1>14. CASE InformDone(w)
  BY <1>a, <1>14 DEF TypeOK, InformDone
<1>15. CASE Refuse(w)
  BY <1>a, <1>15 DEF TypeOK, Refuse, Refused
<1>16. CASE SetLock(w)
  BY <1>a, <1>16 DEF TypeOK, SetLock
<1>17. CASE ReadFile(w)
  BY <1>a, <1>17 DEF TypeOK, ReadFile
<1>18. CASE LockFile(w)
  BY <1>a, <1>18 DEF TypeOK, LockFile
<1>19. CASE TableLock(w)
  BY <1>a, <1>19 DEF TypeOK, TableLock
<1>20. CASE UnlockFile(w)
  BY <1>a, <1>20 DEF TypeOK, UnlockFile
<1>21. CASE CloseFile(w)
  BY <1>a, <1>21 DEF TypeOK, CloseFile
<1>22. CASE WriteFile(w)
  BY <1>a, <1>22 DEF TypeOK, WriteFile
<1>23. CASE AppendToFile(w)
  BY <1>a, <1>23 DEF TypeOK, AppendToFile
<1>24. CASE Payload(w)
  BY <1>a, <1>24 DEF TypeOK, Payload
<1>25. CASE MakeRoom(w)
  BY <1>a, <1>25 DEF TypeOK, MakeRoom, InTree
<1>26. CASE Unmark(w)
  BY <1>a, <1>26 DEF TypeOK, Unmark
<1>27. CASE NoRoom(w)
  BY <1>a, <1>27 DEF TypeOK, NoRoom
<1>28. CASE Finish(w)
  BY <1>a, <1>28 DEF TypeOK, Finish
<1>29. CASE Reply(w)
  BY <1>a, <1>29 DEF TypeOK, Reply, WellPlaced
<1>30. CASE ReadNFiles(w)
  BY <1>a, <1>30 DEF TypeOK, ReadNFiles, InTree
<1>31. CASE NextRequest(w)
  BY <1>a, <1>31 DEF TypeOK, NextRequest
<1>32. CASE NoNextRequest(w)
  BY <1>a, <1>32 DEF TypeOK, NoNextRequest
<1>33. CASE Touch(w)
  BY <1>a, <1>33 DEF TypeOK, Touch, InTree
<1>34. CASE HoldTree(w) \/ Crash(w)
  BY <1>34 DEF HoldTree, Crash
<1>35. CASE OpenFile(w) \/ Opened(w)
  BY <1>a, <1>35 DEF TypeOK, OpenFile, Opened
<1>36. CASE PayloadCut(w) \/ Discard(w) \/ RoomEnough(w) \/ Evicted(w)
  BY <1>a, <1>36 DEF TypeOK, PayloadCut, Discard, RoomEnough, Evicted, Store,
     InTree
<1> QED
  BY <1>1, <1>2, <1>3, <1>4, <1>5, <1>6, <1>7, <1>8, <1>9, <1>10, <1>11,
     <1>12, <1>13, <1>14, <1>15, <1>16, <1>17, <1>18, <1>19, <1>20, <1>21,
     <1>22, <1>23, <1>24, <1>25, <1>26, <1>27, <1>28, <1>29, <1>30, <1>31,
     <1>32, <1>33, <1>34, <1>35, <1>36
     DEF Step

LEMMA NoEviction ==
  ASSUME IInv, AskedFor, NobodyStores, NEW w \in Workers
  PROVE  ~Evict(w) /\ ~Unmark(w)
<1> SUFFICES ASSUME Evict(w) \/ Unmark(w) PROVE FALSE
  OBVIOUS
<1>a. TypeOK /\ Placed
  BY DEF IInv
<1>1. pc[w] \in {"unmark", "evict"}
  BY DEF Evict, Unmark, At
<1>2. req[w] # NULL /\ req[w].op \in {"WRITE", "APPEND"}
  BY <1>a, <1>1 DEF Placed, WellPlaced, HasRequest, HasOp
<1> QED
  BY <1>a, <1>2, HeldAskedFor DEF NobodyStores

(* Where nobody locks a file cannot be removed: removeFile wants its lock. *)
LEMMA NothingTakenStep ==
  ASSUME IInv, AskedFor, NobodyStores, RoomForAll, NoLocks, NothingTaken,
         [Next]_vars
  PROVE  NothingTaken'
<1> USE DEF treeVars, tableVars, clientVars, jobVars, evictVars, lockVars
<1>a. TypeOK /\ Placed
  BY DEF IInv
<1>1. CASE UNCHANGED vars
  BY <1>1 DEF vars, NothingTaken
<1>2. ASSUME NEW c \in Clients, Die(c) PROVE NothingTaken'
  BY <1>2 DEF Die, NothingTaken
<1>3. ASSUME NEW w \in Workers, NEW c \in Clients, NEW op \in OpKinds,
             NEW n \in Names, Take(w, c, op, n)
      PROVE  NothingTaken'
  <2>1. /\ pc'[w] \in {"readn", "find"}
        /\ \A v \in Workers : v # w => pc'[v] = pc[v]
    BY <1>a, <1>3 DEF Take, Goto, TypeOK
  <2> QED
    BY <2>1 DEF NothingTaken
<1>4. ASSUME NEW w \in Workers, NEW c \in Clients, TakeEOF(w, c)
      PROVE  NothingTaken'
  BY <1>4 DEF TakeEOF, NothingTaken
<1>5. ASSUME NEW w \in Workers, Step(w) PROVE NothingTaken'
  <2>1. \A v \in Workers : v # w => pc'[v] = pc[v]
    BY <1>5, OthersKept
  <2>2. pc'[w] \notin {"remove", "filedel"}
    <3> SUFFICES ASSUME pc'[w] \in {"remove", "filedel"} PROVE FALSE
      OBVIOUS
    <3>1. ~RemoveFile(w)
      <4> SUFFICES ASSUME RemoveFile(w) PROVE FALSE
        OBVIOUS
      <4>1. /\ node[w] \in Names /\ file[node[w]] # NULL
            /\ file[node[w]].flagO_lock
        BY <1>a, AtWork DEF RemoveFile, Exec, Handling, At, File
      <4> QED
        BY <4>1 DEF NoLocks
    <3>2. ~TreeRemove(w)
      BY DEF TreeRemove, InTree, At, NothingTaken
    <3>3. ~Evict(w)
      BY NoEviction
    <3>4. ~TreeIsFull
      BY NeverFull
    <3>5. pc' # pc
      BY DEF NothingTaken
    <3> QED
      BY <1>5, <3>1, <3>2, <3>3, <3>4, <3>5, ComesToRemoval
  <2> QED
    BY <2>1, <2>2 DEF NothingTaken
<1> QED
  BY <1>1, <1>2, <1>3, <1>4, <1>5 DEF Next

(* None of the steps in the instances, so that the invariant holds. *)
NoRace == OneWorker \/ (RoomForAll /\ NobodyStores)
KeepsTable == /\ AskedFor /\ NoLocks
              /\ OneWorker => StillAbsent
              /\ RoomForAll /\ NobodyStores => NothingTaken

LEMMA KeepsTableStep ==
  ASSUME IInv, IInv', NobodyLocks, KeepsTable, [Next]_vars
  PROVE  KeepsTable'
<1>1. AskedFor'
  BY AskedForStep DEF KeepsTable, IInv
<1>2. NoLocks'
  BY NoLocksStep DEF KeepsTable
<1>3. ASSUME OneWorker PROVE StillAbsent'
  BY <1>3, StillAbsentStep DEF KeepsTable
<1>4. ASSUME RoomForAll /\ NobodyStores PROVE NothingTaken'
  BY <1>4, NothingTakenStep DEF KeepsTable
<1> QED
  BY <1>1, <1>2, <1>3, <1>4 DEF KeepsTable, OneWorker, RoomForAll, NobodyStores

LEMMA InitKeepsTable == Init => KeepsTable
<1>1. Init => AskedFor
  BY InitKept
<1>2. Init => NoLocks /\ StillAbsent /\ NothingTaken
  BY DEF Init, NoLocks, StillAbsent, NothingTaken
<1> QED
  BY <1>1, <1>2 DEF KeepsTable

LEMMA TableNeverLost ==
  ASSUME IInv, NobodyLocks, NoRace, KeepsTable, NEW w \in Workers
  PROVE  /\ ~ReleasesOthers(w) /\ ~Intrudes(w) /\ ~Outruns(w) /\ ~Recreates(w)
<1>a. TypeOK /\ Placed /\ FilesAccounted
  BY DEF IInv
<1>1. ~ReleasesOthers(w)
  <2> SUFFICES ASSUME ReleasesOthers(w) PROVE FALSE
    OBVIOUS
  <2>1. req[w] # NULL /\ req[w].op = "OPEN_CREATE_LOCK"
    BY <1>a DEF ReleasesOthers, Release, Handling, At, Placed, WellPlaced,
       HasRequest
  <2> QED
    BY <1>a, <2>1, HeldAskedFor DEF KeepsTable, NobodyLocks, LockOps
<1>2. ~Intrudes(w)
  <2> SUFFICES ASSUME NextRequest(w)
               PROVE  LET next == Head(File(w).requestList)
                      IN  FileUsePermitted(next.client, File(w))
    BY DEF Intrudes
  <2>1. node[w] \in Names /\ File(w) # NULL
    BY <1>a, AtWork DEF NextRequest, Handling, At
  <2> QED
    BY <2>1 DEF KeepsTable, NoLocks, FileUsePermitted, File
<1>3. CASE OneWorker
  <2>1. ~Outruns(w)
    <3> SUFFICES ASSUME NEW n \in Names, NEW v \in Workers, Removes(w, n),
                        Opening(v, n) \/ Locking(v, n)
                 PROVE  FALSE
      BY DEF Outruns
    <3>1. pc[w] \in {"insert", "evict"}
      BY DEF Removes, InsertNew, Inserting, InTree, Evict, At
    <3>2. v = w
      BY <1>3 DEF OneWorker
    <3> QED
      BY <3>1, <3>2 DEF Opening, Locking
  <2>2. ~Recreates(w)
    <3> SUFFICES ASSUME InsertNew(w),
                        \/ Removes(w, node[w])
                        \/ \E v \in Workers : Removing(v, node[w])
                 PROVE  FALSE
      BY DEF Recreates
    <3>1. pc[w] = "insert" /\ (TreeIsFull => Expelled # {})
      BY DEF InsertNew, Inserting, InTree, At
    <3>2. file[node[w]] = NULL
      BY <1>3, <3>1 DEF KeepsTable, StillAbsent, File
    <3>3. ~Removes(w, node[w])
      BY <1>a, <3>1, <3>2, ToRemoveFacts DEF Removes, Evict, At
    <3>4. \A v \in Workers : ~Removing(v, node[w])
      BY <1>3, <3>1 DEF OneWorker, Removing
    <3> QED
      BY <3>3, <3>4
  <2> QED
    BY <1>1, <1>2, <2>1, <2>2
<1>4. CASE RoomForAll /\ NobodyStores
  <2>1. \A n : ~Removes(w, n)
    BY <1>4, NeverFull, NoEviction DEF Removes, KeepsTable
  <2>2. \A v \in Workers : ~Removing(v, node[w])
    BY <1>4 DEF KeepsTable, NothingTaken, Removing
  <2> QED
    BY <1>1, <1>2, <2>1, <2>2 DEF Outruns, Recreates
<1> QED
  BY <1>3, <1>4 DEF NoRace

(* The table and the files agree in every instance where nobody locks and  *)
(* no file is taken out while another worker is between the two updates:   *)
(* one worker serves all, with evictions and disconnections; or many do,   *)
(* and there is room for all the files.                                    *)
THEOREM TableKept ==
  ASSUME NobodyLocks, NoRace
  PROVE  Spec => []TableExact
<1> DEFINE N == \A w \in Workers : /\ ~ReleasesOthers(w) /\ ~Intrudes(w)
                                   /\ ~Outruns(w) /\ ~Recreates(w)
<1>1. IInv /\ IInv' /\ KeepsTable /\ [Next]_vars => KeepsTable'
  BY KeepsTableStep
<1>2. IInv /\ KeepsTable => N
  BY TableNeverLost
<1> HIDE DEF N
<1>3. Spec => [](IInv /\ KeepsTable)
  BY <1>1, InitKeepsTable, Invariance, PTL DEF Spec
<1>4. Spec => [][N]_vars
  BY <1>2, <1>3, PTL
<1> QED
  BY <1>4, OnlyTheseLoseEntries, PTL DEF N

(* Where nobody locks or stores and there is room for all the files, every *)
(* request that waits has a worker at its file, which takes it up: none is *)
(* left in the queue of a file that is free (tryUse, manageRequest).       *)
THEOREM WaitersKept ==
  ASSUME NobodyLocks, RoomForAll, NobodyStores
  PROVE  Spec => []WaitsForOwner
<1> DEFINE N == /\ \A w \in Workers : /\ ~ReleasesOthers(w) /\ ~Intrudes(w)
                                      /\ ~Outruns(w) /\ ~Recreates(w)
                                      /\ ~Strands(w)
                /\ ~Abandons
<1>1. IInv /\ IInv' /\ KeepsTable /\ [Next]_vars => KeepsTable'
  BY KeepsTableStep
<1>2. IInv /\ KeepsTable => N
  <2> SUFFICES ASSUME IInv, KeepsTable PROVE N
    OBVIOUS
  <2>1. \A w \in Workers : ~Strands(w)
    BY NoEviction DEF Strands, KeepsTable
  <2>2. ~Abandons
    BY DEF Abandons, KeepsTable, NoLocks, Live
  <2> QED
    BY <2>1, <2>2, TableNeverLost DEF NoRace
<1> HIDE DEF N
<1>3. Spec => [](IInv /\ KeepsTable)
  BY <1>1, InitKeepsTable, Invariance, PTL DEF Spec
<1>4. Spec => [][N]_vars
  BY <1>2, <1>3, PTL
<1> QED
  BY <1>4, OnlyTheseStrand, PTL DEF N
=============================================================================
