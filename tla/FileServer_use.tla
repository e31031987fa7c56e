--------------------------- MODULE FileServer_use ---------------------------
(***************************************************************************)
(* flagUse as the token of a file's handler, for every value of            *)
(* FileServer's constants:                                                 *)
(*   OnlyReleaseShares   one worker at a time manages a file, ...          *)
(*   OnlyTheseLeaveInUse and a flagUse that is set has a worker that will  *)
(*                       reset it, ...                                     *)
(*   OnlyNextRequestIntrudes                                               *)
(*                       and no operation runs on a file that another      *)
(*                       client has locked, ...                            *)
(* ... as long as the steps the theorems name, in which the code breaks    *)
(* these rules, are not taken.                                             *)
(*   TokenKept           instances in which they are never taken           *)
(* The argument: each step of a worker leaves a file's token alone, takes  *)
(* it when it is free, or gives it up when it holds it (Turn).             *)
(***************************************************************************)
EXTENDS FileServer_requests

(* A file somebody may manage, and who does: its handler, or the worker    *)
(* that marked it as a victim.                                             *)
InUse(n)    == file[n] # NULL /\ file[n].flagUse
Holds(w, n) == Handles(w, n) \/ n \in victims[w]

(* A worker inserts a file for a request that creates one. *)
Creates(w) == \/ pc[w] \in {"insert", "opened"}
              \/ pc[w] \in {"filedel", "inform"} /\ req[w].op \in OpenOps
CreatesAsked(w) == Creates(w) => O_CREATE(req[w].op)

-----------------------------------------------------------------------------
(* What the steps do to flagUse *)

(* These leave it alone. *)
LEMMA FileUses ==
  ASSUME NEW f \in ServerFile
  PROVE  /\ f.flagUse \in BOOLEAN
         /\ Written(f).flagUse = f.flagUse /\ Unlocked(f).flagUse = f.flagUse
         /\ [f EXCEPT !.dim = @ + AppendDim].flagUse = f.flagUse
         /\ [f EXCEPT !.requestList = Tail(@)].flagUse = f.flagUse
         /\ \A c \in Clients :
              /\ \A b \in BOOLEAN : Forgotten(f, c, b).flagUse = f.flagUse
              /\ [f EXCEPT !.openList = @ \cup {c}].flagUse = f.flagUse
              /\ [f EXCEPT !.openList = @ \ {c}].flagUse = f.flagUse
         /\ \A r \in Request : Parked(f, r).flagUse = f.flagUse
BY DEF ServerFile, Written, Unlocked, Forgotten, Parked

(* And these change it. *)
LEMMA UseChanges ==
  ASSUME NEW f \in ServerFile
  PROVE  /\ Released(f).flagUse = FALSE
         /\ [f EXCEPT !.flagUse = TRUE].flagUse = TRUE
         /\ \A c \in Clients : Locked(f, c).flagUse = FALSE
BY DEF ServerFile, Released, Locked

SameUse == \A n \in Names : InUse(n)' <=> InUse(n)

LEMMA DisconnectUse ==
  ASSUME TypeOK, NEW w \in Workers, NEW c \in Clients, DisconnectClient(w, c)
  PROVE  SameUse
<1>1. ASSUME NEW n \in Names, file[n] # NULL
      PROVE  file'[n].flagUse = file[n].flagUse
  <2>1. file[n] \in ServerFile
    BY <1>1 DEF TypeOK
  <2>2. (n \in nodeLocked[c]) \in BOOLEAN
    OBVIOUS
  <2>3. Forgotten(file[n], c, n \in nodeLocked[c]).flagUse = file[n].flagUse
    BY <2>1 DEF Forgotten, ServerFile
  <2> QED
    BY <1>1, <2>3 DEF DisconnectClient
<1> QED
  BY <1>1, DisconnectFacts DEF SameUse, InUse

LEMMA SendUse ==
  ASSUME TypeOK, NEW w \in Workers, NEW c \in Clients, SendClientResult(w, c)
  PROVE  SameUse
<1>1. CASE DisconnectClient(w, c)
  BY <1>1, DisconnectUse
<1>2. CASE UNCHANGED file
  BY <1>2 DEF SameUse, InUse
<1> QED
  BY <1>1, <1>2 DEF SendClientResult

(* The steps that begin or end the work on a file. *)
Turns(w) ==
  \/ TryUse(w) \/ InsertNew(w) \/ InsertExists(w) \/ Release(w) \/ SetLock(w)
  \/ ReadFile(w) \/ LockFile(w) \/ TreeRemove(w) \/ MakeRoom(w) \/ Unmark(w)
  \/ Evict(w) \/ Finish(w) \/ NoNextRequest(w)

(* The others leave flagUse as it is. *)
LEMMA OthersKeepUse ==
  ASSUME IInv, NEW w \in Workers, Step(w), ~Turns(w)
  PROVE  SameUse
<1> USE DEF treeVars, tableVars, clientVars, jobVars, evictVars, lockVars,
            At, Handling, Exec, InTree
<1>a. TypeOK /\ Placed /\ FilesAccounted
  BY DEF IInv
<1>1. CASE UNCHANGED file
  BY <1>1 DEF SameUse, InUse
<1>2. ASSUME node[w] \in Names, File(w) \in ServerFile,
             \E f \in ServerFile : /\ SetFile(node[w], f)
                                   /\ f.flagUse = File(w).flagUse
      PROVE  SameUse
  BY <1>a, <1>2, FileFacts DEF TypeOK, SameUse, InUse, SetFile, File
<1>3. CASE Find(w)
  BY <1>1, <1>3 DEF Find
<1>4. CASE AbsentError(w)
  BY <1>1, <1>4 DEF AbsentError
<1>5. CASE AbsentFatal(w)
  <2>1. Client(w) \in Clients
    BY <1>a, <1>5, AtWork DEF AbsentFatal
  <2> QED
    BY <1>a, <1>5, <2>1, DisconnectUse DEF AbsentFatal
<1>6. CASE Park(w)
  <2>1. node[w] \in Names /\ File(w) \in ServerFile
    BY <1>a, <1>6, AtWork DEF Park
  <2>2. req[w] \in Request
    BY <1>a, <1>6, AtWork DEF Park
  <2>3. Parked(File(w), req[w]) \in ServerFile /\ Parked(File(w), req[w]).flagUse = File(w).flagUse
    BY <2>1, <2>2, FileFacts, FileUses
  <2>5. SetFile(node[w], Parked(File(w), req[w]))
    BY <1>6 DEF Park
  <2> QED
    BY <1>2, <2>1, <2>3, <2>5
<1>7. CASE InsertNoMemory(w)
  BY <1>1, <1>7 DEF InsertNoMemory, Inserting
<1>8. CASE Opened(w)
  BY <1>1, <1>8 DEF Opened
<1>9. CASE FileDel(w)
  BY <1>1, <1>9 DEF FileDel
<1>10. CASE InformReply(w)
  <2>1. dead[w] \in ServerFile /\ dead[w].requestList # <<>>
    BY <1>a, <1>10, AtWork DEF InformReply, Informing
  <2>2. Head(dead[w].requestList).client \in Clients
    BY <2>1, QueueFacts
  <2> QED
    BY <1>a, <1>10, <2>2, SendUse DEF InformReply, Informing
<1>11. CASE InformAppend(w)
  <2>1. dead[w] \in ServerFile /\ dead[w].requestList # <<>>
    BY <1>a, <1>11, AtWork DEF InformAppend, Informing
  <2>2. Head(dead[w].requestList).client \in Clients
    BY <2>1, QueueFacts
  <2> QED
    BY <1>a, <1>11, <2>2, DisconnectUse DEF InformAppend, Informing
<1>12. CASE InformWrite(w)
  BY <1>1, <1>12 DEF InformWrite, Informing
<1>13. CASE InformDone(w)
  BY <1>1, <1>13 DEF InformDone
<1>14. CASE Refuse(w)
  BY <1>1, <1>14 DEF Refuse, Refused
<1>15. CASE OpenFile(w)
  <2>1. node[w] \in Names /\ File(w) \in ServerFile
    BY <1>a, <1>15, AtWork DEF OpenFile
  <2>2. Client(w) \in Clients
    BY <1>a, <1>15, AtWork DEF OpenFile
  <2> DEFINE f == Written(File(w))
             g == [f EXCEPT !.openList = @ \cup {Client(w)}]
  <2>4. f \in ServerFile /\ f.flagUse = File(w).flagUse
    BY <2>1, FileFacts, FileUses
  <2> HIDE DEF f
  <2>3. g \in ServerFile /\ g.flagUse = File(w).flagUse
    <3>1. g \in ServerFile
      BY <2>2, <2>4, FileFacts
    <3>2. g.flagUse = f.flagUse
      BY <2>2, <2>4 DEF ServerFile
    <3> QED
      BY <2>2, <2>4, <3>1, <3>2
  <2>5. SetFile(node[w], g)
    BY <1>15 DEF OpenFile, f
  <2> QED
    BY <1>2, <2>1, <2>3, <2>5
<1>16. CASE TableLock(w)
  BY <1>1, <1>16 DEF TableLock
<1>17. CASE UnlockFile(w)
  <2>1. node[w] \in Names /\ File(w) \in ServerFile
    BY <1>a, <1>17, AtWork DEF UnlockFile
  <2> DEFINE f == Written(File(w))
  <2>2. f \in ServerFile /\ f.flagUse = File(w).flagUse
    BY <2>1, FileFacts, FileUses
  <2>3. Unlocked(f) \in ServerFile /\ Unlocked(f).flagUse = File(w).flagUse
    BY <2>2, FileFacts, FileUses
  <2>5. SetFile(node[w], Unlocked(f))
    BY <1>17 DEF UnlockFile
  <2> QED
    BY <1>2, <2>1, <2>3, <2>5
<1>18. CASE CloseFile(w)
  <2>1. node[w] \in Names /\ File(w) \in ServerFile
    BY <1>a, <1>18, AtWork DEF CloseFile
  <2>2. Client(w) \in Clients
    BY <1>a, <1>18, AtWork DEF CloseFile
  <2> DEFINE f == Written(File(w))
             g == [f EXCEPT !.openList = @ \ {Client(w)}]
  <2>3. f \in ServerFile /\ f.flagUse = File(w).flagUse
    BY <2>1, FileFacts, FileUses
  <2> HIDE DEF f
  <2>4. g \in ServerFile /\ g.flagUse = File(w).flagUse
    <3>1. g \in ServerFile
      BY <2>2, <2>3, FileFacts
    <3>2. g.flagUse = f.flagUse
      BY <2>2, <2>3 DEF ServerFile
    <3> QED
      BY <2>2, <2>3, <3>1, <3>2
  <2>5. Unlocked(g) \in ServerFile /\ Unlocked(g).flagUse = File(w).flagUse
    BY <2>4, FileFacts, FileUses
  <2>6. SetFile(node[w], g) \/ SetFile(node[w], Unlocked(g))
    BY <1>18 DEF CloseFile, f
  <2> QED
    BY <1>2, <2>1, <2>4, <2>5, <2>6
<1>19. CASE RemoveFile(w)
  BY <1>1, <1>19 DEF RemoveFile
<1>20. CASE WriteFile(w)
  <2>1. node[w] \in Names /\ File(w) \in ServerFile
    BY <1>a, <1>20, AtWork DEF WriteFile
  <2> DEFINE g == Written(File(w))
  <2>3. g \in ServerFile /\ g.flagUse = File(w).flagUse
    BY <2>1, FileFacts, FileUses
  <2>5. SetFile(node[w], g)
    BY <1>20 DEF WriteFile
  <2> QED
    BY <1>2, <2>1, <2>3, <2>5
<1>21. CASE AppendToFile(w)
  <2>1. node[w] \in Names /\ File(w) \in ServerFile
    BY <1>a, <1>21, AtWork DEF AppendToFile
  <2> DEFINE g == Written(File(w))
  <2>3. g \in ServerFile /\ g.flagUse = File(w).flagUse
    BY <2>1, FileFacts, FileUses
  <2>5. SetFile(node[w], g)
    BY <1>21 DEF AppendToFile
  <2> QED
    BY <1>2, <2>1, <2>3, <2>5
<1>22. CASE PayloadCut(w)
  <2>1. Client(w) \in Clients
    BY <1>a, <1>22, AtWork DEF PayloadCut
  <2> QED
    BY <1>a, <1>22, <2>1, DisconnectUse DEF PayloadCut
<1>23. CASE Discard(w)
  BY <1>1, <1>23 DEF Discard
<1>24. CASE Payload(w)
  BY <1>1, <1>24 DEF Payload
<1>25. CASE RoomEnough(w)
  <2>1. node[w] \in Names /\ File(w) \in ServerFile
    BY <1>a, <1>25, AtWork DEF RoomEnough
  <2> DEFINE g == [File(w) EXCEPT !.dim = @ + AppendDim]
  <2>3. g \in ServerFile /\ g.flagUse = File(w).flagUse
    BY <2>1, FileFacts, FileUses
  <2>5. SetFile(node[w], g)
    BY <1>25 DEF RoomEnough, Store
  <2> QED
    BY <1>2, <2>1, <2>3, <2>5
<1>26. CASE NoRoom(w)
  BY <1>1, <1>26 DEF NoRoom
<1>27. CASE Evicted(w)
  <2>1. node[w] \in Names /\ File(w) \in ServerFile
    BY <1>a, <1>27, AtWork DEF Evicted
  <2> DEFINE g == [File(w) EXCEPT !.dim = @ + AppendDim]
  <2>3. g \in ServerFile /\ g.flagUse = File(w).flagUse
    BY <2>1, FileFacts, FileUses
  <2>5. SetFile(node[w], g)
    BY <1>27 DEF Evicted, Store
  <2> QED
    BY <1>2, <2>1, <2>3, <2>5
<1>28. CASE Reply(w)
  <2>1. Client(w) \in Clients
    BY <1>a, <1>28, AtWork DEF Reply
  <2> QED
    BY <1>a, <1>28, <2>1, SendUse DEF Reply
<1>29. CASE ReadNFiles(w)
  BY <1>1, <1>29 DEF ReadNFiles
<1>30. CASE NextRequest(w)
  <2>1. node[w] \in Names /\ File(w) \in ServerFile
    BY <1>a, <1>30, AtWork DEF NextRequest
  <2> DEFINE g == [File(w) EXCEPT !.requestList = Tail(@)]
  <2>2. File(w).requestList # <<>>
    BY <1>30 DEF NextRequest
  <2>3. g \in ServerFile /\ g.flagUse = File(w).flagUse
    BY <2>1, <2>2, QueueFacts, FileUses
  <2>5. SetFile(node[w], g)
    BY <1>30 DEF NextRequest
  <2> QED
    BY <1>2, <2>1, <2>3, <2>5
<1>31. CASE Touch(w)
  BY <1>1, <1>31 DEF Touch
<1>32. CASE HoldTree(w)
  BY <1>1, <1>32 DEF HoldTree
<1>33. CASE Crash(w)
  BY <1>1, <1>33 DEF Crash
<1> QED
  BY <1>3, <1>4, <1>5, <1>6, <1>7, <1>8, <1>9, <1>10, <1>11, <1>12,
     <1>13, <1>14, <1>15, <1>16, <1>17, <1>18, <1>19, <1>20, <1>21,
     <1>22, <1>23, <1>24, <1>25, <1>26, <1>27, <1>28, <1>29, <1>30,
     <1>31, <1>32, <1>33
     DEF Step, Turns

(* They leave the work with the worker that has it, too. *)
LEMMA OthersKeepWork ==
  ASSUME IInv, NEW w \in Workers, Step(w), ~Turns(w), CreatesAsked(w)
  PROVE  /\ \A n \in Names : Handles(w, n)' <=> Handles(w, n)
         /\ victims'[w] = victims[w]
<1> DEFINE Same == /\ \A n \in Names : Handles(w, n)' <=> Handles(w, n)
                   /\ victims'[w] = victims[w]
<1> USE DEF treeVars, tableVars, clientVars, jobVars, evictVars, lockVars,
            Goto, ReplyThen, Done, NoRequest, At, Handling, Exec, Handles
<1>a. TypeOK /\ WellPlaced(w)
  BY DEF IInv, Placed
<1>b. \A n \in Names : n # NULL
  BY NULLAssumption
<1>1. ASSUME Find(w) PROVE Same
  BY <1>a, <1>b, <1>1 DEF TypeOK, Find, InTree
<1>2. ASSUME AbsentError(w) PROVE Same
  BY <1>a, <1>b, <1>2 DEF TypeOK, AbsentError
<1>3. ASSUME AbsentFatal(w) PROVE Same
  BY <1>a, <1>b, <1>3 DEF TypeOK, AbsentFatal
<1>4. ASSUME Park(w) PROVE Same
  BY <1>a, <1>b, <1>4 DEF TypeOK, Park
<1>5. ASSUME InsertNoMemory(w) PROVE Same
  BY <1>a, <1>b, <1>5 DEF TypeOK, InsertNoMemory, Inserting, InTree
<1>6. ASSUME Opened(w) PROVE Same
  BY <1>a, <1>b, <1>6 DEF TypeOK, Opened, CreatesAsked, Creates, O_CREATE, O_LOCK, OpenOps
<1>7. ASSUME FileDel(w) PROVE Same
  BY <1>a, <1>b, <1>7 DEF TypeOK, FileDel
<1>8. ASSUME InformReply(w) PROVE Same
  BY <1>a, <1>b, <1>8 DEF TypeOK, InformReply, Informing
<1>9. ASSUME InformAppend(w) PROVE Same
  BY <1>a, <1>b, <1>9 DEF TypeOK, InformAppend, Informing
<1>10. ASSUME InformWrite(w) PROVE Same
  BY <1>a, <1>b, <1>10 DEF TypeOK, InformWrite, Informing
<1>11. ASSUME InformDone(w) PROVE Same
  BY <1>a, <1>b, <1>11 DEF TypeOK, InformDone, CreatesAsked, Creates, O_CREATE, O_LOCK, OpenOps
<1>12. ASSUME Refuse(w) PROVE Same
  BY <1>a, <1>b, <1>12 DEF TypeOK, Refuse, Refused
<1>13. ASSUME OpenFile(w) PROVE Same
  BY <1>a, <1>b, <1>13 DEF TypeOK, OpenFile
<1>14. ASSUME TableLock(w) PROVE Same
  BY <1>a, <1>b, <1>14 DEF TypeOK, TableLock
<1>15. ASSUME UnlockFile(w) PROVE Same
  BY <1>a, <1>b, <1>15 DEF TypeOK, UnlockFile
<1>16. ASSUME CloseFile(w) PROVE Same
  BY <1>a, <1>b, <1>16 DEF TypeOK, CloseFile
<1>17. ASSUME RemoveFile(w) PROVE Same
  BY <1>a, <1>b, <1>17 DEF TypeOK, RemoveFile
<1>18. ASSUME WriteFile(w) PROVE Same
  BY <1>a, <1>b, <1>18 DEF TypeOK, WriteFile
<1>19. ASSUME AppendToFile(w) PROVE Same
  BY <1>a, <1>b, <1>19 DEF TypeOK, AppendToFile
<1>20. ASSUME PayloadCut(w) PROVE Same
  BY <1>a, <1>b, <1>20 DEF TypeOK, PayloadCut
<1>21. ASSUME Discard(w) PROVE Same
  BY <1>a, <1>b, <1>21 DEF TypeOK, Discard
<1>22. ASSUME Payload(w) PROVE Same
  BY <1>a, <1>b, <1>22 DEF TypeOK, Payload
<1>23. ASSUME RoomEnough(w) PROVE Same
  BY <1>a, <1>b, <1>23 DEF TypeOK, RoomEnough, Store, InTree
<1>24. ASSUME NoRoom(w) PROVE Same
  BY <1>a, <1>b, <1>24 DEF TypeOK, NoRoom
<1>25. ASSUME Evicted(w) PROVE Same
  BY <1>a, <1>b, <1>25 DEF TypeOK, Evicted, Store
<1>26. ASSUME Reply(w) PROVE Same
  BY <1>a, <1>b, <1>26 DEF TypeOK, Reply
<1>27. ASSUME ReadNFiles(w) PROVE Same
  BY <1>a, <1>b, <1>27 DEF TypeOK, ReadNFiles, InTree
<1>28. ASSUME NextRequest(w) PROVE Same
  BY <1>a, <1>b, <1>28 DEF TypeOK, NextRequest
<1>29. ASSUME Touch(w) PROVE Same
  BY <1>a, <1>b, <1>29 DEF TypeOK, Touch, InTree
<1>30. ASSUME HoldTree(w) PROVE Same
  BY <1>a, <1>b, <1>30 DEF TypeOK, HoldTree, InTree, TreePCs
<1>31. ASSUME Crash(w) PROVE Same
  BY <1>a, <1>b, <1>31 DEF TypeOK, Crash
<1> QED
  BY <1>1, <1>2, <1>3, <1>4, <1>5, <1>6, <1>7, <1>8, <1>9, <1>10, <1>11,
     <1>12, <1>13, <1>14, <1>15, <1>16, <1>17, <1>18, <1>19, <1>20,
     <1>21, <1>22, <1>23, <1>24, <1>25, <1>26, <1>27, <1>28, <1>29,
     <1>30, <1>31
     DEF Step, Turns

(* Only Find leads to an insertion. *)
LEMMA CreatesStep ==
  ASSUME IInv, NEW w \in Workers, Step(w), CreatesAsked(w)
  PROVE  CreatesAsked(w)'
<1> USE DEF treeVars, tableVars, clientVars, jobVars, evictVars, lockVars,
            Goto, ReplyThen, Done, NoRequest, At, Handling, Exec,
            CreatesAsked, Creates
<1>a. TypeOK /\ WellPlaced(w)
  BY DEF IInv, Placed
<1>1. CASE Find(w)
  BY <1>a, <1>1 DEF TypeOK, Find, InTree
<1>2. CASE AbsentError(w)
  BY <1>a, <1>2 DEF TypeOK, AbsentError
<1>3. CASE AbsentFatal(w)
  BY <1>a, <1>3 DEF TypeOK, AbsentFatal
<1>4. CASE TryUse(w)
  BY <1>a, <1>4 DEF TypeOK, TryUse
<1>5. CASE Park(w)
  BY <1>a, <1>5 DEF TypeOK, Park
<1>6. CASE InsertNew(w)
  BY <1>a, <1>6 DEF TypeOK, InsertNew, Inserting, InTree, OpenOps, O_CREATE, WellPlaced, HasOp
<1>7. CASE InsertExists(w)
  BY <1>a, <1>7 DEF TypeOK, InsertExists, Inserting, InTree
<1>8. CASE InsertNoMemory(w)
  BY <1>a, <1>8 DEF TypeOK, InsertNoMemory, Inserting, InTree
<1>9. CASE Opened(w)
  BY <1>a, <1>9 DEF TypeOK, Opened, OpenOps, O_CREATE, WellPlaced, HasOp
<1>10. CASE Release(w)
  BY <1>a, <1>10 DEF TypeOK, Release
<1>11. CASE FileDel(w)
  BY <1>a, <1>11 DEF TypeOK, FileDel
<1>12. CASE InformReply(w)
  BY <1>a, <1>12 DEF TypeOK, InformReply, Informing
<1>13. CASE InformAppend(w)
  BY <1>a, <1>13 DEF TypeOK, InformAppend, Informing
<1>14. CASE InformWrite(w)
  BY <1>a, <1>14 DEF TypeOK, InformWrite, Informing
<1>15. CASE InformDone(w)
  BY <1>a, <1>15 DEF TypeOK, InformDone, OpenOps, O_CREATE, WellPlaced, HasOp
<1>16. CASE Refuse(w)
  BY <1>a, <1>16 DEF TypeOK, Refuse, Refused
<1>17. CASE OpenFile(w)
  BY <1>a, <1>17 DEF TypeOK, OpenFile
<1>18. CASE SetLock(w)
  BY <1>a, <1>18 DEF TypeOK, SetLock
<1>19. CASE ReadFile(w)
  BY <1>a, <1>19 DEF TypeOK, ReadFile
<1>20. CASE LockFile(w)
  BY <1>a, <1>20 DEF TypeOK, LockFile
<1>21. CASE TableLock(w)
  BY <1>a, <1>21 DEF TypeOK, TableLock
<1>22. CASE UnlockFile(w)
  BY <1>a, <1>22 DEF TypeOK, UnlockFile
<1>23. CASE CloseFile(w)
  BY <1>a, <1>23 DEF TypeOK, CloseFile
<1>24. CASE RemoveFile(w)
  BY <1>a, <1>24 DEF TypeOK, RemoveFile
<1>25. CASE TreeRemove(w)
  BY <1>a, <1>25 DEF TypeOK, TreeRemove, InTree, Detach, OpenOps, O_CREATE, WellPlaced, HasOp
<1>26. CASE WriteFile(w)
  BY <1>a, <1>26 DEF TypeOK, WriteFile
<1>27. CASE AppendToFile(w)
  BY <1>a, <1>27 DEF TypeOK, AppendToFile
<1>28. CASE PayloadCut(w)
  BY <1>a, <1>28 DEF TypeOK, PayloadCut
<1>29. CASE Discard(w)
  BY <1>a, <1>29 DEF TypeOK, Discard
<1>30. CASE Payload(w)
  BY <1>a, <1>30 DEF TypeOK, Payload
<1>31. CASE RoomEnough(w)
  BY <1>a, <1>31 DEF TypeOK, RoomEnough, Store, InTree
<1>32. CASE MakeRoom(w)
  BY <1>a, <1>32 DEF TypeOK, MakeRoom, InTree
<1>33. CASE Unmark(w)
  BY <1>a, <1>33 DEF TypeOK, Unmark
<1>34. CASE NoRoom(w)
  BY <1>a, <1>34 DEF TypeOK, NoRoom
<1>35. CASE Evict(w)
  BY <1>a, <1>35 DEF TypeOK, Evict, Detach, OpenOps, O_CREATE, WellPlaced, HasOp
<1>36. CASE Evicted(w)
  BY <1>a, <1>36 DEF TypeOK, Evicted, Store
<1>37. CASE Finish(w)
  BY <1>a, <1>37 DEF TypeOK, Finish
<1>38. CASE Reply(w)
  BY <1>a, <1>38 DEF TypeOK, Reply
<1>39. CASE ReadNFiles(w)
  BY <1>a, <1>39 DEF TypeOK, ReadNFiles, InTree
<1>40. CASE NextRequest(w)
  BY <1>a, <1>40 DEF TypeOK, NextRequest
<1>41. CASE NoNextRequest(w)
  BY <1>a, <1>41 DEF TypeOK, NoNextRequest
<1>42. CASE Touch(w)
  BY <1>a, <1>42 DEF TypeOK, Touch, InTree
<1>43. CASE HoldTree(w)
  BY <1>a, <1>43 DEF TypeOK, HoldTree, InTree
<1>44. CASE Crash(w)
  BY <1>a, <1>44 DEF TypeOK, Crash
<1> QED
  BY <1>1, <1>2, <1>3, <1>4, <1>5, <1>6, <1>7, <1>8, <1>9, <1>10, <1>11,
     <1>12, <1>13, <1>14, <1>15, <1>16, <1>17, <1>18, <1>19, <1>20,
     <1>21, <1>22, <1>23, <1>24, <1>25, <1>26, <1>27, <1>28, <1>29,
     <1>30, <1>31, <1>32, <1>33, <1>34, <1>35, <1>36, <1>37, <1>38,
     <1>39, <1>40, <1>41, <1>42, <1>43, <1>44 DEF Step

-----------------------------------------------------------------------------
(* A step of a worker, and a file *)

Same(w, n)  == (Holds(w, n)' <=> Holds(w, n)) /\ (InUse(n)' <=> InUse(n))
Taken(w, n) == ~InUse(n) /\ InUse(n)' /\ Holds(w, n)'
Given(w, n) == Holds(w, n) /\ ~Holds(w, n)' /\ ~InUse(n)'
Left(w, n)  == ~Holds(w, n)' /\ InUse(n)'

(* Two steps end the work on a file and leave flagUse set: readFileW by    *)
(* the owner of a lock, whose test of Pthread_mutex_lock is inverted, and  *)
(* TreeFileinsert when it puts a victim back (server.c:1325, tree.c:201).  *)
LeavesInUse(w) == \/ ReadFile(w) /\ File(w).flagO_lock
                  \/ InsertExists(w) /\ TreeIsFull

(* One step may reset what another worker has set: openFileW releases a    *)
(* file it created with its lock, and had not marked as used, when another *)
(* worker may have marked it as a victim (server.c:1201).                  *)
ReleasesOthers(w) ==
  Release(w) /\ req[w].op = "OPEN_CREATE_LOCK" /\ File(w).flagUse

(* What a worker holds is marked as used; what it evicts is not the file   *)
(* it writes.                                                              *)
HeldInUse(w)  == \A n \in Names : Holds(w, n) => InUse(n)
OtherFiles(w) == \A n \in Names : ~(Handles(w, n) /\ n \in victims[w])

Turn(w, n) == /\ \/ Same(w, n) \/ Taken(w, n) \/ Given(w, n)
                 \/ LeavesInUse(w) /\ Left(w, n)
              /\ ~(Handles(w, n)' /\ n \in victims'[w])

(* makeSpace marks files nobody uses. *)
LEMMA MakeSpaceUnused ==
  ASSUME NEW nFile, NEW dim, NEW n \in MakeSpace(nFile, dim)
  PROVE  ~file[n].flagUse
BY DEF MakeSpace, Unused

(* A worker finds a file unused and marks it, and goes to handle it. *)
LEMMA TakesFile ==
  ASSUME TypeOK, NEW w \in Workers, NEW m \in Names, ~InUse(m),
         NEW f \in ServerFile, SetFile(m, f),
         f.flagUse <=> Handles(w, m)',
         \A n \in Names : n # m => ~Handles(w, n)',
         \A n \in Names : ~Handles(w, n),
         victims[w] = {}, victims'[w] = {}
  PROVE  \A n \in Names : Turn(w, n)
<1>1. file'[m] = f /\ f # NULL /\ \A n \in Names : n # m => file'[n] = file[n]
  BY FileFacts DEF TypeOK, SetFile
<1> QED
  BY <1>1 DEF Turn, Same, Taken, Holds, InUse

(* A handler resets flagUse, and leaves. *)
LEMMA GivesFile ==
  ASSUME TypeOK, NEW w \in Workers, NEW m \in Names, NEW f,
         SetFile(m, f), f = NULL \/ f.flagUse = FALSE,
         \A n \in Names : n # m => (Holds(w, n)' <=> Holds(w, n)),
         Holds(w, m), ~Holds(w, m)',
         \A n \in Names : ~(Handles(w, n)' /\ n \in victims'[w])
  PROVE  \A n \in Names : Turn(w, n)
<1>1. file'[m] = f /\ \A n \in Names : n # m => file'[n] = file[n]
  BY DEF TypeOK, SetFile
<1> QED
  BY <1>1 DEF Turn, Same, Given, InUse

LEMMA TurnStep ==
  ASSUME IInv, TypeOK', NEW w \in Workers, Step(w), ~ReleasesOthers(w),
         HeldInUse(w), OtherFiles(w), CreatesAsked(w)
  PROVE  \A n \in Names : Turn(w, n)
<1> USE DEF treeVars, tableVars, clientVars, jobVars, evictVars, lockVars,
            Goto, ReplyThen, At, Handling, Exec
<1>a. TypeOK /\ Placed /\ FilesAccounted /\ WellPlaced(w)
  BY DEF IInv, Placed
<1>b. pc[w] \notin {"unmark", "evict", "filedel", "inform"} => victims[w] = {}
  BY <1>a DEF WellPlaced, HasVictims, EvictsFiles
<1>c. \A n \in Names : n # NULL
  BY NULLAssumption
<1>1. CASE ~Turns(w)
  BY <1>1, OthersKeepUse, OthersKeepWork DEF Turn, Same, Holds, SameUse,
     OtherFiles
<1>2. CASE TryUse(w)
  <2>1. node[w] \in Names /\ File(w) \in ServerFile
    BY <1>a, <1>2, AtWork DEF TryUse
  <2> DEFINE f == [File(w) EXCEPT !.flagUse = TRUE]
  <2>2. f \in ServerFile /\ f.flagUse = TRUE
    BY <2>1, FileFacts, UseChanges
  <2>3. SetFile(node[w], f) /\ ~InUse(node[w])
    BY <1>2 DEF TryUse, Available, InUse, File
  <2> HIDE DEF f
  <2> DEFINE m == node[w]
  <2>6. /\ node'[w] = m /\ pc[w] = "use" /\ pc'[w] = "exec"
    BY <1>a, <1>2 DEF TypeOK, TryUse
  <2> HIDE DEF m
  <2>4. /\ \A n \in Names : Handles(w, n)' <=> n = m
        /\ \A n \in Names : ~Handles(w, n)
    BY <2>6 DEF Handles
  <2>5. victims[w] = {} /\ victims'[w] = {}
    BY <1>b, <1>2 DEF TryUse
  <2>7. m \in Names /\ SetFile(m, f) /\ ~InUse(m)
    BY <2>1, <2>3 DEF m
  <2>8. PICK k \in Names : k = m
    BY <2>7
  <2>9. f.flagUse <=> Handles(w, k)'
    BY <2>2, <2>4, <2>8
  <2> QED
    BY <1>a, <2>2, <2>4, <2>5, <2>7, <2>8, <2>9, TakesFile
<1>3. CASE InsertNew(w)
  <2>1. node[w] \in Names /\ Client(w) \in Clients /\ pc[w] = "insert"
    BY <1>a, <1>3, AtWork DEF InsertNew, Inserting, InTree
  <2> DEFINE new == NewServerFile(Client(w), O_LOCK(req[w].op), node[w])
  <2>2. new \in ServerFile /\ new.flagUse = ~O_LOCK(req[w].op)
    <3>1. O_LOCK(req[w].op) \in BOOLEAN
      BY DEF O_LOCK
    <3> QED
      BY <2>1, <3>1, NewServerFileFacts DEF NewServerFile
  <2>3. req[w].op \in {"OPEN_CREATE", "OPEN_CREATE_LOCK"}
    BY <2>1 DEF CreatesAsked, Creates, O_CREATE
  <2>4. /\ pc' = [pc EXCEPT ![w] = "opened"] \/ pc' = [pc EXCEPT ![w] = "filedel"]
        /\ UNCHANGED <<node, req, victims>>
    BY <1>3 DEF InsertNew
  <2>9. PICK k \in Names : k = node[w]
    BY <2>1
  <2>5. /\ new.flagUse <=> Handles(w, k)'
        /\ \A n \in Names : ~Handles(w, n) /\ (n # k => ~Handles(w, n)')
    BY <1>a, <2>1, <2>2, <2>3, <2>4, <2>9 DEF TypeOK, Handles, O_LOCK
  <2>6. victims[w] = {} /\ victims'[w] = {}
    BY <1>b, <2>1, <2>4
  <2>7. CASE ~TreeIsFull
    <3>1. SetFile(k, new) /\ ~InUse(k)
      BY <2>9, <1>3, <2>7 DEF InsertNew, InUse, File
    <3> HIDE DEF new
    <3> QED
      BY <1>a, <2>1, <2>2, <2>5, <2>6, <3>1, TakesFile
  <2>8. CASE TreeIsFull
    <3>1. PICK m \in Names : m = ToRemove /\ ~InUse(m)
      <4>1. Expelled # {} /\ Expelled = MakeSpace(1, 0) /\ ToRemove \in Names
        BY <1>a, <1>3, <2>8, ToRemoveFacts DEF InsertNew, Expelled
      <4>2. ToRemove \in Expelled
        BY <1>a, <4>1, MakeSpaceFacts, LeastRecentFacts DEF TypeOK, ToRemove
      <4> QED
        BY <4>1, <4>2, MakeSpaceUnused DEF InUse
    <3>2. /\ file' = [file EXCEPT ![m] = NULL, ![k] = new]
          /\ file[k] = NULL \/ k = m
      BY <1>3, <2>8, <2>9, <3>1 DEF InsertNew, File
    <3> HIDE DEF new
    <3>3. /\ file'[k] = new /\ new # NULL
          /\ m # k => file'[m] = NULL
          /\ \A n \in Names : n \notin {m, k} => file'[n] = file[n]
      BY <1>a, <2>2, <3>2, FileFacts DEF TypeOK
    <3>4. ~InUse(k)
      BY <3>1, <3>2 DEF InUse
    <3>5. \A n \in Names : ~Holds(w, n)
      BY <2>5, <2>6 DEF Holds
    <3>6. ASSUME NEW n \in Names, n # k PROVE Turn(w, n)
      BY <2>5, <2>6, <3>1, <3>3, <3>5, <3>6 DEF Turn, Same, Holds, InUse
    <3>7. Turn(w, k)
      BY <2>2, <2>5, <2>6, <3>3, <3>4, <3>5 DEF Turn, Same, Taken, Holds, InUse
    <3> QED
      BY <3>6, <3>7
  <2> QED
    BY <2>7, <2>8
<1>4. CASE InsertExists(w)
  <2>1. pc[w] = "insert" /\ UNCHANGED <<node, req, victims>>
    BY <1>4 DEF InsertExists, Inserting, InTree
  <2>2. \A n \in Names : ~Holds(w, n) /\ ~Holds(w, n)'
    <3>1. \A n \in Names : ~Handles(w, n) /\ ~Handles(w, n)'
      BY <1>a, <1>4, <2>1 DEF TypeOK, Handles, InsertExists
    <3> QED
      BY <1>b, <2>1, <3>1 DEF Holds
  <2>3. CASE ~TreeIsFull
    <3>1. UNCHANGED file
      BY <1>4, <2>3 DEF InsertExists
    <3> QED
      BY <2>2, <3>1 DEF Turn, Same, InUse, Holds
  <2>4. CASE TreeIsFull
    <3>1. file[ToRemove] \in ServerFile /\ file' = Mark({ToRemove})
      BY <1>a, <1>4, <2>4, ToRemoveFacts DEF InsertExists
    <3>2. file'[ToRemove] \in ServerFile /\ file'[ToRemove].flagUse = TRUE
      <4>1. file'[ToRemove] = [file[ToRemove] EXCEPT !.flagUse = TRUE]
        BY <1>a, <1>4, <2>4, <3>1, ToRemoveFacts DEF InsertExists, Mark
      <4> QED
        BY <3>1, <4>1, FileFacts, UseChanges
    <3>3. \A n \in Names : n # ToRemove => file'[n] = file[n]
      BY <3>1 DEF Mark
    <3>4. LeavesInUse(w)
      BY <1>4, <2>4 DEF LeavesInUse
    <3>5. ASSUME NEW n \in Names PROVE Turn(w, n)
      <4>1. CASE n = ToRemove
        BY <2>2, <3>2, <3>4, <4>1, FileFacts DEF Turn, Left, InUse, Holds
      <4>2. CASE n # ToRemove
        BY <2>2, <3>3, <4>2 DEF Turn, Same, InUse, Holds
      <4> QED
        BY <4>1, <4>2
    <3> QED
      BY <3>5
  <2> QED
    BY <2>3, <2>4
<1>5. CASE Release(w)
  <2>1. node[w] \in Names /\ File(w) \in ServerFile
    BY <1>a, <1>5, AtWork DEF Release
  <2> DEFINE f == Released(File(w))
  <2>2. f \in ServerFile /\ f.flagUse = FALSE
    BY <2>1, UseChanges, FileFacts
  <2>3. SetFile(node[w], f)
    BY <1>5 DEF Release
  <2> HIDE DEF f
  <2>4. victims[w] = {} /\ victims'[w] = {}
    BY <1>b, <1>5 DEF Release
  <2>5. \A n \in Names : ~Handles(w, n)' /\ (n # node[w] => ~Handles(w, n))
    BY <1>a, <1>5 DEF TypeOK, Release, Handles
  <2>6. CASE req[w].op # "OPEN_CREATE_LOCK"
    <3>1. Handles(w, node[w])
      BY <1>5, <2>6 DEF Release, Handles
    <3> QED
      BY <1>a, <2>1, <2>2, <2>3, <2>4, <2>5, <3>1, GivesFile DEF Holds
  <2>7. CASE req[w].op = "OPEN_CREATE_LOCK"
    <3>1. ~File(w).flagUse
      BY <1>5, <2>7 DEF ReleasesOthers
    <3>2. PICK m \in Names : m = node[w] /\ ~InUse(m) /\ ~InUse(m)'
      BY <1>a, <2>1, <2>2, <2>3, <3>1 DEF InUse, File, SetFile, TypeOK
    <3>3. \A n \in Names : n # m => file'[n] = file[n]
      BY <1>a, <2>3, <3>2 DEF SetFile, TypeOK
    <3>4. \A n \in Names : ~Handles(w, n)
      BY <2>5, <3>2 DEF HeldInUse, Holds
    <3> QED
      BY <2>4, <2>5, <3>2, <3>3, <3>4 DEF Turn, Same, Holds, InUse
  <2> QED
    BY <2>6, <2>7
<1>6. CASE SetLock(w)
  <2>1. node[w] \in Names /\ File(w) \in ServerFile /\ Client(w) \in Clients
    BY <1>a, <1>6, AtWork DEF SetLock
  <2> DEFINE f == Locked(File(w), Client(w))
  <2>2. f.flagUse = FALSE
    BY <2>1, UseChanges
  <2>3. SetFile(node[w], f)
    BY <1>6 DEF SetLock
  <2> HIDE DEF f
  <2>4. victims[w] = {} /\ victims'[w] = {}
    BY <1>b, <1>6 DEF SetLock
  <2>5. /\ Handles(w, node[w])
        /\ \A n \in Names : ~Handles(w, n)' /\ (n # node[w] => ~Handles(w, n))
    BY <1>a, <1>6 DEF TypeOK, SetLock, Handles
  <2> QED
    BY <1>a, <2>1, <2>2, <2>3, <2>4, <2>5, GivesFile DEF Holds
<1>7. CASE LockFile(w)
  <2>1. node[w] \in Names /\ File(w) \in ServerFile /\ Client(w) \in Clients
    BY <1>a, <1>7, AtWork DEF LockFile
  <2> DEFINE f == Locked(File(w), Client(w))
  <2>2. f.flagUse = FALSE
    BY <2>1, UseChanges
  <2>3. SetFile(node[w], f)
    BY <1>7 DEF LockFile
  <2> HIDE DEF f
  <2>4. victims[w] = {} /\ victims'[w] = {}
    BY <1>b, <1>7 DEF LockFile
  <2>5. /\ Handles(w, node[w])
        /\ \A n \in Names : ~Handles(w, n)' /\ (n # node[w] => ~Handles(w, n))
    BY <1>a, <1>7 DEF TypeOK, LockFile, Handles
  <2> QED
    BY <1>a, <2>1, <2>2, <2>3, <2>4, <2>5, GivesFile DEF Holds
<1>8. CASE NoNextRequest(w)
  <2>1. node[w] \in Names /\ File(w) \in ServerFile
    BY <1>a, <1>8, AtWork DEF NoNextRequest
  <2> DEFINE f == Released(File(w))
  <2>2. f.flagUse = FALSE
    BY <2>1, UseChanges
  <2>3. SetFile(node[w], f)
    BY <1>8 DEF NoNextRequest
  <2> HIDE DEF f
  <2>4. victims[w] = {} /\ victims'[w] = {}
    BY <1>b, <1>8 DEF NoNextRequest
  <2>5. /\ Handles(w, node[w])
        /\ \A n \in Names : ~Handles(w, n)' /\ (n # node[w] => ~Handles(w, n))
    BY <1>a, <1>8 DEF TypeOK, NoNextRequest, Handles
  <2> QED
    BY <1>a, <2>1, <2>2, <2>3, <2>4, <2>5, GivesFile DEF Holds
<1>9. CASE ReadFile(w)
  <2>1. UNCHANGED <<file, victims, node, req>> /\ victims[w] = {}
    BY <1>b, <1>9 DEF ReadFile
  <2>2. CASE File(w).flagO_lock
    <3>1. /\ LeavesInUse(w)
          /\ \A n \in Names : ~Handles(w, n)' /\ (n # node[w] => ~Handles(w, n))
      BY <1>a, <1>9, <2>2 DEF TypeOK, ReadFile, Handles, LeavesInUse
    <3>2. ASSUME NEW n \in Names PROVE Turn(w, n)
      <4>1. CASE Handles(w, n)
        BY <2>1, <3>1, <4>1 DEF Turn, Left, Holds, HeldInUse, InUse
      <4>2. CASE ~Handles(w, n)
        BY <2>1, <3>1, <4>2 DEF Turn, Same, Holds, InUse
      <4> QED
        BY <4>1, <4>2
    <3> QED
      BY <3>2
  <2>3. CASE ~File(w).flagO_lock
    <3>1. \A n \in Names : Handles(w, n)' <=> Handles(w, n)
      BY <1>a, <1>9, <2>3 DEF TypeOK, ReadFile, Handles
    <3> QED
      BY <2>1, <3>1 DEF Turn, Same, Holds, InUse
  <2> QED
    BY <2>2, <2>3
<1>10. CASE TreeRemove(w)
  <2>1. node[w] \in Names /\ pc[w] = "remove" /\ req[w].op = "REMOVE"
    BY <1>a, <1>10, AtWork DEF TreeRemove, InTree, WellPlaced, HasOp
  <2>2. \A n \in Names : Handles(w, n) <=> n = node[w]
    BY <2>1 DEF Handles
  <2>3. File(w) # NULL
    BY <2>1, <2>2 DEF HeldInUse, Holds, InUse, File
  <2>4. Detach(w, node[w]) /\ UNCHANGED <<node, req, after, victims>>
    BY <1>10, <2>3 DEF TreeRemove
  <2>5. SetFile(node[w], NULL) /\ pc'[w] = "filedel"
    BY <1>a, <2>4 DEF Detach, TypeOK
  <2>6. \A n \in Names : ~Handles(w, n)'
    BY <2>1, <2>4, <2>5 DEF Handles
  <2>7. victims[w] = {} /\ victims'[w] = {}
    BY <1>b, <2>1, <2>4
  <2> QED
    BY <1>a, <2>1, <2>2, <2>5, <2>6, <2>7, GivesFile DEF Holds
<1>11. CASE MakeRoom(w)
  <2> DEFINE S == MakeSpace(0, MissingSpace)
  <2>1. pc[w] = "room" /\ victims[w] = {}
    BY <1>b, <1>11 DEF MakeRoom, InTree
  <2>2. S \in SUBSET Names /\ \A n \in S : file[n] \in ServerFile /\ ~file[n].flagUse
    <3>1. S \subseteq ToSet(lru)
      BY <1>a, MakeSpaceFacts DEF TypeOK
    <3> QED
      BY <1>a, <3>1, MakeSpaceUnused DEF TypeOK, FilesAccounted, Live
  <2>3. file' = Mark(S) /\ victims'[w] = S
    BY <1>a, <1>11 DEF MakeRoom, TypeOK
  <2>4. \A n \in Names : Handles(w, n)' <=> Handles(w, n)
    BY <1>a, <1>11, <2>1 DEF MakeRoom, TypeOK, Handles
  <2> HIDE DEF S
  <2>5. ASSUME NEW n \in S PROVE Turn(w, n)
    <3>1. file'[n] = [file[n] EXCEPT !.flagUse = TRUE]
      BY <2>2, <2>3 DEF Mark
    <3>2. file'[n] \in ServerFile /\ file'[n].flagUse = TRUE
      BY <2>2, <3>1, FileFacts, UseChanges
    <3>3. InUse(n)' /\ ~InUse(n) /\ Holds(w, n)'
      BY <2>2, <2>3, <3>2, FileFacts DEF InUse, Holds
    <3>4. ~Handles(w, n)
      BY <2>2, <3>3 DEF HeldInUse, Holds
    <3> QED
      BY <2>2, <2>4, <3>3, <3>4 DEF Turn, Taken
  <2>6. ASSUME NEW n \in Names, n \notin S PROVE Turn(w, n)
    BY <2>1, <2>3, <2>4, <2>6 DEF Turn, Same, Holds, InUse, Mark
  <2> QED
    BY <2>5, <2>6
<1>12. CASE Unmark(w)
  <2> DEFINE m == LeastRecent(victims[w])
  <2>1. m \in Names /\ m \in victims[w] /\ file[m] \in ServerFile
    BY <1>a, <1>12, VictimFacts DEF Unmark
  <2>2. SetFile(m, Released(file[m])) /\ Released(file[m]).flagUse = FALSE
    BY <1>12, <2>1, UseChanges DEF Unmark
  <2>3. victims'[w] = victims[w] \ {m} /\ UNCHANGED <<pc, node, req, after>>
    BY <1>a, <1>12 DEF Unmark, TypeOK
  <2> HIDE DEF m
  <2>4. \A n \in Names : Handles(w, n)' <=> Handles(w, n)
    BY <2>3 DEF Handles
  <2> QED
    BY <1>a, <2>1, <2>2, <2>3, <2>4, GivesFile DEF Holds, OtherFiles
<1>13. CASE Evict(w)
  <2> DEFINE m == LeastRecent(victims[w])
  <2>1. m \in Names /\ m \in victims[w] /\ file[m] \in ServerFile
    BY <1>a, <1>13, VictimFacts DEF Evict
  <2>2. SetFile(m, NULL)
    BY <1>13 DEF Evict, Detach
  <2>3. /\ victims'[w] = victims[w] \ {m} /\ UNCHANGED <<node, req, after>>
        /\ pc[w] = "evict" /\ pc'[w] = "filedel" /\ req[w].op \in {"WRITE", "APPEND"}
    BY <1>a, <1>13 DEF Evict, Detach, TypeOK, WellPlaced, HasOp
  <2> HIDE DEF m
  <2>4. \A n \in Names : Handles(w, n)' <=> Handles(w, n)
    BY <2>3 DEF Handles
  <2> QED
    BY <1>a, <2>1, <2>2, <2>3, <2>4, GivesFile DEF Holds, OtherFiles
<1>14. CASE Finish(w)
  <2>1. node[w] \in Names /\ File(w) \in ServerFile
    BY <1>a, <1>14, AtWork DEF Finish
  <2>2. victims[w] = {} /\ victims'[w] = {}
    BY <1>b, <1>14 DEF Finish
  <2>3. CASE GivesUp(File(w))
    <3>1. SetFile(node[w], Released(File(w))) /\ Released(File(w)).flagUse = FALSE
      BY <1>14, <2>1, <2>3, UseChanges DEF Finish
    <3>2. /\ Handles(w, node[w])
          /\ \A n \in Names : ~Handles(w, n)' /\ (n # node[w] => ~Handles(w, n))
      BY <1>a, <1>14, <2>3 DEF TypeOK, Finish, Handles
    <3> QED
      BY <1>a, <2>1, <2>2, <3>1, <3>2, GivesFile DEF Holds
  <2>4. CASE ~GivesUp(File(w))
    <3>1. \A n \in Names : file'[n] = file[n]
      BY <1>a, <1>14, <2>1, <2>4 DEF TypeOK, Finish, SetFile, File
    <3>2. \A n \in Names : Handles(w, n)' <=> Handles(w, n)
      BY <1>a, <1>14, <2>4 DEF TypeOK, Finish, Handles
    <3> QED
      BY <2>2, <3>1, <3>2 DEF Turn, Same, Holds, InUse
  <2> QED
    BY <2>3, <2>4
<1> QED
  BY <1>1, <1>2, <1>3, <1>4, <1>5, <1>6, <1>7, <1>8, <1>9, <1>10, <1>11,
     <1>12, <1>13, <1>14 DEF Turns

-----------------------------------------------------------------------------
(* The holders of the files *)

OneHolder == \A n \in Names, v, w \in Workers :
               Holds(v, n) /\ Holds(w, n) => v = w
TokenInv  == /\ OneHolder
             /\ \A w \in Workers : HeldInUse(w) /\ OtherFiles(w) /\ CreatesAsked(w)

LEMMA HandlerIs == UseHasHandler <=> \A n \in Names :
                     InUse(n) => \E w \in Workers : Holds(w, n)
BY DEF UseHasHandler, InUse, Holds, Live

(* Nobody begins or ends the work on a file. *)
Calm == /\ SameUse
        /\ \A w \in Workers : /\ \A n \in Names : Handles(w, n)' <=> Handles(w, n)
                              /\ victims'[w] = victims[w]
                              /\ CreatesAsked(w) => CreatesAsked(w)'

LEMMA CalmStep ==
  ASSUME TokenInv, Calm
  PROVE  TokenInv' /\ (UseHasHandler => UseHasHandler')
<1>1. \A w \in Workers, n \in Names : Holds(w, n)' <=> Holds(w, n)
  BY DEF Calm, Holds
<1>2. TokenInv'
  BY <1>1 DEF TokenInv, OneHolder, HeldInUse, OtherFiles, Calm, SameUse
<1>3. \A n \in Names : InUse(n)' <=> InUse(n)
  BY DEF Calm, SameUse
<1>4. UseHasHandler => UseHasHandler'
  BY <1>1, <1>3, HandlerIs DEF InUse, Holds, UseHasHandler, Live
<1> QED
  BY <1>2, <1>4

(* What goes on outside the steps of the workers is calm. *)
LEMMA OutsideCalm ==
  ASSUME IInv, TypeOK', [Next]_vars, ~\E w \in Workers : Step(w)
  PROVE  Calm
<1> USE DEF treeVars, tableVars, clientVars, jobVars, evictVars, lockVars
<1>a. TypeOK /\ Placed
  BY DEF IInv
<1>b. ASSUME UNCHANGED <<pc, node, req, after, victims>>, SameUse PROVE Calm
  BY <1>b DEF Calm, Handles, CreatesAsked, Creates
<1>1. CASE UNCHANGED vars
  BY <1>1, <1>b DEF vars, SameUse, InUse
<1>2. ASSUME NEW c \in Clients, Die(c) PROVE Calm
  BY <1>2, <1>b DEF Die, SameUse, InUse
<1>3. ASSUME NEW w \in Workers, NEW c \in Clients, NEW op \in OpKinds,
             NEW n \in Names, Take(w, c, op, n)
      PROVE  Calm
  <2>1. /\ pc[w] = "idle" /\ pc'[w] \in {"readn", "find"}
        /\ UNCHANGED <<file, after, victims>>
        /\ \A v \in Workers : v # w => /\ pc'[v] = pc[v] /\ node'[v] = node[v]
                                       /\ req'[v] = req[v]
    BY <1>a, <1>3 DEF Take, At, Goto, TypeOK
  <2>2. ASSUME NEW v \in Workers
        PROVE  /\ \A m \in Names : Handles(v, m)' <=> Handles(v, m)
               /\ CreatesAsked(v) => CreatesAsked(v)'
    BY <2>1 DEF Handles, CreatesAsked, Creates
  <2> QED
    BY <2>1, <2>2 DEF Calm, SameUse, InUse
<1>4. ASSUME NEW w \in Workers, NEW c \in Clients, TakeEOF(w, c) PROVE Calm
  <2>1. DisconnectClient(w, c) /\ UNCHANGED <<pc, node, req, after, victims>>
    BY <1>4 DEF TakeEOF
  <2> QED
    BY <1>a, <1>b, <2>1, DisconnectUse
<1> QED
  BY <1>1, <1>2, <1>3, <1>4 DEF Next

(* A worker's step takes a file nobody holds, or gives up one it holds.    *)
LEMMA HoldersStep ==
  ASSUME IInv, TypeOK', TokenInv, NEW w \in Workers, Step(w), ~ReleasesOthers(w)
  PROVE  /\ TokenInv'
         /\ ~LeavesInUse(w) /\ UseHasHandler => UseHasHandler'
<1>1. \A n \in Names : Turn(w, n)
  BY TurnStep DEF TokenInv
<1>2. \A v \in Workers : v # w =>
        /\ \A n \in Names : /\ Handles(v, n)' <=> Handles(v, n)
                            /\ Holds(v, n)' <=> Holds(v, n)
        /\ victims'[v] = victims[v]
        /\ CreatesAsked(v) => CreatesAsked(v)'
  <2>1. ASSUME NEW v \in Workers, v # w
        PROVE  /\ pc'[v] = pc[v] /\ node'[v] = node[v] /\ req'[v] = req[v]
               /\ after'[v] = after[v] /\ victims'[v] = victims[v]
    BY <2>1, OthersKept
  <2> QED
    BY <2>1 DEF Handles, Holds, CreatesAsked, Creates
<1>3. OneHolder'
  <2>1. ASSUME NEW n \in Names, NEW v \in Workers, v # w, Holds(v, n)',
               Holds(w, n)'
        PROVE  FALSE
    <3>1. Holds(v, n) /\ InUse(n) /\ ~Holds(w, n)
      BY <1>2, <2>1 DEF TokenInv, OneHolder, HeldInUse
    <3> QED
      BY <1>1, <2>1, <3>1 DEF Turn, Same, Taken, Given, Left
  <2>2. ASSUME NEW n \in Names, NEW v \in Workers, NEW u \in Workers,
               v # w, u # w, Holds(v, n)', Holds(u, n)'
        PROVE  v = u
    BY <1>2, <2>2 DEF TokenInv, OneHolder
  <2> QED
    BY <2>1, <2>2 DEF OneHolder
<1>4. ASSUME NEW v \in Workers
      PROVE  (HeldInUse(v) /\ OtherFiles(v) /\ CreatesAsked(v))'
  <2>1. CASE v = w
    <3>1. HeldInUse(w)'
      <4>1. ASSUME NEW n \in Names, Holds(w, n)' PROVE InUse(n)'
        BY <1>1, <4>1 DEF Turn, Same, Taken, Given, Left, TokenInv, HeldInUse
      <4> QED
        BY <4>1 DEF HeldInUse
    <3>2. OtherFiles(w)'
      BY <1>1 DEF Turn, OtherFiles
    <3> QED
      BY <2>1, <3>1, <3>2, CreatesStep DEF TokenInv
  <2>2. CASE v # w
    <3>1. ASSUME NEW n \in Names, Holds(v, n)' PROVE InUse(n)'
      <4>1. Holds(v, n) /\ InUse(n) /\ ~Holds(w, n)
        BY <1>2, <2>2, <3>1 DEF TokenInv, OneHolder, HeldInUse
      <4> QED
        BY <1>1, <4>1 DEF Turn, Same, Taken, Given, Left
    <3>2. OtherFiles(v)' /\ CreatesAsked(v)'
      BY <1>2, <2>2 DEF TokenInv, OtherFiles
    <3> QED
      BY <3>1, <3>2 DEF HeldInUse
  <2> QED
    BY <2>1, <2>2
<1>5. ASSUME ~LeavesInUse(w), UseHasHandler PROVE UseHasHandler'
  <2>1. ASSUME NEW n \in Names, InUse(n)' PROVE \E v \in Workers : Holds(v, n)'
    <3>1. CASE Taken(w, n)
      BY <3>1 DEF Taken
    <3>2. CASE Same(w, n)
      <4>1. PICK v \in Workers : Holds(v, n)
        BY <1>5, <2>1, <3>2, HandlerIs DEF Same
      <4> QED
        BY <1>2, <3>2, <4>1 DEF Same
    <3> QED
      BY <1>1, <1>5, <2>1, <3>1, <3>2 DEF Turn, Given
  <2> QED
    BY <2>1 DEF UseHasHandler, InUse, Holds, Live
<1> QED
  BY <1>3, <1>4, <1>5 DEF TokenInv

LEMMA InitToken == Init => TokenInv /\ UseHasHandler
BY DEF Init, TokenInv, OneHolder, HeldInUse, OtherFiles, CreatesAsked, Creates,
   Holds, Handles, UseHasHandler, Live

LEMMA TokenExclusion == TokenInv => UseExclusion
BY DEF TokenInv, OneHolder, Holds, UseExclusion

(* Two workers manage the same file only after openFileW has reset the     *)
(* mark of another worker on the file it created: in every execution       *)
(* without that step, however workers and clients interleave and whatever  *)
(* is evicted, one worker at a time manages a file (tryUse).               *)
THEOREM OnlyReleaseShares ==
  Spec /\ [][\A w \in Workers : ~ReleasesOthers(w)]_vars => []UseExclusion
<1> DEFINE N == \A w \in Workers : ~ReleasesOthers(w)
<1>1. (IInv /\ IInv' /\ TokenInv) /\ [Next]_vars /\ [N]_vars => TokenInv'
  <2> SUFFICES ASSUME IInv, IInv', TokenInv, [Next]_vars, [N]_vars
               PROVE  TokenInv'
    OBVIOUS
  <2>1. TypeOK'
    BY DEF IInv
  <2>2. CASE UNCHANGED vars
    <3>1. Calm
      BY <2>2 DEF vars, treeVars, jobVars, evictVars, Calm, SameUse, InUse,
         Handles, CreatesAsked, Creates
    <3> QED
      BY <3>1, CalmStep
  <2>3. CASE N
    BY <2>1, <2>3, OutsideCalm, CalmStep, HoldersStep
  <2> QED
    BY <2>2, <2>3
<1>2. Init => TokenInv
  BY InitToken
<1>3. TokenInv => UseExclusion
  BY TokenExclusion
<1> QED
  BY <1>1, <1>2, <1>3, Invariance, PTL DEF Spec

(* And flagUse stays set without a worker that will reset it only after    *)
(* one of the two steps that leave it so: everywhere else it is a token    *)
(* that passes from worker to worker, over parked requests, evictions and  *)
(* removals (tryUse, manageRequest, appendToFileW, TreeFileinsert).        *)
THEOREM OnlyTheseLeaveInUse ==
  Spec /\ [][\A w \in Workers : ~ReleasesOthers(w) /\ ~LeavesInUse(w)]_vars
    => []UseToken
<1> DEFINE N == \A w \in Workers : ~ReleasesOthers(w) /\ ~LeavesInUse(w)
           I == TokenInv /\ UseHasHandler
<1>1. (IInv /\ IInv' /\ I) /\ [Next]_vars /\ [N]_vars => I'
  <2> SUFFICES ASSUME IInv, IInv', I, [Next]_vars, [N]_vars PROVE I'
    OBVIOUS
  <2>1. TypeOK'
    BY DEF IInv
  <2>2. CASE UNCHANGED vars
    <3>1. Calm
      BY <2>2 DEF vars, treeVars, jobVars, evictVars, Calm, SameUse, InUse,
         Handles, CreatesAsked, Creates
    <3> QED
      BY <3>1, CalmStep
  <2>3. CASE N
    BY <2>1, <2>3, OutsideCalm, CalmStep, HoldersStep
  <2> QED
    BY <2>2, <2>3
<1>2. Init => I
  BY InitToken
<1>3. I => UseToken
  BY TokenExclusion DEF UseToken
<1> QED
  BY <1>1, <1>2, <1>3, Invariance, PTL DEF Spec

-----------------------------------------------------------------------------
(* What the steps do to the locks *)

(* A file keeps its lock, or loses it. *)
Looser(g, f) == g.flagO_lock => f.flagO_lock /\ g.lockOwner = f.lockOwner

LEMMA FileLocks ==
  ASSUME NEW f \in ServerFile
  PROVE  /\ Looser(f, f) /\ Looser(Released(f), f) /\ Looser(Written(f), f)
         /\ Looser(Unlocked(f), f)
         /\ Looser([f EXCEPT !.flagUse = TRUE], f)
         /\ Looser([f EXCEPT !.dim = @ + AppendDim], f)
         /\ Looser([f EXCEPT !.requestList = Tail(@)], f)
         /\ \A c \in Clients :
              /\ \A b \in BOOLEAN : Looser(Forgotten(f, c, b), f)
              /\ Looser([f EXCEPT !.openList = @ \cup {c}], f)
              /\ Looser([f EXCEPT !.openList = @ \ {c}], f)
         /\ \A r \in Request : Looser(Parked(f, r), f)
BY DEF ServerFile, Looser, Released, Written, Unlocked, Forgotten, Parked

NoNewLock == \A n \in Names : file'[n] # NULL =>
               file[n] # NULL /\ Looser(file'[n], file[n])

LEMMA DisconnectLocks ==
  ASSUME TypeOK, NEW w \in Workers, NEW c \in Clients, DisconnectClient(w, c)
  PROVE  NoNewLock
<1>1. ASSUME NEW n \in Names, file[n] # NULL PROVE Looser(file'[n], file[n])
  <2>1. file[n] \in ServerFile
    BY <1>1 DEF TypeOK
  <2>2. (n \in nodeLocked[c]) \in BOOLEAN
    OBVIOUS
  <2>3. Looser(Forgotten(file[n], c, n \in nodeLocked[c]), file[n])
    BY <2>1 DEF Forgotten, ServerFile, Looser
  <2> QED
    BY <1>1, <2>1, <2>3, FileLocks DEF DisconnectClient
<1> QED
  BY <1>1, DisconnectFacts DEF NoNewLock

LEMMA SendLocks ==
  ASSUME TypeOK, NEW w \in Workers, NEW c \in Clients, SendClientResult(w, c)
  PROVE  NoNewLock
<1>1. CASE DisconnectClient(w, c)
  BY <1>1, DisconnectLocks
<1>2. CASE UNCHANGED file
  BY <1>2 DEF NoNewLock, Looser
<1> QED
  BY <1>1, <1>2 DEF SendClientResult

LEMMA MarkLocks ==
  ASSUME TypeOK, NEW S, \A n \in S : file[n] \in ServerFile, file' = Mark(S)
  PROVE  NoNewLock
<1>1. ASSUME NEW n \in Names, file'[n] # NULL
      PROVE  file[n] # NULL /\ Looser(file'[n], file[n])
  <2>1. CASE n \in S
    <3>1. file[n] \in ServerFile /\ file'[n] = [file[n] EXCEPT !.flagUse = TRUE]
      BY <2>1 DEF Mark
    <3> QED
      BY <3>1, FileFacts, FileLocks
  <2>2. CASE n \notin S
    BY <1>1, <2>2 DEF Mark, Looser
  <2> QED
    BY <2>1, <2>2
<1> QED
  BY <1>1 DEF NoNewLock

(* Files are locked when they are created, opened or locked. *)
LEMMA LocksStep ==
  ASSUME IInv, NEW w \in Workers, Step(w),
         ~InsertNew(w), ~SetLock(w), ~LockFile(w)
  PROVE  NoNewLock
<1> USE DEF treeVars, tableVars, clientVars, jobVars, evictVars, lockVars,
            At, Handling, Exec, InTree
<1>a. TypeOK /\ Placed /\ FilesAccounted
  BY DEF IInv
<1>1. CASE UNCHANGED file
  BY <1>1 DEF NoNewLock, Looser
<1>2. ASSUME node[w] \in Names, File(w) \in ServerFile,
             \E f \in ServerFile : SetFile(node[w], f) /\ Looser(f, File(w))
      PROVE  NoNewLock
  <2>1. PICK f \in ServerFile : SetFile(node[w], f) /\ Looser(f, File(w))
    BY <1>2
  <2>2. file'[node[w]] = f /\ \A n \in Names : n # node[w] => file'[n] = file[n]
    BY <1>a, <1>2, <2>1 DEF TypeOK, SetFile
  <2> QED
    BY <1>2, <2>1, <2>2, FileFacts DEF NoNewLock, Looser, File
<1>3. ASSUME NEW n \in Names, SetFile(n, NULL) PROVE NoNewLock
  BY <1>a, <1>3 DEF TypeOK, SetFile, NoNewLock, Looser
<1>4. CASE Find(w)
  BY <1>1, <1>4 DEF Find
<1>5. CASE AbsentError(w)
  BY <1>1, <1>5 DEF AbsentError
<1>6. CASE AbsentFatal(w)
  <2>1. Client(w) \in Clients
    BY <1>a, <1>6, AtWork DEF AbsentFatal
  <2> QED
    BY <1>a, <1>6, <2>1, DisconnectLocks DEF AbsentFatal
<1>7. CASE TryUse(w)
  <2>1. node[w] \in Names /\ File(w) \in ServerFile
    BY <1>a, <1>7, AtWork DEF TryUse
  <2> DEFINE g == [File(w) EXCEPT !.flagUse = TRUE]
  <2>3. g \in ServerFile /\ Looser(g, File(w))
    BY <2>1, FileFacts, FileLocks
  <2>5. SetFile(node[w], g)
    BY <1>7 DEF TryUse
  <2> QED
    BY <1>2, <2>1, <2>3, <2>5
<1>8. CASE Park(w)
  <2>1. node[w] \in Names /\ File(w) \in ServerFile
    BY <1>a, <1>8, AtWork DEF Park
  <2>2. req[w] \in Request
    BY <1>a, <1>8, AtWork DEF Park
  <2>3. Parked(File(w), req[w]) \in ServerFile /\ Looser(Parked(File(w), req[w]), File(w))
    BY <2>1, <2>2, FileFacts, FileLocks
  <2>5. SetFile(node[w], Parked(File(w), req[w]))
    BY <1>8 DEF Park
  <2> QED
    BY <1>2, <2>1, <2>3, <2>5
<1>9. CASE InsertExists(w)
  <2>1. CASE ~TreeIsFull
    BY <1>1, <1>9, <2>1 DEF InsertExists
  <2>2. CASE TreeIsFull
    <3>1. file[ToRemove] \in ServerFile /\ file' = Mark({ToRemove})
      BY <1>a, <1>9, <2>2, ToRemoveFacts DEF InsertExists
    <3> QED
      BY <1>a, <3>1, MarkLocks
  <2> QED
    BY <2>1, <2>2
<1>10. CASE InsertNoMemory(w)
  BY <1>1, <1>10 DEF InsertNoMemory, Inserting
<1>11. CASE Opened(w)
  BY <1>1, <1>11 DEF Opened
<1>12. CASE Release(w)
  <2>1. node[w] \in Names /\ File(w) \in ServerFile
    BY <1>a, <1>12, AtWork DEF Release
  <2> DEFINE g == Released(File(w))
  <2>3. g \in ServerFile /\ Looser(g, File(w))
    BY <2>1, FileFacts, FileLocks
  <2>5. SetFile(node[w], g)
    BY <1>12 DEF Release
  <2> QED
    BY <1>2, <2>1, <2>3, <2>5
<1>13. CASE FileDel(w)
  BY <1>1, <1>13 DEF FileDel
<1>14. CASE InformReply(w)
  <2>1. dead[w] \in ServerFile /\ dead[w].requestList # <<>>
    BY <1>a, <1>14, AtWork DEF InformReply, Informing
  <2>2. Head(dead[w].requestList).client \in Clients
    BY <2>1, QueueFacts
  <2> QED
    BY <1>a, <1>14, <2>2, SendLocks DEF InformReply, Informing
<1>15. CASE InformAppend(w)
  <2>1. dead[w] \in ServerFile /\ dead[w].requestList # <<>>
    BY <1>a, <1>15, AtWork DEF InformAppend, Informing
  <2>2. Head(dead[w].requestList).client \in Clients
    BY <2>1, QueueFacts
  <2> QED
    BY <1>a, <1>15, <2>2, DisconnectLocks DEF InformAppend, Informing
<1>16. CASE InformWrite(w)
  BY <1>1, <1>16 DEF InformWrite, Informing
<1>17. CASE InformDone(w)
  BY <1>1, <1>17 DEF InformDone
<1>18. CASE Refuse(w)
  BY <1>1, <1>18 DEF Refuse, Refused
<1>19. CASE OpenFile(w)
  <2>1. node[w] \in Names /\ File(w) \in ServerFile
    BY <1>a, <1>19, AtWork DEF OpenFile
  <2>2. Client(w) \in Clients
    BY <1>a, <1>19, AtWork DEF OpenFile
  <2> DEFINE f == Written(File(w))
             g == [f EXCEPT !.openList = @ \cup {Client(w)}]
  <2>3. f \in ServerFile /\ Looser(f, File(w))
    BY <2>1, FileFacts, FileLocks
  <2> HIDE DEF f
  <2>4. g \in ServerFile /\ Looser(g, File(w))
    <3>1. g \in ServerFile
      BY <2>2, <2>3, FileFacts
    <3>2. g.flagO_lock = f.flagO_lock /\ g.lockOwner = f.lockOwner
      BY <2>2, <2>3 DEF ServerFile
    <3> QED
      BY <2>3, <3>1, <3>2 DEF Looser
  <2>5. SetFile(node[w], g)
    BY <1>19 DEF OpenFile, f
  <2> QED
    BY <1>2, <2>1, <2>4, <2>5
<1>20. CASE ReadFile(w)
  BY <1>1, <1>20 DEF ReadFile
<1>21. CASE TableLock(w)
  BY <1>1, <1>21 DEF TableLock
<1>22. CASE UnlockFile(w)
  <2>1. node[w] \in Names /\ File(w) \in ServerFile
    BY <1>a, <1>22, AtWork DEF UnlockFile
  <2> DEFINE f == Written(File(w))
  <2>2. f \in ServerFile /\ Looser(f, File(w))
    BY <2>1, FileFacts, FileLocks
  <2>3. Unlocked(f) \in ServerFile /\ Looser(Unlocked(f), File(w))
    <3>1. Unlocked(f) \in ServerFile /\ Looser(Unlocked(f), f)
      BY <2>2, FileFacts, FileLocks
    <3> QED
      BY <2>2, <3>1 DEF Looser
  <2>5. SetFile(node[w], Unlocked(f))
    BY <1>22 DEF UnlockFile
  <2> QED
    BY <1>2, <2>1, <2>3, <2>5
<1>23. CASE CloseFile(w)
  <2>1. node[w] \in Names /\ File(w) \in ServerFile
    BY <1>a, <1>23, AtWork DEF CloseFile
  <2>2. Client(w) \in Clients
    BY <1>a, <1>23, AtWork DEF CloseFile
  <2> DEFINE f == Written(File(w))
             g == [f EXCEPT !.openList = @ \ {Client(w)}]
  <2>3. f \in ServerFile /\ Looser(f, File(w))
    BY <2>1, FileFacts, FileLocks
  <2> HIDE DEF f
  <2>4. g \in ServerFile /\ Looser(g, File(w))
    <3>1. g \in ServerFile
      BY <2>2, <2>3, FileFacts
    <3>2. g.flagO_lock = f.flagO_lock /\ g.lockOwner = f.lockOwner
      BY <2>2, <2>3 DEF ServerFile
    <3> QED
      BY <2>3, <3>1, <3>2 DEF Looser
  <2>5. Unlocked(g) \in ServerFile /\ Looser(Unlocked(g), File(w))
    <3>1. Unlocked(g) \in ServerFile /\ Looser(Unlocked(g), g)
      BY <2>4, FileFacts, FileLocks
    <3> QED
      BY <2>4, <3>1 DEF Looser
  <2>6. SetFile(node[w], g) \/ SetFile(node[w], Unlocked(g))
    BY <1>23 DEF CloseFile, f
  <2> QED
    BY <1>2, <2>1, <2>4, <2>5, <2>6
<1>24. CASE RemoveFile(w)
  BY <1>1, <1>24 DEF RemoveFile
<1>25. CASE TreeRemove(w)
  <2>1. node[w] \in Names
    BY <1>a, <1>25, AtWork DEF TreeRemove
  <2>2. SetFile(node[w], NULL) \/ UNCHANGED file
    BY <1>25 DEF TreeRemove, Detach
  <2> QED
    BY <1>1, <1>3, <2>1, <2>2
<1>26. CASE WriteFile(w)
  <2>1. node[w] \in Names /\ File(w) \in ServerFile
    BY <1>a, <1>26, AtWork DEF WriteFile
  <2> DEFINE g == Written(File(w))
  <2>3. g \in ServerFile /\ Looser(g, File(w))
    BY <2>1, FileFacts, FileLocks
  <2>5. SetFile(node[w], g)
    BY <1>26 DEF WriteFile
  <2> QED
    BY <1>2, <2>1, <2>3, <2>5
<1>27. CASE AppendToFile(w)
  <2>1. node[w] \in Names /\ File(w) \in ServerFile
    BY <1>a, <1>27, AtWork DEF AppendToFile
  <2> DEFINE g == Written(File(w))
  <2>3. g \in ServerFile /\ Looser(g, File(w))
    BY <2>1, FileFacts, FileLocks
  <2>5. SetFile(node[w], g)
    BY <1>27 DEF AppendToFile
  <2> QED
    BY <1>2, <2>1, <2>3, <2>5
<1>28. CASE PayloadCut(w)
  <2>1. Client(w) \in Clients
    BY <1>a, <1>28, AtWork DEF PayloadCut
  <2> QED
    BY <1>a, <1>28, <2>1, DisconnectLocks DEF PayloadCut
<1>29. CASE Discard(w)
  BY <1>1, <1>29 DEF Discard
<1>30. CASE Payload(w)
  BY <1>1, <1>30 DEF Payload
<1>31. CASE RoomEnough(w)
  <2>1. node[w] \in Names /\ File(w) \in ServerFile
    BY <1>a, <1>31, AtWork DEF RoomEnough
  <2> DEFINE g == [File(w) EXCEPT !.dim = @ + AppendDim]
  <2>3. g \in ServerFile /\ Looser(g, File(w))
    BY <2>1, FileFacts, FileLocks
  <2>5. SetFile(node[w], g)
    BY <1>31 DEF RoomEnough, Store
  <2> QED
    BY <1>2, <2>1, <2>3, <2>5
<1>32. CASE MakeRoom(w)
  <2> DEFINE S == MakeSpace(0, MissingSpace)
  <2>1. S \subseteq ToSet(lru)
    BY <1>a, MakeSpaceFacts DEF TypeOK
  <2>2. \A m \in S : file[m] \in ServerFile
    BY <1>a, <2>1 DEF TypeOK, FilesAccounted, Live
  <2>3. file' = Mark(S)
    BY <1>32 DEF MakeRoom
  <2> QED
    BY <1>a, <2>2, <2>3, MarkLocks
<1>33. CASE Unmark(w)
  <2> DEFINE m == LeastRecent(victims[w])
  <2>1. m \in Names /\ file[m] \in ServerFile
    BY <1>a, <1>33, VictimFacts DEF Unmark
  <2>2. SetFile(m, Released(file[m])) /\ Looser(Released(file[m]), file[m])
    BY <1>33, <2>1, FileLocks DEF Unmark
  <2> HIDE DEF m
  <2>3. file'[m] = Released(file[m]) /\ \A n \in Names : n # m => file'[n] = file[n]
    BY <1>a, <2>1, <2>2 DEF TypeOK, SetFile
  <2> QED
    BY <2>1, <2>2, <2>3, FileFacts DEF NoNewLock, Looser
<1>34. CASE NoRoom(w)
  BY <1>1, <1>34 DEF NoRoom
<1>35. CASE Evict(w)
  <2>1. LeastRecent(victims[w]) \in Names
    BY <1>a, <1>35, VictimFacts DEF Evict
  <2> QED
    BY <1>3, <1>35, <2>1 DEF Evict, Detach
<1>36. CASE Evicted(w)
  <2>1. node[w] \in Names /\ File(w) \in ServerFile
    BY <1>a, <1>36, AtWork DEF Evicted
  <2> DEFINE g == [File(w) EXCEPT !.dim = @ + AppendDim]
  <2>3. g \in ServerFile /\ Looser(g, File(w))
    BY <2>1, FileFacts, FileLocks
  <2>5. SetFile(node[w], g)
    BY <1>36 DEF Evicted, Store
  <2> QED
    BY <1>2, <2>1, <2>3, <2>5
<1>37. CASE Finish(w)
  <2>1. node[w] \in Names /\ File(w) \in ServerFile
    BY <1>a, <1>37, AtWork DEF Finish
  <2> DEFINE g == (IF GivesUp(File(w)) THEN Released(File(w)) ELSE File(w))
  <2>3. g \in ServerFile /\ Looser(g, File(w))
    BY <2>1, FileFacts, FileLocks
  <2>5. SetFile(node[w], g)
    BY <1>37 DEF Finish
  <2> QED
    BY <1>2, <2>1, <2>3, <2>5
<1>38. CASE Reply(w)
  <2>1. Client(w) \in Clients
    BY <1>a, <1>38, AtWork DEF Reply
  <2> QED
    BY <1>a, <1>38, <2>1, SendLocks DEF Reply
<1>39. CASE ReadNFiles(w)
  BY <1>1, <1>39 DEF ReadNFiles
<1>40. CASE NextRequest(w)
  <2>1. node[w] \in Names /\ File(w) \in ServerFile
    BY <1>a, <1>40, AtWork DEF NextRequest
  <2> DEFINE g == [File(w) EXCEPT !.requestList = Tail(@)]
  <2>2. File(w).requestList # <<>>
    BY <1>40 DEF NextRequest
  <2>3. g \in ServerFile /\ Looser(g, File(w))
    BY <2>1, <2>2, QueueFacts, FileLocks
  <2>5. SetFile(node[w], g)
    BY <1>40 DEF NextRequest
  <2> QED
    BY <1>2, <2>1, <2>3, <2>5
<1>41. CASE NoNextRequest(w)
  <2>1. node[w] \in Names /\ File(w) \in ServerFile
    BY <1>a, <1>41, AtWork DEF NoNextRequest
  <2> DEFINE g == Released(File(w))
  <2>3. g \in ServerFile /\ Looser(g, File(w))
    BY <2>1, FileFacts, FileLocks
  <2>5. SetFile(node[w], g)
    BY <1>41 DEF NoNextRequest
  <2> QED
    BY <1>2, <2>1, <2>3, <2>5
<1>42. CASE Touch(w)
  BY <1>1, <1>42 DEF Touch
<1>43. CASE HoldTree(w)
  BY <1>1, <1>43 DEF HoldTree
<1>44. CASE Crash(w)
  BY <1>1, <1>44 DEF Crash
<1> QED
  BY <1>4, <1>5, <1>6, <1>7, <1>8, <1>9, <1>10, <1>11, <1>12, <1>13,
     <1>14, <1>15, <1>16, <1>17, <1>18, <1>19, <1>20, <1>21, <1>22,
     <1>23, <1>24, <1>25, <1>26, <1>27, <1>28, <1>29, <1>30, <1>31,
     <1>32, <1>33, <1>34, <1>35, <1>36, <1>37, <1>38, <1>39, <1>40,
     <1>41, <1>42, <1>43, <1>44
     DEF Step

-----------------------------------------------------------------------------
(* Whose requests run on a locked file *)

(* A handler goes on with a request that waits for the lock of another. *)
Intrudes(w) == /\ NextRequest(w)
               /\ ~FileUsePermitted(Head(File(w).requestList).client, File(w))

(* Operations are begun by tryUse and by the loop of manageRequest only. *)
LEMMA ComesToExec ==
  ASSUME IInv, NEW w \in Workers, Step(w), pc'[w] = "exec"
  PROVE  TryUse(w) \/ NextRequest(w) \/ Crash(w)
<1> USE DEF Goto, ReplyThen, Done, At, Handling, Exec
<1>a. TypeOK
  BY DEF IInv
<1>1. CASE Find(w)
  BY <1>a, <1>1 DEF TypeOK, Find, InTree
<1>2. CASE AbsentError(w)
  BY <1>a, <1>2 DEF TypeOK, AbsentError
<1>3. CASE AbsentFatal(w)
  BY <1>a, <1>3 DEF TypeOK, AbsentFatal
<1>4. CASE Park(w)
  BY <1>a, <1>4 DEF TypeOK, Park
<1>5. CASE InsertNew(w)
  BY <1>a, <1>5 DEF TypeOK, InsertNew, Inserting, InTree
<1>6. CASE InsertExists(w)
  BY <1>a, <1>6 DEF TypeOK, InsertExists, Inserting, InTree
<1>7. CASE InsertNoMemory(w)
  BY <1>a, <1>7 DEF TypeOK, InsertNoMemory, Inserting, InTree
<1>8. CASE Opened(w)
  BY <1>a, <1>8 DEF TypeOK, Opened
<1>9. CASE Release(w)
  BY <1>a, <1>9 DEF TypeOK, Release
<1>10. CASE FileDel(w)
  BY <1>a, <1>10 DEF TypeOK, FileDel
<1>11. CASE InformReply(w)
  BY <1>a, <1>11 DEF TypeOK, InformReply, Informing
<1>12. CASE InformAppend(w)
  BY <1>a, <1>12 DEF TypeOK, InformAppend, Informing
<1>13. CASE InformWrite(w)
  BY <1>a, <1>13 DEF TypeOK, InformWrite, Informing
<1>14. CASE InformDone(w)
  BY <1>a, <1>14 DEF TypeOK, InformDone
<1>15. CASE Refuse(w)
  BY <1>a, <1>15 DEF TypeOK, Refuse, Refused
<1>16. CASE OpenFile(w)
  BY <1>a, <1>16 DEF TypeOK, OpenFile
<1>17. CASE SetLock(w)
  BY <1>a, <1>17 DEF TypeOK, SetLock
<1>18. CASE ReadFile(w)
  BY <1>a, <1>18 DEF TypeOK, ReadFile
<1>19. CASE LockFile(w)
  BY <1>a, <1>19 DEF TypeOK, LockFile
<1>20. CASE TableLock(w)
  BY <1>a, <1>20 DEF TypeOK, TableLock
<1>21. CASE UnlockFile(w)
  BY <1>a, <1>21 DEF TypeOK, UnlockFile
<1>22. CASE CloseFile(w)
  BY <1>a, <1>22 DEF TypeOK, CloseFile
<1>23. CASE RemoveFile(w)
  BY <1>a, <1>23 DEF TypeOK, RemoveFile
<1>24. CASE TreeRemove(w)
  BY <1>a, <1>24 DEF TypeOK, TreeRemove, InTree, Detach
<1>25. CASE WriteFile(w)
  BY <1>a, <1>25 DEF TypeOK, WriteFile
<1>26. CASE AppendToFile(w)
  BY <1>a, <1>26 DEF TypeOK, AppendToFile
<1>27. CASE PayloadCut(w)
  BY <1>a, <1>27 DEF TypeOK, PayloadCut
<1>28. CASE Discard(w)
  BY <1>a, <1>28 DEF TypeOK, Discard
<1>29. CASE Payload(w)
  BY <1>a, <1>29 DEF TypeOK, Payload
<1>30. CASE RoomEnough(w)
  BY <1>a, <1>30 DEF TypeOK, RoomEnough, Store, InTree
<1>31. CASE MakeRoom(w)
  BY <1>a, <1>31 DEF TypeOK, MakeRoom, InTree
<1>32. CASE Unmark(w)
  BY <1>a, <1>32 DEF TypeOK, Unmark
<1>33. CASE NoRoom(w)
  BY <1>a, <1>33 DEF TypeOK, NoRoom
<1>34. CASE Evict(w)
  BY <1>a, <1>34 DEF TypeOK, Evict, Detach
<1>35. CASE Evicted(w)
  BY <1>a, <1>35 DEF TypeOK, Evicted, Store
<1>36. CASE Finish(w)
  BY <1>a, <1>36 DEF TypeOK, Finish
<1>37. CASE Reply(w)
  BY <1>a, <1>37 DEF TypeOK, Reply
<1>38. CASE ReadNFiles(w)
  BY <1>a, <1>38 DEF TypeOK, ReadNFiles, InTree
<1>39. CASE NoNextRequest(w)
  BY <1>a, <1>39 DEF TypeOK, NoNextRequest
<1>40. CASE Touch(w)
  BY <1>a, <1>40 DEF TypeOK, Touch, InTree
<1>41. CASE HoldTree(w)
  BY <1>a, <1>41 DEF TypeOK, HoldTree, TreePCs
<1> QED
  BY <1>1, <1>2, <1>3, <1>4, <1>5, <1>6, <1>7, <1>8, <1>9, <1>10, <1>11,
     <1>12, <1>13, <1>14, <1>15, <1>16, <1>17, <1>18, <1>19, <1>20,
     <1>21, <1>22, <1>23, <1>24, <1>25, <1>26, <1>27, <1>28, <1>29,
     <1>30, <1>31, <1>32, <1>33, <1>34, <1>35, <1>36, <1>37, <1>38,
     <1>39, <1>40, <1>41
     DEF Step

LEMMA PermittedKept ==
  ASSUME NoNewLock, NEW n \in Names, file'[n] # NULL, NEW c,
         FileUsePermitted(c, file[n])
  PROVE  FileUsePermitted(c, file'[n])
BY DEF NoNewLock, Looser, FileUsePermitted

(* A file in use changes hands with its lock only. *)
LEMMA LockIsHandlers ==
  ASSUME IInv, TokenInv, NEW w \in Workers, Step(w),
         NEW v \in Workers, v # w, NEW n \in Names, Handles(v, n), NEW c,
         FileUsePermitted(c, file[n]), file'[n] # NULL
  PROVE  FileUsePermitted(c, file'[n])
<1>a. TypeOK /\ Placed /\ FilesAccounted
  BY DEF IInv
<1>b. InUse(n) /\ ~Handles(w, n)
  BY DEF TokenInv, OneHolder, HeldInUse, Holds
<1>1. CASE InsertNew(w)
  <2>1. node[w] \in Names /\ pc[w] = "insert"
    BY <1>a, <1>1, AtWork DEF InsertNew, Inserting, InTree, At
  <2> DEFINE new == NewServerFile(Client(w), O_LOCK(req[w].op), node[w])
  <2>2. CASE ~TreeIsFull
    <3>1. file' = [file EXCEPT ![node[w]] = new] /\ file[node[w]] = NULL
      BY <1>1, <2>2 DEF InsertNew, SetFile, File
    <3> HIDE DEF new
    <3>2. file'[n] = file[n]
      BY <1>a, <1>b, <3>1 DEF TypeOK, InUse
    <3> QED
      BY <3>2
  <2>3. CASE TreeIsFull
    <3>1. Expelled # {} /\ Expelled = MakeSpace(1, 0) /\ ToRemove \in Names
      BY <1>a, <1>1, <2>3, ToRemoveFacts DEF InsertNew, Expelled
    <3>2. ToRemove \in Expelled
      BY <1>a, <3>1, MakeSpaceFacts, LeastRecentFacts DEF TypeOK, ToRemove
    <3>3. ~InUse(ToRemove)
      BY <3>1, <3>2, MakeSpaceUnused DEF InUse
    <3>4. PICK m \in Names : m = ToRemove
      BY <3>1
    <3>5. /\ file' = [file EXCEPT ![m] = NULL, ![node[w]] = new]
          /\ file[node[w]] = NULL \/ node[w] = m
      BY <1>1, <2>3, <3>4 DEF InsertNew, File
    <3> HIDE DEF new
    <3>6. n # m /\ n # node[w]
      BY <1>b, <3>3, <3>4, <3>5 DEF InUse
    <3>7. file'[n] = file[n]
      BY <1>a, <3>5, <3>6 DEF TypeOK
    <3> QED
      BY <3>7
  <2> QED
    BY <2>2, <2>3
<1>2. CASE SetLock(w) \/ LockFile(w)
  <2>1. node[w] # n /\ SetFile(node[w], Locked(File(w), Client(w)))
    BY <1>2, <1>b DEF SetLock, LockFile, Handling, Exec, At, Handles
  <2>2. file'[n] = file[n]
    BY <1>a, <2>1 DEF TypeOK, SetFile
  <2> QED
    BY <2>2
<1> QED
  BY <1>1, <1>2, LocksStep, PermittedKept

LEMMA ExclusionStep ==
  ASSUME IInv, TypeOK', TokenInv, LockExclusion,
         NEW w \in Workers, Step(w), ~Intrudes(w)
  PROVE  LockExclusion'
<1>a. TypeOK /\ Placed
  BY DEF IInv
<1> SUFFICES ASSUME NEW v \in Workers, pc'[v] = "exec", file'[node'[v]] # NULL
             PROVE  FileUsePermitted(req'[v].client, file'[node'[v]])
  BY DEF LockExclusion, File, Client
<1>1. CASE v # w
  <2>1. pc[v] = "exec" /\ node'[v] = node[v] /\ req'[v] = req[v]
    BY <1>1, OthersKept
  <2>2. PICK n \in Names : n = node[v] /\ Handles(v, n)
    BY <1>a, <2>1, AtWork DEF Handles
  <2>3. FileUsePermitted(req[v].client, file[n])
    BY <2>1, <2>2 DEF LockExclusion, File, Client, TokenInv, HeldInUse, Holds,
       InUse
  <2> QED
    BY <1>1, <2>1, <2>2, <2>3, LockIsHandlers
<1>2. CASE v = w /\ TryUse(w)
  <2>1. node[w] \in Names /\ File(w) \in ServerFile
    BY <1>a, <1>2, AtWork DEF TryUse, Handling, At
  <2>2. /\ FileUsePermitted(req[w].client, file[node[w]])
        /\ SetFile(node[w], [File(w) EXCEPT !.flagUse = TRUE])
        /\ node' = node /\ req' = req
    BY <1>2 DEF TryUse, Available, Client, File, jobVars
  <2>3. file'[node[w]] = [file[node[w]] EXCEPT !.flagUse = TRUE]
    BY <1>a, <2>1, <2>2 DEF TypeOK, SetFile, File
  <2>4. Looser(file'[node[w]], file[node[w]])
    BY <2>1, <2>3, FileLocks DEF File
  <2> QED
    BY <1>2, <2>2, <2>4 DEF Looser, FileUsePermitted
<1>3. CASE v = w /\ NextRequest(w)
  <2>1. node[w] \in Names /\ File(w) \in ServerFile
    BY <1>a, <1>3, AtWork DEF NextRequest, Handling, At
  <2> DEFINE g == [File(w) EXCEPT !.requestList = Tail(@)]
  <2>2. /\ SetFile(node[w], g) /\ node' = node /\ File(w).requestList # <<>>
        /\ req' = [req EXCEPT ![w] = Head(File(w).requestList)]
    BY <1>3 DEF NextRequest
  <2>3. FileUsePermitted(Head(File(w).requestList).client, File(w))
    BY <1>3 DEF Intrudes
  <2>4. Looser(g, File(w))
    BY <2>1, FileLocks
  <2> HIDE DEF g
  <2>5. file'[node[w]] = g /\ req'[w] = Head(File(w).requestList)
    BY <1>a, <2>1, <2>2 DEF TypeOK, SetFile
  <2> QED
    BY <1>3, <2>2, <2>3, <2>4, <2>5 DEF Looser, FileUsePermitted
<1>4. CASE v = w /\ Crash(w)
  <2>1. UNCHANGED <<file, pc, node, req>>
    BY <1>4 DEF Crash, jobVars
  <2> QED
    BY <2>1 DEF LockExclusion, File, Client
<1> QED
  BY <1>1, <1>2, <1>3, <1>4, ComesToExec

LEMMA OutsideExclusion ==
  ASSUME IInv, TypeOK', LockExclusion, [Next]_vars, ~\E w \in Workers : Step(w)
  PROVE  LockExclusion'
<1> USE DEF treeVars, tableVars, clientVars, jobVars, evictVars, lockVars
<1>a. TypeOK /\ Placed
  BY DEF IInv
<1>1. CASE UNCHANGED vars
  BY <1>1 DEF vars, LockExclusion, File, Client
<1>2. ASSUME NEW c \in Clients, Die(c) PROVE LockExclusion'
  BY <1>2 DEF Die, LockExclusion, File, Client
<1>3. ASSUME NEW w \in Workers, NEW c \in Clients, NEW op \in OpKinds,
             NEW n \in Names, Take(w, c, op, n)
      PROVE  LockExclusion'
  <2>1. /\ pc'[w] \in {"readn", "find"} /\ UNCHANGED file
        /\ \A v \in Workers : v # w => /\ pc'[v] = pc[v] /\ node'[v] = node[v]
                                       /\ req'[v] = req[v]
    BY <1>a, <1>3 DEF Take, At, Goto, TypeOK
  <2> QED
    BY <2>1 DEF LockExclusion, File, Client
<1>4. ASSUME NEW w \in Workers, NEW c \in Clients, TakeEOF(w, c)
      PROVE  LockExclusion'
  <2>1. NoNewLock /\ UNCHANGED <<pc, node, req>>
    BY <1>a, <1>4, DisconnectLocks DEF TakeEOF
  <2> SUFFICES ASSUME NEW v \in Workers, pc[v] = "exec", file'[node[v]] # NULL
               PROVE  FileUsePermitted(req[v].client, file'[node[v]])
    BY <2>1 DEF LockExclusion, File, Client
  <2>2. node[v] \in Names
    BY <1>a, AtWork
  <2>3. file[node[v]] # NULL
    BY <2>1, <2>2 DEF NoNewLock
  <2> QED
    BY <2>1, <2>2, <2>3, PermittedKept DEF LockExclusion, File, Client
<1> QED
  BY <1>1, <1>2, <1>3, <1>4 DEF Next

(* An operation runs on a file another client has locked only when a       *)
(* handler goes on with a request that waits for the lock (server.c:1365); *)
(* no interleaving of tryUse with lockFileW, openFileW, the evictions or a *)
(* disconnection of another worker does it.                                *)
THEOREM OnlyNextRequestIntrudes ==
  Spec /\ [][\A w \in Workers : ~ReleasesOthers(w) /\ ~Intrudes(w)]_vars
    => []LockExclusion
<1> DEFINE N == \A w \in Workers : ~ReleasesOthers(w) /\ ~Intrudes(w)
           I == TokenInv /\ LockExclusion
<1>1. (IInv /\ IInv' /\ I) /\ [Next]_vars /\ [N]_vars => I'
  <2> SUFFICES ASSUME IInv, IInv', I, [Next]_vars, [N]_vars PROVE I'
    OBVIOUS
  <2>1. TypeOK'
    BY DEF IInv
  <2>2. CASE UNCHANGED vars
    <3>1. Calm
      BY <2>2 DEF vars, treeVars, jobVars, evictVars, Calm, SameUse, InUse,
         Handles, CreatesAsked, Creates
    <3>2. LockExclusion'
      BY <2>2 DEF vars, jobVars, LockExclusion, File, Client
    <3> QED
      BY <3>1, <3>2, CalmStep
  <2>3. CASE N
    <3>1. CASE \E w \in Workers : Step(w)
      BY <2>1, <2>3, <3>1, HoldersStep, ExclusionStep
    <3>2. CASE ~\E w \in Workers : Step(w)
      BY <2>1, <3>2, OutsideCalm, CalmStep, OutsideExclusion
    <3> QED
      BY <3>1, <3>2
  <2> QED
    BY <2>2, <2>3
<1>2. Init => I
  <2>1. Init => LockExclusion
    BY DEF Init, LockExclusion
  <2> QED
    BY <2>1, InitToken
<1>3. I => LockExclusion
  OBVIOUS
<1> QED
  BY <1>1, <1>2, <1>3, Invariance, PTL DEF Spec

-----------------------------------------------------------------------------
(* Instances in which the token is kept *)

LockOps   == {"OPEN_LOCK", "OPEN_CREATE_LOCK", "LOCK"}
NobodyLocks == \A c \in Clients : Workload[c] \cap LockOps = {}
NobodyReads == \A c \in Clients : "READ" \notin Workload[c]
OneWorker   == \A v, w \in Workers : v = w
OneName     == \A m, n \in Names : m = n
RoomForAll  == IsFiniteSet(Names) /\ Cardinality(Names) < MaxFileNum

(* A request at work is one its client may ask for. *)
LEMMA HeldAskedFor ==
  ASSUME TypeOK, AskedFor, NEW w \in Workers, req[w] # NULL
  PROVE  Client(w) \in Clients /\ req[w].op \in Workload[Client(w)]
<1>1. req[w] \in Request
  BY DEF TypeOK
<1> QED
  BY <1>1 DEF AskedFor, Asked, Client, Request

(* Where nobody locks, no file is locked. *)
NoLocks == /\ \A n \in Names : file[n] # NULL => ~file[n].flagO_lock
           /\ \A w \in Workers : pc[w] = "setlock" => O_LOCK(req[w].op)

LEMMA ComesToSetLock ==
  ASSUME IInv, NEW w \in Workers, Step(w), pc'[w] = "setlock"
  PROVE  OpenFile(w) \/ Crash(w)
<1> USE DEF Goto, ReplyThen, Done, At, Handling, Exec
<1>a. TypeOK
  BY DEF IInv
<1>1. CASE Find(w)
  BY <1>a, <1>1 DEF TypeOK, Find, InTree
<1>2. CASE AbsentError(w)
  BY <1>a, <1>2 DEF TypeOK, AbsentError
<1>3. CASE AbsentFatal(w)
  BY <1>a, <1>3 DEF TypeOK, AbsentFatal
<1>4. CASE TryUse(w)
  BY <1>a, <1>4 DEF TypeOK, TryUse
<1>5. CASE Park(w)
  BY <1>a, <1>5 DEF TypeOK, Park
<1>6. CASE InsertNew(w)
  BY <1>a, <1>6 DEF TypeOK, InsertNew, Inserting, InTree
<1>7. CASE InsertExists(w)
  BY <1>a, <1>7 DEF TypeOK, InsertExists, Inserting, InTree
<1>8. CASE InsertNoMemory(w)
  BY <1>a, <1>8 DEF TypeOK, InsertNoMemory, Inserting, InTree
<1>9. CASE Opened(w)
  BY <1>a, <1>9 DEF TypeOK, Opened
<1>10. CASE Release(w)
  BY <1>a, <1>10 DEF TypeOK, Release
<1>11. CASE FileDel(w)
  BY <1>a, <1>11 DEF TypeOK, FileDel
<1>12. CASE InformReply(w)
  BY <1>a, <1>12 DEF TypeOK, InformReply, Informing
<1>13. CASE InformAppend(w)
  BY <1>a, <1>13 DEF TypeOK, InformAppend, Informing
<1>14. CASE InformWrite(w)
  BY <1>a, <1>14 DEF TypeOK, InformWrite, Informing
<1>15. CASE InformDone(w)
  BY <1>a, <1>15 DEF TypeOK, InformDone
<1>16. CASE Refuse(w)
  BY <1>a, <1>16 DEF TypeOK, Refuse, Refused
<1>17. CASE SetLock(w)
  BY <1>a, <1>17 DEF TypeOK, SetLock
<1>18. CASE ReadFile(w)
  BY <1>a, <1>18 DEF TypeOK, ReadFile
<1>19. CASE LockFile(w)
  BY <1>a, <1>19 DEF TypeOK, LockFile
<1>20. CASE TableLock(w)
  BY <1>a, <1>20 DEF TypeOK, TableLock
<1>21. CASE UnlockFile(w)
  BY <1>a, <1>21 DEF TypeOK, UnlockFile
<1>22. CASE CloseFile(w)
  BY <1>a, <1>22 DEF TypeOK, CloseFile
<1>23. CASE RemoveFile(w)
  BY <1>a, <1>23 DEF TypeOK, RemoveFile
<1>24. CASE TreeRemove(w)
  BY <1>a, <1>24 DEF TypeOK, TreeRemove, InTree, Detach
<1>25. CASE WriteFile(w)
  BY <1>a, <1>25 DEF TypeOK, WriteFile
<1>26. CASE AppendToFile(w)
  BY <1>a, <1>26 DEF TypeOK, AppendToFile
<1>27. CASE PayloadCut(w)
  BY <1>a, <1>27 DEF TypeOK, PayloadCut
<1>28. CASE Discard(w)
  BY <1>a, <1>28 DEF TypeOK, Discard
<1>29. CASE Payload(w)
  BY <1>a, <1>29 DEF TypeOK, Payload
<1>30. CASE RoomEnough(w)
  BY <1>a, <1>30 DEF TypeOK, RoomEnough, Store, InTree
<1>31. CASE MakeRoom(w)
  BY <1>a, <1>31 DEF TypeOK, MakeRoom, InTree
<1>32. CASE Unmark(w)
  BY <1>a, <1>32 DEF TypeOK, Unmark
<1>33. CASE NoRoom(w)
  BY <1>a, <1>33 DEF TypeOK, NoRoom
<1>34. CASE Evict(w)
  BY <1>a, <1>34 DEF TypeOK, Evict, Detach
<1>35. CASE Evicted(w)
  BY <1>a, <1>35 DEF TypeOK, Evicted, Store
<1>36. CASE Finish(w)
  BY <1>a, <1>36 DEF TypeOK, Finish
<1>37. CASE Reply(w)
  BY <1>a, <1>37 DEF TypeOK, Reply
<1>38. CASE ReadNFiles(w)
  BY <1>a, <1>38 DEF TypeOK, ReadNFiles, InTree
<1>39. CASE NextRequest(w)
  BY <1>a, <1>39 DEF TypeOK, NextRequest
<1>40. CASE NoNextRequest(w)
  BY <1>a, <1>40 DEF TypeOK, NoNextRequest
<1>41. CASE Touch(w)
  BY <1>a, <1>41 DEF TypeOK, Touch, InTree
<1>42. CASE HoldTree(w)
  BY <1>a, <1>42 DEF TypeOK, HoldTree, TreePCs
<1> QED
  BY <1>1, <1>2, <1>3, <1>4, <1>5, <1>6, <1>7, <1>8, <1>9, <1>10, <1>11,
     <1>12, <1>13, <1>14, <1>15, <1>16, <1>17, <1>18, <1>19, <1>20,
     <1>21, <1>22, <1>23, <1>24, <1>25, <1>26, <1>27, <1>28, <1>29,
     <1>30, <1>31, <1>32, <1>33, <1>34, <1>35, <1>36, <1>37, <1>38,
     <1>39, <1>40, <1>41, <1>42
     DEF Step

LEMMA NoLocksStep ==
  ASSUME IInv, IInv', AskedFor, NobodyLocks, NoLocks, [Next]_vars
  PROVE  NoLocks'
<1> USE DEF treeVars, tableVars, clientVars, jobVars, evictVars, lockVars
<1>a. TypeOK /\ Placed /\ FilesAccounted /\ TypeOK'
  BY DEF IInv
<1>b. ASSUME NEW w \in Workers, req[w] # NULL PROVE req[w].op \notin LockOps
  BY <1>a, <1>b, HeldAskedFor DEF NobodyLocks
<1>k. ASSUME NoNewLock
      PROVE  \A n \in Names : file'[n] # NULL => ~file'[n].flagO_lock
  BY <1>k DEF NoNewLock, Looser, NoLocks
<1>1. CASE UNCHANGED vars
  BY <1>1 DEF vars, NoLocks
<1>2. ASSUME NEW c \in Clients, Die(c) PROVE NoLocks'
  BY <1>2 DEF Die, NoLocks
<1>3. ASSUME NEW w \in Workers, NEW c \in Clients, NEW op \in OpKinds,
             NEW n \in Names, Take(w, c, op, n)
      PROVE  NoLocks'
  <2>1. /\ pc'[w] \in {"readn", "find"} /\ UNCHANGED file
        /\ \A v \in Workers : v # w => pc'[v] = pc[v] /\ req'[v] = req[v]
    BY <1>a, <1>3 DEF Take, At, Goto, TypeOK
  <2> QED
    BY <2>1 DEF NoLocks
<1>4. ASSUME NEW w \in Workers, NEW c \in Clients, TakeEOF(w, c) PROVE NoLocks'
  BY <1>a, <1>4, <1>k, DisconnectLocks DEF TakeEOF, NoLocks
<1>5. ASSUME NEW w \in Workers, Step(w) PROVE NoLocks'
  <2>1. ASSUME NEW v \in Workers, pc'[v] = "setlock" PROVE O_LOCK(req'[v].op)
    <3>1. CASE v # w
      BY <1>5, <2>1, <3>1, OthersKept DEF NoLocks
    <3>2. CASE v = w /\ OpenFile(w)
      BY <1>a, <2>1, <3>2 DEF OpenFile, Goto, ReplyThen, TypeOK
    <3>3. CASE v = w /\ Crash(w)
      BY <2>1, <3>3 DEF Crash, NoLocks
    <3> QED
      BY <1>5, <2>1, <3>1, <3>2, <3>3, ComesToSetLock
  <2>2. ~SetLock(w) /\ ~LockFile(w)
    <3>1. ASSUME SetLock(w) PROVE FALSE
      <4>1. pc[w] = "setlock" /\ req[w] # NULL
        BY <1>a, <3>1 DEF SetLock, Handling, At, Placed, WellPlaced, HasRequest
      <4> QED
        BY <1>b, <4>1 DEF NoLocks, O_LOCK, LockOps
    <3>2. ASSUME LockFile(w) PROVE FALSE
      <4>1. pc[w] = "exec" /\ req[w] # NULL /\ req[w].op = "LOCK"
        BY <1>a, <3>2 DEF LockFile, Exec, Handling, At, Placed, WellPlaced,
           HasRequest
      <4> QED
        BY <1>b, <4>1 DEF LockOps
    <3> QED
      BY <3>1, <3>2
  <2>3. CASE ~InsertNew(w)
    BY <1>5, <1>k, <2>1, <2>2, <2>3, LocksStep DEF NoLocks
  <2>4. CASE InsertNew(w)
    <3>1. pc[w] = "insert" /\ node[w] \in Names /\ req[w] # NULL
      BY <1>a, <2>4, AtWork DEF InsertNew, Inserting, InTree, At, Placed,
         WellPlaced, HasRequest
    <3> DEFINE new == NewServerFile(Client(w), O_LOCK(req[w].op), node[w])
    <3>2. ~new.flagO_lock
      <4>1. ~O_LOCK(req[w].op)
        BY <1>b, <3>1 DEF O_LOCK, LockOps
      <4>2. new.flagO_lock = O_LOCK(req[w].op)
        BY DEF NewServerFile
      <4> QED
        BY <4>1, <4>2
    <3>3. \/ file' = [file EXCEPT ![node[w]] = new]
          \/ file' = [file EXCEPT ![ToRemove] = NULL, ![node[w]] = new]
      BY <2>4 DEF InsertNew, SetFile
    <3> HIDE DEF new
    <3>4. \A n \in Names : file'[n] \in {NULL, new, file[n]}
      <4>1. PICK m : m = ToRemove
        OBVIOUS
      <4> QED
        BY <1>a, <3>1, <3>3, <4>1 DEF TypeOK
    <3>5. \A n \in Names : file'[n] # NULL => ~file'[n].flagO_lock
      BY <3>2, <3>4 DEF NoLocks
    <3> QED
      BY <2>1, <3>5 DEF NoLocks
  <2> QED
    BY <2>3, <2>4
<1> QED
  BY <1>1, <1>2, <1>3, <1>4, <1>5 DEF Next

(* One worker inserts a name that is still absent. *)
StillAbsent == \A w \in Workers : pc[w] = "insert" => File(w) = NULL

LEMMA ComesToInsert ==
  ASSUME IInv, NEW w \in Workers, Step(w), pc'[w] = "insert"
  PROVE  Find(w) \/ HoldTree(w) \/ Crash(w)
<1> USE DEF Goto, ReplyThen, Done, At, Handling, Exec
<1>a. TypeOK
  BY DEF IInv
<1>1. CASE AbsentError(w)
  BY <1>a, <1>1 DEF TypeOK, AbsentError
<1>2. CASE AbsentFatal(w)
  BY <1>a, <1>2 DEF TypeOK, AbsentFatal
<1>3. CASE TryUse(w)
  BY <1>a, <1>3 DEF TypeOK, TryUse
<1>4. CASE Park(w)
  BY <1>a, <1>4 DEF TypeOK, Park
<1>5. CASE InsertNew(w)
  BY <1>a, <1>5 DEF TypeOK, InsertNew, Inserting, InTree
<1>6. CASE InsertExists(w)
  BY <1>a, <1>6 DEF TypeOK, InsertExists, Inserting, InTree
<1>7. CASE InsertNoMemory(w)
  BY <1>a, <1>7 DEF TypeOK, InsertNoMemory, Inserting, InTree
<1>8. CASE Opened(w)
  BY <1>a, <1>8 DEF TypeOK, Opened
<1>9. CASE Release(w)
  BY <1>a, <1>9 DEF TypeOK, Release
<1>10. CASE FileDel(w)
  BY <1>a, <1>10 DEF TypeOK, FileDel
<1>11. CASE InformReply(w)
  BY <1>a, <1>11 DEF TypeOK, InformReply, Informing
<1>12. CASE InformAppend(w)
  BY <1>a, <1>12 DEF TypeOK, InformAppend, Informing
<1>13. CASE InformWrite(w)
  BY <1>a, <1>13 DEF TypeOK, InformWrite, Informing
<1>14. CASE InformDone(w)
  BY <1>a, <1>14 DEF TypeOK, InformDone
<1>15. CASE Refuse(w)
  BY <1>a, <1>15 DEF TypeOK, Refuse, Refused
<1>16. CASE OpenFile(w)
  BY <1>a, <1>16 DEF TypeOK, OpenFile
<1>17. CASE SetLock(w)
  BY <1>a, <1>17 DEF TypeOK, SetLock
<1>18. CASE ReadFile(w)
  BY <1>a, <1>18 DEF TypeOK, ReadFile
<1>19. CASE LockFile(w)
  BY <1>a, <1>19 DEF TypeOK, LockFile
<1>20. CASE TableLock(w)
  BY <1>a, <1>20 DEF TypeOK, TableLock
<1>21. CASE UnlockFile(w)
  BY <1>a, <1>21 DEF TypeOK, UnlockFile
<1>22. CASE CloseFile(w)
  BY <1>a, <1>22 DEF TypeOK, CloseFile
<1>23. CASE RemoveFile(w)
  BY <1>a, <1>23 DEF TypeOK, RemoveFile
<1>24. CASE TreeRemove(w)
  BY <1>a, <1>24 DEF TypeOK, TreeRemove, InTree, Detach
<1>25. CASE WriteFile(w)
  BY <1>a, <1>25 DEF TypeOK, WriteFile
<1>26. CASE AppendToFile(w)
  BY <1>a, <1>26 DEF TypeOK, AppendToFile
<1>27. CASE PayloadCut(w)
  BY <1>a, <1>27 DEF TypeOK, PayloadCut
<1>28. CASE Discard(w)
  BY <1>a, <1>28 DEF TypeOK, Discard
<1>29. CASE Payload(w)
  BY <1>a, <1>29 DEF TypeOK, Payload
<1>30. CASE RoomEnough(w)
  BY <1>a, <1>30 DEF TypeOK, RoomEnough, Store, InTree
<1>31. CASE MakeRoom(w)
  BY <1>a, <1>31 DEF TypeOK, MakeRoom, InTree
<1>32. CASE Unmark(w)
  BY <1>a, <1>32 DEF TypeOK, Unmark
<1>33. CASE NoRoom(w)
  BY <1>a, <1>33 DEF TypeOK, NoRoom
<1>34. CASE Evict(w)
  BY <1>a, <1>34 DEF TypeOK, Evict, Detach
<1>35. CASE Evicted(w)
  BY <1>a, <1>35 DEF TypeOK, Evicted, Store
<1>36. CASE Finish(w)
  BY <1>a, <1>36 DEF TypeOK, Finish
<1>37. CASE Reply(w)
  BY <1>a, <1>37 DEF TypeOK, Reply
<1>38. CASE ReadNFiles(w)
  BY <1>a, <1>38 DEF TypeOK, ReadNFiles, InTree
<1>39. CASE NextRequest(w)
  BY <1>a, <1>39 DEF TypeOK, NextRequest
<1>40. CASE NoNextRequest(w)
  BY <1>a, <1>40 DEF TypeOK, NoNextRequest
<1>41. CASE Touch(w)
  BY <1>a, <1>41 DEF TypeOK, Touch, InTree
<1> QED
  BY <1>1, <1>2, <1>3, <1>4, <1>5, <1>6, <1>7, <1>8, <1>9, <1>10, <1>11,
     <1>12, <1>13, <1>14, <1>15, <1>16, <1>17, <1>18, <1>19, <1>20,
     <1>21, <1>22, <1>23, <1>24, <1>25, <1>26, <1>27, <1>28, <1>29,
     <1>30, <1>31, <1>32, <1>33, <1>34, <1>35, <1>36, <1>37, <1>38,
     <1>39, <1>40, <1>41
     DEF Step

LEMMA StillAbsentStep ==
  ASSUME IInv, OneWorker, StillAbsent, [Next]_vars
  PROVE  StillAbsent'
<1> USE DEF treeVars, tableVars, clientVars, jobVars, evictVars, lockVars
<1>a. TypeOK
  BY DEF IInv
<1>1. CASE UNCHANGED vars
  BY <1>1 DEF vars, StillAbsent, File
<1>2. ASSUME NEW c \in Clients, Die(c) PROVE StillAbsent'
  BY <1>2 DEF Die, StillAbsent, File
<1>3. ASSUME NEW w \in Workers, NEW c \in Clients, NEW op \in OpKinds,
             NEW n \in Names, Take(w, c, op, n)
      PROVE  StillAbsent'
  BY <1>a, <1>3 DEF Take, At, Goto, TypeOK, StillAbsent, OneWorker
<1>4. ASSUME NEW w \in Workers, NEW c \in Clients, TakeEOF(w, c)
      PROVE  StillAbsent'
  BY <1>a, <1>4 DEF TakeEOF, At, TypeOK, StillAbsent, OneWorker
<1>5. ASSUME NEW w \in Workers, Step(w) PROVE StillAbsent'
  <2>1. ASSUME pc'[w] = "insert" PROVE file'[node'[w]] = NULL
    <3>1. CASE Find(w)
      BY <1>a, <2>1, <3>1 DEF Find, Goto, Found, File, TypeOK
    <3>2. CASE HoldTree(w) \/ Crash(w)
      BY <2>1, <3>2 DEF HoldTree, Crash, StillAbsent, File
    <3> QED
      BY <1>5, <2>1, <3>1, <3>2, ComesToInsert
  <2> QED
    BY <2>1 DEF StillAbsent, OneWorker, File
<1> QED
  BY <1>1, <1>2, <1>3, <1>4, <1>5 DEF Next

(* With room for every name the tree is never full. *)
LEMMA NeverFull ==
  ASSUME IInv, RoomForAll
  PROVE  ~TreeIsFull
<1>1. /\ lru \in Seq(Names) /\ Distinct(lru) /\ fileCount = Len(lru)
  BY DEF IInv, TypeOK, FilesAccounted, Distinct
<1>2. Len(lru) \in Nat /\ lru \in [1..Len(lru) -> Names]
  BY <1>1
<1>3. lru \in Injection(1..Len(lru), Names)
  BY <1>1, <1>2 DEF Injection, IsInjective, Distinct
<1>4. Cardinality(1..Len(lru)) = Len(lru) /\ IsFiniteSet(1..Len(lru))
  BY <1>2, FS_Interval
<1>5. Len(lru) <= Cardinality(Names)
  BY <1>3, <1>4, FS_Injection DEF RoomForAll
<1>6. Cardinality(Names) \in Nat
  BY FS_CardinalityType DEF RoomForAll
<1> QED
  BY <1>1, <1>2, <1>5, <1>6, CapacityAssumption DEF TreeIsFull, RoomForAll

(* The token is kept in every instance without the three defects: nobody   *)
(* creates a file with its lock; nobody reads, or nobody locks; and one    *)
(* worker serves all, or no file is expelled to make room for another      *)
(* name.  Files are still evicted, for their bytes, and removed.           *)
THEOREM TokenKept ==
  ASSUME \A c \in Clients : "OPEN_CREATE_LOCK" \notin Workload[c],
         NobodyReads \/ NobodyLocks,
         OneWorker \/ OneName \/ RoomForAll
  PROVE  Spec => []UseToken
<1> DEFINE Locks  == NobodyLocks => NoLocks
           Absent == OneWorker => StillAbsent
           I == AskedFor /\ Locks /\ Absent
           N == \A w \in Workers : ~ReleasesOthers(w) /\ ~LeavesInUse(w)
<1>1. IInv /\ IInv' /\ I /\ [Next]_vars => I'
  <2> SUFFICES ASSUME IInv, IInv', I, [Next]_vars PROVE I'
    OBVIOUS
  <2>1. AskedFor'
    BY AskedForStep DEF IInv
  <2>2. Locks'
    <3> SUFFICES ASSUME NobodyLocks PROVE NoLocks'
      BY DEF NobodyLocks
    <3> QED
      BY NoLocksStep
  <2>3. Absent'
    <3> SUFFICES ASSUME OneWorker PROVE StillAbsent'
      BY DEF OneWorker
    <3> QED
      BY StillAbsentStep
  <2> QED
    BY <2>1, <2>2, <2>3
<1>2. IInv /\ I => N
  <2> SUFFICES ASSUME IInv, I, NEW w \in Workers
               PROVE  ~ReleasesOthers(w) /\ ~LeavesInUse(w)
    OBVIOUS
  <2>a. TypeOK /\ Placed
    BY DEF IInv
  <2>1. ~ReleasesOthers(w)
    <3> SUFFICES ASSUME ReleasesOthers(w) PROVE FALSE
      OBVIOUS
    <3>1. req[w] # NULL /\ req[w].op = "OPEN_CREATE_LOCK"
      BY <2>a DEF ReleasesOthers, Release, Handling, At, Placed, WellPlaced,
         HasRequest
    <3> QED
      BY <2>a, <3>1, HeldAskedFor
  <2>2. ~(ReadFile(w) /\ File(w).flagO_lock)
    <3> SUFFICES ASSUME ReadFile(w), File(w).flagO_lock PROVE FALSE
      OBVIOUS
    <3>1. /\ pc[w] = "exec" /\ req[w] # NULL /\ req[w].op = "READ"
          /\ node[w] \in Names /\ File(w) # NULL
      BY <2>a, AtWork DEF ReadFile, Exec, Handling, At, Placed, WellPlaced,
         HasRequest
    <3>2. CASE NobodyReads
      BY <2>a, <3>1, <3>2, HeldAskedFor DEF NobodyReads
    <3>3. CASE NobodyLocks
      BY <3>1, <3>3 DEF NoLocks, File
    <3> QED
      BY <3>2, <3>3
  <2>3. ~(InsertExists(w) /\ TreeIsFull)
    <3> SUFFICES ASSUME InsertExists(w), TreeIsFull PROVE FALSE
      OBVIOUS
    <3>1. CASE OneWorker
      BY <3>1 DEF StillAbsent, InsertExists, Inserting, InTree, At
    <3>2. CASE RoomForAll
      BY <3>2, NeverFull
    <3>3. CASE OneName
      <4>1. node[w] \in Names
        BY <2>a, AtWork DEF InsertExists, Inserting, InTree, At
      <4>2. ToRemove \in Names /\ node[w] # ToRemove
        BY <2>a, ToRemoveFacts DEF InsertExists, IInv
      <4> QED
        BY <3>3, <4>1, <4>2 DEF OneName
    <3> QED
      BY <3>1, <3>2, <3>3
  <2> QED
    BY <2>1, <2>2, <2>3 DEF LeavesInUse
<1>3. Init => I
  <2>1. Init => AskedFor
    BY InitKept
  <2>2. Init => NoLocks /\ StillAbsent
    BY DEF Init, NoLocks, StillAbsent
  <2> QED
    BY <2>1, <2>2
<1> HIDE DEF I, N
<1>4. IInv /\ I => N
  BY <1>2
<1>5. Spec => [](IInv /\ I)
  BY <1>1, <1>3, Invariance, PTL DEF Spec
<1>6. Spec => [][N]_vars
  BY <1>4, <1>5, PTL
<1> QED
  BY <1>6, OnlyTheseLeaveInUse, PTL DEF N

=============================================================================
