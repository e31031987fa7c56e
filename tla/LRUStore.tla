------------------------------- MODULE LRUStore -------------------------------
(***************************************************************************)
(* What tree.h promises of the file store: named files in the order of     *)
(* their last use, at most MaxFileNum of them and MaxFileDim units of      *)
(* data; the oldest files that no worker is using make room for new ones.  *)
(* TreeFile, with the pointers of tree.c, is shown to implement it.        *)
(***************************************************************************)
EXTENDS Integers, SequencesExt, FiniteSetsExt

CONSTANTS Names, MaxFileNum, MaxFileDim, Sizes

VARIABLES
  order,   \* the names of the stored files, the least recently used first
  size,    \* size[n]: data of file n, 0 when it is not stored
  inUse    \* the files a worker is using (flagUse), never chosen as victims

vars == <<order, size, inUse>>

Without(seq, S) ==
  FoldLeft(LAMBDA rest, n : IF n \in S THEN rest ELSE Append(rest, n),
           <<>>, seq)
Stored == Range(order)
Idle == Without(order, inUse)
Total(S) == MapThenSumSet(LAMBDA n : size[n], S)

Init == order = <<>> /\ size = [n \in Names |-> 0] /\ inUse = {}

InUseOrNot(n) == inUse' \in {inUse \cup {n}, inUse \ {n}}

Insert(n) ==
  /\ Len(order) < MaxFileNum
  /\ order' = Append(order, n)
  /\ InUseOrNot(n)
  /\ UNCHANGED size

(* In a full store a new file takes the place of the oldest idle one *)
Replace(n) ==
  /\ Len(order) = MaxFileNum /\ Idle # <<>>
  /\ LET victim == Head(Idle)
     IN /\ n \notin Stored \ {victim}
        /\ order' = Append(Without(order, {victim}), n)
        /\ size' = [size EXCEPT ![victim] = 0]
        /\ InUseOrNot(n)

(* The name exists: the victim chosen meanwhile stays, as the last used    *)
(* file, and as one in use.                                                *)
Exists(n) ==
  /\ Len(order) = MaxFileNum /\ Idle # <<>>
  /\ LET victim == Head(Idle)
     IN /\ n # victim
        /\ order' = Append(Without(order, {victim}), victim)
        /\ inUse' = inUse \cup {victim}
  /\ UNCHANGED size

Delete(n) ==
  /\ order' = Without(order, {n})
  /\ size' = [size EXCEPT ![n] = 0]
  /\ inUse' = inUse \ {n}

Touch(n) ==
  /\ n \notin inUse
  /\ order' = Append(Without(order, {n}), n)
  /\ UNCHANGED <<size, inUse>>

Use(n) ==
  /\ InUseOrNot(n)
  /\ UNCHANGED <<order, size>>

(* The oldest idle files, as few as free the space that is missing *)
Freed(k) == Total(Range(SubSeq(Idle, 1, k)))
Grow(n, d) ==
  /\ LET missing == Total(Stored) + d - MaxFileDim
         enough == {k \in 0..Len(Idle) : Freed(k) >= missing}
     IN /\ enough # {}
        /\ LET victims == Range(SubSeq(Idle, 1, Min(enough)))
           IN /\ order' = Without(order, victims)
              /\ size' = [m \in Names |->
                   CASE m \in victims -> 0
                     [] m = n         -> size[m] + d
                     [] OTHER         -> size[m]]
  /\ UNCHANGED inUse

Next ==
  \/ \E n \in Stored : Use(n)
  \/ \E n \in Stored : Touch(n) \/ Delete(n) \/ Exists(n)
  \/ \E n \in Names \ Stored : Insert(n)
  \/ \E n \in Names : Replace(n)
  \/ \E n \in inUse, d \in Sizes : Grow(n, d)

Spec == Init /\ [][Next]_vars
=============================================================================
