------------------------------- MODULE TreeFile -------------------------------
(***************************************************************************)
(* The file store of tree.c with its pointers: a binary search tree whose  *)
(* nodes are never freed (a node without sFile stands for a file that is   *)
(* gone), and through the nodes that have a file a doubly linked list from *)
(* the least to the most recently used.                                    *)
(*                                                                         *)
(* Every operation runs under the tree's mutex and is one step; what       *)
(* workers do between them is FileServer's subject.  The operations are    *)
(* called as server.c calls them: a node that is removed, used or moved to *)
(* the front has a file, an append is made by the worker that uses it.     *)
(*                                                                         *)
(* A definition whose name ends in a capitalised remark is a faulty        *)
(* variant of the definition that follows it; no action uses it.           *)
(***************************************************************************)
EXTENDS Integers, SequencesExt, FiniteSetsExt

CONSTANTS
  Names,        \* numbers, compared as strcmp compares the names
  Nodes,        \* addresses of TreeNodes
  MaxFileNum, MaxFileDim,
  Sizes,        \* how much an append may add
  NULL

ASSUME NamesAssumption ==
  /\ Names \subseteq Nat /\ IsFiniteSet(Names) /\ IsFiniteSet(Nodes)
  /\ Cardinality(Nodes) > Cardinality(Names)
ASSUME CapacityAssumption ==
  MaxFileNum \in Nat /\ MaxFileDim \in Nat /\ Sizes \subseteq Nat

Links == [Nodes -> Nodes \cup {NULL}]
Files == [dim: Nat, flagUse: BOOLEAN]
None  == [n \in Nodes |-> NULL]

ASSUME NULLAssumption == NULL \notin Nodes \cup Names \cup Files

VARIABLE tree   \* the TreeFile, with the fields of its nodes

vars == <<tree>>

(* Each field has its type. *)
TypeOK ==
  tree \in [root: Nodes \cup {NULL}, mostRecentLRU: Nodes \cup {NULL},
            leastRecentLRU: Nodes \cup {NULL}, fileCount: Nat, filedim: Nat,
            heap: SUBSET Nodes, name: [Nodes -> Names \cup {NULL}],
            leftPtr: Links, rightPtr: Links,
            lessRecentLRU: Links, moreRecentLRU: Links,
            sFile: [Nodes -> Files \cup {NULL}]]

Init ==
  tree = [root |-> NULL, mostRecentLRU |-> NULL, leastRecentLRU |-> NULL,
          fileCount |-> 0, filedim |-> 0, heap |-> {}, name |-> None,
          leftPtr |-> None, rightPtr |-> None, lessRecentLRU |-> None,
          moreRecentLRU |-> None, sFile |-> None]

-----------------------------------------------------------------------------
(* The list of the files by use.  The operators take the tree t before and *)
(* yield the tree after.                                                   *)

Point(links, n, m) == IF n = NULL THEN links ELSE [links EXCEPT ![n] = m]

insertToFrontLRU(t, n) ==
  LET first == t.leastRecentLRU = NULL
  IN [t EXCEPT
       !.fileCount = @ + 1,
       !.filedim = @ + t.sFile[n].dim,
       !.leastRecentLRU = IF first THEN n ELSE @,
       !.mostRecentLRU = n,
       !.lessRecentLRU[n] = IF first THEN NULL ELSE t.mostRecentLRU,
       !.moreRecentLRU =
         Point([@ EXCEPT ![n] = NULL],
               IF first THEN NULL ELSE t.mostRecentLRU, n)]

removeFromLRU_KeepsTail(t, n) ==
  LET less == t.lessRecentLRU[n]
      more == t.moreRecentLRU[n]
  IN [t EXCEPT
       !.fileCount = @ - 1,
       !.filedim = @ - t.sFile[n].dim,
       !.mostRecentLRU = IF @ = n THEN less ELSE @,
       !.leastRecentLRU = IF @ = n THEN more ELSE @,
       !.lessRecentLRU[n] = NULL,
       !.moreRecentLRU = Point([@ EXCEPT ![n] = NULL], less, more)]
removeFromLRU(t, n) ==
  LET less == t.lessRecentLRU[n]
      more == t.moreRecentLRU[n]
      newest == t.mostRecentLRU = n
      oldest == ~newest /\ t.leastRecentLRU = n
  IN [t EXCEPT
       !.fileCount = @ - 1,
       !.filedim = @ - t.sFile[n].dim,
       !.mostRecentLRU = IF newest THEN less ELSE @,
       !.leastRecentLRU = CASE newest /\ less = NULL -> NULL
                            [] oldest                -> more
                            [] OTHER                 -> @,
       !.lessRecentLRU =
         Point([@ EXCEPT ![n] = NULL], IF newest THEN NULL ELSE more, less),
       !.moreRecentLRU =
         Point([@ EXCEPT ![n] = NULL], IF oldest THEN NULL ELSE less, more)]

moveToFrontLRU(t, n) ==
  IF t.mostRecentLRU = NULL \/ t.moreRecentLRU[n] = NULL THEN t ELSE
  LET less == t.lessRecentLRU[n]
      more == t.moreRecentLRU[n]
  IN [t EXCEPT
       !.leastRecentLRU = IF less = NULL THEN more ELSE @,
       !.mostRecentLRU = n,
       !.lessRecentLRU = [@ EXCEPT ![more] = less, ![n] = t.mostRecentLRU],
       !.moreRecentLRU =
         [Point(@, less, more) EXCEPT ![t.mostRecentLRU] = n, ![n] = NULL]]

(* The nodes met from n on along the links, at most one too many *)
Walk(n, links) ==
  LET most == Cardinality(Nodes) + 1
      from[p \in (Nodes \cup {NULL}) \X (0..most)] ==
        IF p[1] = NULL \/ p[2] = 0 THEN <<>>
        ELSE <<p[1]>> \o from[<<links[p[1]], p[2] - 1>>]
  IN from[<<n, most>>]
OldestFirst(t) == Walk(t.leastRecentLRU, t.moreRecentLRU)

Without(seq, S) ==
  FoldLeft(LAMBDA rest, n : IF n \in S THEN rest ELSE Append(rest, n),
           <<>>, seq)
Busy(t) == {n \in Nodes : t.sFile[n] = NULL \/ t.sFile[n].flagUse}
Idle(t) == Without(OldestFirst(t), Busy(t))
Space(t, nodes) == MapThenSumSet(LAMBDA n : t.sFile[n].dim, nodes)

(* The victims, or none when they do not make enough space: then fakeFree  *)
(* resets their flagUse.                                                   *)
makeSpace_OneMore(t, nFile, dimSpace) ==
  LET idle == Idle(t)
      enough == {k \in nFile..Len(idle) :
                   Space(t, Range(SubSeq(idle, 1, k))) > dimSpace}
  IN IF enough = {} THEN NULL ELSE SubSeq(idle, 1, Min(enough))
makeSpace(t, nFile, dimSpace) ==
  LET idle == Idle(t)
      enough == {k \in nFile..Len(idle) :
                   Space(t, Range(SubSeq(idle, 1, k))) >= dimSpace}
  IN IF enough = {} THEN NULL ELSE SubSeq(idle, 1, Min(enough))

(* getNElement: the nodes whose files are read; a received N of 0 stands   *)
(* for all.  readNFiles(0) of the library asks for nothing.                *)
getNElement_Newest(N) ==
  LET idle == Reverse(Idle(tree))
  IN IF N <= 0 THEN idle ELSE SubSeq(idle, 1, Min({N, Len(idle)}))
getNElement(N) ==
  LET idle == Idle(tree)
  IN IF N <= 0 THEN idle ELSE SubSeq(idle, 1, Min({N, Len(idle)}))

-----------------------------------------------------------------------------
(* The search tree *)

(* Where a search for the name goes from n, and where a new name is hung *)
Child(t, n, name) ==
  IF t.name[n] < name THEN t.rightPtr[n] ELSE t.leftPtr[n]

noMutexGetNode(t, name) ==
  LET find[n \in Nodes \cup {NULL}] ==
        IF n = NULL THEN NULL
        ELSE IF t.name[n] = name THEN n
        ELSE find[Child(t, n, name)]
  IN find[t.root]

(* Where noMutexInsert ends: at the node with the name, or at the node     *)
(* that becomes the new one's father.                                      *)
Descent(t, name) ==
  LET down[n \in Nodes] ==
        IF t.name[n] = name \/ Child(t, n, name) = NULL THEN n
        ELSE down[Child(t, n, name)]
  IN down[t.root]

Attach(t, father, n) ==
  IF t.name[father] < t.name[n] THEN [t EXCEPT !.rightPtr[father] = n]
                                ELSE [t EXCEPT !.leftPtr[father] = n]

newTreeNode(t, n, name, file) ==
  [t EXCEPT !.heap = @ \cup {n}, !.name[n] = name, !.sFile[n] = file]
destroyTreeNode(t, n) ==
  [t EXCEPT !.heap = @ \ {n}, !.name[n] = NULL, !.sFile[n] = NULL]

(* A victim of makeSpace leaves the list and its node *)
Evict(t, n) == [removeFromLRU(t, n) EXCEPT !.sFile[n] = NULL]
EvictAll(t, victims) == FoldLeft(Evict, t, victims)

(* The tree t has room, n is the new node: the tree with n, or with its    *)
(* file in the old node of that name; t when that node has a file.         *)
Place_Fresh(t, n) ==
  IF t.root = NULL THEN insertToFrontLRU([t EXCEPT !.root = n], n) ELSE
  LET at == Descent(t, t.name[n])
  IN IF t.name[at] = t.name[n] /\ t.sFile[at] # NULL THEN t
     ELSE insertToFrontLRU(Attach(t, at, n), n)
Place(t, n) ==
  IF t.root = NULL THEN insertToFrontLRU([t EXCEPT !.root = n], n) ELSE
  LET at == Descent(t, t.name[n])
  IN CASE t.name[at] # t.name[n] -> insertToFrontLRU(Attach(t, at, n), n)
       [] t.name[at] = t.name[n] /\ t.sFile[at] = NULL ->
            insertToFrontLRU(
              destroyTreeNode([t EXCEPT !.sFile[at] = t.sFile[n]], n), at)
       [] OTHER -> t

-----------------------------------------------------------------------------
(* The operations *)

(* A new node, at any address: none is compared with another, so one is as *)
(* good as the next.  A file that is created locked is not in use.  In a   *)
(* full tree the oldest idle file has to go, if there is one; when the     *)
(* name exists, it comes back with the flagUse that makeSpace has set, and *)
(* the new node is destroyed.                                              *)
Return(t, victim) ==
  insertToFrontLRU(
    [t EXCEPT !.sFile[victim] = [tree.sFile[victim] EXCEPT !.flagUse = TRUE]],
    victim)

TreeFileinsert(name, locked) ==
  LET n == CHOOSE n \in Nodes : n \notin tree.heap
      new == newTreeNode(tree, n, name, [dim |-> 0, flagUse |-> ~locked])
      full == tree.fileCount = MaxFileNum
      victims == makeSpace(tree, 1, 0)
      victim == Head(victims)
      room == IF full THEN Evict(new, victim) ELSE new
      placed == Place(room, n)
  IN /\ full => victims # NULL
     /\ tree' = IF placed # room THEN placed
                ELSE destroyTreeNode(
                       IF full THEN Return(room, victim) ELSE room, n)

HasFile(n) == n \in tree.heap /\ tree.sFile[n] # NULL

TreeFileRemove(n) == HasFile(n) /\ tree' = Evict(tree, n)

(* The end of manageRequest, on a file that no worker took meanwhile *)
Touch(n) ==
  /\ HasFile(n) /\ ~tree.sFile[n].flagUse
  /\ tree' = moveToFrontLRU(tree, n)

(* Workers begin to use a file, and stop *)
SetUse(n) ==
  /\ HasFile(n)
  /\ tree' = [tree EXCEPT !.sFile[n].flagUse = ~@]

(* appendToFileW: room for the data of a file the worker is using *)
AppendToFile_Whole(n, size) ==
  /\ HasFile(n) /\ tree.sFile[n].flagUse
  /\ LET missing == size - (MaxFileDim - tree.filedim)
         victims == IF missing > 0 THEN makeSpace(tree, 0, missing) ELSE <<>>
     IN /\ victims # NULL
        /\ LET t == EvictAll(tree, victims)
           IN tree' = [t EXCEPT !.sFile[n].dim = @ + size,
                                !.filedim = tree.filedim + size]
AppendToFile_Uncounted(n, size) ==
  /\ HasFile(n) /\ tree.sFile[n].flagUse
  /\ tree.filedim + size <= MaxFileDim
  /\ tree' = [tree EXCEPT !.sFile[n].dim = @ + size]
AppendToFile(n, size) ==
  /\ HasFile(n) /\ tree.sFile[n].flagUse
  /\ LET missing == tree.filedim + size - MaxFileDim
         victims == IF missing > 0 THEN makeSpace(tree, 0, missing) ELSE <<>>
     IN /\ victims # NULL
        /\ LET t == EvictAll(tree, victims)
           IN tree' = [t EXCEPT !.sFile[n].dim = @ + size,
                                !.filedim = @ + size]

Next ==
  \/ \E name \in Names, locked \in BOOLEAN : TreeFileinsert(name, locked)
  \/ \E n \in Nodes :
       \/ TreeFileRemove(n) \/ Touch(n) \/ SetUse(n)
       \/ \E size \in Sizes : AppendToFile(n, size)

Spec == Init /\ [][Next]_vars

-----------------------------------------------------------------------------
(* Properties *)

(* From the oldest file on by moreRecentLRU and from the newest on by      *)
(* lessRecentLRU the same nodes are met, in opposite order: each node that *)
(* has a file, once.  The log thread's last loop (server.c:649) ends       *)
(* because of it, eviction and reads see every file.                       *)
ListLinked ==
  LET up == OldestFirst(tree)
      down == Walk(tree.mostRecentLRU, tree.lessRecentLRU)
  IN /\ up = Reverse(down)
     /\ Cardinality(Range(up)) = Len(up)
     /\ Range(up) = {n \in Nodes : tree.sFile[n] # NULL}

(* Every node that is allocated is found under its own name, so a name has *)
(* one node, none is lost, and a name that comes back gets the file where  *)
(* the name is looked for.                                                 *)
Searchable ==
  /\ \A n \in tree.heap : noMutexGetNode(tree, tree.name[n]) = n
  /\ \A n \in Nodes \ tree.heap : tree.sFile[n] = NULL
WellFormed == ListLinked /\ Searchable

(* fileCount and filedim are what is stored, and within the capacity.      *)
Accounts ==
  LET stored == {n \in Nodes : tree.sFile[n] # NULL}
  IN /\ tree.fileCount = Cardinality(stored)
     /\ tree.filedim = Space(tree, stored)
     /\ tree.fileCount <= MaxFileNum /\ tree.filedim <= MaxFileDim

(* The pointers implement a store in the order of use (LRUStore): a new    *)
(* file or new data evicts the oldest idle files and no more than needed,  *)
(* an operation on one file leaves the others and their order alone.       *)
WithFile == {n \in tree.heap : tree.sFile[n] # NULL}
LRU == INSTANCE LRUStore WITH
  order <- LET nodes == OldestFirst(tree)
           IN [i \in DOMAIN nodes |-> tree.name[nodes[i]]],
  size  <- [name \in Names |->
              LET n == noMutexGetNode(tree, name)
              IN IF n \in WithFile THEN tree.sFile[n].dim ELSE 0],
  inUse <- {tree.name[n] : n \in {m \in WithFile : tree.sFile[m].flagUse}}
ImplementsLRU == LRU!Spec

(* getNElement, which readNFilesW calls with the N it received, yields N   *)
(* of the idle files, the oldest first, or all when there are not so many. *)
(* A received 0 stands for all: it is what the library sends for N < 0.    *)
ReadsOldest ==
  \A N \in 0..Cardinality(Nodes) :
    LET read == getNElement(N)
        count == Cardinality({n \in Nodes : /\ tree.sFile[n] # NULL
                                            /\ ~tree.sFile[n].flagUse})
    IN /\ Len(read) = IF N = 0 THEN count ELSE Min({N, count})
       /\ \A i \in DOMAIN read : tree.name[read[i]] = LRU!Idle[i]
=============================================================================
