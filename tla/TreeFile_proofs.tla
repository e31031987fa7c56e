---------------------------- MODULE TreeFile_proofs ----------------------------
(***************************************************************************)
(* Theorems of TreeFile, for any names, nodes and capacity.                *)
(*                                                                         *)
(* The proofs follow one list s: the nodes with a file, the least recently *)
(* used first.  Holds(t, s) says that the pointers of the tree t are those *)
(* of s and that what is allocated can be searched; one lemma per          *)
(* operation says how s changes, and the same lemmas, read through the     *)
(* names of the nodes, give the step of LRUStore.                          *)
(*                                                                         *)
(* Sums, walks, searches and folds are recursive functions of the model.   *)
(* That the functions exist is proved first (a minimal counterexample in a *)
(* finite set), what they return is proved the same way.                   *)
(***************************************************************************)
EXTENDS TreeFile, SequenceTheorems, FiniteSetTheorems, WellFoundedInduction,
        TLAPS

-----------------------------------------------------------------------------
(* Numbers and finite sets *)

(* A non-empty set of natural numbers has a least element, the one Min     *)
(* returns: proofs by induction take the least counterexample.             *)
LEMMA MinInSet ==
  ASSUME NEW S \in SUBSET Nat, S # {}
  PROVE  Min(S) \in S /\ \A y \in S : Min(S) <= y
<1> DEFINE Less == {ss \in Nat \X Nat : ss[1] < ss[2]}
<1>1. IsWellFoundedOn(Less, Nat)
  BY NatLessThanWellFounded DEF OpToRel
<1>2. PICK x \in S : \A y \in S : ~(<<y, x>> \in Less)
  BY <1>1, WFMin
<1>3. ASSUME NEW y \in S PROVE x <= y
  <2>1. x \in Nat /\ y \in Nat
    OBVIOUS
  <2>2. y < x => <<y, x>> \in Less
    BY <2>1
  <2> QED
    BY <1>2, <2>1, <2>2
<1> QED
  BY <1>3 DEF Min

(* Of a non-empty collection of finite sets, one is minimal.               *)
LEMMA MinimalSet ==
  ASSUME NEW Bad, Bad # {}, \A s \in Bad : IsFiniteSet(s)
  PROVE  \E s \in Bad : \A x \in s : s \ {x} \notin Bad
<1> DEFINE Counts == {Cardinality(s) : s \in Bad}
<1>1. Counts \in SUBSET Nat /\ Counts # {}
  <2>1. \A s \in Bad : Cardinality(s) \in Nat
    BY FS_CardinalityType
  <2> QED
    BY <2>1
<1>2. PICK s \in Bad : \A k \in Counts : Cardinality(s) <= k
  <2>1. Min(Counts) \in Counts /\ \A k \in Counts : Min(Counts) <= k
    BY <1>1, MinInSet
  <2> QED
    BY <2>1
<1>3. ASSUME NEW x \in s PROVE s \ {x} \notin Bad
  <2>1. Cardinality(s \ {x}) = Cardinality(s) - 1 /\ Cardinality(s) \in Nat
    BY FS_RemoveElement, FS_CardinalityType
  <2> QED
    BY <1>2, <2>1
<1> QED
  BY <1>3

(* The sum that Space computes, as the value of a recursive function.      *)
Pick(s) == CHOOSE x \in s : TRUE
Adding(g, S, f) ==
  f = [s \in SUBSET S |->
         IF s = {} THEN 0 ELSE g[Pick(s)].dim + f[s \ {Pick(s)}]]
Sum(g, S) == (CHOOSE f : Adding(g, S, f))[S]

(* Space is that sum. *)
LEMMA SpaceIsSum ==
  ASSUME NEW t, NEW S
  PROVE  Space(t, S) = Sum(t.sFile, S)
BY DEF Space, MapThenSumSet, MapThenFoldSet, Sum, Adding, Pick

(* A solution for a set is one for its subsets; there is only one, and     *)
(* there is one.                                                           *)
LEMMA AddingPart ==
  ASSUME NEW g, NEW S, NEW f, Adding(g, S, f), NEW T \in SUBSET S
  PROVE  Adding(g, T, [s \in SUBSET T |-> f[s]])
<1> DEFINE h == [s \in SUBSET T |-> f[s]]
<1>1. \A s \in SUBSET S :
        f[s] = IF s = {} THEN 0 ELSE g[Pick(s)].dim + f[s \ {Pick(s)}]
  BY DEF Adding
<1>2. ASSUME NEW s \in SUBSET T
      PROVE  h[s] = IF s = {} THEN 0 ELSE g[Pick(s)].dim + h[s \ {Pick(s)}]
  <2>1. s \in SUBSET S /\ s \ {Pick(s)} \in SUBSET T
    OBVIOUS
  <2> QED
    BY <1>1, <2>1
<1> QED
  BY <1>2 DEF Adding

LEMMA AddingUnique ==
  ASSUME NEW g, NEW S, IsFiniteSet(S),
         NEW f, Adding(g, S, f), NEW h, Adding(g, S, h)
  PROVE  f = h
<1> DEFINE Bad == {s \in SUBSET S : f[s] # h[s]}
<1>1. \A s \in SUBSET S :
        /\ f[s] = IF s = {} THEN 0 ELSE g[Pick(s)].dim + f[s \ {Pick(s)}]
        /\ h[s] = IF s = {} THEN 0 ELSE g[Pick(s)].dim + h[s \ {Pick(s)}]
  BY DEF Adding
<1>2. Bad = {}
  <2> SUFFICES ASSUME Bad # {} PROVE FALSE
    OBVIOUS
  <2>1. \A s \in Bad : IsFiniteSet(s)
    BY FS_Subset
  <2>2. PICK s \in Bad : \A x \in s : s \ {x} \notin Bad
    BY <2>1, MinimalSet
  <2>3. s # {}
    BY <1>1
  <2>4. Pick(s) \in s
    BY <2>3 DEF Pick
  <2>5. f[s \ {Pick(s)}] = h[s \ {Pick(s)}]
    BY <2>2, <2>4
  <2> QED
    BY <1>1, <2>5
<1>3. f = [s \in SUBSET S |-> f[s]] /\ h = [s \in SUBSET S |-> h[s]]
  BY DEF Adding
<1> QED
  BY <1>2, <1>3

(* One step of the recursion, where the function is known to exist.        *)
LEMMA SumUnfolds ==
  ASSUME NEW g, NEW S, IsFiniteSet(S), \E f : Adding(g, S, f)
  PROVE  Sum(g, S) = IF S = {} THEN 0
                     ELSE g[Pick(S)].dim + Sum(g, S \ {Pick(S)})
<1> DEFINE F == CHOOSE f : Adding(g, S, f)
           T == S \ {Pick(S)}
           H == CHOOSE f : Adding(g, T, f)
           part == [s \in SUBSET T |-> F[s]]
<1>1. Adding(g, S, F)
  OBVIOUS
<1>2. Adding(g, T, part)
  BY <1>1, AddingPart
<1>3. Adding(g, T, H)
  BY <1>2
<1>4. part = H
  <2>1. IsFiniteSet(T)
    BY FS_RemoveElement
  <2> QED
    BY <1>2, <1>3, <2>1, AddingUnique
<1>5. F[T] = H[T]
  <2>1. T \in SUBSET T
    OBVIOUS
  <2> QED
    BY <1>4, <2>1
<1>6. F[S] = IF S = {} THEN 0 ELSE g[Pick(S)].dim + F[T]
  <2>1. S \in SUBSET S
    OBVIOUS
  <2> HIDE DEF F
  <2> QED
    BY <1>1, <2>1 DEF Adding
<1>7. Sum(g, S) = F[S] /\ Sum(g, T) = H[T]
  BY DEF Sum
<1> QED
  BY <1>5, <1>6, <1>7

LEMMA AddingExists ==
  ASSUME NEW g, NEW S, IsFiniteSet(S)
  PROVE  \E f : Adding(g, S, f)
<1> DEFINE Has(T) == \E f : Adding(g, T, f)
           Bad == {T \in SUBSET S : ~Has(T)}
<1> SUFFICES ASSUME Bad # {} PROVE FALSE
  OBVIOUS
<1>1. \A T \in Bad : IsFiniteSet(T)
  BY FS_Subset
<1>2. PICK T \in Bad : \A x \in T : T \ {x} \notin Bad
  BY <1>1, MinimalSet
<1>3. ASSUME NEW s \in SUBSET T, s # T PROVE Has(s) /\ IsFiniteSet(s)
  <2>1. PICK x \in T : x \notin s
    BY <1>3
  <2>2. T \ {x} \in SUBSET S /\ T \ {x} \notin Bad
    BY <1>2
  <2>3. PICK f : Adding(g, T \ {x}, f)
    BY <2>2
  <2>4. s \in SUBSET (T \ {x})
    BY <2>1
  <2>5. IsFiniteSet(s)
    BY FS_Subset, <1>1
  <2> QED
    BY <2>3, <2>4, <2>5, AddingPart
<1> DEFINE G == [s \in SUBSET T |->
                   IF s = {} THEN 0 ELSE g[Pick(s)].dim + Sum(g, s \ {Pick(s)})]
<1>4. ASSUME NEW s \in SUBSET T, s # T PROVE G[s] = Sum(g, s)
  <2>1. Has(s) /\ IsFiniteSet(s)
    BY <1>3, <1>4
  <2> QED
    BY <2>1, SumUnfolds
<1>5. ASSUME NEW s \in SUBSET T, s # {}
      PROVE  G[s \ {Pick(s)}] = Sum(g, s \ {Pick(s)})
  <2>1. Pick(s) \in s
    BY <1>5 DEF Pick
  <2>2. s \ {Pick(s)} \in SUBSET T /\ s \ {Pick(s)} # T
    BY <2>1
  <2> QED
    BY <1>4, <2>2
<1>6. Adding(g, T, G)
  <2> DEFINE K == [s \in SUBSET T |->
                     IF s = {} THEN 0 ELSE g[Pick(s)].dim + G[s \ {Pick(s)}]]
  <2>1. \A s \in SUBSET T : G[s] = K[s]
    <3> SUFFICES ASSUME NEW s \in SUBSET T PROVE G[s] = K[s]
      OBVIOUS
    <3>1. CASE s = {}
      BY <3>1
    <3>2. CASE s # {}
      BY <1>5, <3>2
    <3> QED
      BY <3>1, <3>2
  <2>2. G = K
    BY <2>1
  <2> QED
    BY <2>2 DEF Adding
<1> QED
  BY <1>2, <1>6

(* The recursion of the sum, for every finite set. *)
LEMMA SumStep ==
  ASSUME NEW g, NEW S, IsFiniteSet(S)
  PROVE  Sum(g, S) = IF S = {} THEN 0
                     ELSE g[Pick(S)].dim + Sum(g, S \ {Pick(S)})
BY AddingExists, SumUnfolds

(* The sums of no files, and of files whose dims are natural numbers.      *)
LEMMA SumEmpty == ASSUME NEW g PROVE Sum(g, {}) = 0
BY SumStep, FS_EmptySet

LEMMA SumNat ==
  ASSUME NEW g, NEW S, IsFiniteSet(S), \A x \in S : g[x].dim \in Nat
  PROVE  Sum(g, S) \in Nat
<1> DEFINE Bad == {T \in SUBSET S : Sum(g, T) \notin Nat}
<1> SUFFICES ASSUME Bad # {} PROVE FALSE
  OBVIOUS
<1>1. \A T \in Bad : IsFiniteSet(T)
  BY FS_Subset
<1>2. PICK T \in Bad : \A x \in T : T \ {x} \notin Bad
  BY <1>1, MinimalSet
<1>3. T # {}
  BY SumEmpty
<1>4. Pick(T) \in T
  BY <1>3 DEF Pick
<1>5. Sum(g, T \ {Pick(T)}) \in Nat /\ g[Pick(T)].dim \in Nat
  BY <1>2, <1>4
<1>6. Sum(g, T) = g[Pick(T)].dim + Sum(g, T \ {Pick(T)})
  BY <1>1, <1>3, SumStep
<1> QED
  BY <1>5, <1>6

(* The sum depends on the dims only. *)
LEMMA SumSame ==
  ASSUME NEW g, NEW h, NEW S, IsFiniteSet(S), \A x \in S : g[x].dim = h[x].dim
  PROVE  Sum(g, S) = Sum(h, S)
<1> DEFINE Bad == {T \in SUBSET S : Sum(g, T) # Sum(h, T)}
<1> SUFFICES ASSUME Bad # {} PROVE FALSE
  OBVIOUS
<1>1. \A T \in Bad : IsFiniteSet(T)
  BY FS_Subset
<1>2. PICK T \in Bad : \A x \in T : T \ {x} \notin Bad
  BY <1>1, MinimalSet
<1>3. T # {}
  BY SumEmpty
<1>4. Pick(T) \in T
  BY <1>3 DEF Pick
<1>5. Sum(g, T \ {Pick(T)}) = Sum(h, T \ {Pick(T)})
  BY <1>2, <1>4
<1>6. /\ Sum(g, T) = g[Pick(T)].dim + Sum(g, T \ {Pick(T)})
      /\ Sum(h, T) = h[Pick(T)].dim + Sum(h, T \ {Pick(T)})
  BY <1>1, <1>3, SumStep
<1> QED
  BY <1>4, <1>5, <1>6

(* Any element can be taken out first. *)
LEMMA SumWithout ==
  ASSUME NEW g, NEW S, IsFiniteSet(S), \A x \in S : g[x].dim \in Nat,
         NEW a \in S
  PROVE  Sum(g, S) = g[a].dim + Sum(g, S \ {a})
<1> DEFINE Bad == {T \in SUBSET S : \E x \in T : Sum(g, T) # g[x].dim + Sum(g, T \ {x})}
<1> SUFFICES ASSUME Bad # {} PROVE FALSE
  OBVIOUS
<1>1. \A T \in Bad : IsFiniteSet(T)
  BY FS_Subset
<1>2. PICK T \in Bad : \A x \in T : T \ {x} \notin Bad
  BY <1>1, MinimalSet
<1>3. PICK x \in T : Sum(g, T) # g[x].dim + Sum(g, T \ {x})
  OBVIOUS
<1> DEFINE p == Pick(T)
<1>4. p \in T /\ IsFiniteSet(T)
  BY <1>1, <1>3 DEF Pick
<1>5. Sum(g, T) = g[p].dim + Sum(g, T \ {p})
  BY <1>1, <1>3, SumStep
<1> HIDE DEF p
<1>6. x # p
  BY <1>3, <1>5
<1>7. Sum(g, T \ {p}) = g[x].dim + Sum(g, (T \ {p}) \ {x})
  BY <1>2, <1>4, <1>6
<1>8. Sum(g, T \ {x}) = g[p].dim + Sum(g, (T \ {x}) \ {p})
  BY <1>2, <1>4, <1>6
<1>9. (T \ {p}) \ {x} = (T \ {x}) \ {p}
  OBVIOUS
<1> DEFINE U == (T \ {x}) \ {p}
<1>10. Sum(g, U) \in Nat /\ g[x].dim \in Nat /\ g[p].dim \in Nat
  <2>1. IsFiniteSet(U)
    BY <1>4, FS_RemoveElement
  <2>2. Sum(g, U) \in Nat
    BY <2>1, SumNat
  <2> QED
    BY <1>4, <2>2
<1> DEFINE dx == g[x].dim
           dp == g[p].dim
           rest == Sum(g, U)
<1>11. /\ Sum(g, T) = dp + Sum(g, T \ {p}) /\ Sum(g, T \ {p}) = dx + rest
       /\ Sum(g, T \ {x}) = dp + rest /\ Sum(g, T) # dx + Sum(g, T \ {x})
  BY <1>3, <1>5, <1>7, <1>8, <1>9
<1>12. dx \in Nat /\ dp \in Nat /\ rest \in Nat
  BY <1>10
<1> HIDE DEF dx, dp, rest
<1> QED
  BY <1>11, <1>12

-----------------------------------------------------------------------------
(* Folds from left to right: Without and EvictAll *)

(* FoldLeft takes the last index first: the greatest element of a set of   *)
(* indices.                                                                *)
LEMMA MaxInSet ==
  ASSUME NEW n \in Nat, NEW S \in SUBSET (1..n), S # {}
  PROVE  Max(S) \in S /\ \A y \in S : y <= Max(S)
<1> DEFINE T == {n - x : x \in S}
<1>1. T \in SUBSET Nat /\ T # {}
  <2>1. \A x \in S : n - x \in Nat
    OBVIOUS
  <2> QED
    BY <2>1
<1>2. Min(T) \in T /\ \A y \in T : Min(T) <= y
  BY <1>1, MinInSet
<1>3. PICK x \in S : Min(T) = n - x
  BY <1>2
<1>4. ASSUME NEW y \in S PROVE x >= y
  <2>1. Min(T) <= n - y
    BY <1>2
  <2> QED
    BY <1>3, <2>1
<1> QED
  BY <1>4 DEF Max

LEMMA MaxUpTo ==
  ASSUME NEW n \in Nat, n > 0
  PROVE  Max(1..n) = n /\ (1..n) \ {n} = 1..(n - 1) /\ 1..n # {}
<1>1. Max(1..n) \in 1..n /\ \A y \in 1..n : y <= Max(1..n)
  <2>1. n \in 1..n
    OBVIOUS
  <2> QED
    BY <2>1, MaxInSet
<1>2. n \in 1..n
  OBVIOUS
<1>3. Max(1..n) = n
  BY <1>1, <1>2
<1> QED
  BY <1>2, <1>3

(* The sets a fold of n elements goes through, by their size. *)
Parts(n, m) == {s \in SUBSET (1..n) : Cardinality(s) <= m}

LEMMA PartsFacts ==
  ASSUME NEW n \in Nat
  PROVE  /\ Parts(n, n) = SUBSET (1..n)
         /\ Parts(n, 0) = {{}}
         /\ \A m \in Nat \ {0} : \A s \in Parts(n, m) \ {{}} :
              /\ Max(s) \in 1..n
              /\ s \ {Max(s)} \in Parts(n, m - 1)
         /\ \A m \in Nat \ {0} : Parts(n, m - 1) \subseteq Parts(n, m)
<1>1. IsFiniteSet(1..n) /\ Cardinality(1..n) = n
  BY FS_Interval
<1>2. ASSUME NEW s \in SUBSET (1..n)
      PROVE  IsFiniteSet(s) /\ Cardinality(s) \in Nat /\ Cardinality(s) <= n
  BY <1>1, FS_Subset, FS_CardinalityType
<1>3. ASSUME NEW s \in SUBSET (1..n), s # {}
      PROVE  /\ Max(s) \in 1..n
             /\ Cardinality(s \ {Max(s)}) = Cardinality(s) - 1
  <2>1. Max(s) \in s
    BY <1>3, MaxInSet
  <2> QED
    BY <1>2, <2>1, FS_RemoveElement
<1>4. Parts(n, n) = SUBSET (1..n)
  BY <1>2 DEF Parts
<1>5. Parts(n, 0) = {{}}
  <2>1. ASSUME NEW s \in SUBSET (1..n)
        PROVE  Cardinality(s) <= 0 <=> s = {}
    <3>1. Cardinality(s) = 0 <=> s = {}
      BY <1>2, FS_EmptySet
    <3> QED
      BY <1>2, <3>1
  <2> QED
    BY <2>1 DEF Parts
<1>6. ASSUME NEW m \in Nat \ {0}, NEW s \in Parts(n, m) \ {{}}
      PROVE  /\ Max(s) \in 1..n
             /\ s \ {Max(s)} \in Parts(n, m - 1)
  <2>1. s \in SUBSET (1..n) /\ s # {} /\ Cardinality(s) <= m
    BY DEF Parts
  <2>2. /\ Max(s) \in 1..n
        /\ Cardinality(s \ {Max(s)}) = Cardinality(s) - 1
    BY <1>3, <2>1
  <2>3. Cardinality(s) \in Nat
    BY <1>2, <2>1
  <2>4. s \ {Max(s)} \in SUBSET (1..n)
    BY <2>1
  <2>5. Cardinality(s \ {Max(s)}) <= m - 1
    <3> DEFINE c == Cardinality(s)
    <3>1. c \in Nat /\ c <= m /\ Cardinality(s \ {Max(s)}) = c - 1
      BY <2>1, <2>2, <2>3
    <3> HIDE DEF c
    <3> QED
      BY <3>1
  <2> QED
    BY <2>2, <2>4, <2>5 DEF Parts
<1>7. ASSUME NEW m \in Nat \ {0} PROVE Parts(n, m - 1) \subseteq Parts(n, m)
  <2>1. \A s \in SUBSET (1..n) : Cardinality(s) <= m - 1 => Cardinality(s) <= m
    BY <1>2
  <2> QED
    BY <2>1 DEF Parts
<1> QED
  BY <1>4, <1>5, <1>6, <1>7

(* Without(seq, S) is the last value of a recursive function. *)
Kept(seq, S, i, rest) == IF seq[i] \in S THEN rest ELSE Append(rest, seq[i])
Keeping(seq, S, D, f) ==
  f = [s \in D |-> IF s = {} THEN <<>>
                   ELSE Kept(seq, S, Max(s), f[s \ {Max(s)}])]

LEMMA WithoutIs ==
  ASSUME NEW seq, NEW S
  PROVE  Without(seq, S) =
           (CHOOSE f : Keeping(seq, S, SUBSET (DOMAIN seq), f))[DOMAIN seq]
BY DEF Without, FoldLeft, MapThenFoldSet, Keeping, Kept

(* The recursion has a solution, so Without can be unfolded at the last    *)
(* element.                                                                *)
LEMMA KeepingExists ==
  ASSUME NEW seq, NEW S, NEW n \in Nat
  PROVE  \E f : Keeping(seq, S, SUBSET (1..n), f)
<1> DEFINE Bad == {m \in Nat : ~ \E f : Keeping(seq, S, Parts(n, m), f)}
<1> SUFFICES Bad = {}
  <2>1. n \notin Bad
    OBVIOUS
  <2>2. \E f : Keeping(seq, S, Parts(n, n), f)
    BY <2>1
  <2>3. Parts(n, n) = SUBSET (1..n)
    BY PartsFacts
  <2> QED
    BY <2>2, <2>3
<1> SUFFICES ASSUME Bad # {} PROVE FALSE
  OBVIOUS
<1> DEFINE m == Min(Bad)
<1>1. m \in Bad /\ \A y \in Bad : m <= y
  BY MinInSet
<1> HIDE DEF m
<1>2. m # 0
  <2> DEFINE f == [s \in {{}} |->
                     IF s = {} THEN <<>>
                     ELSE Kept(seq, S, Max(s), <<>>)]
  <2>1. f = [s \in {{}} |-> IF s = {} THEN <<>>
                             ELSE Kept(seq, S, Max(s), f[s \ {Max(s)}])]
    OBVIOUS
  <2>2. Keeping(seq, S, {{}}, f)
    BY <2>1 DEF Keeping
  <2>3. 0 \notin Bad
    BY <2>2, PartsFacts
  <2> QED
    BY <1>1, <2>3
<1>3. PICK f : Keeping(seq, S, Parts(n, m - 1), f)
  BY <1>1, <1>2
<1> DEFINE g == [s \in Parts(n, m) |->
                   IF s = {} THEN <<>>
                   ELSE Kept(seq, S, Max(s), f[s \ {Max(s)}])]
<1>4. \A s \in Parts(n, m - 1) :
        s \in Parts(n, m) /\ g[s] = f[s]
  BY <1>1, <1>2, <1>3, PartsFacts DEF Keeping
<1>5. ASSUME NEW s \in Parts(n, m), s # {}
      PROVE  g[s \ {Max(s)}] = f[s \ {Max(s)}]
  BY <1>1, <1>2, <1>4, <1>5, PartsFacts
<1>6. g = [s \in Parts(n, m) |->
             IF s = {} THEN <<>> ELSE Kept(seq, S, Max(s), g[s \ {Max(s)}])]
  BY <1>5
<1>7. Keeping(seq, S, Parts(n, m), g)
  BY <1>6 DEF Keeping
<1> QED
  BY <1>1, <1>7

(* The empty sequence, and one element more. *)
LEMMA WithoutEmpty == ASSUME NEW S PROVE Without(<<>>, S) = <<>>
<1>1. DOMAIN <<>> = 1..0
  OBVIOUS
<1>2. PICK f : Keeping(<<>>, S, SUBSET (1..0), f) /\ Without(<<>>, S) = f[1..0]
  BY <1>1, KeepingExists, WithoutIs
<1>3. f[1..0] = <<>>
  <2>1. 1..0 = {} /\ 1..0 \in SUBSET (1..0)
    OBVIOUS
  <2> QED
    BY <1>2, <2>1 DEF Keeping
<1> QED
  BY <1>2, <1>3

LEMMA WithoutAppend ==
  ASSUME NEW T, NEW q \in Seq(T), NEW x \in T, NEW S
  PROVE  Without(Append(q, x), S) =
           IF x \in S THEN Without(q, S) ELSE Append(Without(q, S), x)
<1> DEFINE n == Len(q)
           r == Append(q, x)
<1>1. /\ n \in Nat /\ DOMAIN q = 1..n /\ DOMAIN r = 1..(n + 1)
      /\ r[n + 1] = x /\ \A i \in 1..n : r[i] = q[i]
  OBVIOUS
<1> HIDE DEF n, r
<1>2. PICK f : Keeping(q, S, SUBSET (1..n), f) /\ Without(q, S) = f[1..n]
  BY <1>1, KeepingExists, WithoutIs
<1>3. PICK g : Keeping(r, S, SUBSET (1..(n + 1)), g) /\ Without(r, S) = g[1..(n + 1)]
  <2>1. n + 1 \in Nat
    BY <1>1
  <2> QED
    BY <1>1, <2>1, KeepingExists, WithoutIs
<1> DEFINE Bad == {k \in 0..n : f[1..k] # g[1..k]}
<1>4. Bad = {}
  <2> SUFFICES ASSUME Bad # {} PROVE FALSE
    OBVIOUS
  <2> DEFINE k == Min(Bad)
  <2>1. k \in Bad /\ \A y \in Bad : k <= y
    <3>1. Bad \in SUBSET Nat
      OBVIOUS
    <3> HIDE DEF Bad
    <3> QED
      BY <3>1, MinInSet
  <2> HIDE DEF k
  <2>2. k \in 0..n /\ 1..k \in SUBSET (1..n) /\ 1..k \in SUBSET (1..(n + 1))
    BY <1>1, <2>1
  <2>3. k # 0
    <3>1. ASSUME k = 0 PROVE 1..k = {}
      BY <3>1
    <3> QED
      BY <1>2, <1>3, <2>1, <2>2, <3>1 DEF Keeping
  <2>4. Max(1..k) = k /\ (1..k) \ {k} = 1..(k - 1) /\ 1..k # {}
    BY <2>2, <2>3, MaxUpTo
  <2>5. f[1..(k - 1)] = g[1..(k - 1)]
    BY <1>1, <2>1, <2>2, <2>3
  <2>6. f[1..k] = Kept(q, S, k, f[1..(k - 1)])
    BY <1>2, <2>2, <2>4 DEF Keeping
  <2>7. g[1..k] = Kept(r, S, k, g[1..(k - 1)])
    BY <1>3, <2>2, <2>4 DEF Keeping
  <2>8. r[k] = q[k]
    BY <1>1, <2>2, <2>3
  <2> QED
    BY <2>1, <2>5, <2>6, <2>7, <2>8 DEF Kept
<1>5. f[1..n] = g[1..n]
  BY <1>1, <1>4
<1>6. g[1..(n + 1)] = Kept(r, S, n + 1, g[1..n])
  <2>1. /\ Max(1..(n + 1)) = n + 1 /\ (1..(n + 1)) \ {n + 1} = 1..n
        /\ 1..(n + 1) # {} /\ 1..(n + 1) \in SUBSET (1..(n + 1))
    <3>1. n + 1 \in Nat /\ n + 1 > 0 /\ (n + 1) - 1 = n
      BY <1>1
    <3> QED
      BY <3>1, MaxUpTo
  <2> QED
    BY <1>3, <2>1 DEF Keeping
<1>7. Without(r, S) = IF x \in S THEN Without(q, S) ELSE Append(Without(q, S), x)
  BY <1>1, <1>2, <1>3, <1>5, <1>6 DEF Kept
<1> QED
  BY <1>7 DEF r

(* EvictAll(t, seq), in the same way. *)
Emptying(seq, t, D, f) ==
  f = [s \in D |-> IF s = {} THEN t
                   ELSE Evict(f[s \ {Max(s)}], seq[Max(s)])]

LEMMA EvictIs ==
  ASSUME NEW seq, NEW t
  PROVE  EvictAll(t, seq) =
           (CHOOSE f : Emptying(seq, t, SUBSET (DOMAIN seq), f))[DOMAIN seq]
BY DEF EvictAll, FoldLeft, MapThenFoldSet, Emptying

(* The same for EvictAll. *)
LEMMA EmptyingExists ==
  ASSUME NEW seq, NEW t, NEW n \in Nat
  PROVE  \E f : Emptying(seq, t, SUBSET (1..n), f)
<1> DEFINE Bad == {m \in Nat : ~ \E f : Emptying(seq, t, Parts(n, m), f)}
<1> SUFFICES Bad = {}
  <2>1. n \notin Bad
    OBVIOUS
  <2>2. \E f : Emptying(seq, t, Parts(n, n), f)
    BY <2>1
  <2>3. Parts(n, n) = SUBSET (1..n)
    BY PartsFacts
  <2> QED
    BY <2>2, <2>3
<1> SUFFICES ASSUME Bad # {} PROVE FALSE
  OBVIOUS
<1> DEFINE m == Min(Bad)
<1>1. m \in Bad /\ \A y \in Bad : m <= y
  BY MinInSet
<1> HIDE DEF m
<1>2. m # 0
  <2> DEFINE f == [s \in {{}} |->
                     IF s = {} THEN t
                     ELSE Evict(t, seq[Max(s)])]
  <2>1. f = [s \in {{}} |-> IF s = {} THEN t
                             ELSE Evict(f[s \ {Max(s)}], seq[Max(s)])]
    OBVIOUS
  <2>2. Emptying(seq, t, {{}}, f)
    BY <2>1 DEF Emptying
  <2>3. 0 \notin Bad
    BY <2>2, PartsFacts
  <2> QED
    BY <1>1, <2>3
<1>3. PICK f : Emptying(seq, t, Parts(n, m - 1), f)
  BY <1>1, <1>2
<1> DEFINE g == [s \in Parts(n, m) |->
                   IF s = {} THEN t
                   ELSE Evict(f[s \ {Max(s)}], seq[Max(s)])]
<1>4. \A s \in Parts(n, m - 1) :
        s \in Parts(n, m) /\ g[s] = f[s]
  BY <1>1, <1>2, <1>3, PartsFacts DEF Emptying
<1>5. ASSUME NEW s \in Parts(n, m), s # {}
      PROVE  g[s \ {Max(s)}] = f[s \ {Max(s)}]
  BY <1>1, <1>2, <1>4, <1>5, PartsFacts
<1>6. g = [s \in Parts(n, m) |->
             IF s = {} THEN t ELSE Evict(g[s \ {Max(s)}], seq[Max(s)])]
  BY <1>5
<1>7. Emptying(seq, t, Parts(n, m), g)
  BY <1>6 DEF Emptying
<1> QED
  BY <1>1, <1>7

(* The empty sequence, and one element more. *)
LEMMA EvictEmpty == ASSUME NEW t PROVE EvictAll(t, <<>>) = t
<1>1. DOMAIN <<>> = 1..0
  OBVIOUS
<1>2. PICK f : Emptying(<<>>, t, SUBSET (1..0), f) /\ EvictAll(t, <<>>) = f[1..0]
  BY <1>1, EmptyingExists, EvictIs
<1>3. f[1..0] = t
  <2>1. 1..0 = {} /\ 1..0 \in SUBSET (1..0)
    OBVIOUS
  <2> QED
    BY <1>2, <2>1 DEF Emptying
<1> QED
  BY <1>2, <1>3

LEMMA EvictAppend ==
  ASSUME NEW T, NEW q \in Seq(T), NEW x \in T, NEW t
  PROVE  EvictAll(t, Append(q, x)) = Evict(EvictAll(t, q), x)
<1> DEFINE n == Len(q)
           r == Append(q, x)
<1>1. /\ n \in Nat /\ DOMAIN q = 1..n /\ DOMAIN r = 1..(n + 1)
      /\ r[n + 1] = x /\ \A i \in 1..n : r[i] = q[i]
  OBVIOUS
<1> HIDE DEF n, r
<1>2. PICK f : Emptying(q, t, SUBSET (1..n), f) /\ EvictAll(t, q) = f[1..n]
  BY <1>1, EmptyingExists, EvictIs
<1>3. PICK g : Emptying(r, t, SUBSET (1..(n + 1)), g) /\ EvictAll(t, r) = g[1..(n + 1)]
  <2>1. n + 1 \in Nat
    BY <1>1
  <2> QED
    BY <1>1, <2>1, EmptyingExists, EvictIs
<1> DEFINE Bad == {k \in 0..n : f[1..k] # g[1..k]}
<1>4. Bad = {}
  <2> SUFFICES ASSUME Bad # {} PROVE FALSE
    OBVIOUS
  <2> DEFINE k == Min(Bad)
  <2>1. k \in Bad /\ \A y \in Bad : k <= y
    <3>1. Bad \in SUBSET Nat
      OBVIOUS
    <3> HIDE DEF Bad
    <3> QED
      BY <3>1, MinInSet
  <2> HIDE DEF k
  <2>2. k \in 0..n /\ 1..k \in SUBSET (1..n) /\ 1..k \in SUBSET (1..(n + 1))
    BY <1>1, <2>1
  <2>3. k # 0
    <3>1. ASSUME k = 0 PROVE 1..k = {}
      BY <3>1
    <3> QED
      BY <1>2, <1>3, <2>1, <2>2, <3>1 DEF Emptying
  <2>4. Max(1..k) = k /\ (1..k) \ {k} = 1..(k - 1) /\ 1..k # {}
    BY <2>2, <2>3, MaxUpTo
  <2>5. f[1..(k - 1)] = g[1..(k - 1)]
    BY <1>1, <2>1, <2>2, <2>3
  <2>6. f[1..k] = Evict(f[1..(k - 1)], q[k])
    BY <1>2, <2>2, <2>4 DEF Emptying
  <2>7. g[1..k] = Evict(g[1..(k - 1)], r[k])
    BY <1>3, <2>2, <2>4 DEF Emptying
  <2>8. r[k] = q[k]
    BY <1>1, <2>2, <2>3
  <2> QED
    BY <2>1, <2>5, <2>6, <2>7, <2>8
<1>5. f[1..n] = g[1..n]
  BY <1>1, <1>4
<1>6. g[1..(n + 1)] = Evict(g[1..n], r[n + 1])
  <2>1. /\ Max(1..(n + 1)) = n + 1 /\ (1..(n + 1)) \ {n + 1} = 1..n
        /\ 1..(n + 1) # {} /\ 1..(n + 1) \in SUBSET (1..(n + 1))
    <3>1. n + 1 \in Nat /\ n + 1 > 0 /\ (n + 1) - 1 = n
      BY <1>1
    <3> QED
      BY <3>1, MaxUpTo
  <2> QED
    BY <1>3, <2>1 DEF Emptying
<1>7. EvictAll(t, r) = Evict(EvictAll(t, q), x)
  BY <1>1, <1>2, <1>3, <1>5, <1>6
<1> QED
  BY <1>7 DEF r

-----------------------------------------------------------------------------
(* Sequences without repetition, and walks along links *)

Distinct(s) == \A i, j \in 1..Len(s) : s[i] = s[j] => i = j

(* A sequence without repetition has as many elements as places. *)
LEMMA DistinctCount ==
  ASSUME NEW T, NEW s \in Seq(T), Distinct(s)
  PROVE  /\ IsFiniteSet(Range(s)) /\ Cardinality(Range(s)) = Len(s)
         /\ Range(s) \subseteq T
<1>1. DOMAIN s = 1..Len(s) /\ Len(s) \in Nat /\ Range(s) \subseteq T
  BY DEF Range
<1>2. IsFiniteSet(1..Len(s)) /\ Cardinality(1..Len(s)) = Len(s)
  BY <1>1, FS_Interval
<1>3. s \in [1..Len(s) -> Range(s)]
  BY <1>1 DEF Range
<1>4. s \in Surjection(1..Len(s), Range(s))
  BY <1>1, <1>3 DEF Surjection, Range
<1>5. s \in Injection(1..Len(s), Range(s))
  BY <1>1, <1>3 DEF Injection, Distinct, IsInjective
<1> QED
  BY <1>1, <1>2, <1>4, <1>5, FS_Surjection

(* The links lead from n through the elements of s, to the end. *)
Path(n, links, s) ==
  /\ s \in Seq(Nodes) /\ Distinct(s)
  /\ n = IF s = <<>> THEN NULL ELSE s[1]
  /\ \A i \in 1..Len(s) : links[s[i]] = IF i = Len(s) THEN NULL ELSE s[i + 1]

(* Walk(n, links) is a value of a recursive function. *)
Steps(K) == (Nodes \cup {NULL}) \X (0..K)
Walking(links, K, f) ==
  f = [p \in Steps(K) |->
         IF p[1] = NULL \/ p[2] = 0 THEN <<>>
         ELSE <<p[1]>> \o f[<<links[p[1]], p[2] - 1>>]]

LEMMA WalkIs ==
  ASSUME NEW n, NEW links
  PROVE  Walk(n, links) = (CHOOSE f : Walking(links, Cardinality(Nodes) + 1, f))
                            [<<n, Cardinality(Nodes) + 1>>]
BY DEF Walk, Walking, Steps

(* A walk along any links has an end, for it counts its steps. *)
LEMMA WalkingExists ==
  ASSUME NEW links \in Links, NEW K \in Nat
  PROVE  \E f : Walking(links, K, f)
<1> DEFINE Bad == {m \in Nat : ~ \E f : Walking(links, m, f)}
<1> SUFFICES ASSUME Bad # {} PROVE FALSE
  OBVIOUS
<1> DEFINE m == Min(Bad)
<1>1. m \in Bad /\ \A y \in Bad : m <= y
  BY MinInSet
<1> HIDE DEF m
<1>2. m # 0
  <2> DEFINE f == [p \in Steps(0) |-> <<>>]
  <2>1. \A p \in Steps(0) : p[2] = 0
    BY DEF Steps
  <2>2. f = [p \in Steps(0) |->
               IF p[1] = NULL \/ p[2] = 0 THEN <<>>
               ELSE <<p[1]>> \o f[<<links[p[1]], p[2] - 1>>]]
    BY <2>1
  <2>3. Walking(links, 0, f)
    BY <2>2 DEF Walking
  <2> QED
    BY <1>1, <2>3
<1>3. PICK f : Walking(links, m - 1, f)
  BY <1>1, <1>2
<1> DEFINE g == [p \in Steps(m) |->
                   IF p[1] = NULL \/ p[2] = 0 THEN <<>>
                   ELSE <<p[1]>> \o f[<<links[p[1]], p[2] - 1>>]]
<1>4. ASSUME NEW p \in Steps(m - 1) PROVE p \in Steps(m) /\ g[p] = f[p]
  <2>1. p \in Steps(m)
    BY <1>1, <1>2 DEF Steps
  <2> QED
    BY <1>3, <2>1 DEF Walking
<1>5. ASSUME NEW p \in Steps(m), p[1] # NULL, p[2] # 0
      PROVE  g[<<links[p[1]], p[2] - 1>>] = f[<<links[p[1]], p[2] - 1>>]
  <2>1. <<links[p[1]], p[2] - 1>> \in Steps(m - 1)
    BY <1>1, <1>2, <1>5 DEF Steps, Links
  <2> QED
    BY <1>4, <2>1
<1>6. g = [p \in Steps(m) |->
             IF p[1] = NULL \/ p[2] = 0 THEN <<>>
             ELSE <<p[1]>> \o g[<<links[p[1]], p[2] - 1>>]]
  BY <1>5
<1>7. Walking(links, m, g)
  BY <1>6 DEF Walking
<1> QED
  BY <1>1, <1>7

(* Where the nodes form a path, the walk meets them in order. *)
LEMMA WalkPath ==
  ASSUME NEW links \in Links, NEW n, NEW s, Path(n, links, s)
  PROVE  Walk(n, links) = s
<1> DEFINE L == Len(s)
           K == Cardinality(Nodes) + 1
           At(i) == IF i > L THEN NULL ELSE s[i]
<1>1. s \in Seq(Nodes) /\ L \in Nat /\ \A i \in 1..L : s[i] \in Nodes
  BY DEF Path
<1>2. K \in Nat /\ L < K
  <2>1. Cardinality(Nodes) \in Nat
    BY NamesAssumption, FS_CardinalityType
  <2>2. Cardinality(Range(s)) = L /\ Range(s) \in SUBSET Nodes
    BY DistinctCount DEF Path
  <2>3. Cardinality(Range(s)) <= Cardinality(Nodes)
    BY <2>2, NamesAssumption, FS_Subset
  <2> QED
    BY <1>1, <2>1, <2>2, <2>3
<1> HIDE DEF L, K
<1>3. PICK f : Walking(links, K, f) /\ Walk(n, links) = f[<<n, K>>]
  BY <1>2, WalkingExists, WalkIs DEF K
<1> DEFINE Bad == {j \in 0..L : \E k \in j..K :
                     f[<<At(L - j + 1), k>>] # SubSeq(s, L - j + 1, L)}
<1>4. Bad = {}
  <2> SUFFICES ASSUME Bad # {} PROVE FALSE
    OBVIOUS
  <2> DEFINE j == Min(Bad)
  <2>1. j \in Bad /\ \A y \in Bad : j <= y
    <3>1. Bad \in SUBSET Nat
      OBVIOUS
    <3> HIDE DEF Bad
    <3> QED
      BY <3>1, MinInSet
  <2> HIDE DEF j
  <2>2. PICK k \in j..K : f[<<At(L - j + 1), k>>] # SubSeq(s, L - j + 1, L)
    BY <2>1
  <2>3. j \in 0..L /\ k \in 0..K
    BY <1>1, <1>2, <2>1, <2>2
  <2>4. j # 0
    <3> SUFFICES ASSUME j = 0 PROVE FALSE
      OBVIOUS
    <3>1. L - j + 1 = L + 1 /\ L + 1 > L
      BY <1>1, <2>3
    <3>2. <<NULL, k>> \in Steps(K)
      BY <2>3 DEF Steps
    <3>3. f[<<NULL, k>>] = <<>>
      BY <1>3, <3>2 DEF Walking
    <3>4. SubSeq(s, L + 1, L) = <<>>
      BY <1>1, <3>1, SubSeqEmpty
    <3> QED
      BY <2>2, <3>1, <3>3, <3>4
  <2> DEFINE i == L - j + 1
  <2>5. i \in 1..L /\ i + 1 = L - (j - 1) + 1 /\ k # 0 /\ k - 1 \in (j - 1)..K
    BY <1>1, <1>2, <2>2, <2>3, <2>4
  <2>6. At(i) = s[i] /\ s[i] \in Nodes
    BY <1>1, <2>5
  <2>7. links[s[i]] = At(i + 1)
    BY <1>1, <2>5 DEF Path, L
  <2>8. f[<<At(i + 1), k - 1>>] = SubSeq(s, i + 1, L)
    <3>1. j - 1 \in 0..L /\ ~(j <= j - 1)
      BY <1>1, <2>3, <2>4
    <3>2. j - 1 \notin Bad
      <4> HIDE DEF Bad
      <4> QED
        BY <2>1, <3>1
    <3>3. f[<<At(L - (j - 1) + 1), k - 1>>] = SubSeq(s, L - (j - 1) + 1, L)
      BY <2>5, <3>1, <3>2
    <3> QED
      BY <2>5, <3>3
  <2>9. f[<<s[i], k>>] = <<s[i]>> \o f[<<links[s[i]], k - 1>>]
    <3>1. <<s[i], k>> \in Steps(K)
      BY <2>3, <2>6 DEF Steps
    <3> QED
      BY <1>3, <2>5, <2>6, <3>1, NULLAssumption DEF Walking
  <2>10. SubSeq(s, i, L) = <<s[i]>> \o SubSeq(s, i + 1, L)
    <3>1. i \in 1..Len(s) /\ Len(s) \in i..Len(s)
      BY <1>1, <2>5 DEF L
    <3> HIDE DEF i
    <3> QED
      BY <1>1, <3>1, SubSeqRecursiveFirst DEF L
  <2>11. f[<<At(i), k>>] # SubSeq(s, i, L)
    BY <2>2
  <2>12. links[s[i]] = At(i + 1) /\ At(i) = s[i]
    BY <2>6, <2>7
  <2> HIDE DEF i, At
  <2> QED
    BY <2>8, <2>9, <2>10, <2>11, <2>12
<1>5. f[<<At(1), K>>] = SubSeq(s, 1, L)
  <2>1. K \in L..K /\ L \in 0..L /\ L - L + 1 = 1
    BY <1>1, <1>2
  <2>2. f[<<At(L - L + 1), K>>] = SubSeq(s, L - L + 1, L)
    BY <1>4, <2>1
  <2> QED
    BY <2>1, <2>2
<1>6. At(1) = n
  BY <1>1 DEF Path, L
<1>7. SubSeq(s, 1, L) = s
  BY <1>1, SubSeqFull DEF L
<1> QED
  BY <1>3, <1>5, <1>6, <1>7

-----------------------------------------------------------------------------
(* The list by use *)

(* A tree in the middle of an operation: its counters may be off. *)
Shaped ==
  [root: Nodes \cup {NULL}, mostRecentLRU: Nodes \cup {NULL},
   leastRecentLRU: Nodes \cup {NULL}, fileCount: Int, filedim: Int,
   heap: SUBSET Nodes, name: [Nodes -> Names \cup {NULL}],
   leftPtr: Links, rightPtr: Links,
   lessRecentLRU: Links, moreRecentLRU: Links,
   sFile: [Nodes -> Files \cup {NULL}]]

(* The types are those of TypeOK, counters apart. *)
LEMMA Typed ==
  TypeOK <=> tree \in Shaped /\ tree.fileCount \in Nat /\ tree.filedim \in Nat
BY DEF TypeOK, Shaped

(* What the list operators leave alone. *)
SameSearch(t, r) ==
  /\ r.root = t.root /\ r.heap = t.heap /\ r.name = t.name
  /\ r.leftPtr = t.leftPtr /\ r.rightPtr = t.rightPtr

(* The fields after each list operation, in terms of those before. *)
LEMMA PointTyped ==
  ASSUME NEW links \in Links, NEW n \in Nodes \cup {NULL},
         NEW m \in Nodes \cup {NULL}
  PROVE  /\ Point(links, n, m) \in Links
         /\ \A x \in Nodes : Point(links, n, m)[x] = IF x = n THEN m ELSE links[x]
BY NULLAssumption DEF Point, Links

LEMMA ListUpdated ==
  ASSUME NEW t \in Shaped, NEW count \in Int, NEW dim \in Int,
         NEW least \in Nodes \cup {NULL}, NEW most \in Nodes \cup {NULL},
         NEW down \in Links, NEW up \in Links
  PROVE  [t EXCEPT !.fileCount = count, !.filedim = dim,
                   !.leastRecentLRU = least, !.mostRecentLRU = most,
                   !.lessRecentLRU = down, !.moreRecentLRU = up] \in Shaped
BY DEF Shaped

LEMMA InsertFields ==
  ASSUME NEW t \in Shaped, NEW n \in Nodes, t.sFile[n] # NULL
  PROVE  LET r == insertToFrontLRU(t, n)
             first == t.leastRecentLRU = NULL
             last == IF first THEN NULL ELSE t.mostRecentLRU
         IN /\ r \in Shaped /\ SameSearch(t, r) /\ r.sFile = t.sFile
            /\ r.fileCount = t.fileCount + 1
            /\ r.filedim = t.filedim + t.sFile[n].dim
            /\ r.leastRecentLRU = IF first THEN n ELSE t.leastRecentLRU
            /\ r.mostRecentLRU = n
            /\ r.lessRecentLRU = [t.lessRecentLRU EXCEPT ![n] = last]
            /\ r.moreRecentLRU =
                 Point([t.moreRecentLRU EXCEPT ![n] = NULL], last, n)
<1> DEFINE r == insertToFrontLRU(t, n)
           first == t.leastRecentLRU = NULL
           last == IF first THEN NULL ELSE t.mostRecentLRU
<1>1. /\ t.sFile[n].dim \in Nat /\ last \in Nodes \cup {NULL}
      /\ t.moreRecentLRU \in Links /\ t.lessRecentLRU \in Links
  BY DEF Shaped, Files
<1>2. /\ [t.lessRecentLRU EXCEPT ![n] = last] \in Links
      /\ [t.moreRecentLRU EXCEPT ![n] = NULL] \in Links
  BY <1>1 DEF Links
<1>3. Point([t.moreRecentLRU EXCEPT ![n] = NULL], last, n) \in Links
  BY <1>1, <1>2, PointTyped
<1>4. /\ SameSearch(t, r) /\ r.sFile = t.sFile
      /\ r.fileCount = t.fileCount + 1
      /\ r.filedim = t.filedim + t.sFile[n].dim
      /\ r.leastRecentLRU = IF first THEN n ELSE t.leastRecentLRU
      /\ r.mostRecentLRU = n
      /\ r.lessRecentLRU = [t.lessRecentLRU EXCEPT ![n] = last]
      /\ r.moreRecentLRU = Point([t.moreRecentLRU EXCEPT ![n] = NULL], last, n)
  BY DEF insertToFrontLRU, SameSearch, Shaped
<1>5. r \in Shaped
  <2> DEFINE count == t.fileCount + 1
             dim == t.filedim + t.sFile[n].dim
             least == IF first THEN n ELSE t.leastRecentLRU
             down == [t.lessRecentLRU EXCEPT ![n] = last]
             up == Point([t.moreRecentLRU EXCEPT ![n] = NULL], last, n)
  <2>1. r = [t EXCEPT !.fileCount = count, !.filedim = dim,
                      !.leastRecentLRU = least, !.mostRecentLRU = n,
                      !.lessRecentLRU = down, !.moreRecentLRU = up]
    BY DEF insertToFrontLRU, Shaped
  <2>2. /\ count \in Int /\ dim \in Int /\ least \in Nodes \cup {NULL}
        /\ down \in Links /\ up \in Links
    BY <1>1, <1>2, <1>3 DEF Shaped
  <2> HIDE DEF count, dim, least, down, up
  <2>3. [t EXCEPT !.fileCount = count, !.filedim = dim,
                  !.leastRecentLRU = least, !.mostRecentLRU = n,
                  !.lessRecentLRU = down, !.moreRecentLRU = up] \in Shaped
    BY <2>2, ListUpdated
  <2> HIDE DEF r
  <2> QED
    BY <2>1, <2>3
<1> QED
  BY <1>4, <1>5

LEMMA RemoveFields ==
  ASSUME NEW t \in Shaped, NEW n \in Nodes, t.sFile[n] # NULL
  PROVE  LET r == removeFromLRU(t, n)
             less == t.lessRecentLRU[n]
             more == t.moreRecentLRU[n]
             newest == t.mostRecentLRU = n
             oldest == ~newest /\ t.leastRecentLRU = n
         IN /\ r \in Shaped /\ SameSearch(t, r) /\ r.sFile = t.sFile
            /\ r.fileCount = t.fileCount - 1
            /\ r.filedim = t.filedim - t.sFile[n].dim
            /\ r.mostRecentLRU = IF newest THEN less ELSE t.mostRecentLRU
            /\ r.leastRecentLRU = IF newest /\ less = NULL THEN NULL
                                  ELSE IF oldest THEN more ELSE t.leastRecentLRU
            /\ r.lessRecentLRU =
                 Point([t.lessRecentLRU EXCEPT ![n] = NULL],
                       IF newest THEN NULL ELSE more, less)
            /\ r.moreRecentLRU =
                 Point([t.moreRecentLRU EXCEPT ![n] = NULL],
                       IF oldest THEN NULL ELSE less, more)
<1> DEFINE r == removeFromLRU(t, n)
           less == t.lessRecentLRU[n]
           more == t.moreRecentLRU[n]
           newest == t.mostRecentLRU = n
           oldest == ~newest /\ t.leastRecentLRU = n
           down == Point([t.lessRecentLRU EXCEPT ![n] = NULL],
                         IF newest THEN NULL ELSE more, less)
           up == Point([t.moreRecentLRU EXCEPT ![n] = NULL],
                       IF oldest THEN NULL ELSE less, more)
<1>1. /\ t.sFile[n].dim \in Nat
      /\ less \in Nodes \cup {NULL} /\ more \in Nodes \cup {NULL}
      /\ t.moreRecentLRU \in Links /\ t.lessRecentLRU \in Links
  BY DEF Shaped, Files, Links
<1>2. /\ [t.lessRecentLRU EXCEPT ![n] = NULL] \in Links
      /\ [t.moreRecentLRU EXCEPT ![n] = NULL] \in Links
  BY <1>1 DEF Links
<1>3. down \in Links /\ up \in Links
  BY <1>1, <1>2, PointTyped
<1>4. /\ SameSearch(t, r) /\ r.sFile = t.sFile
      /\ r.fileCount = t.fileCount - 1
      /\ r.filedim = t.filedim - t.sFile[n].dim
      /\ r.mostRecentLRU = IF newest THEN less ELSE t.mostRecentLRU
      /\ r.leastRecentLRU = IF newest /\ less = NULL THEN NULL
                            ELSE IF oldest THEN more ELSE t.leastRecentLRU
      /\ r.lessRecentLRU = down
      /\ r.moreRecentLRU = up
  BY DEF removeFromLRU, SameSearch, Shaped
<1>5. r \in Shaped
  <2> DEFINE count == t.fileCount - 1
             dim == t.filedim - t.sFile[n].dim
             most == IF newest THEN less ELSE t.mostRecentLRU
             least == IF newest /\ less = NULL THEN NULL
                      ELSE IF oldest THEN more ELSE t.leastRecentLRU
  <2>1. r = [t EXCEPT !.fileCount = count, !.filedim = dim,
                      !.leastRecentLRU = least, !.mostRecentLRU = most,
                      !.lessRecentLRU = down, !.moreRecentLRU = up]
    BY DEF removeFromLRU, Shaped
  <2>2. /\ count \in Int /\ dim \in Int
        /\ least \in Nodes \cup {NULL} /\ most \in Nodes \cup {NULL}
    BY <1>1 DEF Shaped
  <2> HIDE DEF count, dim, least, most, down, up
  <2>3. [t EXCEPT !.fileCount = count, !.filedim = dim,
                  !.leastRecentLRU = least, !.mostRecentLRU = most,
                  !.lessRecentLRU = down, !.moreRecentLRU = up] \in Shaped
    BY <1>3, <2>2, ListUpdated
  <2> HIDE DEF r
  <2> QED
    BY <2>1, <2>3
<1> QED
  BY <1>4, <1>5

LEMMA MoveFields ==
  ASSUME NEW t \in Shaped, NEW n \in Nodes,
         t.mostRecentLRU # NULL, t.moreRecentLRU[n] # NULL
  PROVE  LET r == moveToFrontLRU(t, n)
             less == t.lessRecentLRU[n]
             more == t.moreRecentLRU[n]
         IN /\ r \in Shaped /\ SameSearch(t, r) /\ r.sFile = t.sFile
            /\ r.fileCount = t.fileCount /\ r.filedim = t.filedim
            /\ r.mostRecentLRU = n
            /\ r.leastRecentLRU = IF less = NULL THEN more ELSE t.leastRecentLRU
            /\ r.lessRecentLRU =
                 [t.lessRecentLRU EXCEPT ![more] = less, ![n] = t.mostRecentLRU]
            /\ r.moreRecentLRU =
                 [Point(t.moreRecentLRU, less, more)
                    EXCEPT ![t.mostRecentLRU] = n, ![n] = NULL]
<1> DEFINE r == moveToFrontLRU(t, n)
           less == t.lessRecentLRU[n]
           more == t.moreRecentLRU[n]
           down == [t.lessRecentLRU EXCEPT ![more] = less, ![n] = t.mostRecentLRU]
           up == [Point(t.moreRecentLRU, less, more)
                    EXCEPT ![t.mostRecentLRU] = n, ![n] = NULL]
<1>1. /\ less \in Nodes \cup {NULL} /\ more \in Nodes \cup {NULL}
      /\ t.mostRecentLRU \in Nodes \cup {NULL}
      /\ t.moreRecentLRU \in Links /\ t.lessRecentLRU \in Links
  BY DEF Shaped, Files, Links
<1>2. Point(t.moreRecentLRU, less, more) \in Links
  BY <1>1, PointTyped
<1>3. down \in Links /\ up \in Links
  BY <1>1, <1>2 DEF Links
<1>4. /\ SameSearch(t, r) /\ r.sFile = t.sFile
      /\ r.fileCount = t.fileCount /\ r.filedim = t.filedim
      /\ r.mostRecentLRU = n
      /\ r.leastRecentLRU = IF less = NULL THEN more ELSE t.leastRecentLRU
      /\ r.lessRecentLRU = down
      /\ r.moreRecentLRU = up
  BY DEF moveToFrontLRU, SameSearch, Shaped
<1>5. r \in Shaped
  BY <1>1, <1>3 DEF moveToFrontLRU, Shaped
<1> QED
  BY <1>4, <1>5

(* The pointers form the list s. *)
Linked(t, s) ==
  /\ s \in Seq(Nodes) /\ Distinct(s)
  /\ t.leastRecentLRU = IF s = <<>> THEN NULL ELSE s[1]
  /\ t.mostRecentLRU = IF s = <<>> THEN NULL ELSE s[Len(s)]
  /\ \A i \in 1..Len(s) :
       /\ t.moreRecentLRU[s[i]] = IF i = Len(s) THEN NULL ELSE s[i + 1]
       /\ t.lessRecentLRU[s[i]] = IF i = 1 THEN NULL ELSE s[i - 1]

(* A list that is linked is read in one order upwards, in the other        *)
(* downwards.                                                              *)
LEMMA ReverseFacts ==
  ASSUME NEW T, NEW s \in Seq(T)
  PROVE  /\ Reverse(s) \in Seq(T) /\ Len(Reverse(s)) = Len(s)
         /\ \A i \in 1..Len(s) : Reverse(s)[i] = s[Len(s) - i + 1]
         /\ Reverse(Reverse(s)) = s
         /\ Distinct(s) => Distinct(Reverse(s))
<1> DEFINE r == Reverse(s)
<1>1. /\ r \in Seq(T) /\ Len(r) = Len(s)
      /\ \A i \in 1..Len(s) : r[i] = s[Len(s) - i + 1]
  BY DEF Reverse
<1>2. Reverse(r) = s
  <2>1. Reverse(r) = [i \in 1..Len(s) |-> r[Len(s) - i + 1]]
    BY <1>1 DEF Reverse
  <2>2. \A i \in 1..Len(s) : r[Len(s) - i + 1] = s[i]
    BY <1>1
  <2> QED
    BY <2>1, <2>2
<1>3. ASSUME Distinct(s) PROVE Distinct(r)
  <2> DEFINE n == Len(s)
  <2> SUFFICES ASSUME NEW i \in 1..n, NEW j \in 1..n, r[i] = r[j]
               PROVE  i = j
    BY <1>1 DEF Distinct
  <2>1. n \in Nat /\ n - i + 1 \in 1..n /\ n - j + 1 \in 1..n
    OBVIOUS
  <2>2. s[n - i + 1] = s[n - j + 1]
    BY <1>1
  <2>3. n - i + 1 = n - j + 1
    BY <1>3, <2>1, <2>2 DEF Distinct
  <2> QED
    BY <2>1, <2>3
<1> QED
  BY <1>1, <1>2, <1>3

LEMMA LinkedWalks ==
  ASSUME NEW t \in Shaped, NEW s, Linked(t, s)
  PROVE  /\ OldestFirst(t) = s
         /\ Walk(t.mostRecentLRU, t.lessRecentLRU) = Reverse(s)
<1>1. t.moreRecentLRU \in Links /\ t.lessRecentLRU \in Links
  BY DEF Shaped
<1>2. Path(t.leastRecentLRU, t.moreRecentLRU, s)
  BY DEF Linked, Path
<1> DEFINE r == Reverse(s)
           n == Len(s)
<1>3. /\ s \in Seq(Nodes) /\ n \in Nat
      /\ r \in Seq(Nodes) /\ Len(r) = n /\ Distinct(r)
      /\ \A i \in 1..n : r[i] = s[n - i + 1]
  BY ReverseFacts DEF Linked
<1>4. ASSUME NEW i \in 1..n
      PROVE  t.lessRecentLRU[r[i]] = IF i = n THEN NULL ELSE r[i + 1]
  <2>1. n - i + 1 \in 1..n
    BY <1>3
  <2>2. t.lessRecentLRU[s[n - i + 1]] =
          IF n - i + 1 = 1 THEN NULL ELSE s[(n - i + 1) - 1]
    BY <2>1 DEF Linked
  <2>3. CASE i = n
    BY <1>3, <2>2, <2>3
  <2>4. CASE i # n
    <3>1. i + 1 \in 1..n /\ n - (i + 1) + 1 = (n - i + 1) - 1 /\ n - i + 1 # 1
      BY <1>3, <2>4
    <3> QED
      BY <1>3, <2>2, <2>4, <3>1
  <2> QED
    BY <2>3, <2>4
<1>5. t.mostRecentLRU = IF r = <<>> THEN NULL ELSE r[1]
  <2>1. r = <<>> <=> s = <<>>
    BY <1>3
  <2>2. s # <<>> => r[1] = s[n]
    BY <1>3
  <2> QED
    BY <2>1, <2>2 DEF Linked
<1>6. Path(t.mostRecentLRU, t.lessRecentLRU, r)
  <2> HIDE DEF r
  <2> QED
    BY <1>3, <1>4, <1>5 DEF Path
<1> QED
  BY <1>1, <1>2, <1>6, WalkPath DEF OldestFirst

(* insertToFrontLRU links the node after the last of the list. *)
LEMMA NodesOfList ==
  ASSUME NEW t, NEW s, Linked(t, s)
  PROVE  /\ Len(s) \in Nat /\ \A i \in 1..Len(s) : s[i] \in Nodes /\ s[i] # NULL
         /\ \A i, j \in 1..Len(s) : s[i] = s[j] => i = j
         /\ s = <<>> <=> Len(s) = 0
         /\ t.leastRecentLRU = NULL <=> s = <<>>
         /\ t.mostRecentLRU = NULL <=> s = <<>>
         /\ Range(s) = {s[i] : i \in 1..Len(s)} /\ Range(s) \subseteq Nodes
BY NULLAssumption DEF Linked, Distinct, Range

LEMMA AppendDistinct ==
  ASSUME NEW T, NEW s \in Seq(T), Distinct(s), NEW n \in T, n \notin Range(s)
  PROVE  /\ Append(s, n) \in Seq(T) /\ Distinct(Append(s, n))
         /\ Range(Append(s, n)) = Range(s) \cup {n}
         /\ Len(Append(s, n)) = Len(s) + 1
         /\ Append(s, n)[Len(s) + 1] = n
         /\ \A i \in 1..Len(s) : Append(s, n)[i] = s[i]
<1> DEFINE q == Append(s, n)
           L == Len(s)
<1>1. /\ q \in Seq(T) /\ Len(q) = L + 1 /\ L \in Nat
      /\ q[L + 1] = n /\ \A i \in 1..L : q[i] = s[i]
  OBVIOUS
<1>2. Range(s) = {s[i] : i \in 1..L} /\ Range(q) = {q[i] : i \in 1..(L + 1)}
  BY <1>1 DEF Range
<1> HIDE DEF q
<1>3. Range(q) = Range(s) \cup {n}
  BY <1>1, <1>2
<1>4. \A i \in 1..L : s[i] # n
  BY <1>2
<1>5. Distinct(q)
  BY <1>1, <1>4 DEF Distinct, L
<1> QED
  BY <1>1, <1>3, <1>5 DEF q

LEMMA InsertLinked ==
  ASSUME NEW t \in Shaped, NEW s, Linked(t, s),
         NEW n \in Nodes, n \notin Range(s), t.sFile[n] # NULL
  PROVE  Linked(insertToFrontLRU(t, n), Append(s, n))
<1> DEFINE r == insertToFrontLRU(t, n)
           q == Append(s, n)
           L == Len(s)
           last == IF s = <<>> THEN NULL ELSE s[L]
<1>1. /\ L \in Nat /\ \A i \in 1..L : s[i] \in Nodes /\ s[i] # NULL /\ s[i] # n
      /\ \A i, j \in 1..L : s[i] = s[j] => i = j
      /\ s = <<>> <=> L = 0
      /\ t.leastRecentLRU = NULL <=> s = <<>>
  BY NodesOfList
<1>2. /\ q \in Seq(Nodes) /\ Len(q) = L + 1 /\ Distinct(q) /\ q # <<>>
      /\ q[L + 1] = n /\ \A i \in 1..L : q[i] = s[i]
  <2>1. s \in Seq(Nodes) /\ Distinct(s)
    BY DEF Linked
  <2> QED
    BY <2>1, AppendDistinct
<1>3. last = IF t.leastRecentLRU = NULL THEN NULL ELSE t.mostRecentLRU
  BY <1>1 DEF Linked
<1>4. /\ r.leastRecentLRU = IF s = <<>> THEN n ELSE s[1]
      /\ r.mostRecentLRU = n
      /\ r.lessRecentLRU = [t.lessRecentLRU EXCEPT ![n] = last]
      /\ r.moreRecentLRU = Point([t.moreRecentLRU EXCEPT ![n] = NULL], last, n)
  <2>1. LET f == t.leastRecentLRU = NULL
            l == IF f THEN NULL ELSE t.mostRecentLRU
        IN /\ r.leastRecentLRU = IF f THEN n ELSE t.leastRecentLRU
           /\ r.mostRecentLRU = n
           /\ r.lessRecentLRU = [t.lessRecentLRU EXCEPT ![n] = l]
           /\ r.moreRecentLRU = Point([t.moreRecentLRU EXCEPT ![n] = NULL], l, n)
    BY InsertFields
  <2>2. s # <<>> => t.leastRecentLRU = s[1]
    BY DEF Linked
  <2> HIDE DEF r, last
  <2> QED
    BY <1>1, <1>3, <2>1, <2>2
<1>5. /\ \A x \in Nodes : r.lessRecentLRU[x] = IF x = n THEN last ELSE t.lessRecentLRU[x]
      /\ \A x \in Nodes : r.moreRecentLRU[x] =
           IF x = last THEN n ELSE IF x = n THEN NULL ELSE t.moreRecentLRU[x]
  <2>1. t.lessRecentLRU \in Links /\ [t.moreRecentLRU EXCEPT ![n] = NULL] \in Links
        /\ last \in Nodes \cup {NULL}
    BY <1>1 DEF Shaped, Links
  <2> HIDE DEF last
  <2>2. \A x \in Nodes : r.lessRecentLRU[x] = IF x = n THEN last ELSE t.lessRecentLRU[x]
    BY <1>4, <2>1 DEF Links
  <2>3. \A x \in Nodes : r.moreRecentLRU[x] =
          IF x = last THEN n ELSE [t.moreRecentLRU EXCEPT ![n] = NULL][x]
    <3> DEFINE up == [t.moreRecentLRU EXCEPT ![n] = NULL]
    <3>0. up \in Links /\ n \in Nodes \cup {NULL}
      BY <2>1
    <3> HIDE DEF up, r, q
    <3>1. \A x \in Nodes : Point(up, last, n)[x] = IF x = last THEN n ELSE up[x]
      BY <2>1, <3>0, PointTyped
    <3>2. r.moreRecentLRU = Point(up, last, n)
      BY <1>4 DEF up
    <3> QED
      BY <3>1, <3>2 DEF up
  <2>4. t.moreRecentLRU \in Links
    BY DEF Shaped
  <2> QED
    BY <2>2, <2>3, <2>4 DEF Links
<1>6. ASSUME NEW i \in 1..(L + 1)
      PROVE  /\ r.moreRecentLRU[q[i]] = IF i = L + 1 THEN NULL ELSE q[i + 1]
             /\ r.lessRecentLRU[q[i]] = IF i = 1 THEN NULL ELSE q[i - 1]
  <2>1. CASE i = L + 1
    BY <1>1, <1>2, <1>5, <2>1
  <2>2. CASE i # L + 1
    <3>1. i \in 1..L /\ q[i] = s[i] /\ s[i] # n /\ s[i] \in Nodes
      BY <1>1, <1>2, <2>2
    <3>2. /\ t.moreRecentLRU[s[i]] = IF i = L THEN NULL ELSE s[i + 1]
          /\ t.lessRecentLRU[s[i]] = IF i = 1 THEN NULL ELSE s[i - 1]
      BY <3>1 DEF Linked
    <3>3. s[i] = last <=> i = L
      BY <1>1, <3>1
    <3>4. (i # L => q[i + 1] = s[i + 1]) /\ (i # 1 => q[i - 1] = s[i - 1])
      BY <1>1, <1>2, <3>1
    <3> HIDE DEF q, r, last
    <3> QED
      BY <1>1, <1>2, <1>5, <3>1, <3>2, <3>3, <3>4
  <2> QED
    BY <2>1, <2>2
<1>7. q[1] = IF s = <<>> THEN n ELSE s[1]
  BY <1>1, <1>2
<1> HIDE DEF q, r
<1>8. Linked(r, q)
  BY <1>2, <1>4, <1>6, <1>7 DEF Linked
<1> QED
  BY <1>8 DEF q, r

(* The sequence without its element at k *)
Cut(s, k) == [j \in 1..(Len(s) - 1) |-> IF j < k THEN s[j] ELSE s[j + 1]]

(* A list without its k-th node. *)
LEMMA CutFacts ==
  ASSUME NEW T, NEW s \in Seq(T), Distinct(s), NEW k \in 1..Len(s)
  PROVE  /\ Cut(s, k) \in Seq(T) /\ Len(Cut(s, k)) = Len(s) - 1
         /\ Distinct(Cut(s, k))
         /\ Range(Cut(s, k)) = Range(s) \ {s[k]}
         /\ \A j \in 1..(Len(s) - 1) :
              Cut(s, k)[j] = IF j < k THEN s[j] ELSE s[j + 1]
<1> DEFINE q == Cut(s, k)
           L == Len(s)
<1>1. /\ q \in Seq(T) /\ Len(q) = L - 1 /\ L \in Nat
      /\ \A j \in 1..(L - 1) : q[j] = IF j < k THEN s[j] ELSE s[j + 1]
  BY DEF Cut
<1>2. Range(s) = {s[i] : i \in 1..L} /\ Range(q) = {q[i] : i \in 1..(L - 1)}
  BY <1>1 DEF Range
<1>3. \A i, j \in 1..L : s[i] = s[j] => i = j
  BY DEF Distinct
<1> HIDE DEF q
<1>4. Distinct(q)
  <2> SUFFICES ASSUME NEW i \in 1..(L - 1), NEW j \in 1..(L - 1), q[i] = q[j]
               PROVE  i = j
    BY <1>1 DEF Distinct
  <2>1. i \in 1..L /\ j \in 1..L /\ i + 1 \in 1..L /\ j + 1 \in 1..L
    BY <1>1
  <2> QED
    BY <1>1, <1>3, <2>1
<1>5. Range(q) \subseteq Range(s) \ {s[k]}
  <2> SUFFICES ASSUME NEW j \in 1..(L - 1) PROVE q[j] \in Range(s) \ {s[k]}
    BY <1>2
  <2>1. j \in 1..L /\ j + 1 \in 1..L
    BY <1>1
  <2> QED
    BY <1>1, <1>2, <1>3, <2>1
<1>6. Range(s) \ {s[k]} \subseteq Range(q)
  <2> SUFFICES ASSUME NEW i \in 1..L, i # k PROVE s[i] \in Range(q)
    BY <1>2
  <2>1. CASE i < k
    <3>1. i \in 1..(L - 1) /\ q[i] = s[i]
      BY <1>1, <2>1
    <3> QED
      BY <1>2, <3>1
  <2>2. CASE i > k
    <3>1. i - 1 \in 1..(L - 1) /\ q[i - 1] = s[(i - 1) + 1] /\ (i - 1) + 1 = i
      BY <1>1, <2>2
    <3> QED
      BY <1>2, <3>1
  <2> QED
    BY <2>1, <2>2
<1> QED
  BY <1>1, <1>4, <1>5, <1>6 DEF q

(* removeFromLRU unlinks it, be it the newest, the oldest or another.      *)
LEMMA RemoveLinked ==
  ASSUME NEW t \in Shaped, NEW s, Linked(t, s),
         NEW k \in 1..Len(s), t.sFile[s[k]] # NULL
  PROVE  Linked(removeFromLRU(t, s[k]), Cut(s, k))
<1> DEFINE n == s[k]
           r == removeFromLRU(t, n)
           q == Cut(s, k)
           L == Len(s)
           before == IF k = 1 THEN NULL ELSE s[k - 1]
           after == IF k = L THEN NULL ELSE s[k + 1]
<1>1. /\ L \in Nat /\ \A i \in 1..L : s[i] \in Nodes /\ s[i] # NULL
      /\ \A i, j \in 1..L : s[i] = s[j] => i = j
      /\ s = <<>> <=> L = 0
  BY NodesOfList
<1>2. /\ q \in Seq(Nodes) /\ Len(q) = L - 1 /\ Distinct(q)
      /\ \A j \in 1..(L - 1) : q[j] = IF j < k THEN s[j] ELSE s[j + 1]
  <2>1. s \in Seq(Nodes) /\ Distinct(s)
    BY DEF Linked
  <2> QED
    BY <2>1, CutFacts
<1>3. /\ t.lessRecentLRU[n] = before /\ t.moreRecentLRU[n] = after
      /\ t.mostRecentLRU = s[L] /\ t.leastRecentLRU = s[1]
      /\ 1 \in 1..L /\ L \in 1..L
  BY <1>1 DEF Linked
<1>4. /\ t.mostRecentLRU = n <=> k = L
      /\ t.leastRecentLRU = n <=> k = 1
      /\ before = NULL <=> k = 1
      /\ before \in Nodes \cup {NULL} /\ after \in Nodes \cup {NULL}
      /\ n \in Nodes
  BY <1>1, <1>3
<1>5. /\ r.mostRecentLRU = IF k = L THEN before ELSE s[L]
      /\ r.leastRecentLRU = IF k = L /\ k = 1 THEN NULL
                            ELSE IF k = 1 THEN after ELSE s[1]
      /\ r.lessRecentLRU =
           Point([t.lessRecentLRU EXCEPT ![n] = NULL], after, before)
      /\ r.moreRecentLRU =
           Point([t.moreRecentLRU EXCEPT ![n] = NULL],
                 IF k = 1 /\ k # L THEN NULL ELSE before, after)
  <2>1. LET less == t.lessRecentLRU[n]
            more == t.moreRecentLRU[n]
            newest == t.mostRecentLRU = n
            oldest == ~newest /\ t.leastRecentLRU = n
        IN /\ r.mostRecentLRU = IF newest THEN less ELSE t.mostRecentLRU
           /\ r.leastRecentLRU = IF newest /\ less = NULL THEN NULL
                                 ELSE IF oldest THEN more ELSE t.leastRecentLRU
           /\ r.lessRecentLRU =
                Point([t.lessRecentLRU EXCEPT ![n] = NULL],
                      IF newest THEN NULL ELSE more, less)
           /\ r.moreRecentLRU =
                Point([t.moreRecentLRU EXCEPT ![n] = NULL],
                      IF oldest THEN NULL ELSE less, more)
    BY <1>4, RemoveFields
  <2>2. k = L => after = NULL
    OBVIOUS
  <2> HIDE DEF r, n, before, after
  <2> QED
    BY <1>3, <1>4, <2>1, <2>2
<1>6. /\ \A x \in Nodes : r.lessRecentLRU[x] =
           IF x = after THEN before ELSE IF x = n THEN NULL ELSE t.lessRecentLRU[x]
      /\ \A x \in Nodes : r.moreRecentLRU[x] =
           IF x = before THEN after ELSE IF x = n THEN NULL ELSE t.moreRecentLRU[x]
  <2> DEFINE down == [t.lessRecentLRU EXCEPT ![n] = NULL]
             up == [t.moreRecentLRU EXCEPT ![n] = NULL]
             prev == IF k = 1 /\ k # L THEN NULL ELSE before
  <2>1. /\ down \in Links /\ up \in Links
        /\ \A x \in Nodes : down[x] = IF x = n THEN NULL ELSE t.lessRecentLRU[x]
        /\ \A x \in Nodes : up[x] = IF x = n THEN NULL ELSE t.moreRecentLRU[x]
    BY <1>4 DEF Shaped, Links
  <2>2. prev = before
    OBVIOUS
  <2>3. /\ r.lessRecentLRU = Point(down, after, before)
        /\ r.moreRecentLRU = Point(up, before, after)
    BY <1>5, <2>2
  <2> HIDE DEF down, up, r, n, before, after, prev, q, L
  <2>4. /\ \A x \in Nodes : Point(down, after, before)[x] =
             IF x = after THEN before ELSE down[x]
        /\ \A x \in Nodes : Point(up, before, after)[x] =
             IF x = before THEN after ELSE up[x]
    <3>0. /\ down \in Links /\ up \in Links
          /\ before \in Nodes \cup {NULL} /\ after \in Nodes \cup {NULL}
      BY <1>4, <2>1
    <3>1. \A x \in Nodes : Point(down, after, before)[x] =
             IF x = after THEN before ELSE down[x]
      BY <3>0, NULLAssumption DEF Point, Links
    <3>2. /\ Point(up, before, after) \in Links
          /\ \A x \in Nodes : Point(up, before, after)[x] =
               IF x = before THEN after ELSE up[x]
      BY <3>0, NULLAssumption DEF Point, Links
    <3> QED
      BY <3>1, <3>2
  <2> QED
    BY <2>1, <2>3, <2>4
<1>7. ASSUME NEW j \in 1..(L - 1)
      PROVE  /\ r.moreRecentLRU[q[j]] = IF j = L - 1 THEN NULL ELSE q[j + 1]
             /\ r.lessRecentLRU[q[j]] = IF j = 1 THEN NULL ELSE q[j - 1]
  <2>1. \A i \in 1..L :
          /\ s[i] = n <=> i = k
          /\ s[i] = before <=> i = k - 1
          /\ s[i] = after <=> i = k + 1
    BY <1>1
  <2>2. \A i \in 1..L :
          /\ t.moreRecentLRU[s[i]] = IF i = L THEN NULL ELSE s[i + 1]
          /\ t.lessRecentLRU[s[i]] = IF i = 1 THEN NULL ELSE s[i - 1]
    BY DEF Linked
  <2>3. CASE j < k
    <3>1. j \in 1..L /\ q[j] = s[j] /\ (j # 1 => q[j - 1] = s[j - 1])
          /\ (j # L - 1 => q[j + 1] = IF j + 1 < k THEN s[j + 1] ELSE s[j + 2])
      BY <1>1, <1>2, <2>3
    <3>2. s[j] \in Nodes /\ s[j] # n /\ s[j] # after
      BY <1>1, <2>1, <2>3, <3>1
    <3>3. r.lessRecentLRU[s[j]] = IF j = 1 THEN NULL ELSE s[j - 1]
      <4> HIDE DEF r, q, n, before, after
      <4> QED
        BY <1>6, <2>2, <3>1, <3>2
    <3>4. CASE j = k - 1
      <4>1. r.moreRecentLRU[s[j]] = after
        BY <1>6, <2>1, <3>1, <3>2, <3>4
      <4>2. after = IF j + 1 = L THEN NULL ELSE s[j + 2]
        BY <1>1, <3>4
      <4> HIDE DEF r, q, after
      <4> QED
        BY <1>1, <3>1, <3>3, <3>4, <4>1, <4>2
    <3>5. CASE j # k - 1
      <4>1. s[j] # before /\ j # L
        BY <1>1, <2>1, <2>3, <3>1, <3>5
      <4>2. t.moreRecentLRU[s[j]] = s[j + 1]
        BY <2>2, <3>1, <4>1
      <4>3. r.moreRecentLRU[s[j]] = s[j + 1]
        BY <1>6, <3>2, <4>1, <4>2
      <4> HIDE DEF r, q
      <4> QED
        BY <1>1, <2>3, <3>1, <3>3, <3>5, <4>3
    <3> QED
      BY <3>4, <3>5
  <2>4. CASE j >= k
    <3>1. /\ j + 1 \in 1..L /\ q[j] = s[j + 1]
          /\ (j # L - 1 => q[j + 1] = s[j + 2])
          /\ (j # 1 => q[j - 1] = IF j - 1 < k THEN s[j - 1] ELSE s[j])
      BY <1>1, <1>2, <2>4
    <3>2. s[j + 1] \in Nodes /\ s[j + 1] # n /\ s[j + 1] # before
      BY <1>1, <2>1, <2>4, <3>1
    <3>3. r.moreRecentLRU[s[j + 1]] = IF j + 1 = L THEN NULL ELSE s[j + 2]
      BY <1>1, <1>6, <2>2, <3>1, <3>2
    <3>4. CASE j = k
      <4>1. r.lessRecentLRU[s[j + 1]] = before
        BY <1>6, <2>1, <3>1, <3>2, <3>4
      <4>2. before = IF j = 1 THEN NULL ELSE s[j - 1]
        BY <3>4
      <4> HIDE DEF r, q, before
      <4> QED
        BY <1>1, <3>1, <3>3, <3>4, <4>1, <4>2
    <3>5. CASE j # k
      <4>1. r.lessRecentLRU[s[j + 1]] = s[j] /\ j # 1
        <5>1. /\ j + 1 \in 1..L /\ j + 1 # 1 /\ j \in 1..L /\ j # 1
              /\ (j + 1) - 1 = j /\ j + 1 # k + 1
          BY <2>4, <3>1, <3>5
        <5>2. s[j + 1] # after
          BY <2>1, <5>1
        <5>3. t.lessRecentLRU[s[j + 1]] = s[j]
          BY <2>2, <5>1
        <5> HIDE DEF r, q, n, before, after
        <5> QED
          BY <1>6, <3>2, <5>1, <5>2, <5>3
      <4> HIDE DEF r, q
      <4> QED
        BY <1>1, <2>4, <3>1, <3>3, <3>5, <4>1
    <3> QED
      BY <3>4, <3>5
  <2> QED
    BY <1>1, <2>3, <2>4
<1>8. /\ r.leastRecentLRU = IF q = <<>> THEN NULL ELSE q[1]
      /\ r.mostRecentLRU = IF q = <<>> THEN NULL ELSE q[L - 1]
  <2>1. q = <<>> <=> L = 1
    BY <1>1, <1>2
  <2>2. CASE L = 1
    BY <1>1, <1>5, <2>1, <2>2
  <2>3. CASE L # 1
    <3>0. L \in Nat /\ k \in 1..L
      BY <1>1
    <3> HIDE DEF L, q, r
    <3>1. 1 \in 1..(L - 1) /\ L - 1 \in 1..(L - 1) /\ (L - 1) + 1 = L
      BY <2>3, <3>0
    <3>2. q[1] = (IF 1 < k THEN s[1] ELSE s[2])
          /\ q[L - 1] = (IF L - 1 < k THEN s[L - 1] ELSE s[L])
      BY <1>2, <3>1
    <3> QED
      BY <1>5, <2>1, <2>3, <3>0, <3>2
  <2> QED
    BY <2>2, <2>3
<1> HIDE DEF q, r
<1>9. Linked(r, q)
  BY <1>2, <1>7, <1>8 DEF Linked
<1> QED
  BY <1>9 DEF q, r

(* The sequence with its element at k put last *)
PutLast(s, k) == Append(Cut(s, k), s[k])

(* A list with its k-th node put last. *)
LEMMA LastFacts ==
  ASSUME NEW T, NEW s \in Seq(T), Distinct(s), NEW k \in 1..Len(s)
  PROVE  /\ PutLast(s, k) \in Seq(T) /\ Len(PutLast(s, k)) = Len(s)
         /\ Distinct(PutLast(s, k)) /\ Range(PutLast(s, k)) = Range(s)
         /\ \A j \in 1..Len(s) : PutLast(s, k)[j] =
              IF j = Len(s) THEN s[k] ELSE IF j < k THEN s[j] ELSE s[j + 1]
         /\ k = Len(s) => PutLast(s, k) = s
<1> DEFINE q == Cut(s, k)
           l == PutLast(s, k)
           L == Len(s)
<1>1. /\ q \in Seq(T) /\ Len(q) = L - 1 /\ Distinct(q) /\ L \in Nat
      /\ Range(q) = Range(s) \ {s[k]} /\ s[k] \in T /\ s[k] \in Range(s)
      /\ \A j \in 1..(L - 1) : q[j] = IF j < k THEN s[j] ELSE s[j + 1]
  <2>1. /\ q \in Seq(T) /\ Len(q) = L - 1 /\ Distinct(q)
        /\ Range(q) = Range(s) \ {s[k]}
        /\ \A j \in 1..(L - 1) : q[j] = IF j < k THEN s[j] ELSE s[j + 1]
    BY CutFacts
  <2>2. L \in Nat /\ s[k] \in T /\ s[k] \in Range(s)
    BY DEF Range
  <2> HIDE DEF q
  <2> QED
    BY <2>1, <2>2
<1> HIDE DEF q
<1>2. /\ Append(q, s[k]) \in Seq(T) /\ Distinct(Append(q, s[k]))
      /\ Range(Append(q, s[k])) = Range(q) \cup {s[k]}
      /\ Len(Append(q, s[k])) = Len(q) + 1
      /\ Append(q, s[k])[Len(q) + 1] = s[k]
      /\ \A i \in 1..Len(q) : Append(q, s[k])[i] = q[i]
  BY <1>1, AppendDistinct
<1>3. l = Append(q, s[k])
  BY DEF PutLast, q
<1> HIDE DEF l
<1>4. /\ l \in Seq(T) /\ Len(l) = L /\ Distinct(l) /\ Range(l) = Range(s)
      /\ l[L] = s[k] /\ \A j \in 1..(L - 1) : l[j] = q[j]
  <2>1. (L - 1) + 1 = L /\ (Range(s) \ {s[k]}) \cup {s[k]} = Range(s)
    BY <1>1
  <2> HIDE DEF L
  <2> QED
    BY <1>1, <1>2, <1>3, <2>1
<1>5. \A j \in 1..L : l[j] = IF j = L THEN s[k] ELSE IF j < k THEN s[j] ELSE s[j + 1]
  BY <1>1, <1>4
<1>6. ASSUME k = L PROVE l = s
  <2>1. \A j \in 1..L : l[j] = s[j]
    BY <1>1, <1>5, <1>6
  <2> QED
    BY <1>4, <2>1
<1> QED
  BY <1>4, <1>5, <1>6 DEF l

(* moveToFrontLRU does that to the links, whatever the place of the node.  *)
LEMMA MoveLinked ==
  ASSUME NEW t \in Shaped, NEW s, Linked(t, s), NEW k \in 1..Len(s)
  PROVE  Linked(moveToFrontLRU(t, s[k]), PutLast(s, k))
<1> DEFINE n == s[k]
           r == moveToFrontLRU(t, n)
           q == PutLast(s, k)
           L == Len(s)
           before == IF k = 1 THEN NULL ELSE s[k - 1]
           after == s[k + 1]
<1>1. /\ L \in Nat /\ \A i \in 1..L : s[i] \in Nodes /\ s[i] # NULL
      /\ \A i, j \in 1..L : s[i] = s[j] => i = j
      /\ s # <<>>
  BY NodesOfList
<1>2. /\ q \in Seq(Nodes) /\ Len(q) = L /\ Distinct(q)
      /\ \A j \in 1..L : q[j] =
           IF j = L THEN n ELSE IF j < k THEN s[j] ELSE s[j + 1]
      /\ k = L => q = s
  <2>1. s \in Seq(Nodes) /\ Distinct(s)
    BY DEF Linked
  <2> QED
    BY <2>1, LastFacts
<1>3. /\ t.lessRecentLRU[n] = before
      /\ t.moreRecentLRU[n] = IF k = L THEN NULL ELSE after
      /\ t.mostRecentLRU = s[L] /\ t.leastRecentLRU = s[1]
      /\ 1 \in 1..L /\ L \in 1..L
  BY <1>1 DEF Linked
<1>4. CASE k = L
  <2>1. r = t
    BY <1>1, <1>3, <1>4 DEF moveToFrontLRU
  <2> QED
    BY <1>2, <1>4, <2>1
<1>5. CASE k # L
  <2>1. /\ before = NULL <=> k = 1
        /\ before \in Nodes \cup {NULL} /\ after \in Nodes /\ n \in Nodes
        /\ s[L] \in Nodes /\ k + 1 \in 1..L /\ k < L
        /\ t.mostRecentLRU # NULL /\ t.moreRecentLRU[n] = after /\ after # NULL
    BY <1>1, <1>3, <1>5
  <2>2. /\ r.mostRecentLRU = n
        /\ r.leastRecentLRU = IF k = 1 THEN after ELSE s[1]
        /\ r.lessRecentLRU =
             [t.lessRecentLRU EXCEPT ![after] = before, ![n] = s[L]]
        /\ r.moreRecentLRU =
             [Point(t.moreRecentLRU, before, after) EXCEPT ![s[L]] = n, ![n] = NULL]
    <3>1. LET less == t.lessRecentLRU[n]
              more == t.moreRecentLRU[n]
          IN /\ r.mostRecentLRU = n
             /\ r.leastRecentLRU = IF less = NULL THEN more ELSE t.leastRecentLRU
             /\ r.lessRecentLRU =
                  [t.lessRecentLRU EXCEPT ![more] = less, ![n] = t.mostRecentLRU]
             /\ r.moreRecentLRU =
                  [Point(t.moreRecentLRU, less, more)
                     EXCEPT ![t.mostRecentLRU] = n, ![n] = NULL]
      BY <2>1, MoveFields
    <3> HIDE DEF r, n, before, after
    <3> QED
      BY <1>3, <2>1, <3>1
  <2>3. /\ \A x \in Nodes : r.lessRecentLRU[x] =
             IF x = n THEN s[L] ELSE IF x = after THEN before ELSE t.lessRecentLRU[x]
        /\ \A x \in Nodes : r.moreRecentLRU[x] =
             IF x = n THEN NULL ELSE IF x = s[L] THEN n
             ELSE IF x = before THEN after ELSE t.moreRecentLRU[x]
    <3> DEFINE up == Point(t.moreRecentLRU, before, after)
    <3>1. t.moreRecentLRU \in Links /\ t.lessRecentLRU \in Links
      BY DEF Shaped
    <3> HIDE DEF n, before, after, q, r, L
    <3>2. /\ up \in Links
          /\ \A x \in Nodes : up[x] = IF x = before THEN after ELSE t.moreRecentLRU[x]
      BY <2>1, <3>1, NULLAssumption DEF Point, Links
    <3> HIDE DEF up
    <3>3. r.moreRecentLRU = [up EXCEPT ![s[L]] = n, ![n] = NULL]
      BY <2>2 DEF up
    <3>4. \A x \in Nodes : r.moreRecentLRU[x] =
             IF x = n THEN NULL ELSE IF x = s[L] THEN n ELSE up[x]
      BY <2>1, <3>2, <3>3 DEF Links
    <3>5. \A x \in Nodes : r.lessRecentLRU[x] =
             IF x = n THEN s[L] ELSE IF x = after THEN before ELSE t.lessRecentLRU[x]
      BY <2>1, <2>2, <3>1 DEF Links
    <3> QED
      BY <3>2, <3>4, <3>5
  <2>4. \A i \in 1..L :
          /\ s[i] = n <=> i = k
          /\ s[i] = before <=> i = k - 1
          /\ s[i] = after <=> i = k + 1
          /\ s[i] = s[L] <=> i = L
    BY <1>1, <1>3, <2>1
  <2>5. \A i \in 1..L :
          /\ t.moreRecentLRU[s[i]] = IF i = L THEN NULL ELSE s[i + 1]
          /\ t.lessRecentLRU[s[i]] = IF i = 1 THEN NULL ELSE s[i - 1]
    BY DEF Linked
  <2>6. ASSUME NEW j \in 1..L
        PROVE  /\ r.moreRecentLRU[q[j]] = IF j = L THEN NULL ELSE q[j + 1]
               /\ r.lessRecentLRU[q[j]] = IF j = 1 THEN NULL ELSE q[j - 1]
    <3>0. L \in Nat /\ k \in 1..L /\ k < L /\ L # 1
      BY <1>1, <1>5, <2>1
    <3> HIDE DEF r, q, L, n
    <3>1. CASE j = L
      <4>1. r.moreRecentLRU[q[j]] = NULL /\ r.lessRecentLRU[q[j]] = s[L]
        BY <1>2, <2>1, <2>3, <3>1
      <4>2. L - 1 \in 1..L /\ ~(L - 1 < k) /\ (L - 1) + 1 = L /\ L - 1 # L
        BY <3>0
      <4>3. q[L - 1] = s[L]
        BY <1>2, <4>2
      <4> QED
        BY <3>0, <3>1, <4>1, <4>3
    <3>2. CASE j < k
      <4>1. j \in 1..L /\ q[j] = s[j] /\ (j # 1 => q[j - 1] = s[j - 1])
            /\ q[j + 1] = IF j + 1 < k THEN s[j + 1] ELSE s[j + 2]
        <5>1. j # L /\ j + 1 # L /\ j + 1 \in 1..L /\ (j + 1) + 1 = j + 2
          BY <3>0, <3>2
        <5>2. j # 1 => j - 1 \in 1..L /\ j - 1 < k /\ j - 1 # L
          BY <3>0, <3>2
        <5> QED
          BY <1>2, <3>2, <5>1, <5>2
      <4>2. s[j] \in Nodes /\ s[j] # n /\ s[j] # after /\ s[j] # s[L]
        BY <1>1, <2>4, <3>0, <3>2
      <4>3. r.lessRecentLRU[s[j]] = IF j = 1 THEN NULL ELSE s[j - 1]
        BY <2>3, <2>5, <4>2
      <4>4. CASE j = k - 1
        <5>1. r.moreRecentLRU[s[j]] = after
          BY <2>3, <2>4, <4>2, <4>4
        <5>2. after = s[j + 2] /\ ~(j + 1 < k)
          BY <3>0, <4>4
        <5> HIDE DEF after
        <5> QED
          BY <3>0, <3>2, <4>1, <4>3, <5>1, <5>2
      <4>5. CASE j # k - 1
        <5>1. s[j] # before /\ j # L /\ j + 1 < k
          BY <2>4, <3>0, <3>2, <4>5
        <5>2. r.moreRecentLRU[s[j]] = s[j + 1]
          BY <2>3, <2>5, <4>2, <5>1
        <5> QED
          BY <3>0, <3>2, <4>1, <4>3, <5>1, <5>2
      <4> QED
        BY <4>4, <4>5
    <3>3. CASE j >= k /\ j # L
      <4>1. /\ j + 1 \in 1..L /\ q[j] = s[j + 1]
            /\ q[j + 1] = IF j + 1 = L THEN n ELSE s[j + 2]
            /\ (j # 1 => q[j - 1] = IF j - 1 < k THEN s[j - 1] ELSE s[j])
        <5>1. j + 1 \in 1..L /\ ~(j + 1 < k) /\ (j + 1) + 1 = j + 2 /\ ~(j < k)
          BY <3>0, <3>3
        <5>2. j # 1 => j - 1 \in 1..L /\ j - 1 # L /\ (j - 1) + 1 = j
          BY <3>0, <3>3
        <5> QED
          BY <1>2, <3>3, <5>1, <5>2
      <4>2. s[j + 1] \in Nodes /\ s[j + 1] # n /\ s[j + 1] # before
        BY <1>1, <2>4, <3>0, <3>3, <4>1
      <4>3. r.moreRecentLRU[s[j + 1]] = IF j + 1 = L THEN n ELSE s[j + 2]
        <5>1. t.moreRecentLRU[s[j + 1]] = IF j + 1 = L THEN NULL ELSE s[(j + 1) + 1]
          BY <2>5, <4>1
        <5>2. (j + 1) + 1 = j + 2
          BY <3>0
        <5>3. s[j + 1] = s[L] <=> j + 1 = L
          BY <2>4, <4>1
        <5> QED
          BY <2>3, <4>2, <5>1, <5>2, <5>3
      <4>4. CASE j = k
        <5>1. r.lessRecentLRU[s[j + 1]] = before
          BY <2>3, <2>4, <4>1, <4>2, <4>4
        <5>2. before = (IF j = 1 THEN NULL ELSE s[j - 1]) /\ (j # 1 => j - 1 < k)
          BY <3>0, <4>4
        <5> HIDE DEF before
        <5> QED
          BY <3>0, <3>3, <4>1, <4>3, <5>1, <5>2
      <4>5. CASE j # k
        <5>1. j + 1 # 1 /\ (j + 1) - 1 = j /\ j # 1 /\ ~(j - 1 < k)
              /\ s[j + 1] # after
          BY <2>4, <3>0, <3>3, <4>1, <4>5
        <5>2. t.lessRecentLRU[s[j + 1]] = s[j]
          BY <2>5, <4>1, <5>1
        <5>3. r.lessRecentLRU[s[j + 1]] = s[j]
          BY <2>3, <4>2, <5>1, <5>2
        <5> QED
          BY <3>3, <4>1, <4>3, <5>1, <5>3
      <4> QED
        BY <4>4, <4>5
    <3> QED
      BY <3>0, <3>1, <3>2, <3>3
  <2>7. /\ r.leastRecentLRU = q[1] /\ r.mostRecentLRU = q[L] /\ q # <<>>
    <3>1. q[L] = n /\ q[1] = IF 1 < k THEN s[1] ELSE s[2]
      BY <1>2, <1>3, <2>1
    <3>2. q # <<>>
      BY <1>2, <1>3
    <3> HIDE DEF q, r
    <3> QED
      BY <2>1, <2>2, <3>1, <3>2
  <2> HIDE DEF q, r
  <2>8. Linked(r, q)
    BY <1>2, <2>6, <2>7 DEF Linked
  <2> QED
    BY <2>8 DEF q, r
<1> QED
  BY <1>4, <1>5

-----------------------------------------------------------------------------
(* The search tree *)

(* A recursion along nxt that ends in stop has a solution, when no set is  *)
(* left by none of its elements.                                           *)
Chasing(D, nxt, stop, f) ==
  f = [n \in D |-> IF n \in stop THEN n ELSE f[nxt[n]]]

LEMMA ChasingExists ==
  ASSUME NEW D, IsFiniteSet(D), NEW stop, NEW nxt,
         \A n \in D \ stop : nxt[n] \in D,
         \A bad \in SUBSET D : bad # {} /\ bad \cap stop = {}
                                 => \E m \in bad : nxt[m] \notin bad
  PROVE  \E f : Chasing(D, nxt, stop, f)
<1> DEFINE Closed(S) == \A n \in S \ stop : nxt[n] \in S
           Solved(S) == Closed(S) /\ \E f : Chasing(S, nxt, stop, f)
           Left == {bad \in SUBSET D : Solved(D \ bad)}
<1>1. D \in Left
  <2>1. D \ D = {} /\ Closed({})
    OBVIOUS
  <2>2. \E f : Chasing({}, nxt, stop, f)
    <3> DEFINE e == [n \in {} |-> n]
    <3>1. e = [n \in {} |-> IF n \in stop THEN n ELSE e[nxt[n]]]
      OBVIOUS
    <3> QED
      BY <3>1 DEF Chasing
  <2> HIDE DEF Closed
  <2> QED
    BY <2>1, <2>2
<1>2. \A bad \in Left : IsFiniteSet(bad)
  <2> SUFFICES ASSUME NEW bad \in Left PROVE IsFiniteSet(bad)
    OBVIOUS
  <2>1. bad \in SUBSET D
    OBVIOUS
  <2> QED
    BY <2>1, FS_Subset
<1>3. PICK bad \in Left : \A x \in bad : bad \ {x} \notin Left
  <2> HIDE DEF Left
  <2> QED
    BY <1>1, <1>2, MinimalSet
<1>4. bad = {}
  <2> SUFFICES ASSUME bad # {} PROVE FALSE
    OBVIOUS
  <2> DEFINE S == D \ bad
  <2>1. bad \in SUBSET D /\ Closed(S) /\ \E f : Chasing(S, nxt, stop, f)
    OBVIOUS
  <2>2. PICK m \in bad : m \in stop \/ nxt[m] \in S
    <3>1. CASE bad \cap stop = {}
      <4>1. PICK m \in bad : nxt[m] \notin bad
        BY <2>1, <3>1
      <4>2. nxt[m] \in S
        BY <2>1, <3>1, <4>1
      <4> QED
        BY <4>2
    <3> QED
      BY <3>1
  <2>3. PICK f : Chasing(S, nxt, stop, f)
    BY <2>1
  <2> DEFINE T == S \cup {m}
             g == [n \in T |-> IF n \in stop THEN n ELSE f[nxt[n]]]
  <2>4. D \ (bad \ {m}) = T /\ bad \ {m} \in SUBSET D /\ m \notin S
    BY <2>1, <2>2
  <2>5. Closed(T)
    BY <2>1, <2>2
  <2>6. \A n \in S : g[n] = f[n]
    BY <2>3 DEF Chasing
  <2>7. \A n \in T \ stop : nxt[n] \in S
    BY <2>1, <2>2
  <2>8. g = [n \in T |-> IF n \in stop THEN n ELSE g[nxt[n]]]
    <3>1. \A n \in T \ stop : f[nxt[n]] = g[nxt[n]]
      <4> HIDE DEF g, S, T
      <4> QED
        BY <2>6, <2>7
    <3> QED
      BY <3>1
  <2>9. Chasing(T, nxt, stop, g)
    BY <2>8 DEF Chasing
  <2>10. Solved(D \ (bad \ {m}))
    <3> HIDE DEF T, g, Closed
    <3> QED
      BY <2>4, <2>5, <2>9
  <2>11. bad \ {m} \in Left
    <3> HIDE DEF Solved
    <3> QED
      BY <2>4, <2>10
  <2> HIDE DEF Left
  <2> QED
    BY <1>3, <2>2, <2>11
<1>5. D \ bad = D
  BY <1>4
<1> QED
  BY <1>3, <1>5

(* The nodes are arranged so that every descent ends. *)
Grounded(t) ==
  \A bad \in SUBSET Nodes :
    bad # {} => \E m \in bad : t.leftPtr[m] \notin bad /\ t.rightPtr[m] \notin bad

Finding(t, name, f) ==
  f = [n \in Nodes \cup {NULL} |->
         IF n = NULL THEN NULL
         ELSE IF t.name[n] = name THEN n
         ELSE f[Child(t, n, name)]]
Descending(t, name, f) ==
  f = [n \in Nodes |->
         IF t.name[n] = name \/ Child(t, n, name) = NULL THEN n
         ELSE f[Child(t, n, name)]]

(* The search and the descent are values of recursive functions, which     *)
(* exist.                                                                  *)
LEMMA FindIs ==
  ASSUME NEW t, NEW name
  PROVE  noMutexGetNode(t, name) = (CHOOSE f : Finding(t, name, f))[t.root]
BY DEF noMutexGetNode, Finding

LEMMA DescentIs ==
  ASSUME NEW t, NEW name
  PROVE  Descent(t, name) = (CHOOSE f : Descending(t, name, f))[t.root]
BY DEF Descent, Descending

LEMMA ChildIsNode ==
  ASSUME NEW t \in Shaped, NEW n \in Nodes, NEW name
  PROVE  /\ Child(t, n, name) \in Nodes \cup {NULL}
         /\ Child(t, n, name) \in {t.leftPtr[n], t.rightPtr[n]}
BY DEF Child, Shaped, Links

LEMMA FindingExists ==
  ASSUME NEW t \in Shaped, Grounded(t), NEW name
  PROVE  \E f : Finding(t, name, f)
<1> DEFINE D == Nodes \cup {NULL}
           stop == {NULL} \cup {n \in Nodes : t.name[n] = name}
           nxt == [n \in Nodes |-> Child(t, n, name)]
<1>1. IsFiniteSet(D)
  BY NamesAssumption, FS_AddElement
<1>2. \A n \in D \ stop : n \in Nodes /\ nxt[n] = Child(t, n, name) /\ nxt[n] \in D
  BY ChildIsNode
<1>3. ASSUME NEW bad \in SUBSET D, bad # {}, bad \cap stop = {}
      PROVE  \E m \in bad : nxt[m] \notin bad
  <2>1. bad \in SUBSET Nodes
    BY <1>3
  <2>2. PICK m \in bad : t.leftPtr[m] \notin bad /\ t.rightPtr[m] \notin bad
    BY <1>3, <2>1 DEF Grounded
  <2>3. Child(t, m, name) \in {t.leftPtr[m], t.rightPtr[m]}
    BY <2>1, ChildIsNode
  <2> QED
    BY <2>1, <2>2, <2>3
<1> HIDE DEF D, stop, nxt
<1>4. PICK f : Chasing(D, nxt, stop, f)
  BY <1>1, <1>2, <1>3, ChasingExists
<1>5. f = [n \in D |-> IF n = NULL THEN NULL ELSE IF t.name[n] = name THEN n
                       ELSE f[Child(t, n, name)]]
  <2>1. f = [n \in D |-> IF n \in stop THEN n ELSE f[nxt[n]]]
    BY <1>4 DEF Chasing
  <2>2. \A n \in D : n \in stop <=> n = NULL \/ t.name[n] = name
    BY DEF D, stop
  <2> QED
    BY <1>2, <2>1, <2>2
<1> QED
  BY <1>5 DEF Finding, D

LEMMA DescendingExists ==
  ASSUME NEW t \in Shaped, Grounded(t), NEW name
  PROVE  \E f : Descending(t, name, f)
<1> DEFINE stop == {n \in Nodes : t.name[n] = name \/ Child(t, n, name) = NULL}
           nxt == [n \in Nodes |-> Child(t, n, name)]
<1>1. \A n \in Nodes \ stop : nxt[n] = Child(t, n, name) /\ nxt[n] \in Nodes
  BY ChildIsNode
<1>2. ASSUME NEW bad \in SUBSET Nodes, bad # {}, bad \cap stop = {}
      PROVE  \E m \in bad : nxt[m] \notin bad
  <2>1. PICK m \in bad : t.leftPtr[m] \notin bad /\ t.rightPtr[m] \notin bad
    BY <1>2 DEF Grounded
  <2>2. Child(t, m, name) \in {t.leftPtr[m], t.rightPtr[m]}
    BY ChildIsNode
  <2> QED
    BY <2>1, <2>2
<1> HIDE DEF stop, nxt
<1>3. PICK f : Chasing(Nodes, nxt, stop, f)
  BY <1>1, <1>2, NamesAssumption, ChasingExists
<1>4. f = [n \in Nodes |-> IF t.name[n] = name \/ Child(t, n, name) = NULL THEN n
                           ELSE f[Child(t, n, name)]]
  <2>1. f = [n \in Nodes |-> IF n \in stop THEN n ELSE f[nxt[n]]]
    BY <1>3 DEF Chasing
  <2>2. \A n \in Nodes : n \in stop <=> t.name[n] = name \/ Child(t, n, name) = NULL
    BY DEF stop
  <2> QED
    BY <1>1, <2>1, <2>2
<1> QED
  BY <1>4 DEF Descending

(* The nodes in H hang from the root, and a search for the name of one     *)
(* ends there; the others are blank.                                       *)
Searching(t, H) ==
  /\ H \in SUBSET Nodes /\ Grounded(t)
  /\ t.root \in H \cup {NULL} /\ (t.root = NULL => H = {})
  /\ \A n \in H : /\ t.name[n] \in Names
                  /\ t.leftPtr[n] \in H \cup {NULL}
                  /\ t.rightPtr[n] \in H \cup {NULL}
                  /\ noMutexGetNode(t, t.name[n]) = n
  /\ \A n \in Nodes \ H : t.leftPtr[n] = NULL /\ t.rightPtr[n] = NULL

(* A search sees the names of the nodes in H only. *)
LEMMA FindLocal ==
  ASSUME NEW t \in Shaped, NEW H, Searching(t, H), NEW r \in Shaped,
         r.root = t.root, r.leftPtr = t.leftPtr, r.rightPtr = t.rightPtr,
         \A n \in H : r.name[n] = t.name[n],
         NEW name
  PROVE  noMutexGetNode(r, name) = noMutexGetNode(t, name)
<1>1. Grounded(t) /\ Grounded(r)
  BY DEF Searching, Grounded
<1>2. PICK f : Finding(t, name, f) /\ noMutexGetNode(t, name) = f[t.root]
  BY <1>1, FindingExists, FindIs
<1>3. PICK g : Finding(r, name, g) /\ noMutexGetNode(r, name) = g[r.root]
  BY <1>1, FindingExists, FindIs
<1>4. \A n \in H : Child(r, n, name) = Child(t, n, name)
                   /\ Child(t, n, name) \in H \cup {NULL}
  BY DEF Child, Searching
<1>5. f[NULL] = NULL /\ g[NULL] = NULL
  BY <1>2, <1>3 DEF Finding
<1>6. H \subseteq Nodes /\ \A n \in H : n # NULL
  BY NULLAssumption DEF Searching
<1>7. \A n \in H :
        /\ f[n] = IF t.name[n] = name THEN n ELSE f[Child(t, n, name)]
        /\ g[n] = IF t.name[n] = name THEN n ELSE g[Child(t, n, name)]
  BY <1>2, <1>3, <1>4, <1>6 DEF Finding
<1> DEFINE bad == {n \in H : f[n] # g[n]}
<1>8. bad = {}
  <2> SUFFICES ASSUME bad # {} PROVE FALSE
    OBVIOUS
  <2>1. PICK m \in bad : t.leftPtr[m] \notin bad /\ t.rightPtr[m] \notin bad
    BY <1>1, <1>6 DEF Grounded
  <2>2. m \in H /\ m \in Nodes /\ f[m] # g[m]
    BY <1>6
  <2>3. Child(t, m, name) \in {t.leftPtr[m], t.rightPtr[m]}
    BY <2>2, ChildIsNode
  <2>4. Child(t, m, name) \notin bad
    BY <2>1, <2>3
  <2>5. f[Child(t, m, name)] = g[Child(t, m, name)]
    BY <1>4, <1>5, <2>2, <2>4
  <2> QED
    BY <1>7, <2>2, <2>5
<1>9. t.root \in H \cup {NULL}
  BY DEF Searching
<1> QED
  BY <1>2, <1>3, <1>5, <1>8, <1>9

(* So what hangs from the root can still be searched when other fields     *)
(* change.                                                                 *)
LEMMA SearchingLocal ==
  ASSUME NEW t \in Shaped, NEW H, Searching(t, H), NEW r \in Shaped,
         r.root = t.root, r.leftPtr = t.leftPtr, r.rightPtr = t.rightPtr,
         \A n \in H : r.name[n] = t.name[n]
  PROVE  Searching(r, H)
<1>1. \A name : noMutexGetNode(r, name) = noMutexGetNode(t, name)
  BY FindLocal
<1>2. Grounded(r)
  BY DEF Searching, Grounded
<1> QED
  BY <1>1, <1>2 DEF Searching

(* A descent ends at the name, or at a node that has no child in its       *)
(* place.                                                                  *)
LEMMA DescentEnds ==
  ASSUME NEW t \in Shaped, NEW H, Searching(t, H), H # {}, NEW name
  PROVE  LET at == Descent(t, name)
         IN at \in H /\ (t.name[at] = name \/ Child(t, at, name) = NULL)
<1>1. Grounded(t) /\ t.root \in H /\ H \subseteq Nodes
  BY DEF Searching
<1>2. PICK f : Descending(t, name, f) /\ Descent(t, name) = f[t.root]
  BY <1>1, DescendingExists, DescentIs
<1>3. \A n \in H : Child(t, n, name) \in H \cup {NULL}
  BY DEF Child, Searching
<1>4. \A n \in H : f[n] = IF t.name[n] = name \/ Child(t, n, name) = NULL THEN n
                          ELSE f[Child(t, n, name)]
  BY <1>1, <1>2 DEF Descending
<1> DEFINE End(n) == n \in H /\ (t.name[n] = name \/ Child(t, n, name) = NULL)
           bad == {n \in H : ~End(f[n])}
<1>5. bad = {}
  <2> SUFFICES ASSUME bad # {} PROVE FALSE
    OBVIOUS
  <2>1. PICK m \in bad : t.leftPtr[m] \notin bad /\ t.rightPtr[m] \notin bad
    BY <1>1 DEF Grounded
  <2>2. m \in H /\ m \in Nodes /\ ~End(f[m])
    BY <1>1
  <2>3. Child(t, m, name) \in {t.leftPtr[m], t.rightPtr[m]}
    BY <2>2, ChildIsNode
  <2>4. Child(t, m, name) \notin bad
    BY <2>1, <2>3
  <2>5. CASE End(m)
    BY <1>4, <2>2, <2>5
  <2>6. CASE ~End(m)
    <3>1. f[m] = f[Child(t, m, name)] /\ Child(t, m, name) \in H
      BY <1>3, <1>4, <2>2, <2>6
    <3> HIDE DEF End
    <3> QED
      BY <2>2, <2>4, <3>1
  <2> QED
    BY <2>5, <2>6
<1> QED
  BY <1>1, <1>2, <1>5

(* Attach changes one link. *)
LEMMA AttachFields ==
  ASSUME NEW t \in Shaped, NEW at \in Nodes, NEW n \in Nodes,
         Child(t, at, t.name[n]) = NULL
  PROVE  LET r == Attach(t, at, n)
         IN /\ r \in Shaped /\ r.root = t.root /\ r.heap = t.heap
            /\ r.name = t.name /\ r.sFile = t.sFile
            /\ r.fileCount = t.fileCount /\ r.filedim = t.filedim
            /\ r.mostRecentLRU = t.mostRecentLRU
            /\ r.leastRecentLRU = t.leastRecentLRU
            /\ r.lessRecentLRU = t.lessRecentLRU
            /\ r.moreRecentLRU = t.moreRecentLRU
            /\ Child(r, at, t.name[n]) = n
            /\ \A m \in Nodes :
                 /\ r.leftPtr[m] \in {t.leftPtr[m], n}
                 /\ r.rightPtr[m] \in {t.rightPtr[m], n}
                 /\ t.leftPtr[m] # NULL => r.leftPtr[m] = t.leftPtr[m]
                 /\ t.rightPtr[m] # NULL => r.rightPtr[m] = t.rightPtr[m]
                 /\ m # at => /\ r.leftPtr[m] = t.leftPtr[m]
                              /\ r.rightPtr[m] = t.rightPtr[m]
<1>1. CASE t.name[at] < t.name[n]
  <2>1. Attach(t, at, n) = [t EXCEPT !.rightPtr[at] = n]
    BY <1>1 DEF Attach
  <2> QED
    BY <1>1, <2>1 DEF Child, Shaped, Links
<1>2. CASE ~(t.name[at] < t.name[n])
  <2>1. Attach(t, at, n) = [t EXCEPT !.leftPtr[at] = n]
    BY <1>2 DEF Attach
  <2> QED
    BY <1>2, <2>1 DEF Child, Shaped, Links
<1> QED
  BY <1>1, <1>2

(* Hung where the descent ends, the new node is found, and so are the old  *)
(* ones.                                                                   *)
LEMMA AttachSearching ==
  ASSUME NEW t \in Shaped, NEW H, Searching(t, H), H # {},
         NEW n \in Nodes \ H, t.name[n] \in Names,
         NEW at, at = Descent(t, t.name[n]), t.name[at] # t.name[n]
  PROVE  Searching(Attach(t, at, n), H \cup {n})
<1> DEFINE r == Attach(t, at, n)
           x == t.name[n]
<1>1. at \in H /\ at \in Nodes /\ Child(t, at, x) = NULL /\ H \in SUBSET Nodes
      /\ Grounded(t) /\ n # NULL /\ t.root \in H
  BY DescentEnds, NULLAssumption DEF Searching
<1>2. /\ r \in Shaped /\ r.root = t.root /\ r.name = t.name
      /\ Child(r, at, x) = n
      /\ \A m \in Nodes :
           /\ r.leftPtr[m] \in {t.leftPtr[m], n}
           /\ r.rightPtr[m] \in {t.rightPtr[m], n}
           /\ t.leftPtr[m] # NULL => r.leftPtr[m] = t.leftPtr[m]
           /\ t.rightPtr[m] # NULL => r.rightPtr[m] = t.rightPtr[m]
           /\ m # at => /\ r.leftPtr[m] = t.leftPtr[m]
                        /\ r.rightPtr[m] = t.rightPtr[m]
  BY <1>1, AttachFields
<1> HIDE DEF r
<1>3. r.leftPtr[n] = NULL /\ r.rightPtr[n] = NULL /\ n # at
  BY <1>1, <1>2 DEF Searching
<1>4. Grounded(r)
  <2> SUFFICES ASSUME NEW bad \in SUBSET Nodes, bad # {}
               PROVE  \E m \in bad : r.leftPtr[m] \notin bad /\ r.rightPtr[m] \notin bad
    BY DEF Grounded
  <2>1. CASE n \in bad
    BY <1>3, <2>1, NULLAssumption
  <2>2. CASE n \notin bad
    <3>1. PICK m \in bad : t.leftPtr[m] \notin bad /\ t.rightPtr[m] \notin bad
      BY <1>1 DEF Grounded
    <3>2. r.leftPtr[m] \in {t.leftPtr[m], n} /\ r.rightPtr[m] \in {t.rightPtr[m], n}
      BY <1>2
    <3> QED
      BY <2>2, <3>1, <3>2
  <2> QED
    BY <2>1, <2>2
<1>5. ASSUME NEW m \in Nodes, NEW y, Child(t, m, y) # NULL
      PROVE  Child(r, m, y) = Child(t, m, y)
  BY <1>2, <1>5 DEF Child
<1>6. ASSUME NEW m \in H PROVE noMutexGetNode(r, t.name[m]) = m
  <2> DEFINE y == t.name[m]
  <2>1. PICK f : Finding(t, y, f) /\ noMutexGetNode(t, y) = f[t.root]
    BY <1>1, FindingExists, FindIs
  <2>2. PICK g : Finding(r, y, g) /\ noMutexGetNode(r, y) = g[r.root]
    BY <1>2, <1>4, FindingExists, FindIs
  <2>3. f[NULL] = NULL /\ f[t.root] = m
    BY <2>1 DEF Finding, Searching
  <2>4. \A k \in Nodes : k # NULL /\
          f[k] = IF t.name[k] = y THEN k ELSE f[Child(t, k, y)]
    BY <2>1, NULLAssumption DEF Finding
  <2>5. \A k \in Nodes : g[k] = IF t.name[k] = y THEN k ELSE g[Child(r, k, y)]
    BY <1>2, <2>2, NULLAssumption DEF Finding
  <2> DEFINE bad == {k \in Nodes : f[k] # NULL /\ g[k] # f[k]}
  <2>6. bad = {}
    <3> SUFFICES ASSUME bad # {} PROVE FALSE
      OBVIOUS
    <3>1. PICK k \in bad : t.leftPtr[k] \notin bad /\ t.rightPtr[k] \notin bad
      BY <1>1 DEF Grounded
    <3>2. k \in Nodes /\ f[k] # NULL /\ g[k] # f[k]
      OBVIOUS
    <3>3. t.name[k] # y
      BY <2>4, <2>5, <3>2
    <3> DEFINE c == Child(t, k, y)
    <3>4. c \in Nodes \cup {NULL} /\ c \notin bad
      BY <3>1, <3>2, ChildIsNode
    <3> HIDE DEF y
    <3>5. f[k] = f[c] /\ c # NULL
      BY <2>3, <2>4, <3>2, <3>3
    <3>6. g[k] = g[c]
      BY <1>5, <2>5, <3>2, <3>3, <3>5
    <3> HIDE DEF c
    <3> QED
      BY <3>2, <3>4, <3>5, <3>6
  <2>7. t.root \in Nodes /\ m # NULL
    BY <1>1, NULLAssumption
  <2> HIDE DEF y
  <2>8. g[t.root] = m
    BY <2>3, <2>6, <2>7
  <2> QED
    BY <1>2, <2>2, <2>8 DEF y
<1>7. noMutexGetNode(r, x) = n
  <2>1. PICK d : Descending(t, x, d) /\ Descent(t, x) = d[t.root]
    BY <1>1, DescendingExists, DescentIs
  <2>2. PICK g : Finding(r, x, g) /\ noMutexGetNode(r, x) = g[r.root]
    BY <1>2, <1>4, FindingExists, FindIs
  <2>3. d[t.root] = at
    BY <2>1
  <2>4. \A k \in Nodes :
          d[k] = IF t.name[k] = x \/ Child(t, k, x) = NULL THEN k
                 ELSE d[Child(t, k, x)]
    BY <2>1 DEF Descending
  <2>5. \A k \in Nodes : g[k] = IF t.name[k] = x THEN k ELSE g[Child(r, k, x)]
    BY <1>2, <2>2, NULLAssumption DEF Finding
  <2> DEFINE bad == {k \in Nodes : d[k] = at /\ g[k] # n}
  <2> HIDE DEF x
  <2>6. bad = {}
    <3> SUFFICES ASSUME bad # {} PROVE FALSE
      OBVIOUS
    <3>1. PICK k \in bad : t.leftPtr[k] \notin bad /\ t.rightPtr[k] \notin bad
      BY <1>1 DEF Grounded
    <3>2. k \in Nodes /\ d[k] = at /\ g[k] # n
      OBVIOUS
    <3>3. g[n] = n /\ t.name[at] # x
      BY <2>5 DEF x
    <3> DEFINE c == Child(t, k, x)
    <3>4. c \in Nodes \cup {NULL} /\ c \notin bad
      BY <3>1, <3>2, ChildIsNode
    <3>5. t.name[k] # x
      BY <2>4, <3>2, <3>3
    <3>6. CASE c = NULL
      <4>1. k = at
        BY <2>4, <3>2, <3>6
      <4>2. g[k] = g[n]
        BY <1>2, <2>5, <3>2, <3>5, <4>1 DEF x
      <4> QED
        BY <3>2, <3>3, <4>2
    <3>7. CASE c # NULL
      <4>1. d[k] = d[c] /\ c \in Nodes
        BY <2>4, <3>2, <3>4, <3>5, <3>7
      <4>2. g[k] = g[c]
        BY <1>5, <2>5, <3>2, <3>5, <3>7
      <4> HIDE DEF c
      <4> QED
        BY <3>2, <3>4, <4>1, <4>2
    <3> QED
      BY <3>6, <3>7
  <2>7. g[t.root] = n
    BY <1>1, <2>3, <2>6
  <2> QED
    BY <1>2, <2>2, <2>7
<1>8. ASSUME NEW m \in H \cup {n}
      PROVE  /\ r.name[m] \in Names
             /\ r.leftPtr[m] \in H \cup {n, NULL}
             /\ r.rightPtr[m] \in H \cup {n, NULL}
             /\ noMutexGetNode(r, r.name[m]) = m
  <2>1. CASE m \in H
    <3>1. /\ t.name[m] \in Names /\ m \in Nodes
          /\ t.leftPtr[m] \in H \cup {NULL} /\ t.rightPtr[m] \in H \cup {NULL}
      BY <2>1 DEF Searching
    <3> QED
      BY <1>2, <1>6, <2>1, <3>1
  <2>2. CASE m = n
    BY <1>2, <1>3, <1>7, <2>2
  <2> QED
    BY <2>1, <2>2
<1>9. \A m \in Nodes \ (H \cup {n}) : r.leftPtr[m] = NULL /\ r.rightPtr[m] = NULL
  BY <1>1, <1>2 DEF Searching
<1>10. r.root \in H \cup {n} /\ r.root # NULL /\ H \cup {n} \in SUBSET Nodes
  BY <1>1, <1>2, NULLAssumption
<1>11. Searching(r, H \cup {n})
  BY <1>4, <1>8, <1>9, <1>10 DEF Searching
<1> QED
  BY <1>11 DEF r

(* The first node becomes the root. *)
LEMMA RootSearching ==
  ASSUME NEW t \in Shaped, Searching(t, {}), NEW n \in Nodes, t.name[n] \in Names
  PROVE  Searching([t EXCEPT !.root = n], {n})
<1> DEFINE r == [t EXCEPT !.root = n]
<1>1. r \in Shaped /\ r.root = n /\ r.leftPtr = t.leftPtr
      /\ r.rightPtr = t.rightPtr /\ r.name = t.name
  BY DEF Shaped
<1>2. \A m \in Nodes : t.leftPtr[m] = NULL /\ t.rightPtr[m] = NULL
  BY DEF Searching
<1>3. Grounded(r)
  BY <1>1 DEF Searching, Grounded
<1>4. noMutexGetNode(r, r.name[n]) = n
  <2>1. PICK f : Finding(r, r.name[n], f)
                 /\ noMutexGetNode(r, r.name[n]) = f[r.root]
    BY <1>1, <1>3, FindingExists, FindIs
  <2> QED
    BY <1>1, <2>1, NULLAssumption DEF Finding
<1> HIDE DEF r
<1>5. Searching(r, {n})
  BY <1>1, <1>2, <1>3, <1>4, NULLAssumption DEF Searching
<1> QED
  BY <1>5 DEF r

(* No two nodes that can be found have one name. *)
LEMMA NamesDiffer ==
  ASSUME NEW t, NEW H, Searching(t, H)
  PROVE  \A n, m \in H : t.name[n] = t.name[m] => n = m
BY DEF Searching

(* A file has a name of its own, so there is an address for another. *)
LEMMA AddressLeft ==
  ASSUME NEW t \in Shaped, NEW H, Searching(t, H)
  PROVE  H # Nodes
<1> SUFFICES ASSUME H = Nodes PROVE FALSE
  OBVIOUS
<1> DEFINE f == [n \in H |-> t.name[n]]
<1>1. f \in [H -> Names]
  BY DEF Searching
<1>2. f \in Injection(H, Names)
  BY <1>1, NamesDiffer DEF Injection, IsInjective
<1>3. Cardinality(H) <= Cardinality(Names) /\ IsFiniteSet(H)
  BY <1>2, NamesAssumption, FS_Injection
<1> QED
  BY <1>3, NamesAssumption, FS_CardinalityType

-----------------------------------------------------------------------------
(* Sequences without some of their elements, prefix by prefix *)

Pre(s, n) == SubSeq(s, 1, n)

(* Prefixes of a sequence, and Without of a prefix. *)
LEMMA PrefixFacts ==
  ASSUME NEW T, NEW s \in Seq(T)
  PROVE  /\ Pre(s, 0) = <<>> /\ Pre(s, Len(s)) = s
         /\ \A n \in 0..Len(s) : /\ Pre(s, n) \in Seq(T) /\ Len(Pre(s, n)) = n
                                 /\ \A i \in 1..n : Pre(s, n)[i] = s[i]
         /\ \A n \in 1..Len(s) : Pre(s, n) = Append(Pre(s, n - 1), s[n])
<1>1. SubSeq(s, 1, 0) = <<>>
  BY SubSeqEmpty
<1>2. SubSeq(s, 1, Len(s)) = s
  BY SubSeqFull
<1>3. ASSUME NEW n \in 0..Len(s)
      PROVE  SubSeq(s, 1, n) \in Seq(T) /\ Len(SubSeq(s, 1, n)) = n
             /\ \A i \in 1..n : SubSeq(s, 1, n)[i] = s[i]
  <2>1. \A i \in 1..n : s[i] \in T
    OBVIOUS
  <2>2. /\ SubSeq(s, 1, n) \in Seq(T)
        /\ Len(SubSeq(s, 1, n)) = IF 1 <= n THEN n - 1 + 1 ELSE 0
        /\ \A i \in 1..n - 1 + 1 : SubSeq(s, 1, n)[i] = s[1 + i - 1]
    <3>1. n \in Int /\ 1 \in Int
      OBVIOUS
    <3> QED
      BY <2>1, <3>1, SubSeqProperties
  <2> QED
    BY <2>2
<1>4. ASSUME NEW n \in 1..Len(s)
      PROVE  SubSeq(s, 1, n) = Append(SubSeq(s, 1, n - 1), s[n])
  <2> DEFINE p == SubSeq(s, 1, n - 1)
             q == SubSeq(s, 1, n)
             a == Append(p, s[n])
  <2>1. n \in 0..Len(s) /\ n - 1 \in 0..Len(s) /\ s[n] \in T
    OBVIOUS
  <2>2. /\ p \in Seq(T) /\ Len(p) = n - 1 /\ \A i \in 1..(n - 1) : p[i] = s[i]
        /\ q \in Seq(T) /\ Len(q) = n /\ \A i \in 1..n : q[i] = s[i]
    BY <1>3, <2>1
  <2> HIDE DEF p, q
  <2>3. a \in Seq(T) /\ Len(a) = n /\ \A i \in 1..n : a[i] = q[i]
    BY <2>1, <2>2
  <2> HIDE DEF a
  <2>4. a = q
    BY <2>2, <2>3
  <2> QED
    BY <2>4 DEF p, q, a
<1> QED
  BY <1>1, <1>2, <1>3, <1>4 DEF Pre

LEMMA WithoutPrefix ==
  ASSUME NEW T, NEW s \in Seq(T), NEW S, NEW n \in 1..Len(s)
  PROVE  Without(Pre(s, n), S) =
           IF s[n] \in S THEN Without(Pre(s, n - 1), S)
           ELSE Append(Without(Pre(s, n - 1), S), s[n])
<1>1. n - 1 \in 0..Len(s) /\ s[n] \in T
  OBVIOUS
<1>2. Pre(s, n - 1) \in Seq(T)
      /\ Pre(s, n) = Append(Pre(s, n - 1), s[n])
  BY <1>1, PrefixFacts
<1> DEFINE q == Pre(s, n - 1)
           x == s[n]
<1> HIDE DEF q, x
<1>3. q \in Seq(T) /\ x \in T
  BY <1>1, <1>2 DEF q, x
<1>4. Without(Append(q, x), S) =
        IF x \in S THEN Without(q, S) ELSE Append(Without(q, S), x)
  BY <1>3, WithoutAppend
<1>5. Pre(s, n) = Append(q, x)
  BY <1>2 DEF q, x
<1>6. Without(Pre(s, n), S) =
        IF x \in S THEN Without(q, S) ELSE Append(Without(q, S), x)
  BY <1>4, <1>5
<1> QED
  BY <1>6 DEF q, x

(* What Without keeps, and in which order: twice, for nothing, for one     *)
(* element.                                                                *)
LEMMA WithoutFacts ==
  ASSUME NEW T, NEW s \in Seq(T), Distinct(s), NEW S
  PROVE  /\ Without(s, S) \in Seq(T) /\ Distinct(Without(s, S))
         /\ Range(Without(s, S)) = Range(s) \ S
<1> DEFINE P(n) == Pre(s, n)
           W(n) == Without(P(n), S)
           Fine(n) == /\ W(n) \in Seq(T) /\ Distinct(W(n))
                      /\ Range(W(n)) = {s[i] : i \in 1..n} \ S
           bad == {n \in 0..Len(s) : ~Fine(n)}
<1>1. bad = {}
  <2> SUFFICES ASSUME bad # {} PROVE FALSE
    OBVIOUS
  <2> DEFINE n == Min(bad)
  <2>1. n \in bad /\ \A y \in bad : n <= y
    <3>1. bad \in SUBSET Nat
      OBVIOUS
    <3> HIDE DEF bad
    <3> QED
      BY <3>1, MinInSet
  <2> HIDE DEF n
  <2>2. n \in 0..Len(s) /\ ~Fine(n)
    BY <2>1
  <2>3. n # 0
    <3>1. W(0) = <<>>
      BY PrefixFacts, WithoutEmpty
    <3>2. Fine(0)
      <4>1. <<>> \in Seq(T) /\ Distinct(<<>>) /\ Range(<<>>) = {}
        BY DEF Distinct, Range
      <4>2. {s[i] : i \in 1..0} = {}
        OBVIOUS
      <4> HIDE DEF W
      <4> QED
        BY <3>1, <4>1, <4>2
    <3> QED
      BY <2>2, <3>2
  <2>4. n \in 1..Len(s) /\ n - 1 \in 0..Len(s) /\ ~(n <= n - 1) /\ s[n] \in T
    BY <2>2, <2>3
  <2>5. Fine(n - 1)
    <3> HIDE DEF Fine
    <3> QED
      BY <2>1, <2>4
  <2>6. W(n) = IF s[n] \in S THEN W(n - 1) ELSE Append(W(n - 1), s[n])
    BY <2>4, WithoutPrefix
  <2> HIDE DEF W
  <2>7. {s[i] : i \in 1..n} = {s[i] : i \in 1..(n - 1)} \cup {s[n]}
    BY <2>4
  <2>8. CASE s[n] \in S
    BY <2>2, <2>5, <2>6, <2>7, <2>8
  <2>9. CASE s[n] \notin S
    <3>1. s[n] \notin Range(W(n - 1))
      <4>1. Range(W(n - 1)) = {s[i] : i \in 1..(n - 1)} \ S
        BY <2>5
      <4>2. ASSUME NEW i \in 1..(n - 1) PROVE s[i] # s[n]
        <5>1. i \in 1..Len(s) /\ i # n
          BY <2>4
        <5> QED
          BY <2>4, <5>1 DEF Distinct
      <4> QED
        BY <4>1, <4>2
    <3>2. /\ Append(W(n - 1), s[n]) \in Seq(T) /\ Distinct(Append(W(n - 1), s[n]))
          /\ Range(Append(W(n - 1), s[n])) = Range(W(n - 1)) \cup {s[n]}
      BY <2>4, <2>5, <3>1, AppendDistinct
    <3> QED
      BY <2>2, <2>5, <2>6, <2>7, <2>9, <3>2
  <2> QED
    BY <2>8, <2>9
<1>2. Len(s) \in 0..Len(s) /\ P(Len(s)) = s
  BY PrefixFacts
<1>3. Range(s) = {s[i] : i \in 1..Len(s)}
  BY DEF Range
<1>4. Fine(Len(s))
  BY <1>1, <1>2
<1> QED
  BY <1>2, <1>3, <1>4

LEMMA WithoutTwice ==
  ASSUME NEW T, NEW s \in Seq(T), Distinct(s), NEW S1, NEW S2
  PROVE  Without(Without(s, S1), S2) = Without(s, S1 \cup S2)
<1> DEFINE P(n) == Pre(s, n)
           Fine(n) == Without(Without(P(n), S1), S2) = Without(P(n), S1 \cup S2)
           bad == {n \in 0..Len(s) : ~Fine(n)}
<1>1. bad = {}
  <2> SUFFICES ASSUME bad # {} PROVE FALSE
    OBVIOUS
  <2> DEFINE n == Min(bad)
  <2>1. n \in bad /\ \A y \in bad : n <= y
    <3>1. bad \in SUBSET Nat
      OBVIOUS
    <3> HIDE DEF bad
    <3> QED
      BY <3>1, MinInSet
  <2> HIDE DEF n
  <2>2. n \in 0..Len(s) /\ ~Fine(n)
    BY <2>1
  <2>3. n # 0
    <3>1. Fine(0)
      BY PrefixFacts, WithoutEmpty
    <3> QED
      BY <2>2, <3>1
  <2>4. n \in 1..Len(s) /\ n - 1 \in 0..Len(s) /\ ~(n <= n - 1) /\ s[n] \in T
    BY <2>2, <2>3
  <2>5. Fine(n - 1)
    <3> HIDE DEF Fine
    <3> QED
      BY <2>1, <2>4
  <2>6. /\ Without(P(n), S1) = IF s[n] \in S1 THEN Without(P(n - 1), S1)
                               ELSE Append(Without(P(n - 1), S1), s[n])
        /\ Without(P(n), S1 \cup S2) =
             IF s[n] \in S1 \cup S2 THEN Without(P(n - 1), S1 \cup S2)
             ELSE Append(Without(P(n - 1), S1 \cup S2), s[n])
    BY <2>4, WithoutPrefix
  <2> DEFINE w == Without(P(n - 1), S1)
  <2>7. w \in Seq(T)
    <3>1. P(n - 1) \in Seq(T) /\ Distinct(P(n - 1))
      <4>1. /\ P(n - 1) \in Seq(T) /\ Len(P(n - 1)) = n - 1
            /\ \A i \in 1..(n - 1) : P(n - 1)[i] = s[i]
        BY <2>4, PrefixFacts
      <4> HIDE DEF P
      <4> QED
        BY <2>4, <4>1 DEF Distinct
    <3> QED
      BY <3>1, WithoutFacts
  <2>8. Without(Append(w, s[n]), S2) =
          IF s[n] \in S2 THEN Without(w, S2) ELSE Append(Without(w, S2), s[n])
    <3> DEFINE x == s[n]
    <3>1. x \in T
      BY <2>4
    <3> HIDE DEF w, x
    <3>2. Without(Append(w, x), S2) =
            IF x \in S2 THEN Without(w, S2) ELSE Append(Without(w, S2), x)
      BY <2>7, <3>1, WithoutAppend
    <3> QED
      BY <3>2 DEF x
  <2> HIDE DEF P
  <2> QED
    BY <2>2, <2>5, <2>6, <2>8
<1>2. Len(s) \in 0..Len(s) /\ P(Len(s)) = s
  BY PrefixFacts
<1>3. Fine(Len(s))
  BY <1>1, <1>2
<1> QED
  BY <1>2, <1>3

LEMMA WithoutNone ==
  ASSUME NEW T, NEW s \in Seq(T), NEW S, S \cap Range(s) = {}
  PROVE  Without(s, S) = s
<1> DEFINE P(n) == Pre(s, n)
           Fine(n) == Without(P(n), S) = P(n)
           bad == {n \in 0..Len(s) : ~Fine(n)}
<1>1. bad = {}
  <2> SUFFICES ASSUME bad # {} PROVE FALSE
    OBVIOUS
  <2> DEFINE n == Min(bad)
  <2>1. n \in bad /\ \A y \in bad : n <= y
    <3>1. bad \in SUBSET Nat
      OBVIOUS
    <3> HIDE DEF bad
    <3> QED
      BY <3>1, MinInSet
  <2> HIDE DEF n
  <2>2. n \in 0..Len(s) /\ ~Fine(n)
    BY <2>1
  <2>3. n # 0
    <3>1. Fine(0)
      BY PrefixFacts, WithoutEmpty
    <3> QED
      BY <2>2, <3>1
  <2>4. n \in 1..Len(s) /\ n - 1 \in 0..Len(s) /\ ~(n <= n - 1) /\ s[n] \notin S
    BY <2>2, <2>3 DEF Range
  <2>5. Fine(n - 1)
    <3> HIDE DEF Fine
    <3> QED
      BY <2>1, <2>4
  <2>6. /\ Without(P(n), S) = IF s[n] \in S THEN Without(P(n - 1), S)
                              ELSE Append(Without(P(n - 1), S), s[n])
        /\ P(n) = Append(P(n - 1), s[n])
    <3>1. Without(P(n), S) = IF s[n] \in S THEN Without(P(n - 1), S)
                             ELSE Append(Without(P(n - 1), S), s[n])
      BY <2>4, WithoutPrefix
    <3>2. P(n) = Append(P(n - 1), s[n])
      BY <2>4, PrefixFacts
    <3> QED
      BY <3>1, <3>2
  <2> HIDE DEF P
  <2> QED
    BY <2>2, <2>4, <2>5, <2>6
<1>2. Len(s) \in 0..Len(s) /\ P(Len(s)) = s
  BY PrefixFacts
<1>3. Fine(Len(s))
  BY <1>1, <1>2
<1> QED
  BY <1>2, <1>3

(* Without one node the list is the one that RemoveLinked yields. *)
LEMMA WithoutOne ==
  ASSUME NEW T, NEW s \in Seq(T), Distinct(s), NEW k \in 1..Len(s)
  PROVE  Without(s, {s[k]}) = Cut(s, k)
<1> DEFINE S == {s[k]}
           W(n) == Without(Pre(s, n), S)
           Size(n) == IF n < k THEN n ELSE n - 1
           Fine(n) == /\ W(n) \in Seq(T) /\ Len(W(n)) = Size(n)
                      /\ \A j \in 1..Size(n) :
                           W(n)[j] = IF j < k THEN s[j] ELSE s[j + 1]
           bad == {n \in 0..Len(s) : ~Fine(n)}
<1>1. bad = {}
  <2> SUFFICES ASSUME bad # {} PROVE FALSE
    OBVIOUS
  <2> DEFINE n == Min(bad)
  <2>1. n \in bad /\ \A y \in bad : n <= y
    <3>1. bad \in SUBSET Nat
      OBVIOUS
    <3> HIDE DEF bad
    <3> QED
      BY <3>1, MinInSet
  <2> HIDE DEF n
  <2>2. n \in 0..Len(s) /\ ~Fine(n)
    BY <2>1
  <2>3. n # 0
    <3>1. W(0) = <<>>
      BY PrefixFacts, WithoutEmpty
    <3>2. Size(0) = 0 /\ 1..0 = {}
      OBVIOUS
    <3>2a. <<>> \in Seq(T) /\ Len(<<>>) = 0
      OBVIOUS
    <3> HIDE DEF W, Size
    <3>3. W(0) \in Seq(T) /\ Len(W(0)) = Size(0)
      BY <3>1, <3>2, <3>2a
    <3>4. \A j \in 1..Size(0) : W(0)[j] = IF j < k THEN s[j] ELSE s[j + 1]
      BY <3>2
    <3>5. Fine(0)
      BY <3>3, <3>4
    <3> QED
      BY <2>2, <3>5
  <2>4. n \in 1..Len(s) /\ n - 1 \in 0..Len(s) /\ ~(n <= n - 1) /\ s[n] \in T
    BY <2>2, <2>3
  <2>5. Fine(n - 1)
    <3> HIDE DEF Fine
    <3> QED
      BY <2>1, <2>4
  <2>6. W(n) = IF s[n] \in S THEN W(n - 1) ELSE Append(W(n - 1), s[n])
    BY <2>4, WithoutPrefix
  <2>7. s[n] \in S <=> n = k
    BY <2>4 DEF Distinct
  <2> HIDE DEF W, S
  <2>8. CASE n = k
    BY <2>2, <2>4, <2>5, <2>6, <2>7, <2>8
  <2>9. CASE n # k
    <3> DEFINE w == W(n - 1)
               a == Append(w, s[n])
               L == Size(n - 1)
    <3>1. W(n) = a
      BY <2>6, <2>7, <2>9
    <3>2. /\ w \in Seq(T) /\ Len(w) = L
          /\ \A j \in 1..L : w[j] = IF j < k THEN s[j] ELSE s[j + 1]
      BY <2>5
    <3>3. L \in Nat /\ Size(n) = L + 1
          /\ s[n] = IF L + 1 < k THEN s[L + 1] ELSE s[(L + 1) + 1]
      BY <2>4, <2>9
    <3> HIDE DEF L, w, Size
    <3>4. /\ a \in Seq(T) /\ Len(a) = L + 1 /\ a[L + 1] = s[n]
          /\ \A j \in 1..L : a[j] = w[j]
      BY <2>4, <3>2, <3>3
    <3> HIDE DEF a
    <3>5. \A j \in 1..(L + 1) : a[j] = IF j < k THEN s[j] ELSE s[j + 1]
      <4> TAKE j \in 1..(L + 1)
      <4>1. CASE j = L + 1
        BY <3>3, <3>4, <4>1
      <4>2. CASE j # L + 1
        <5>1. j \in 1..L
          BY <3>3, <4>2
        <5> QED
          BY <3>2, <3>4, <5>1
      <4> QED
        BY <4>1, <4>2
    <3>6. Fine(n)
      BY <3>1, <3>3, <3>4, <3>5
    <3> QED
      BY <2>2, <3>6
  <2> QED
    BY <2>8, <2>9
<1>2. Len(s) \in 0..Len(s) /\ Pre(s, Len(s)) = s /\ Len(s) \in Nat
  BY PrefixFacts
<1>3. Fine(Len(s))
  BY <1>1, <1>2
<1> DEFINE w == W(Len(s))
           q == Cut(s, k)
<1>3a. Size(Len(s)) = Len(s) - 1
  BY <1>2
<1> HIDE DEF W, Size
<1>4. /\ w \in Seq(T) /\ Len(w) = Len(s) - 1
      /\ \A j \in 1..(Len(s) - 1) : w[j] = IF j < k THEN s[j] ELSE s[j + 1]
  BY <1>3, <1>3a
<1>5. /\ q \in Seq(T) /\ Len(q) = Len(s) - 1
      /\ \A j \in 1..(Len(s) - 1) : q[j] = IF j < k THEN s[j] ELSE s[j + 1]
  BY CutFacts
<1> HIDE DEF q, W
<1>6. w = q
  BY <1>4, <1>5
<1> QED
  BY <1>2, <1>6 DEF q, W

-----------------------------------------------------------------------------
(* The inductive invariant *)

(* The list s is kept by the pointers and counted, the nodes in H can be   *)
(* found.  During an operation a node may have a file and not be in s, or  *)
(* be allocated and not be in H.                                           *)
Sound(t, s, H) ==
  /\ t \in Shaped /\ Linked(t, s) /\ Searching(t, H)
  /\ Range(s) \in SUBSET H /\ H \in SUBSET t.heap
  /\ \A n \in Range(s) : t.sFile[n] # NULL
  /\ t.fileCount = Len(s) /\ t.filedim = Sum(t.sFile, Range(s))

(* What follows from it. *)
LEMMA SoundFacts ==
  ASSUME NEW t, NEW s, NEW H, Sound(t, s, H)
  PROVE  /\ s \in Seq(Nodes) /\ Distinct(s) /\ Len(s) \in Nat
         /\ H \in SUBSET Nodes /\ H # Nodes
         /\ Range(s) \in SUBSET Nodes /\ IsFiniteSet(Range(s))
         /\ Cardinality(Range(s)) = Len(s)
         /\ \A n \in Range(s) : t.sFile[n] \in Files /\ t.sFile[n].dim \in Nat
         /\ t.filedim \in Nat /\ t.fileCount \in Nat
         /\ OldestFirst(t) = s
<1>1. s \in Seq(Nodes) /\ Distinct(s) /\ H \in SUBSET Nodes /\ t \in Shaped
      /\ Linked(t, s)
  BY DEF Sound, Linked, Searching
<1>2. IsFiniteSet(Range(s)) /\ Cardinality(Range(s)) = Len(s)
      /\ Range(s) \in SUBSET Nodes
  BY <1>1, DistinctCount
<1>3. \A n \in Range(s) : t.sFile[n] \in Files /\ t.sFile[n].dim \in Nat
  BY <1>2 DEF Sound, Shaped, Files
<1>4. Sum(t.sFile, Range(s)) \in Nat
  BY <1>2, <1>3, SumNat
<1>5. H # Nodes
  BY <1>1, AddressLeft DEF Sound
<1>6. OldestFirst(t) = s
  BY <1>1, LinkedWalks
<1> QED
  BY <1>1, <1>2, <1>3, <1>4, <1>5, <1>6 DEF Sound

(* Each operation on the tree keeps it: a new node, a destroyed one, a     *)
(* victim, a node that joins the list.                                     *)
LEMMA SearchingKept ==
  ASSUME NEW t \in Shaped, NEW H, Searching(t, H),
         NEW r \in Shaped, SameSearch(t, r)
  PROVE  Searching(r, H)
BY SearchingLocal DEF SameSearch

LEMMA SoundNew ==
  ASSUME NEW t, NEW s, NEW H, Sound(t, s, H), NEW n \in Nodes \ H,
         NEW name \in Names, NEW file \in Files
  PROVE  LET r == newTreeNode(t, n, name, file)
         IN /\ Sound(r, s, H) /\ r.heap = t.heap \cup {n}
            /\ r.name = [t.name EXCEPT ![n] = name]
            /\ r.sFile = [t.sFile EXCEPT ![n] = file]
            /\ r.fileCount = t.fileCount /\ r.filedim = t.filedim
            /\ r.root = t.root
<1> DEFINE r == newTreeNode(t, n, name, file)
<1>1. t \in Shaped /\ Searching(t, H) /\ Linked(t, s)
  BY DEF Sound
<1>2. /\ r.heap = t.heap \cup {n}
      /\ r.name = [t.name EXCEPT ![n] = name]
      /\ r.sFile = [t.sFile EXCEPT ![n] = file]
      /\ r.fileCount = t.fileCount /\ r.filedim = t.filedim
      /\ r.root = t.root /\ r.leftPtr = t.leftPtr /\ r.rightPtr = t.rightPtr
      /\ r.leastRecentLRU = t.leastRecentLRU /\ r.mostRecentLRU = t.mostRecentLRU
      /\ r.lessRecentLRU = t.lessRecentLRU /\ r.moreRecentLRU = t.moreRecentLRU
      /\ r \in Shaped
  BY <1>1 DEF newTreeNode, Shaped
<1> HIDE DEF r
<1>3. Range(s) \in SUBSET Nodes /\ IsFiniteSet(Range(s))
  BY SoundFacts
<1>4. \A m \in Nodes \ {n} : r.name[m] = t.name[m] /\ r.sFile[m] = t.sFile[m]
  BY <1>1, <1>2 DEF Shaped
<1>5. n \notin Range(s) /\ H \in SUBSET Nodes
  BY DEF Sound, Searching
<1>6. Searching(r, H)
  <2>1. \A m \in H : r.name[m] = t.name[m]
    BY <1>4, <1>5
  <2> QED
    BY <1>1, <1>2, <2>1, SearchingLocal
<1>7. Linked(r, s)
  BY <1>1, <1>2 DEF Linked
<1>8. \A m \in Range(s) : r.sFile[m] = t.sFile[m]
  BY <1>3, <1>4, <1>5
<1>9. Sum(r.sFile, Range(s)) = Sum(t.sFile, Range(s))
  BY <1>3, <1>8, SumSame
<1>10. Sound(r, s, H)
  BY <1>2, <1>6, <1>7, <1>8, <1>9 DEF Sound
<1> QED
  BY <1>2, <1>10 DEF r

(* r is t without the node n, which is neither in the list s nor in H. *)
Frees(t, s, H, n, r) ==
  /\ Sound(r, s, H) /\ r.heap = t.heap \ {n}
  /\ r.name = [t.name EXCEPT ![n] = NULL]
  /\ r.sFile = [t.sFile EXCEPT ![n] = NULL]
  /\ r.fileCount = t.fileCount /\ r.filedim = t.filedim

LEMMA SoundDestroy ==
  ASSUME NEW t, NEW s, NEW H, Sound(t, s, H), NEW n \in Nodes \ H
  PROVE  Frees(t, s, H, n, destroyTreeNode(t, n))
<1> DEFINE r == destroyTreeNode(t, n)
<1>1. t \in Shaped /\ Searching(t, H) /\ Linked(t, s)
  BY DEF Sound
<1>2. /\ r.heap = t.heap \ {n}
      /\ r.name = [t.name EXCEPT ![n] = NULL]
      /\ r.sFile = [t.sFile EXCEPT ![n] = NULL]
      /\ r.fileCount = t.fileCount /\ r.filedim = t.filedim
      /\ r.root = t.root /\ r.leftPtr = t.leftPtr /\ r.rightPtr = t.rightPtr
      /\ r.leastRecentLRU = t.leastRecentLRU /\ r.mostRecentLRU = t.mostRecentLRU
      /\ r.lessRecentLRU = t.lessRecentLRU /\ r.moreRecentLRU = t.moreRecentLRU
      /\ r \in Shaped
  BY <1>1 DEF destroyTreeNode, Shaped
<1> HIDE DEF r
<1>3. Range(s) \in SUBSET Nodes /\ IsFiniteSet(Range(s))
  BY SoundFacts
<1>4. \A m \in Nodes \ {n} : r.name[m] = t.name[m] /\ r.sFile[m] = t.sFile[m]
  BY <1>1, <1>2 DEF Shaped
<1>5. n \notin Range(s) /\ H \in SUBSET Nodes
  BY DEF Sound, Searching
<1>6. Searching(r, H)
  <2>1. \A m \in H : r.name[m] = t.name[m]
    BY <1>4, <1>5
  <2> QED
    BY <1>1, <1>2, <2>1, SearchingLocal
<1>7. Linked(r, s)
  BY <1>1, <1>2 DEF Linked
<1>8. \A m \in Range(s) : r.sFile[m] = t.sFile[m]
  BY <1>3, <1>4, <1>5
<1>9. Sum(r.sFile, Range(s)) = Sum(t.sFile, Range(s))
  BY <1>3, <1>8, SumSame
<1>10. Sound(r, s, H)
  BY <1>2, <1>6, <1>7, <1>8, <1>9 DEF Sound
<1> QED
  BY <1>2, <1>10 DEF Frees, r

(* A file may change as long as its size does, or it is not in the list. *)
LEMMA SoundFile ==
  ASSUME NEW t, NEW s, NEW H, Sound(t, s, H), NEW n \in Nodes,
         NEW file \in Files \cup {NULL},
         n \in Range(s) => file # NULL /\ file.dim = t.sFile[n].dim
  PROVE  LET r == [t EXCEPT !.sFile[n] = file]
         IN /\ Sound(r, s, H) /\ r.heap = t.heap /\ r.name = t.name
            /\ r.sFile = [t.sFile EXCEPT ![n] = file]
            /\ r.fileCount = t.fileCount /\ r.filedim = t.filedim
<1> DEFINE r == [t EXCEPT !.sFile[n] = file]
<1>1. t \in Shaped /\ Searching(t, H) /\ Linked(t, s)
  BY DEF Sound
<1>2. /\ r.heap = t.heap
      /\ r.sFile = [t.sFile EXCEPT ![n] = file]
      /\ r.fileCount = t.fileCount /\ r.filedim = t.filedim
      /\ SameSearch(t, r)
      /\ r.leastRecentLRU = t.leastRecentLRU /\ r.mostRecentLRU = t.mostRecentLRU
      /\ r.lessRecentLRU = t.lessRecentLRU /\ r.moreRecentLRU = t.moreRecentLRU
      /\ r \in Shaped
  BY <1>1 DEF SameSearch, Shaped
<1> HIDE DEF r
<1>3. Range(s) \in SUBSET Nodes /\ IsFiniteSet(Range(s))
  BY SoundFacts
<1>4. \A m \in Nodes : r.sFile[m] = IF m = n THEN file ELSE t.sFile[m]
  BY <1>1, <1>2 DEF Shaped
<1>5. Searching(r, H) /\ Linked(r, s)
  BY <1>1, <1>2, SearchingKept DEF Linked
<1>6. \A m \in Range(s) : r.sFile[m] # NULL /\ r.sFile[m].dim = t.sFile[m].dim
  BY <1>3, <1>4 DEF Sound
<1>7. Sum(r.sFile, Range(s)) = Sum(t.sFile, Range(s))
  BY <1>3, <1>6, SumSame
<1>8. Sound(r, s, H)
  BY <1>2, <1>5, <1>6, <1>7 DEF Sound
<1> QED
  BY <1>2, <1>8 DEF r, SameSearch

(* r is t without the file of the k-th node of s. *)
Loses(t, s, H, k, r) ==
  /\ Sound(r, Cut(s, k), H) /\ r.heap = t.heap /\ r.name = t.name
  /\ r.sFile = [t.sFile EXCEPT ![s[k]] = NULL]
  /\ r.fileCount = t.fileCount - 1
  /\ r.filedim = t.filedim - t.sFile[s[k]].dim

LEMMA SoundEvict ==
  ASSUME NEW t, NEW s, NEW H, Sound(t, s, H), NEW k \in 1..Len(s)
  PROVE  Loses(t, s, H, k, Evict(t, s[k]))
<1> DEFINE n == s[k]
           u == removeFromLRU(t, n)
           q == Cut(s, k)
           r == Evict(t, n)
<1>1. t \in Shaped /\ Searching(t, H) /\ Linked(t, s)
  BY DEF Sound
<1>2. /\ s \in Seq(Nodes) /\ Distinct(s) /\ Len(s) \in Nat
      /\ Range(s) \in SUBSET Nodes /\ IsFiniteSet(Range(s))
      /\ \A m \in Range(s) : t.sFile[m].dim \in Nat
  BY SoundFacts
<1>3. n \in Range(s) /\ n \in Nodes /\ t.sFile[n] # NULL
  BY <1>2 DEF Sound, Range
<1>4. /\ u \in Shaped /\ SameSearch(t, u) /\ u.sFile = t.sFile
      /\ u.fileCount = t.fileCount - 1
      /\ u.filedim = t.filedim - t.sFile[n].dim
  BY <1>1, <1>3, RemoveFields
<1>5. Linked(u, q)
  BY <1>1, <1>3, RemoveLinked
<1>6. /\ q \in Seq(Nodes) /\ Len(q) = Len(s) - 1 /\ Distinct(q)
      /\ Range(q) = Range(s) \ {n}
  BY <1>2, CutFacts
<1> HIDE DEF u, q, n
<1>7. Searching(u, H)
  BY <1>1, <1>4, SearchingKept
<1>8. Sum(t.sFile, Range(s)) = t.sFile[n].dim + Sum(t.sFile, Range(s) \ {n})
  BY <1>2, <1>3, SumWithout
<1>9. IsFiniteSet(Range(s) \ {n}) /\ Sum(t.sFile, Range(s) \ {n}) \in Nat
      /\ t.sFile[n].dim \in Nat
  <2>1. IsFiniteSet(Range(s) \ {n})
    BY <1>2, FS_RemoveElement
  <2> QED
    BY <1>2, <1>3, <2>1, SumNat
<1>10. t.fileCount - 1 = Len(q)
  BY <1>2, <1>6 DEF Sound
<1>11. t.filedim - t.sFile[n].dim = Sum(t.sFile, Range(q))
  BY <1>6, <1>8, <1>9 DEF Sound
<1>12. Sound(u, q, H)
  <2>1. /\ Range(q) \in SUBSET H /\ H \in SUBSET u.heap
        /\ \A m \in Range(q) : u.sFile[m] # NULL
    BY <1>4, <1>6 DEF Sound, SameSearch
  <2> QED
    BY <1>4, <1>5, <1>7, <1>10, <1>11, <2>1 DEF Sound
<1>13. n \notin Range(q)
  BY <1>6
<1>14. r = [u EXCEPT !.sFile[n] = NULL]
  BY DEF Evict, u
<1>15. LET v == [u EXCEPT !.sFile[n] = NULL]
       IN /\ Sound(v, q, H) /\ v.heap = u.heap /\ v.name = u.name
          /\ v.sFile = [u.sFile EXCEPT ![n] = NULL]
          /\ v.fileCount = u.fileCount /\ v.filedim = u.filedim
  BY <1>3, <1>12, <1>13, SoundFile
<1> QED
  <2> HIDE DEF r
  <2>1. /\ Sound(r, q, H) /\ r.heap = t.heap /\ r.name = t.name
        /\ r.sFile = [t.sFile EXCEPT ![n] = NULL]
        /\ r.fileCount = t.fileCount - 1
        /\ r.filedim = t.filedim - t.sFile[n].dim
    BY <1>4, <1>14, <1>15 DEF SameSearch
  <2> QED
    BY <2>1 DEF Loses, r, q, n

LEMMA SoundInsert ==
  ASSUME NEW t, NEW s, NEW H, Sound(t, s, H),
         NEW n \in H, n \notin Range(s), t.sFile[n] # NULL
  PROVE  LET r == insertToFrontLRU(t, n)
         IN /\ Sound(r, Append(s, n), H) /\ r.heap = t.heap /\ r.name = t.name
            /\ r.sFile = t.sFile
            /\ r.fileCount = t.fileCount + 1
            /\ r.filedim = t.filedim + t.sFile[n].dim
<1> DEFINE q == Append(s, n)
           r == insertToFrontLRU(t, n)
<1>1. t \in Shaped /\ Searching(t, H) /\ Linked(t, s) /\ n \in Nodes
  BY DEF Sound, Searching
<1>2. /\ s \in Seq(Nodes) /\ Distinct(s) /\ Len(s) \in Nat
      /\ Range(s) \in SUBSET Nodes /\ IsFiniteSet(Range(s))
      /\ \A m \in Range(s) : t.sFile[m].dim \in Nat
  BY SoundFacts
<1>3. /\ r \in Shaped /\ SameSearch(t, r) /\ r.sFile = t.sFile
      /\ r.fileCount = t.fileCount + 1
      /\ r.filedim = t.filedim + t.sFile[n].dim
  BY <1>1, InsertFields
<1>4. Linked(r, q)
  BY <1>1, InsertLinked
<1>5. Range(q) = Range(s) \cup {n} /\ Len(q) = Len(s) + 1
  BY <1>1, <1>2, AppendDistinct
<1> HIDE DEF r, q
<1>6. Searching(r, H)
  BY <1>1, <1>3, SearchingKept
<1>7. t.sFile[n].dim \in Nat
  BY <1>1 DEF Shaped, Files
<1>8. Sum(t.sFile, Range(q)) = t.sFile[n].dim + Sum(t.sFile, Range(s))
  <2>1. IsFiniteSet(Range(q)) /\ n \in Range(q) /\ Range(q) \ {n} = Range(s)
    BY <1>2, <1>5, FS_AddElement
  <2>2. \A m \in Range(q) : t.sFile[m].dim \in Nat
    BY <1>2, <1>5, <1>7
  <2> QED
    BY <2>1, <2>2, SumWithout
<1>9. Sum(t.sFile, Range(s)) \in Nat
  BY <1>2, SumNat
<1>10. r.filedim = Sum(r.sFile, Range(q))
  BY <1>3, <1>7, <1>8, <1>9 DEF Sound
<1>11. /\ Range(q) \in SUBSET H /\ H \in SUBSET r.heap
       /\ \A m \in Range(q) : r.sFile[m] # NULL
       /\ r.fileCount = Len(q)
  BY <1>3, <1>5 DEF Sound, SameSearch
<1>12. Sound(r, q, H)
  BY <1>3, <1>4, <1>6, <1>10, <1>11 DEF Sound
<1> QED
  BY <1>3, <1>12 DEF r, q, SameSearch

(* A node moved to the front, a file that grows, the first node, a node    *)
(* hung below its father, several victims.                                 *)
LEMMA SoundMove ==
  ASSUME NEW t, NEW s, NEW H, Sound(t, s, H), NEW k \in 1..Len(s)
  PROVE  LET r == moveToFrontLRU(t, s[k])
         IN /\ Sound(r, PutLast(s, k), H) /\ r.heap = t.heap /\ r.name = t.name
            /\ r.sFile = t.sFile
            /\ r.fileCount = t.fileCount /\ r.filedim = t.filedim
<1> DEFINE n == s[k]
           r == moveToFrontLRU(t, n)
           q == PutLast(s, k)
<1>1. t \in Shaped /\ Searching(t, H) /\ Linked(t, s)
  BY DEF Sound
<1>2. s \in Seq(Nodes) /\ Distinct(s) /\ n \in Nodes
  BY SoundFacts
<1>3. /\ r \in Shaped /\ SameSearch(t, r) /\ r.sFile = t.sFile
      /\ r.fileCount = t.fileCount /\ r.filedim = t.filedim
  <2>1. CASE t.mostRecentLRU = NULL \/ t.moreRecentLRU[n] = NULL
    BY <1>1, <2>1 DEF moveToFrontLRU, SameSearch
  <2>2. CASE ~(t.mostRecentLRU = NULL \/ t.moreRecentLRU[n] = NULL)
    BY <1>1, <1>2, <2>2, MoveFields
  <2> QED
    BY <2>1, <2>2
<1>4. Linked(r, q)
  BY <1>1, MoveLinked
<1>5. Range(q) = Range(s) /\ Len(q) = Len(s)
  BY <1>2, LastFacts
<1> HIDE DEF r, q
<1>6. Searching(r, H)
  BY <1>1, <1>3, SearchingKept
<1>7. Sound(r, q, H)
  BY <1>3, <1>4, <1>5, <1>6 DEF Sound, SameSearch
<1> QED
  BY <1>3, <1>7 DEF r, q, SameSearch

(* A file in the list grows, and the total with it. *)
Grown(t, n, size) ==
  [t EXCEPT !.sFile[n].dim = @ + size, !.filedim = @ + size]

LEMMA SoundGrow ==
  ASSUME NEW t, NEW s, NEW H, Sound(t, s, H),
         NEW n \in Range(s), NEW size \in Nat
  PROVE  LET r == Grown(t, n, size)
         IN /\ Sound(r, s, H) /\ r.heap = t.heap /\ r.name = t.name
            /\ \A m \in Nodes : r.sFile[m] =
                 IF m = n THEN [t.sFile[n] EXCEPT !.dim = @ + size] ELSE t.sFile[m]
            /\ r.fileCount = t.fileCount /\ r.filedim = t.filedim + size
<1> DEFINE e == Grown(t, n, size)
<1>1. t \in Shaped /\ Searching(t, H) /\ Linked(t, s)
  BY DEF Sound
<1>2. /\ n \in Nodes /\ Range(s) \in SUBSET Nodes /\ IsFiniteSet(Range(s))
      /\ \A m \in Range(s) : t.sFile[m] \in Files /\ t.sFile[m].dim \in Nat
      /\ t.filedim \in Nat
  BY SoundFacts
<1> DEFINE file == [t.sFile[n] EXCEPT !.dim = @ + size]
<1>3. file \in Files /\ file.dim = t.sFile[n].dim + size
  BY <1>2 DEF Files
<1>4. /\ e.heap = t.heap
      /\ e.sFile = [t.sFile EXCEPT ![n] = file]
      /\ e.fileCount = t.fileCount /\ e.filedim = t.filedim + size
      /\ SameSearch(t, e)
      /\ e.leastRecentLRU = t.leastRecentLRU /\ e.mostRecentLRU = t.mostRecentLRU
      /\ e.lessRecentLRU = t.lessRecentLRU /\ e.moreRecentLRU = t.moreRecentLRU
  BY <1>1, <1>2 DEF SameSearch, Shaped, Grown
<1>5. e \in Shaped
  <2> DEFINE g == [t.sFile EXCEPT ![n] = file]
             dim == t.filedim + size
  <2>1. g \in [Nodes -> Files \cup {NULL}] /\ dim \in Int
    BY <1>1, <1>2, <1>3 DEF Shaped
  <2>2. e = [t EXCEPT !.sFile = g, !.filedim = dim]
    BY <1>1, <1>2 DEF Shaped, Grown
  <2> HIDE DEF g, dim, e, file
  <2>3. [t EXCEPT !.sFile = g, !.filedim = dim] \in Shaped
    BY <1>1, <2>1 DEF Shaped
  <2> QED
    BY <2>2, <2>3
<1> HIDE DEF e, file
<1>6. \A m \in Nodes : e.sFile[m] = IF m = n THEN file ELSE t.sFile[m]
  BY <1>1, <1>4 DEF Shaped
<1>7. Searching(e, H) /\ Linked(e, s)
  BY <1>1, <1>4, <1>5, SearchingKept DEF Linked
<1> DEFINE R == Range(s)
           rest == R \ {n}
<1> HIDE DEF R, rest
<1>8. IsFiniteSet(rest) /\ n \in R /\ rest = R \ {n} /\ R \in SUBSET Nodes
      /\ IsFiniteSet(R)
  BY <1>2, FS_RemoveElement DEF R, rest
<1>9. /\ \A m \in R : e.sFile[m].dim \in Nat /\ t.sFile[m].dim \in Nat
      /\ \A m \in rest : e.sFile[m].dim = t.sFile[m].dim
  BY <1>2, <1>3, <1>6, <1>8 DEF R
<1>10. Sum(e.sFile, rest) = Sum(t.sFile, rest) /\ Sum(t.sFile, rest) \in Nat
  BY <1>8, <1>9, SumSame, SumNat
<1>11. Sum(t.sFile, R) = t.sFile[n].dim + Sum(t.sFile, rest)
  BY <1>8, <1>9, SumWithout
<1>12. Sum(e.sFile, R) = e.sFile[n].dim + Sum(e.sFile, rest)
  BY <1>8, <1>9, SumWithout
<1>13. e.filedim = Sum(e.sFile, R)
  <2>1. e.sFile[n].dim = t.sFile[n].dim + size /\ t.sFile[n].dim \in Nat
    BY <1>2, <1>3, <1>6
  <2>2. t.filedim = Sum(t.sFile, R)
    BY DEF Sound, R
  <2> QED
    BY <1>4, <1>10, <1>11, <1>12, <2>1, <2>2
<1>14. \A m \in R : e.sFile[m] # NULL
  BY <1>2, <1>3, <1>6, NULLAssumption DEF R
<1>15. Sound(e, s, H)
  BY <1>4, <1>5, <1>7, <1>13, <1>14 DEF Sound, R, SameSearch
<1> QED
  <2>2. \A m \in Nodes : e.sFile[m] =
          IF m = n THEN [t.sFile[n] EXCEPT !.dim = @ + size] ELSE t.sFile[m]
    BY <1>6 DEF file
  <2> QED
    BY ONLY <1>4, <1>15, <2>2 DEF SameSearch, e

(* The new node becomes the root, or is hung where the descent ends. *)
LEMMA SoundRoot ==
  ASSUME NEW t, NEW s, NEW H, Sound(t, s, H), t.root = NULL,
         NEW n \in t.heap, t.name[n] \in Names
  PROVE  LET r == [t EXCEPT !.root = n]
         IN /\ H = {} /\ s = <<>> /\ Sound(r, s, {n}) /\ r.heap = t.heap
            /\ r.name = t.name /\ r.sFile = t.sFile
            /\ r.fileCount = t.fileCount /\ r.filedim = t.filedim
<1> DEFINE r == [t EXCEPT !.root = n]
<1>1. t \in Shaped /\ Searching(t, H) /\ Linked(t, s) /\ H = {}
  BY DEF Sound, Searching
<1>2. n \in Nodes
  BY <1>1 DEF Shaped
<1>3. Searching(r, {n})
  BY <1>1, <1>2, RootSearching
<1>4. /\ r \in Shaped /\ r.heap = t.heap /\ r.name = t.name /\ r.sFile = t.sFile
      /\ r.fileCount = t.fileCount /\ r.filedim = t.filedim
      /\ r.leastRecentLRU = t.leastRecentLRU /\ r.mostRecentLRU = t.mostRecentLRU
      /\ r.lessRecentLRU = t.lessRecentLRU /\ r.moreRecentLRU = t.moreRecentLRU
  BY <1>1, <1>2 DEF Shaped
<1> HIDE DEF r
<1>5. Range(s) = {} /\ s = <<>>
  <2>1. Range(s) = {} /\ s \in Seq(Nodes)
    BY <1>1, SoundFacts DEF Sound
  <2>2. s # <<>> => s[1] \in Range(s)
    BY <2>1 DEF Range
  <2> QED
    BY <2>1, <2>2
<1>6. Linked(r, s)
  BY <1>1, <1>4 DEF Linked
<1>7. Sound(r, s, {n})
  BY <1>3, <1>4, <1>5, <1>6 DEF Sound
<1> QED
  BY <1>1, <1>4, <1>5, <1>7 DEF r

LEMMA SoundAttach ==
  ASSUME NEW t, NEW s, NEW H, Sound(t, s, H), t.root # NULL,
         NEW n \in t.heap \ H, t.name[n] \in Names,
         NEW at, at = Descent(t, t.name[n]), t.name[at] # t.name[n]
  PROVE  LET r == Attach(t, at, n)
         IN /\ Sound(r, s, H \cup {n}) /\ r.heap = t.heap
            /\ r.name = t.name /\ r.sFile = t.sFile
            /\ r.fileCount = t.fileCount /\ r.filedim = t.filedim
<1> DEFINE r == Attach(t, at, n)
<1>1. t \in Shaped /\ Searching(t, H) /\ Linked(t, s) /\ H # {}
      /\ H \in SUBSET Nodes
  BY DEF Sound, Searching
<1>2. n \in Nodes \ H
  BY <1>1 DEF Shaped
<1>3. at \in Nodes /\ Child(t, at, t.name[n]) = NULL
  BY <1>1, DescentEnds
<1>4. Searching(r, H \cup {n})
  BY <1>1, <1>2, AttachSearching
<1>5. /\ r \in Shaped /\ r.heap = t.heap /\ r.name = t.name /\ r.sFile = t.sFile
      /\ r.fileCount = t.fileCount /\ r.filedim = t.filedim
      /\ r.leastRecentLRU = t.leastRecentLRU /\ r.mostRecentLRU = t.mostRecentLRU
      /\ r.lessRecentLRU = t.lessRecentLRU /\ r.moreRecentLRU = t.moreRecentLRU
  BY <1>1, <1>2, <1>3, AttachFields
<1> HIDE DEF r
<1>6. Linked(r, s)
  BY <1>1, <1>5 DEF Linked
<1>7. Sound(r, s, H \cup {n})
  BY <1>4, <1>5, <1>6 DEF Sound
<1> QED
  BY <1>5, <1>7 DEF r

LEMMA SoundEvictAll ==
  ASSUME NEW t, NEW s, NEW H, Sound(t, s, H),
         NEW v \in Seq(Nodes), Distinct(v), Range(v) \subseteq Range(s)
  PROVE  LET r == EvictAll(t, v)
         IN /\ Sound(r, Without(s, Range(v)), H)
            /\ r.heap = t.heap /\ r.name = t.name
            /\ \A m \in Nodes : r.sFile[m] = IF m \in Range(v) THEN NULL
                                             ELSE t.sFile[m]
            /\ r.filedim = t.filedim - Sum(t.sFile, Range(v))
<1> DEFINE E(n) == EvictAll(t, Pre(v, n))
           S(n) == {v[i] : i \in 1..n}
           Fine(n) ==
             /\ Sound(E(n), Without(s, S(n)), H)
             /\ E(n).heap = t.heap /\ E(n).name = t.name
             /\ \A m \in Nodes : E(n).sFile[m] = IF m \in S(n) THEN NULL
                                                 ELSE t.sFile[m]
             /\ E(n).filedim = t.filedim - Sum(t.sFile, S(n))
           bad == {n \in 0..Len(v) : ~Fine(n)}
<1>1. /\ s \in Seq(Nodes) /\ Distinct(s) /\ t.filedim \in Nat
      /\ \A m \in Range(s) : t.sFile[m].dim \in Nat
  BY SoundFacts
<1>2. bad = {}
  <2> SUFFICES ASSUME bad # {} PROVE FALSE
    OBVIOUS
  <2> DEFINE n == Min(bad)
  <2>1. n \in bad /\ \A y \in bad : n <= y
    <3>1. bad \in SUBSET Nat
      OBVIOUS
    <3> HIDE DEF bad
    <3> QED
      BY <3>1, MinInSet
  <2> HIDE DEF n
  <2>2. n \in 0..Len(v) /\ ~Fine(n)
    BY <2>1
  <2>3. n # 0
    <3>1. E(0) = t
      BY PrefixFacts, EvictEmpty
    <3>2. S(0) = {}
      OBVIOUS
    <3>3. Without(s, {}) = s
      BY <1>1, WithoutNone
    <3>4. Sum(t.sFile, {}) = 0
      BY SumEmpty
    <3>5. Sound(E(0), Without(s, S(0)), H)
      BY <3>1, <3>2, <3>3
    <3> HIDE DEF E, S
    <3>6. \A m \in Nodes : E(0).sFile[m] = IF m \in S(0) THEN NULL ELSE t.sFile[m]
      BY <3>1, <3>2
    <3>7. E(0).filedim = t.filedim - Sum(t.sFile, S(0))
      <4>1. t.filedim - 0 = t.filedim
        BY <1>1
      <4> QED
        BY <3>1, <3>2, <3>4, <4>1
    <3>8. Fine(0)
      BY <3>1, <3>5, <3>6, <3>7
    <3> QED
      BY <2>2, <3>8
  <2>4. n \in 1..Len(v) /\ n - 1 \in 0..Len(v) /\ ~(n <= n - 1) /\ v[n] \in Nodes
    BY <2>2, <2>3
  <2>5. Fine(n - 1)
    <3> HIDE DEF Fine
    <3> QED
      BY <2>1, <2>4
  <2> DEFINE x == v[n]
             u == E(n - 1)
             w == Without(s, S(n - 1))
  <2>6. E(n) = Evict(u, x)
    <3> DEFINE p == Pre(v, n - 1)
    <3>1. p \in Seq(Nodes) /\ Pre(v, n) = Append(p, x)
      BY <2>4, PrefixFacts
    <3> HIDE DEF p, x
    <3>2. EvictAll(t, Append(p, x)) = Evict(EvictAll(t, p), x)
      BY <2>4, <3>1, EvictAppend DEF x
    <3> QED
      BY <3>1, <3>2 DEF p
  <2>7. /\ x \notin S(n - 1) /\ S(n) = S(n - 1) \cup {x} /\ x \in Range(s)
        /\ S(n) \ {x} = S(n - 1) /\ S(n) \subseteq Range(s)
    <3>1. \A i, j \in 1..Len(v) : v[i] = v[j] => i = j
      BY DEF Distinct
    <3>2. \A i \in 1..(n - 1) : i \in 1..Len(v) /\ i # n
      BY <2>4
    <3>3. x \notin S(n - 1)
      BY <2>4, <3>1, <3>2
    <3>4. S(n) = S(n - 1) \cup {x}
      BY <2>4
    <3>5. \A i \in 1..Len(v) : v[i] \in Range(s)
      BY DEF Range
    <3>6. S(n) \subseteq Range(s)
      BY <2>4, <3>5
    <3> HIDE DEF S, x
    <3> QED
      BY <3>3, <3>4, <3>6
  <2>8. w \in Seq(Nodes) /\ Distinct(w) /\ Range(w) = Range(s) \ S(n - 1)
    BY <1>1, WithoutFacts
  <2>9. PICK k \in 1..Len(w) : w[k] = x
    <3> HIDE DEF w, S, x
    <3>1. x \in Range(w)
      BY <2>7, <2>8
    <3> QED
      BY <2>8, <3>1 DEF Range
  <2>10. Cut(w, k) = Without(s, S(n))
    <3>1. Cut(w, k) = Without(w, {w[k]})
      <4> HIDE DEF w
      <4> QED
        BY <2>8, WithoutOne
    <3>2. Without(w, {x}) = Without(s, S(n - 1) \cup {x})
      BY <1>1, WithoutTwice
    <3> HIDE DEF w, S, x
    <3> QED
      BY <2>7, <2>9, <3>1, <3>2
  <2>11. Sound(u, w, H)
    BY <2>5
  <2>12. LET r == Evict(u, w[k])
         IN /\ Sound(r, Cut(w, k), H) /\ r.heap = u.heap /\ r.name = u.name
            /\ r.sFile = [u.sFile EXCEPT ![w[k]] = NULL]
            /\ r.filedim = u.filedim - u.sFile[w[k]].dim
    <3> HIDE DEF u, w
    <3>1. Loses(u, w, H, k, Evict(u, w[k]))
      BY ONLY <2>9, <2>11, SoundEvict
    <3> QED
      BY <3>1 DEF Loses
  <2>13. u.sFile \in [Nodes -> Files \cup {NULL}] /\ u.sFile[x] = t.sFile[x]
    <3>1. u \in Shaped
      BY <2>11 DEF Sound
    <3>2. \A m \in Nodes : u.sFile[m] = IF m \in S(n - 1) THEN NULL ELSE t.sFile[m]
      BY <2>5
    <3> HIDE DEF u, S
    <3> QED
      BY <2>4, <2>7, <3>1, <3>2 DEF Shaped
  <2>14. Sum(t.sFile, S(n)) = t.sFile[x].dim + Sum(t.sFile, S(n - 1))
         /\ Sum(t.sFile, S(n - 1)) \in Nat
    <3>1. IsFiniteSet(S(n)) /\ IsFiniteSet(S(n - 1)) /\ x \in S(n)
      <4>1. IsFiniteSet(Range(s))
        BY SoundFacts
      <4> HIDE DEF S, x
      <4> QED
        BY <2>7, <4>1, FS_Subset
    <3>2. \A m \in S(n) : t.sFile[m].dim \in Nat
      BY <1>1, <2>7
    <3> HIDE DEF S, x
    <3>3. Sum(t.sFile, S(n)) = t.sFile[x].dim + Sum(t.sFile, S(n) \ {x})
      BY <3>1, <3>2, SumWithout
    <3>4. Sum(t.sFile, S(n - 1)) \in Nat
      BY <2>7, <3>1, <3>2, SumNat
    <3> QED
      BY <2>7, <3>3, <3>4
  <2>15. /\ u.heap = t.heap /\ u.name = t.name
         /\ \A m \in Nodes : u.sFile[m] = IF m \in S(n - 1) THEN NULL
                                          ELSE t.sFile[m]
         /\ u.filedim = t.filedim - Sum(t.sFile, S(n - 1))
    BY <2>5
  <2>16. t.sFile[x].dim \in Nat
    BY <1>1, <2>7
  <2>17. Fine(n)
    <3> DEFINE r == E(n)
    <3> HIDE DEF E, S, x, u, w
    <3>1. Sound(r, Without(s, S(n)), H) /\ r.heap = t.heap /\ r.name = t.name
      BY <2>6, <2>9, <2>10, <2>12, <2>15
    <3>2. \A m \in Nodes : r.sFile[m] = IF m \in S(n) THEN NULL ELSE t.sFile[m]
      BY <2>6, <2>7, <2>9, <2>12, <2>13, <2>15
    <3>3. r.filedim = t.filedim - Sum(t.sFile, S(n))
      BY <1>1, <2>6, <2>9, <2>12, <2>13, <2>14, <2>15, <2>16
    <3> QED
      BY <3>1, <3>2, <3>3
  <2> QED
    BY <2>2, <2>17
<1>3. Len(v) \in 0..Len(v) /\ Pre(v, Len(v)) = v
  BY PrefixFacts
<1>4. Range(v) = S(Len(v))
  BY DEF Range
<1>5. Fine(Len(v))
  BY <1>2, <1>3
<1> QED
  BY <1>3, <1>4, <1>5

WithAFile(t) == {n \in Nodes : t.sFile[n] # NULL}

(* The new node n joined the tree, or its file went to the old node of the *)
(* name, or that has a file and the tree is as it was.                     *)
PlacedAs(r, t, s, H, n) ==
  \/ /\ Sound(r, Append(s, n), H \cup {n}) /\ r.heap = t.heap
     /\ r.name = t.name /\ r.sFile = t.sFile
     /\ r.fileCount = t.fileCount + 1
     /\ r.filedim = t.filedim + t.sFile[n].dim
     /\ \A m \in H : t.name[m] # t.name[n]
  \/ \E at \in H \ Range(s) :
       /\ Sound(r, Append(s, at), H) /\ r.heap = t.heap \ {n}
       /\ t.name[at] = t.name[n]
       /\ r.name = [t.name EXCEPT ![n] = NULL]
       /\ r.sFile = [t.sFile EXCEPT ![at] = t.sFile[n], ![n] = NULL]
       /\ r.fileCount = t.fileCount + 1
       /\ r.filedim = t.filedim + t.sFile[n].dim
  \/ r = t /\ \E at \in Range(s) : t.name[at] = t.name[n]

LEMMA Placed ==
  ASSUME NEW t, NEW s, NEW H, Sound(t, s, H), NEW n \in t.heap \ H,
         t.name[n] \in Names, t.sFile[n] # NULL,
         Range(s) = WithAFile(t) \ {n}
  PROVE  PlacedAs(Place(t, n), t, s, H, n)
<1> DEFINE r == Place(t, n)
           at == Descent(t, t.name[n])
<1>1. /\ t \in Shaped /\ Searching(t, H) /\ n \in Nodes \ H
      /\ H \in SUBSET Nodes /\ Range(s) \in SUBSET H
      /\ n \notin Range(s) /\ t.sFile[n] \in Files
      /\ t.fileCount \in Nat /\ t.filedim \in Nat
  <2>1. t \in Shaped
    BY DEF Sound
  <2> QED
    BY <2>1, SoundFacts DEF Sound, Shaped
<1>2. CASE t.root = NULL
  <2> DEFINE u == [t EXCEPT !.root = n]
  <2>1. /\ H = {} /\ Sound(u, s, {n}) /\ u.heap = t.heap
        /\ u.name = t.name /\ u.sFile = t.sFile
        /\ u.fileCount = t.fileCount /\ u.filedim = t.filedim
    BY <1>2, SoundRoot
  <2>2. r = insertToFrontLRU(u, n)
    BY <1>2 DEF Place
  <2> HIDE DEF u, r
  <2>3. LET v == insertToFrontLRU(u, n)
        IN /\ Sound(v, Append(s, n), {n}) /\ v.heap = u.heap /\ v.name = u.name
           /\ v.sFile = u.sFile /\ v.fileCount = u.fileCount + 1
           /\ v.filedim = u.filedim + u.sFile[n].dim
    BY <1>1, <2>1, SoundInsert
  <2>4. H \cup {n} = {n} /\ \A m \in H : t.name[m] # t.name[n]
    BY <2>1
  <2> QED
    BY <2>1, <2>2, <2>3, <2>4 DEF r, PlacedAs
<1>3. CASE t.root # NULL /\ t.name[at] # t.name[n]
  <2> DEFINE u == Attach(t, at, n)
  <2>1. /\ Sound(u, s, H \cup {n}) /\ u.heap = t.heap
        /\ u.name = t.name /\ u.sFile = t.sFile
        /\ u.fileCount = t.fileCount /\ u.filedim = t.filedim
    BY <1>3, SoundAttach
  <2>2. r = insertToFrontLRU(u, n)
    BY <1>3 DEF Place
  <2>3. \A m \in H : t.name[m] # t.name[n]
    <3>1. Searching(u, H \cup {n})
      BY <2>1 DEF Sound
    <3>2. \A m \in H \cup {n} : u.name[m] = u.name[n] => m = n
      BY <3>1, NamesDiffer
    <3> HIDE DEF u
    <3> QED
      BY <1>1, <2>1, <3>2
  <2> HIDE DEF u, r, at
  <2>4. LET v == insertToFrontLRU(u, n)
        IN /\ Sound(v, Append(s, n), H \cup {n})
           /\ v.heap = u.heap /\ v.name = u.name
           /\ v.sFile = u.sFile /\ v.fileCount = u.fileCount + 1
           /\ v.filedim = u.filedim + u.sFile[n].dim
    <3>1. n \in H \cup {n} /\ u.sFile[n] # NULL
      BY <2>1
    <3> QED
      BY <1>1, <2>1, <3>1, SoundInsert
  <2> QED
    BY <2>1, <2>2, <2>3, <2>4 DEF r, PlacedAs
<1>4. ASSUME t.root # NULL, t.name[at] = t.name[n] PROVE at \in H /\ at # n
  <2>1. H # {}
    BY <1>1, <1>4 DEF Searching
  <2> QED
    BY <1>1, <2>1, DescentEnds
<1>5. CASE t.root # NULL /\ t.name[at] = t.name[n] /\ t.sFile[at] = NULL
  <2> DEFINE u == [t EXCEPT !.sFile[at] = t.sFile[n]]
             v == destroyTreeNode(u, n)
  <2>1. r = insertToFrontLRU(v, at)
    BY <1>5 DEF Place
  <2>2. at \in H \ Range(s) /\ at \in Nodes /\ at # n
    BY <1>1, <1>4, <1>5 DEF WithAFile
  <2> HIDE DEF r, at
  <2>3. /\ Sound(u, s, H) /\ u.heap = t.heap /\ u.name = t.name
        /\ u.sFile = [t.sFile EXCEPT ![at] = t.sFile[n]]
        /\ u.fileCount = t.fileCount /\ u.filedim = t.filedim
    BY <1>1, <2>2, SoundFile
  <2> HIDE DEF u
  <2>4. /\ Sound(v, s, H) /\ v.heap = u.heap \ {n}
        /\ v.name = [u.name EXCEPT ![n] = NULL]
        /\ v.sFile = [u.sFile EXCEPT ![n] = NULL]
        /\ v.fileCount = u.fileCount /\ v.filedim = u.filedim
    <3>1. Sound(u, s, H) /\ n \in Nodes \ H
      BY <1>1, <2>3
    <3>2. Frees(u, s, H, n, destroyTreeNode(u, n))
      BY ONLY <3>1, SoundDestroy
    <3> HIDE DEF v
    <3>3. v = destroyTreeNode(u, n)
      BY DEF v
    <3> QED
      BY <3>2, <3>3 DEF Frees
  <2> HIDE DEF v
  <2>5. /\ v.sFile = [t.sFile EXCEPT ![at] = t.sFile[n], ![n] = NULL]
        /\ v.sFile[at] = t.sFile[n]
    BY <1>1, <2>2, <2>3, <2>4 DEF Shaped
  <2>6. LET w == insertToFrontLRU(v, at)
        IN /\ Sound(w, Append(s, at), H)
           /\ w.heap = v.heap /\ w.name = v.name
           /\ w.sFile = v.sFile /\ w.fileCount = v.fileCount + 1
           /\ w.filedim = v.filedim + v.sFile[at].dim
    <3>1. /\ Sound(v, s, H) /\ at \in H /\ at \notin Range(s)
          /\ v.sFile[at] # NULL
      BY <2>2, <2>4, <2>5
    <3> QED
      BY ONLY <3>1, SoundInsert
  <2> DEFINE Reused(m) ==
                 /\ Sound(r, Append(s, m), H) /\ r.heap = t.heap \ {n}
                 /\ t.name[m] = t.name[n]
                 /\ r.name = [t.name EXCEPT ![n] = NULL]
                 /\ r.sFile = [t.sFile EXCEPT ![m] = t.sFile[n], ![n] = NULL]
                 /\ r.fileCount = t.fileCount + 1
                 /\ r.filedim = t.filedim + t.sFile[n].dim
  <2>7. Reused(at)
    BY <1>5, <2>1, <2>3, <2>4, <2>5, <2>6 DEF at
  <2>8. \E m \in H \ Range(s) : Reused(m)
    <3> HIDE DEF Reused
    <3> QED
      BY <2>2, <2>7
  <2> QED
    BY <2>8 DEF r, PlacedAs
<1>6. CASE t.root # NULL /\ t.name[at] = t.name[n] /\ t.sFile[at] # NULL
  <2>1. r = t
    BY <1>6 DEF Place
  <2>2. at \in Range(s)
    BY <1>1, <1>4, <1>6 DEF WithAFile
  <2> HIDE DEF r, at
  <2> QED
    BY <1>6, <2>1, <2>2 DEF r, at, PlacedAs
<1> QED
  BY <1>2, <1>3, <1>5, <1>6

(* Between operations: the list holds the nodes that have a file, what is  *)
(* allocated can be found, the capacity is respected.                      *)
Holds(t, s) ==
  /\ Sound(t, s, t.heap) /\ Range(s) = WithAFile(t)
  /\ t.fileCount <= MaxFileNum /\ t.filedim <= MaxFileDim

(* The idle files are those of the list that nobody uses, in its order.    *)
LEMMA IdleFacts ==
  ASSUME NEW t, NEW s, Holds(t, s)
  PROVE  /\ OldestFirst(t) = s /\ Idle(t) = Without(s, Busy(t))
         /\ Idle(t) \in Seq(Nodes) /\ Distinct(Idle(t)) /\ Len(Idle(t)) \in Nat
         /\ Range(Idle(t)) = Range(s) \ Busy(t)
         /\ \A m \in 0..Len(Idle(t)) :
              /\ Pre(Idle(t), m) \in Seq(Nodes) /\ Distinct(Pre(Idle(t), m))
              /\ Range(Pre(Idle(t), m)) \subseteq Range(s) \ Busy(t)
              /\ Len(Pre(Idle(t), m)) = m
<1> DEFINE q == Idle(t)
<1>1. /\ OldestFirst(t) = s /\ s \in Seq(Nodes) /\ Distinct(s)
  BY SoundFacts DEF Holds
<1>2. q = Without(s, Busy(t))
  BY <1>1 DEF Idle
<1>3. q \in Seq(Nodes) /\ Distinct(q) /\ Range(q) = Range(s) \ Busy(t)
  BY <1>1, <1>2, WithoutFacts
<1> HIDE DEF q
<1>4. ASSUME NEW m \in 0..Len(q)
      PROVE  /\ Pre(q, m) \in Seq(Nodes) /\ Distinct(Pre(q, m))
             /\ Range(Pre(q, m)) \subseteq Range(q) /\ Len(Pre(q, m)) = m
  <2> DEFINE p == Pre(q, m)
  <2>1. p \in Seq(Nodes) /\ Len(p) = m /\ \A i \in 1..m : p[i] = q[i]
    BY <1>3, PrefixFacts
  <2>2. m \in Nat /\ \A i \in 1..m : i \in 1..Len(q)
    BY <1>3
  <2> HIDE DEF p
  <2>3. Distinct(p)
    BY <1>3, <2>1, <2>2 DEF Distinct
  <2>4. Range(p) \subseteq Range(q)
    BY <1>3, <2>1, <2>2 DEF Range
  <2> QED
    BY <2>1, <2>3, <2>4 DEF p
<1>5. Len(q) \in Nat
  BY <1>3
<1> QED
  BY <1>1, <1>2, <1>3, <1>4, <1>5 DEF q

(* The victims are the oldest idle files, no more than needed. *)
LEMMA Chosen ==
  ASSUME NEW t, NEW s, Holds(t, s), NEW nFile \in Nat, NEW space \in Int,
         makeSpace(t, nFile, space) # NULL
  PROVE  \E m \in nFile..Len(Idle(t)) :
           /\ makeSpace(t, nFile, space) = Pre(Idle(t), m)
           /\ Sum(t.sFile, Range(Pre(Idle(t), m))) >= space
           /\ \A j \in nFile..Len(Idle(t)) :
                j < m => ~(Sum(t.sFile, Range(Pre(Idle(t), j))) >= space)
<1> DEFINE q == Idle(t)
           enough == {k \in nFile..Len(q) :
                        Sum(t.sFile, Range(Pre(q, k))) >= space}
<1>1. makeSpace(t, nFile, space) =
        IF enough = {} THEN NULL ELSE Pre(q, Min(enough))
  BY SpaceIsSum DEF makeSpace, Pre
<1>2. Len(q) \in Nat
  BY IdleFacts
<1>3. enough \in SUBSET Nat
  BY <1>2
<1>4. enough # {}
  BY <1>1
<1> DEFINE m == Min(enough)
<1>5. m \in enough /\ \A y \in enough : m <= y
  <2> HIDE DEF enough
  <2> QED
    BY <1>3, <1>4, MinInSet
<1> HIDE DEF m
<1>6. makeSpace(t, nFile, space) = Pre(q, m)
  BY <1>1, <1>4 DEF m
<1>7. m \in nFile..Len(q) /\ Sum(t.sFile, Range(Pre(q, m))) >= space
  BY <1>5
<1>8. \A j \in nFile..Len(q) :
        j < m => ~(Sum(t.sFile, Range(Pre(q, j))) >= space)
  BY <1>2, <1>5, <1>7
<1> HIDE DEF enough, q
<1> QED
  BY <1>6, <1>7, <1>8 DEF q

(* The invariant holds at first, and after a removal (removeFile), a move  *)
(* to the front (the end of manageRequest) and a change of flagUse.        *)
LEMMA Empty ==
  ASSUME Init
  PROVE  Holds(tree, <<>>)
<1>1. /\ tree \in Shaped
  BY DEF Init, Shaped, Links, None
<1>2. Range(<<>>) = {} /\ <<>> \in Seq(Nodes) /\ Len(<<>>) = 0
      /\ Distinct(<<>>)
  BY DEF Range, Distinct
<1>3. Linked(tree, <<>>)
  BY <1>2 DEF Init, Linked
<1>4. Searching(tree, {})
  <2>1. \A n \in Nodes : tree.leftPtr[n] = NULL /\ tree.rightPtr[n] = NULL
    BY DEF Init, None
  <2>2. Grounded(tree)
    BY <2>1, NULLAssumption DEF Grounded
  <2> QED
    BY <2>1, <2>2 DEF Init, Searching
<1>5. tree.heap = {} /\ tree.fileCount = 0 /\ tree.filedim = 0
      /\ WithAFile(tree) = {}
  BY DEF Init, None, WithAFile
<1>6. Sum(tree.sFile, {}) = 0
  BY SumEmpty
<1>7. Sound(tree, <<>>, {})
  BY <1>1, <1>2, <1>3, <1>4, <1>5, <1>6 DEF Sound
<1> QED
  BY <1>2, <1>5, <1>7, CapacityAssumption DEF Holds

LEMMA Removed ==
  ASSUME NEW t, NEW s, Holds(t, s), NEW n \in Range(s)
  PROVE  LET r == Evict(t, n)
         IN /\ Holds(r, Without(s, {n})) /\ r.name = t.name /\ r.heap = t.heap
            /\ r.sFile = [t.sFile EXCEPT ![n] = NULL]
<1>1. /\ Sound(t, s, t.heap) /\ s \in Seq(Nodes) /\ Distinct(s)
      /\ t.filedim \in Nat /\ t.fileCount \in Nat /\ t.sFile[n].dim \in Nat
      /\ n \in Nodes /\ t.sFile \in [Nodes -> Files \cup {NULL}]
  <2>1. Sound(t, s, t.heap)
    BY DEF Holds
  <2> QED
    BY <2>1, SoundFacts DEF Sound, Shaped
<1>2. PICK k \in 1..Len(s) : n = s[k]
  BY <1>1 DEF Range
<1> DEFINE r == Evict(t, n)
<1>3. /\ Sound(r, Cut(s, k), t.heap) /\ r.heap = t.heap /\ r.name = t.name
      /\ r.sFile = [t.sFile EXCEPT ![n] = NULL]
      /\ r.fileCount = t.fileCount - 1
      /\ r.filedim = t.filedim - t.sFile[n].dim
  <2>1. Loses(t, s, t.heap, k, Evict(t, s[k]))
    BY <1>1, <1>2, SoundEvict
  <2> QED
    BY <1>2, <2>1 DEF Loses
<1>4. Cut(s, k) = Without(s, {n}) /\ Range(Cut(s, k)) = Range(s) \ {n}
  <2>1. Cut(s, k) = Without(s, {s[k]})
    BY <1>1, WithoutOne
  <2>2. Range(Cut(s, k)) = Range(s) \ {s[k]}
    BY <1>1, CutFacts
  <2> QED
    BY <1>2, <2>1, <2>2
<1> HIDE DEF r
<1>5. WithAFile(r) = WithAFile(t) \ {n}
  BY <1>1, <1>3 DEF WithAFile
<1>6. r.fileCount <= MaxFileNum /\ r.filedim <= MaxFileDim
  BY <1>1, <1>3, CapacityAssumption DEF Holds
<1>7. Holds(r, Cut(s, k))
  BY <1>3, <1>4, <1>5, <1>6 DEF Holds
<1> QED
  BY <1>3, <1>4, <1>7 DEF r

LEMMA Touched ==
  ASSUME NEW t, NEW s, Holds(t, s), NEW n \in Range(s)
  PROVE  LET r == moveToFrontLRU(t, n)
         IN /\ Holds(r, Append(Without(s, {n}), n))
            /\ r.name = t.name /\ r.heap = t.heap /\ r.sFile = t.sFile
<1>1. Sound(t, s, t.heap) /\ s \in Seq(Nodes) /\ Distinct(s)
  BY SoundFacts DEF Holds
<1>2. PICK k \in 1..Len(s) : n = s[k]
  BY <1>1 DEF Range
<1> DEFINE r == moveToFrontLRU(t, n)
<1>3. /\ Sound(r, PutLast(s, k), t.heap) /\ r.heap = t.heap /\ r.name = t.name
      /\ r.sFile = t.sFile
      /\ r.fileCount = t.fileCount /\ r.filedim = t.filedim
  BY <1>1, <1>2, SoundMove
<1>4. /\ PutLast(s, k) = Append(Without(s, {n}), n)
      /\ Range(PutLast(s, k)) = Range(s)
  <2>1. Cut(s, k) = Without(s, {s[k]})
    BY <1>1, WithoutOne
  <2>2. Range(PutLast(s, k)) = Range(s)
    BY <1>1, LastFacts
  <2> QED
    BY <1>2, <2>1, <2>2 DEF PutLast
<1> HIDE DEF r
<1>5. Holds(r, PutLast(s, k))
  BY <1>3, <1>4 DEF Holds, WithAFile
<1> QED
  BY <1>3, <1>4, <1>5 DEF r

LEMMA Used ==
  ASSUME NEW t, NEW s, Holds(t, s), NEW n \in Range(s)
  PROVE  LET r == [t EXCEPT !.sFile[n].flagUse = ~@]
         IN /\ Holds(r, s) /\ r.name = t.name /\ r.heap = t.heap
            /\ r.sFile = [t.sFile EXCEPT ![n].flagUse = ~@]
<1>1. /\ Sound(t, s, t.heap) /\ n \in Nodes /\ t.sFile[n] \in Files
      /\ t.sFile \in [Nodes -> Files \cup {NULL}] /\ t \in Shaped
  <2>1. Sound(t, s, t.heap)
    BY DEF Holds
  <2> QED
    BY <2>1, SoundFacts DEF Sound, Shaped
<1> DEFINE file == [t.sFile[n] EXCEPT !.flagUse = ~@]
           r == [t EXCEPT !.sFile[n].flagUse = ~@]
<1>2. file \in Files /\ file.dim = t.sFile[n].dim /\ file # NULL
  BY <1>1, NULLAssumption DEF Files
<1>3. r = [t EXCEPT !.sFile[n] = file]
  BY <1>1 DEF Shaped
<1> HIDE DEF file, r
<1>4. LET u == [t EXCEPT !.sFile[n] = file]
      IN /\ Sound(u, s, t.heap) /\ u.heap = t.heap /\ u.name = t.name
         /\ u.sFile = [t.sFile EXCEPT ![n] = file]
         /\ u.fileCount = t.fileCount /\ u.filedim = t.filedim
  BY <1>1, <1>2, SoundFile
<1>5. WithAFile(r) = WithAFile(t)
  BY <1>1, <1>2, <1>3, <1>4, NULLAssumption DEF WithAFile
<1>6. Holds(r, s)
  BY <1>3, <1>4, <1>5 DEF Holds
<1> QED
  BY <1>3, <1>4, <1>6 DEF r, file

(* An append: the victims are the oldest idle files, as few as make room,  *)
(* the file grows, the rest stays.                                         *)
LEMMA Appended ==
  ASSUME NEW s, Holds(tree, s), NEW n, NEW size \in Nat, n \in Nodes,
         AppendToFile(n, size)
  PROVE  \E m \in 0..Len(Idle(tree)) :
           LET gone == Range(Pre(Idle(tree), m))
               missing == tree.filedim + size - MaxFileDim
           IN /\ Holds(tree', Without(s, gone))
              /\ tree'.heap = tree.heap /\ tree'.name = tree.name
              /\ n \in Range(s) \ gone
              /\ \A x \in Nodes : tree'.sFile[x] =
                   IF x \in gone THEN NULL
                   ELSE IF x = n THEN [tree.sFile[n] EXCEPT !.dim = @ + size]
                   ELSE tree.sFile[x]
              /\ Sum(tree.sFile, gone) >= missing
              /\ \A j \in 0..Len(Idle(tree)) :
                   j < m => ~(Sum(tree.sFile, Range(Pre(Idle(tree), j))) >= missing)
<1> DEFINE q == Idle(tree)
           missing == tree.filedim + size - MaxFileDim
           victims == IF missing > 0 THEN makeSpace(tree, 0, missing) ELSE <<>>
<1>1. /\ HasFile(n) /\ tree.sFile[n].flagUse /\ victims # NULL
      /\ tree' = [EvictAll(tree, victims) EXCEPT !.sFile[n].dim = @ + size,
                                                 !.filedim = @ + size]
  BY DEF AppendToFile
<1>2. /\ Sound(tree, s, tree.heap) /\ tree.filedim \in Nat /\ missing \in Int
      /\ s \in Seq(Nodes) /\ Distinct(s) /\ IsFiniteSet(Range(s))
      /\ \A x \in Range(s) : tree.sFile[x] \in Files /\ tree.sFile[x].dim \in Nat
      /\ Range(s) = WithAFile(tree)
  <2>1. Sound(tree, s, tree.heap)
    BY DEF Holds
  <2> QED
    BY <2>1, SoundFacts, CapacityAssumption DEF Holds
<1>3. n \in Range(s) /\ n \in Busy(tree)
  BY <1>1, <1>2 DEF HasFile, WithAFile, Busy
<1>4. \E m \in 0..Len(q) :
        /\ victims = Pre(q, m)
        /\ Sum(tree.sFile, Range(Pre(q, m))) >= missing
        /\ \A j \in 0..Len(q) :
             j < m => ~(Sum(tree.sFile, Range(Pre(q, j))) >= missing)
  <2>1. CASE missing > 0
    <3>1. makeSpace(tree, 0, missing) # NULL /\ victims = makeSpace(tree, 0, missing)
      BY <1>1, <2>1
    <3> HIDE DEF missing, q, victims
    <3>2. 0 \in Nat
      OBVIOUS
    <3>3. \E m \in 0..Len(q) :
           /\ makeSpace(tree, 0, missing) = Pre(q, m)
           /\ Sum(tree.sFile, Range(Pre(q, m))) >= missing
           /\ \A j \in 0..Len(q) :
                j < m => ~(Sum(tree.sFile, Range(Pre(q, j))) >= missing)
      BY <1>2, <3>1, <3>2, Chosen DEF q
    <3> QED
      BY <3>1, <3>3
  <2>2. CASE ~(missing > 0)
    <3>1. q \in Seq(Nodes) /\ Len(q) \in Nat
      BY IdleFacts
    <3> HIDE DEF q
    <3>2. Pre(q, 0) = <<>> /\ Range(<<>>) = {}
      BY <3>1, PrefixFacts DEF Range
    <3>3. Sum(tree.sFile, {}) = 0
      BY SumEmpty
    <3>4. Sum(tree.sFile, Range(Pre(q, 0))) >= missing
      <4>1. missing \in Int /\ ~(missing > 0)
        BY <1>2, <2>2
      <4> HIDE DEF missing
      <4>2. 0 >= missing
        BY <4>1
      <4> QED
        BY <3>2, <3>3, <4>2
    <3>5. victims = Pre(q, 0)
      BY <2>2, <3>2
    <3>6. 0 \in 0..Len(q) /\ \A j \in 0..Len(q) : ~(j < 0)
      BY <3>1
    <3> HIDE DEF victims, missing
    <3> QED
      BY <3>4, <3>5, <3>6
  <2> QED
    BY <2>1, <2>2
<1> HIDE DEF victims
<1>5. PICK m \in 0..Len(q) :
        /\ victims = Pre(q, m)
        /\ Sum(tree.sFile, Range(Pre(q, m))) >= missing
        /\ \A j \in 0..Len(q) :
             j < m => ~(Sum(tree.sFile, Range(Pre(q, j))) >= missing)
  BY <1>4
<1> DEFINE v == Pre(q, m)
           gone == Range(v)
           t == EvictAll(tree, v)
           w == Without(s, gone)
<1>6. /\ v \in Seq(Nodes) /\ Distinct(v)
      /\ gone \subseteq Range(s) \ Busy(tree)
  BY <1>5, IdleFacts
<1>7. /\ Sound(t, w, tree.heap)
      /\ t.heap = tree.heap /\ t.name = tree.name
      /\ \A x \in Nodes : t.sFile[x] = IF x \in gone THEN NULL
                                       ELSE tree.sFile[x]
      /\ t.filedim = tree.filedim - Sum(tree.sFile, gone)
  <2> HIDE DEF v
  <2> QED
    BY <1>2, <1>6, SoundEvictAll
<1>8. /\ Range(w) = Range(s) \ gone /\ w \in Seq(Nodes) /\ Distinct(w)
      /\ n \in Range(w) /\ n \in Nodes
  BY <1>2, <1>3, <1>6, WithoutFacts
<1>9. tree' = Grown(t, n, size)
  BY <1>1, <1>5 DEF Grown
<1> HIDE DEF v, t, w, gone, q
<1>10. /\ Sound(tree', w, tree.heap) /\ tree'.heap = t.heap /\ tree'.name = t.name
       /\ \A x \in Nodes : tree'.sFile[x] =
            IF x = n THEN [t.sFile[n] EXCEPT !.dim = @ + size] ELSE t.sFile[x]
       /\ tree'.fileCount = t.fileCount /\ tree'.filedim = t.filedim + size
  <2>1. Sound(t, w, tree.heap) /\ n \in Range(w) /\ size \in Nat
    BY <1>7, <1>8
  <2> QED
    BY ONLY <1>9, <2>1, SoundGrow
<1>11. \A x \in Nodes : tree'.sFile[x] =
         IF x \in gone THEN NULL
         ELSE IF x = n THEN [tree.sFile[n] EXCEPT !.dim = @ + size]
         ELSE tree.sFile[x]
  <2>1. t \in Shaped /\ n \notin gone
    BY <1>7, <1>8 DEF Sound
  <2>2. t.sFile \in [Nodes -> Files \cup {NULL}]
    BY <2>1 DEF Shaped
  <2> QED
    BY <1>7, <1>8, <1>10, <2>1, <2>2
<1>12. WithAFile(tree') = Range(w)
  <2>1. \A x \in Nodes : tree'.sFile[x] # NULL <=> x \in Range(w)
    <3> SUFFICES ASSUME NEW x \in Nodes
                 PROVE  tree'.sFile[x] # NULL <=> x \in Range(w)
      OBVIOUS
    <3>1. [tree.sFile[n] EXCEPT !.dim = @ + size] \in Files
      BY <1>2, <1>3 DEF Files
    <3>2. x \in Range(s) <=> tree.sFile[x] # NULL
      BY <1>2 DEF WithAFile
    <3> QED
      BY <1>3, <1>8, <1>11, <3>1, <3>2, NULLAssumption
  <2>2. Range(w) \subseteq Nodes
    BY <1>8 DEF Range
  <2> QED
    BY <2>1, <2>2 DEF WithAFile
<1>13. tree'.fileCount <= MaxFileNum
  <2>1. /\ Cardinality(Range(w)) = Len(w) /\ Cardinality(Range(s)) = Len(s)
        /\ Cardinality(Range(w)) <= Cardinality(Range(s))
        /\ Len(w) \in Nat /\ Len(s) \in Nat
    <3>1. Range(w) \in SUBSET Range(s)
      BY <1>8
    <3>2. /\ Cardinality(Range(w)) = Len(w) /\ Cardinality(Range(s)) = Len(s)
          /\ Len(w) \in Nat /\ Len(s) \in Nat
      <4>1. Cardinality(Range(w)) = Len(w)
        BY <1>8, DistinctCount
      <4>2. Cardinality(Range(s)) = Len(s)
        BY <1>2, DistinctCount
      <4> QED
        BY <1>2, <1>8, <4>1, <4>2
    <3>3. Cardinality(Range(w)) <= Cardinality(Range(s))
      BY <1>2, <3>1, FS_Subset
    <3> QED
      BY <3>2, <3>3
  <2>2. tree'.fileCount = Len(w) /\ tree.fileCount = Len(s)
    BY <1>2, <1>10 DEF Sound
  <2> QED
    BY <2>1, <2>2, CapacityAssumption DEF Holds
<1>14. tree'.filedim <= MaxFileDim
  <2>1. Sum(tree.sFile, gone) \in Nat
    <3>1. gone \in SUBSET Range(s)
      BY <1>6
    <3>2. IsFiniteSet(gone)
      BY <1>2, <3>1, FS_Subset
    <3> QED
      BY <1>2, <3>1, <3>2, SumNat
  <2>2. Sum(tree.sFile, gone) >= missing
    BY <1>5 DEF gone, v
  <2> QED
    BY <1>2, <1>7, <1>10, <2>1, <2>2, CapacityAssumption
<1>15. Holds(tree', w)
  BY <1>7, <1>10, <1>12, <1>13, <1>14 DEF Holds
<1>16. n \in Range(s) \ gone
  BY <1>8
<1> HIDE DEF missing
<1>17. /\ Holds(tree', Without(s, gone))
       /\ tree'.heap = tree.heap /\ tree'.name = tree.name
       /\ Sum(tree.sFile, gone) >= missing
       /\ \A j \in 0..Len(q) :
            j < m => ~(Sum(tree.sFile, Range(Pre(q, j))) >= missing)
  BY <1>5, <1>7, <1>10, <1>15 DEF gone, v, w
<1> QED
  BY <1>5, <1>11, <1>16, <1>17 DEF gone, v, q, missing

(* A tree in which there is room, with the new node n beside it *)
Roomy(r, base, H, n, name, file) ==
  /\ Sound(r, base, H) /\ r.heap = H \cup {n} /\ n \in Nodes \ H
  /\ r.name[n] = name /\ r.sFile[n] = file
  /\ \A m \in H : r.name[m] = tree.name[m]
  /\ Range(base) = WithAFile(r) \ {n}
  /\ r.fileCount < MaxFileNum /\ r.filedim + file.dim <= MaxFileDim

(* The oldest idle file goes when the store is full. *)
LEMMA MadeRoom ==
  ASSUME NEW s, Holds(tree, s), NEW name \in Names, NEW locked \in BOOLEAN,
         TreeFileinsert(name, locked)
  PROVE  LET n == CHOOSE n \in Nodes : n \notin tree.heap
             file == [dim |-> 0, flagUse |-> ~locked]
             new == newTreeNode(tree, n, name, file)
             full == tree.fileCount = MaxFileNum
             victim == Head(Idle(tree))
             base == IF full THEN Without(s, {victim}) ELSE s
             room == IF full THEN Evict(new, victim) ELSE new
         IN /\ Roomy(room, base, tree.heap, n, name, file)
            /\ \A m \in tree.heap : room.sFile[m] =
                 IF full /\ m = victim THEN NULL ELSE tree.sFile[m]
            /\ full => /\ Idle(tree) # <<>> /\ victim \in Range(s)
                       /\ ~tree.sFile[victim].flagUse
                       /\ room.filedim = tree.filedim - tree.sFile[victim].dim
            /\ LET placed == Place(room, n)
               IN tree' = IF placed # room THEN placed
                          ELSE destroyTreeNode(
                                 IF full THEN Return(room, victim) ELSE room, n)
<1> DEFINE n == CHOOSE n \in Nodes : n \notin tree.heap
           file == [dim |-> 0, flagUse |-> ~locked]
           new == newTreeNode(tree, n, name, file)
           full == tree.fileCount = MaxFileNum
           victim == Head(Idle(tree))
           base == IF full THEN Without(s, {victim}) ELSE s
           room == IF full THEN Evict(new, victim) ELSE new
           H == tree.heap
<1>1. /\ Sound(tree, s, H) /\ H \in SUBSET Nodes /\ H # Nodes
      /\ s \in Seq(Nodes) /\ Distinct(s) /\ Len(s) \in Nat
      /\ tree.filedim \in Nat /\ tree.fileCount \in Nat
      /\ \A m \in Range(s) : tree.sFile[m] \in Files /\ tree.sFile[m].dim \in Nat
      /\ Range(s) = WithAFile(tree) /\ Range(s) \in SUBSET H /\ tree \in Shaped
  <2>1. Sound(tree, s, H)
    BY DEF Holds
  <2> QED
    BY <2>1, SoundFacts DEF Holds, Sound
<1>2. n \in Nodes \ H
  BY <1>1
<1>3. file \in Files /\ file.dim = 0 /\ file # NULL
  <2> DEFINE b == ~locked
  <2>1. b \in BOOLEAN
    OBVIOUS
  <2> HIDE DEF b
  <2>2. [dim |-> 0, flagUse |-> b] \in Files
    BY <2>1 DEF Files
  <2> QED
    BY <2>2, NULLAssumption DEF b
<1> HIDE DEF n, file
<1>4. /\ Sound(new, s, H) /\ new.heap = H \cup {n}
      /\ new.name = [tree.name EXCEPT ![n] = name]
      /\ new.sFile = [tree.sFile EXCEPT ![n] = file]
      /\ new.fileCount = tree.fileCount /\ new.filedim = tree.filedim
  BY <1>1, <1>2, <1>3, SoundNew
<1>5. /\ new.name[n] = name /\ new.sFile[n] = file
      /\ \A m \in H : new.name[m] = tree.name[m] /\ new.sFile[m] = tree.sFile[m]
      /\ \A m \in Nodes : new.sFile[m] = IF m = n THEN file ELSE tree.sFile[m]
      /\ new.sFile \in [Nodes -> Files \cup {NULL}]
  BY <1>1, <1>2, <1>3, <1>4 DEF Shaped
<1> HIDE DEF new
<1>6. ASSUME full
      PROVE  /\ Idle(tree) # <<>> /\ victim \in Range(s)
             /\ Head(makeSpace(tree, 1, 0)) = victim
             /\ ~tree.sFile[victim].flagUse
  <2>1. makeSpace(tree, 1, 0) # NULL
    BY <1>6 DEF TreeFileinsert
  <2> DEFINE q == Idle(tree)
  <2>2. PICK m \in 1..Len(q) : makeSpace(tree, 1, 0) = Pre(q, m)
    <3>1. 1 \in Nat /\ 0 \in Int
      OBVIOUS
    <3> QED
      BY <2>1, <3>1, Chosen
  <2>3. /\ q \in Seq(Nodes) /\ Len(q) \in Nat /\ Range(q) = Range(s) \ Busy(tree)
    BY IdleFacts
  <2> HIDE DEF q
  <2>4. /\ Pre(q, m) \in Seq(Nodes) /\ Len(Pre(q, m)) = m /\ Pre(q, m)[1] = q[1]
    BY <2>3, PrefixFacts
  <2>5. q # <<>> /\ Head(q) = q[1] /\ q[1] \in Range(q)
    BY <2>3 DEF Range
  <2>6. Head(Pre(q, m)) = q[1]
    BY <2>3, <2>4
  <2>7. q[1] \in Range(s) /\ ~tree.sFile[q[1]].flagUse
    BY <1>1, <2>3, <2>5 DEF Busy
  <2> QED
    BY <2>2, <2>5, <2>6, <2>7 DEF q
<1>7. LET placed == Place(room, n)
      IN tree' = IF placed # room THEN placed
                 ELSE destroyTreeNode(
                        IF full THEN Return(room, victim) ELSE room, n)
  <2> DEFINE v == Head(makeSpace(tree, 1, 0))
             R(x) == IF full THEN Evict(new, x) ELSE new
  <2>1. tree' = IF Place(R(v), n) # R(v) THEN Place(R(v), n)
                ELSE destroyTreeNode(IF full THEN Return(R(v), v) ELSE R(v), n)
    BY DEF TreeFileinsert, n, new, file
  <2>2. CASE full
    <3>1. v = victim
      BY <1>6, <2>2
    <3> HIDE DEF v, victim
    <3> QED
      BY <2>1, <3>1
  <2>3. CASE ~full
    BY <2>1, <2>3
  <2> QED
    BY <2>2, <2>3
<1>8. CASE ~full
  <2>1. room = new /\ base = s
    BY <1>8
  <2>2. Range(s) = WithAFile(new) \ {n}
    BY <1>1, <1>2, <1>5 DEF WithAFile
  <2>3. new.fileCount < MaxFileNum /\ new.filedim + file.dim <= MaxFileDim
    BY <1>1, <1>3, <1>4, <1>8, CapacityAssumption DEF Holds
  <2>4. Roomy(new, s, H, n, name, file)
    BY <1>2, <1>4, <1>5, <2>2, <2>3 DEF Roomy
  <2> HIDE DEF room, base, victim
  <2> QED
    BY <1>5, <1>7, <1>8, <2>1, <2>4 DEF n, file, new, room, base, victim
<1>9. CASE full
  <2>1. room = Evict(new, victim) /\ base = Without(s, {victim})
    BY <1>9
  <2>2. /\ Idle(tree) # <<>> /\ victim \in Range(s) /\ ~tree.sFile[victim].flagUse
        /\ victim \in H /\ victim # n /\ victim \in Nodes
        /\ tree.sFile[victim].dim \in Nat
    BY <1>1, <1>2, <1>6, <1>9
  <2>3. PICK k \in 1..Len(s) : victim = s[k]
    BY <1>1, <2>2 DEF Range
  <2> HIDE DEF victim, room, base
  <2>4. /\ Sound(room, Cut(s, k), H) /\ room.heap = new.heap
        /\ room.name = new.name
        /\ room.sFile = [new.sFile EXCEPT ![victim] = NULL]
        /\ room.fileCount = new.fileCount - 1
        /\ room.filedim = new.filedim - new.sFile[victim].dim
    <3> DEFINE r == Evict(new, s[k])
    <3>1. Sound(new, s, H) /\ k \in 1..Len(s)
      BY <1>4, <2>3
    <3> HIDE DEF H, new
    <3>2. Loses(new, s, H, k, r)
      BY ONLY <3>1, SoundEvict DEF r
    <3>3. /\ Sound(r, Cut(s, k), H) /\ r.heap = new.heap
          /\ r.name = new.name
          /\ r.sFile = [new.sFile EXCEPT ![s[k]] = NULL]
          /\ r.fileCount = new.fileCount - 1
          /\ r.filedim = new.filedim - new.sFile[s[k]].dim
      BY <3>2 DEF Loses
    <3> QED
      BY <2>1, <2>3, <3>3
  <2>5. base = Cut(s, k) /\ Range(base) = Range(s) \ {victim}
    <3>1. s \in Seq(Nodes) /\ Distinct(s)
      BY <1>1
    <3>2. Without(s, {s[k]}) = Cut(s, k)
      BY <3>1, WithoutOne
    <3>3. Range(Cut(s, k)) = Range(s) \ {s[k]}
      BY <3>1, CutFacts
    <3> QED
      BY <2>1, <2>3, <3>2, <3>3
  <2>6. \A m \in Nodes : room.sFile[m] =
          IF m = victim THEN NULL ELSE IF m = n THEN file ELSE tree.sFile[m]
    BY <1>5, <2>2, <2>4
  <2>7. Range(base) = WithAFile(room) \ {n}
    BY <1>1, <1>2, <2>2, <2>5, <2>6 DEF WithAFile
  <2>8. room.fileCount < MaxFileNum /\ room.filedim + file.dim <= MaxFileDim
        /\ room.filedim = tree.filedim - tree.sFile[victim].dim
    BY <1>1, <1>3, <1>4, <1>5, <1>9, <2>2, <2>4, CapacityAssumption DEF Holds
  <2>9. Roomy(room, base, H, n, name, file)
    BY <1>2, <1>4, <1>5, <2>2, <2>4, <2>5, <2>6, <2>7, <2>8 DEF Roomy
  <2>10. \A m \in H : room.sFile[m] = IF m = victim THEN NULL ELSE tree.sFile[m]
    BY <1>1, <1>2, <2>6
  <2> QED
    BY <1>7, <1>9, <2>2, <2>8, <2>9, <2>10 DEF n, file, new, room, base, victim
<1> QED
  BY <1>8, <1>9

(* A new file is the newest, in the place of the victim in a full tree; or *)
(* the name exists and a victim has been used, nothing else.               *)
NewFileAs(r, t, base, name, file) ==
  \E x \in Nodes \ Range(base) :
    /\ Holds(r, Append(base, x)) /\ r.name[x] = name /\ r.sFile[x] = file
    /\ \A m \in Range(base) : r.name[m] = t.name[m] /\ r.sFile[m] = t.sFile[m]
ExistsAs(r, t, s, base, name, full, victim) ==
  /\ \E at \in Range(base) : t.name[at] = name
  /\ \A m \in t.heap : r.name[m] = t.name[m]
  /\ IF full
     THEN /\ Holds(r, Append(base, victim))
          /\ \A m \in t.heap : r.sFile[m] =
               IF m = victim THEN [t.sFile[victim] EXCEPT !.flagUse = TRUE]
               ELSE t.sFile[m]
     ELSE Holds(r, s) /\ \A m \in t.heap : r.sFile[m] = t.sFile[m]
InsertedAs(r, t, s, name, locked) ==
  LET full == t.fileCount = MaxFileNum
      victim == Head(Idle(t))
      base == IF full THEN Without(s, {victim}) ELSE s
  IN /\ full => Idle(t) # <<>> /\ victim \in Range(s)
     /\ \/ NewFileAs(r, t, base, name, [dim |-> 0, flagUse |-> ~locked])
        \/ ExistsAs(r, t, s, base, name, full, victim)

(* What a step of treeFileInsert may do is one of these. *)
LEMMA Inserted ==
  ASSUME NEW s, Holds(tree, s), NEW name \in Names, NEW locked \in BOOLEAN,
         TreeFileinsert(name, locked)
  PROVE  InsertedAs(tree', tree, s, name, locked)
<1> DEFINE n == CHOOSE n \in Nodes : n \notin tree.heap
           file == [dim |-> 0, flagUse |-> ~locked]
           new == newTreeNode(tree, n, name, file)
           full == tree.fileCount = MaxFileNum
           victim == Head(Idle(tree))
           base == IF full THEN Without(s, {victim}) ELSE s
           room == IF full THEN Evict(new, victim) ELSE new
           H == tree.heap
           placed == Place(room, n)
<1>1. /\ Roomy(room, base, H, n, name, file)
      /\ \A m \in H : room.sFile[m] =
           IF full /\ m = victim THEN NULL ELSE tree.sFile[m]
      /\ full => /\ Idle(tree) # <<>> /\ victim \in Range(s)
                 /\ ~tree.sFile[victim].flagUse
                 /\ room.filedim = tree.filedim - tree.sFile[victim].dim
      /\ tree' = IF placed # room THEN placed
                 ELSE destroyTreeNode(
                        IF full THEN Return(room, victim) ELSE room, n)
  BY MadeRoom
<1>2. /\ Sound(tree, s, H) /\ H \in SUBSET Nodes
      /\ s \in Seq(Nodes) /\ Distinct(s)
      /\ tree.filedim \in Nat /\ tree.fileCount \in Nat
      /\ \A m \in Range(s) : tree.sFile[m] \in Files
      /\ Range(s) = WithAFile(tree) /\ Range(s) \in SUBSET H /\ tree \in Shaped
  <2>1. Sound(tree, s, H)
    BY DEF Holds
  <2> QED
    BY <2>1, SoundFacts DEF Holds, Sound
<1>3. file.dim = 0
  OBVIOUS
<1>4. full => Range(base) = Range(s) \ {victim}
  BY <1>2, WithoutFacts
<1>5. ~full => base = s
  OBVIOUS
<1> HIDE DEF n, new, room, placed, base, victim
<1>6. file # NULL /\ file.dim = 0
  <2>1. file \in Files
    <3> DEFINE b == ~locked
    <3>1. b \in BOOLEAN
      OBVIOUS
    <3> HIDE DEF b
    <3>2. [dim |-> 0, flagUse |-> b] \in Files
      BY <3>1 DEF Files
    <3> QED
      BY <3>2 DEF b
  <2> QED
    BY <1>3, <2>1, NULLAssumption
<1> HIDE DEF file
<1>7. /\ Sound(room, base, H) /\ room.heap = H \cup {n} /\ n \in Nodes \ H
      /\ room.name[n] = name /\ room.sFile[n] = file
      /\ \A m \in H : room.name[m] = tree.name[m]
      /\ Range(base) = WithAFile(room) \ {n}
      /\ room.fileCount < MaxFileNum /\ room.filedim <= MaxFileDim
      /\ room.fileCount \in Nat /\ room.filedim \in Nat
      /\ room \in Shaped
      /\ Range(base) \in SUBSET H
  <2>1. Sound(room, base, H) /\ room.filedim + file.dim <= MaxFileDim
    BY <1>1 DEF Roomy
  <2>2. room.fileCount \in Nat /\ room.filedim \in Nat
        /\ room \in Shaped /\ Range(base) \in SUBSET H
    BY <2>1, SoundFacts DEF Sound
  <2>3. room.filedim <= MaxFileDim
    BY <1>6, <2>1, <2>2, CapacityAssumption
  <2> QED
    BY <1>1, <2>1, <2>2, <2>3 DEF Roomy
<1>8. \A m \in Range(base) : m \in H /\ m \in Nodes /\ room.sFile[m] = tree.sFile[m]
  BY <1>1, <1>2, <1>4, <1>5, <1>7
<1> DEFINE Fresh(r, q, K) ==
             /\ Sound(r, q, K) /\ r.fileCount = room.fileCount + 1
             /\ r.filedim = room.filedim + file.dim
<1>9. ASSUME NEW r, NEW x, NEW K, Fresh(r, Append(base, x), K), r.heap = K,
             x \in Nodes \ Range(base),
             \A m \in Nodes : r.sFile[m] # NULL <=> m = x \/ m \in Range(base)
      PROVE  Holds(r, Append(base, x))
  <2>1. r.fileCount <= MaxFileNum /\ r.filedim <= MaxFileDim
    BY <1>6, <1>7, <1>9, CapacityAssumption
  <2>2. base \in Seq(Nodes) /\ Distinct(base)
    BY <1>7, SoundFacts
  <2>3. Range(Append(base, x)) = Range(base) \cup {x}
    BY <1>9, <2>2, AppendDistinct
  <2>4. Range(base) \cup {x} = WithAFile(r)
    BY <1>8, <1>9 DEF WithAFile
  <2> QED
    BY <1>9, <2>1, <2>3, <2>4 DEF Holds
<1>10. \A m \in Nodes : room.sFile[m] # NULL <=> m = n \/ m \in Range(base)
  BY <1>6, <1>7 DEF WithAFile
<1> DEFINE NewFile(x) ==
             /\ Holds(tree', Append(base, x)) /\ tree'.name[x] = name
             /\ tree'.sFile[x] = file
             /\ \A m \in Range(base) : /\ tree'.name[m] = tree.name[m]
                                       /\ tree'.sFile[m] = tree.sFile[m]
           Old ==
             /\ \E at \in Range(base) : tree.name[at] = name
             /\ \A m \in H : tree'.name[m] = tree.name[m]
             /\ IF full
                THEN /\ Holds(tree', Append(base, victim))
                     /\ \A m \in H : tree'.sFile[m] =
                          IF m = victim
                          THEN [tree.sFile[victim] EXCEPT !.flagUse = TRUE]
                          ELSE tree.sFile[m]
                ELSE /\ Holds(tree', s)
                     /\ \A m \in H : tree'.sFile[m] = tree.sFile[m]
<1>11. ASSUME Fresh(placed, Append(base, n), H \cup {n}),
              placed.heap = room.heap, placed.name = room.name,
              placed.sFile = room.sFile
       PROVE  n \in Nodes \ Range(base) /\ NewFile(n)
  <2>1. tree' = placed
    BY <1>1, <1>7, <1>11
  <2>2. n \in Nodes \ Range(base)
    BY <1>7
  <2>3. \A m \in Nodes : placed.sFile[m] # NULL <=> m = n \/ m \in Range(base)
    BY <1>10, <1>11
  <2> HIDE DEF Fresh
  <2>4. Holds(placed, Append(base, n))
    BY <1>7, <1>9, <1>11, <2>2, <2>3
  <2> QED
    BY <1>7, <1>8, <1>11, <2>1, <2>2, <2>4
<1>12. ASSUME NEW at \in H \ Range(base),
              Fresh(placed, Append(base, at), H),
              placed.heap = room.heap \ {n}, room.name[at] = room.name[n],
              placed.name = [room.name EXCEPT ![n] = NULL],
              placed.sFile = [room.sFile EXCEPT ![at] = room.sFile[n], ![n] = NULL]
       PROVE  at \in Nodes \ Range(base) /\ NewFile(at)
  <2>1. tree' = placed
    BY <1>1, <1>7, <1>12
  <2>2. at \in Nodes \ Range(base) /\ at # n /\ placed.heap = H
        /\ at \in H /\ n \in Nodes \ H
    BY <1>2, <1>7, <1>12
  <2>3. /\ \A m \in Nodes : placed.sFile[m] = IF m = n THEN NULL
                              ELSE IF m = at THEN file ELSE room.sFile[m]
        /\ \A m \in H : placed.name[m] = room.name[m]
    <3>1. /\ room.sFile \in [Nodes -> Files \cup {NULL}]
          /\ room.name \in [Nodes -> Names \cup {NULL}]
      BY <1>7 DEF Shaped
    <3> QED
      BY <1>2, <1>7, <1>12, <2>2, <3>1
  <2>4. \A m \in Nodes : placed.sFile[m] # NULL <=> m = at \/ m \in Range(base)
    BY <1>6, <1>7, <1>10, <2>2, <2>3
  <2>5. Holds(placed, Append(base, at))
    <3> HIDE DEF Fresh
    <3> QED
      BY <1>9, <1>12, <2>2, <2>4
  <2>6. placed.name[at] = name /\ placed.sFile[at] = file
    BY <1>7, <1>12, <2>2, <2>3
  <2>7. \A m \in Range(base) : /\ placed.name[m] = tree.name[m]
                               /\ placed.sFile[m] = tree.sFile[m]
    BY <1>7, <1>8, <2>2, <2>3
  <2> QED
    BY <2>1, <2>2, <2>5, <2>6, <2>7
<1>13. ASSUME placed = room, \E at \in Range(base) : room.name[at] = room.name[n]
       PROVE  Old
  <2>1. \E at \in Range(base) : tree.name[at] = name
    BY <1>7, <1>8, <1>13
  <2>2. CASE ~full
    <3>1. tree' = destroyTreeNode(room, n)
      BY <1>1, <1>13, <2>2
    <3>2. LET r == destroyTreeNode(room, n)
          IN /\ Sound(r, base, H) /\ r.heap = room.heap \ {n}
             /\ r.name = [room.name EXCEPT ![n] = NULL]
             /\ r.sFile = [room.sFile EXCEPT ![n] = NULL]
             /\ r.fileCount = room.fileCount /\ r.filedim = room.filedim
      <4>1. Frees(room, base, H, n, destroyTreeNode(room, n))
        BY <1>7, SoundDestroy
      <4> QED
        BY <4>1 DEF Frees
    <3>3. /\ Sound(tree', s, H) /\ tree'.heap = H
          /\ tree'.name = [room.name EXCEPT ![n] = NULL]
          /\ tree'.sFile = [room.sFile EXCEPT ![n] = NULL]
          /\ tree'.fileCount <= MaxFileNum /\ tree'.filedim <= MaxFileDim
      BY <1>5, <1>7, <2>2, <3>1, <3>2, CapacityAssumption
    <3>4. /\ \A m \in H : tree'.name[m] = tree.name[m]
          /\ \A m \in Nodes : tree'.sFile[m] = IF m = n THEN NULL ELSE room.sFile[m]
      <4>1. /\ room.sFile \in [Nodes -> Files \cup {NULL}]
            /\ room.name \in [Nodes -> Names \cup {NULL}]
        BY <1>7 DEF Shaped
      <4> QED
        BY <1>2, <1>7, <3>3, <4>1
    <3>5. Range(s) = WithAFile(tree')
      BY <1>2, <1>5, <1>7, <1>10, <2>2, <3>4 DEF WithAFile
    <3>6. \A m \in H : tree'.sFile[m] = tree.sFile[m]
      BY <1>1, <1>2, <1>7, <2>2, <3>4
    <3>7. Holds(tree', s)
      BY <3>3, <3>5 DEF Holds
    <3> QED
      BY <2>1, <2>2, <3>4, <3>6, <3>7
  <2>3. CASE full
    <3> DEFINE back == [tree.sFile[victim] EXCEPT !.flagUse = TRUE]
               u == [room EXCEPT !.sFile[victim] = back]
               v == insertToFrontLRU(u, victim)
               r == destroyTreeNode(v, n)
    <3>1. tree' = r
      BY <1>1, <1>13, <2>3 DEF Return
    <3>2. /\ victim \in H /\ victim \in Nodes /\ victim \notin Range(base)
          /\ victim # n /\ tree.sFile[victim] \in Files
          /\ room.filedim = tree.filedim - tree.sFile[victim].dim
      BY <1>1, <1>2, <1>4, <1>7, <2>3
    <3>3. back \in Files /\ back # NULL /\ back.dim = tree.sFile[victim].dim
          /\ back.dim \in Nat
      BY <3>2, NULLAssumption DEF Files
    <3> HIDE DEF r, back
    <3>4. /\ Sound(u, base, H) /\ u.heap = room.heap /\ u.name = room.name
          /\ u.sFile = [room.sFile EXCEPT ![victim] = back]
          /\ u.fileCount = room.fileCount /\ u.filedim = room.filedim
      BY <1>7, <3>2, <3>3, SoundFile
    <3> HIDE DEF u
    <3>5. u.sFile[victim] = back
          /\ \A m \in Nodes : u.sFile[m] = IF m = victim THEN back ELSE room.sFile[m]
      BY <1>7, <3>2, <3>4 DEF Shaped
    <3>6. /\ Sound(v, Append(base, victim), H)
          /\ v.heap = u.heap /\ v.name = u.name /\ v.sFile = u.sFile
          /\ v.fileCount = u.fileCount + 1
          /\ v.filedim = u.filedim + u.sFile[victim].dim
      <4>1. Sound(u, base, H) /\ victim \in H /\ victim \notin Range(base)
            /\ u.sFile[victim] # NULL
        BY <3>2, <3>3, <3>4, <3>5
      <4> QED
        BY ONLY <4>1, SoundInsert
    <3> HIDE DEF v
    <3>7. /\ Sound(r, Append(base, victim), H) /\ r.heap = v.heap \ {n}
          /\ r.name = [v.name EXCEPT ![n] = NULL]
          /\ r.sFile = [v.sFile EXCEPT ![n] = NULL]
          /\ r.fileCount = v.fileCount /\ r.filedim = v.filedim
      <4>1. Sound(v, Append(base, victim), H) /\ n \in Nodes \ H
        BY <1>7, <3>6
      <4>2. Frees(v, Append(base, victim), H, n, r)
        BY ONLY <4>1, SoundDestroy DEF r
      <4> HIDE DEF r
      <4> QED
        BY <4>2 DEF Frees
    <3>8. r.heap = H /\ r.fileCount <= MaxFileNum /\ r.filedim <= MaxFileDim
      <4>1. r.heap = H
        BY <1>7, <3>4, <3>6, <3>7
      <4>2. r.fileCount = room.fileCount + 1 /\ r.filedim = tree.filedim
        BY <1>2, <1>7, <3>2, <3>3, <3>4, <3>5, <3>6, <3>7
      <4> QED
        BY <1>7, <4>1, <4>2, CapacityAssumption DEF Holds
    <3>9. /\ \A m \in H : r.name[m] = tree.name[m]
          /\ \A m \in Nodes : r.sFile[m] = IF m = n THEN NULL ELSE u.sFile[m]
      <4>1. /\ room.sFile \in [Nodes -> Files \cup {NULL}]
            /\ room.name \in [Nodes -> Names \cup {NULL}]
        BY <1>7 DEF Shaped
      <4> QED
        BY <1>2, <1>7, <3>4, <3>6, <3>7, <4>1
    <3>10. \A m \in Nodes : r.sFile[m] # NULL <=> m \in Range(base) \/ m = victim
      BY <1>7, <1>10, <3>2, <3>3, <3>5, <3>9
    <3>11. Range(Append(base, victim)) = WithAFile(r)
      <4>1. base \in Seq(Nodes) /\ Distinct(base)
        BY <1>7, SoundFacts
      <4>2. Range(Append(base, victim)) = Range(base) \cup {victim}
        BY <3>2, <4>1, AppendDistinct
      <4> QED
        BY <1>8, <3>2, <3>10, <4>2 DEF WithAFile
    <3>12. Holds(r, Append(base, victim))
      BY <3>7, <3>8, <3>11 DEF Holds
    <3>13. \A m \in H : r.sFile[m] = IF m = victim THEN back ELSE tree.sFile[m]
      BY <1>1, <1>2, <1>7, <3>5, <3>9
    <3> QED
      BY <2>1, <2>3, <3>1, <3>9, <3>12, <3>13 DEF back
  <2> QED
    BY <2>2, <2>3
<1>14. (\E x \in Nodes \ Range(base) : NewFile(x)) \/ Old
  <2> DEFINE Reused(at) ==
               /\ Fresh(placed, Append(base, at), H)
               /\ placed.heap = room.heap \ {n} /\ room.name[at] = room.name[n]
               /\ placed.name = [room.name EXCEPT ![n] = NULL]
               /\ placed.sFile =
                    [room.sFile EXCEPT ![at] = room.sFile[n], ![n] = NULL]
             Joined == /\ Fresh(placed, Append(base, n), H \cup {n})
                       /\ placed.heap = room.heap /\ placed.name = room.name
                       /\ placed.sFile = room.sFile
             Found == \E at \in Range(base) : room.name[at] = room.name[n]
  <2>1. Joined \/ (\E at \in H \ Range(base) : Reused(at)) \/ (placed = room /\ Found)
    <3>1. /\ Sound(room, base, H) /\ n \in room.heap \ H /\ room.name[n] \in Names
          /\ room.sFile[n] # NULL /\ Range(base) = WithAFile(room) \ {n}
      BY <1>6, <1>7
    <3>2. PlacedAs(placed, room, base, H, n)
      BY ONLY <3>1, Placed DEF placed
    <3> QED
      BY <1>7, <3>2 DEF PlacedAs
  <2>2. Joined => \E x \in Nodes \ Range(base) : NewFile(x)
    <3> HIDE DEF NewFile
    <3> QED
      BY <1>11
  <2>3. ASSUME NEW at \in H \ Range(base), Reused(at)
        PROVE  \E x \in Nodes \ Range(base) : NewFile(x)
    <3>1. at \in Nodes \ Range(base) /\ NewFile(at)
      BY <1>12, <2>3
    <3> HIDE DEF NewFile
    <3> QED
      BY <3>1
  <2>4. placed = room /\ Found => Old
    BY <1>13
  <2> HIDE DEF Joined, Reused, Found, NewFile, Old
  <2> QED
    BY <2>1, <2>2, <2>3, <2>4
<1>15. \/ NewFileAs(tree', tree, base, name, file)
       \/ ExistsAs(tree', tree, s, base, name, full, victim)
  BY <1>14 DEF NewFileAs, ExistsAs
<1> QED
  BY <1>1, <1>15 DEF base, victim, file, InsertedAs

-----------------------------------------------------------------------------
(* The invariant and what it says *)

(* The invariant: the nodes met along the list are the files. *)
IInv == Holds(tree, OldestFirst(tree))

LEMMA IInvHolds == \A s : Holds(tree, s) => IInv /\ s = OldestFirst(tree)
BY SoundFacts DEF Holds, IInv

LEMMA IInvPrimed == \A s : Holds(tree', s) => IInv' /\ s = OldestFirst(tree')
BY SoundFacts DEF Holds, IInv

LEMMA FileIsListed ==
  ASSUME NEW s, Holds(tree, s), NEW n, HasFile(n)
  PROVE  n \in Range(s) /\ n \in Nodes /\ n \in tree.heap
BY SoundFacts DEF Holds, HasFile, WithAFile, Sound, Searching

LEMMA IInvInit == Init => IInv
BY Empty, IInvHolds

LEMMA IInvNext == IInv /\ [Next]_vars => IInv'
<1> SUFFICES ASSUME IInv, [Next]_vars PROVE IInv'
  OBVIOUS
<1> DEFINE s == OldestFirst(tree)
<1>0. Holds(tree, s)
  BY DEF IInv
<1> HIDE DEF s
<1> SUFFICES \E q : Holds(tree', q)
  BY IInvPrimed
<1>1. ASSUME NEW name \in Names, NEW locked \in BOOLEAN,
             TreeFileinsert(name, locked)
      PROVE  \E q : Holds(tree', q)
  <2> DEFINE victim == Head(Idle(tree))
             base == IF tree.fileCount = MaxFileNum THEN Without(s, {victim}) ELSE s
  <2>0. InsertedAs(tree', tree, s, name, locked)
    BY <1>0, <1>1, Inserted
  <2>1. \/ \E x : Holds(tree', Append(base, x))
        \/ Holds(tree', Append(base, victim))
        \/ Holds(tree', s)
    BY <2>0 DEF InsertedAs, NewFileAs, ExistsAs
  <2> HIDE DEF base, victim
  <2> QED
    BY <2>1
<1>2. ASSUME NEW n \in Nodes, TreeFileRemove(n) PROVE \E q : Holds(tree', q)
  <2>1. n \in Range(s) /\ tree' = Evict(tree, n)
    BY <1>0, <1>2, FileIsListed DEF TreeFileRemove
  <2>2. Holds(Evict(tree, n), Without(s, {n}))
    BY <1>0, <2>1, Removed
  <2> QED
    BY <2>1, <2>2
<1>3. ASSUME NEW n \in Nodes, Touch(n) PROVE \E q : Holds(tree', q)
  <2>1. n \in Range(s) /\ tree' = moveToFrontLRU(tree, n)
    BY <1>0, <1>3, FileIsListed DEF Touch
  <2>2. Holds(moveToFrontLRU(tree, n), Append(Without(s, {n}), n))
    BY <1>0, <2>1, Touched
  <2> QED
    BY <2>1, <2>2
<1>4. ASSUME NEW n \in Nodes, SetUse(n) PROVE \E q : Holds(tree', q)
  <2>1. n \in Range(s) /\ tree' = [tree EXCEPT !.sFile[n].flagUse = ~@]
    BY <1>0, <1>4, FileIsListed DEF SetUse
  <2> DEFINE r == [tree EXCEPT !.sFile[n].flagUse = ~@]
  <2>2. Holds(r, s)
    BY <1>0, <2>1, Used
  <2> HIDE DEF r
  <2> QED
    BY <2>1, <2>2 DEF r
<1>5. ASSUME NEW n \in Nodes, NEW size \in Sizes, AppendToFile(n, size)
      PROVE  \E q : Holds(tree', q)
  <2>1. size \in Nat
    BY CapacityAssumption
  <2>2. \E m : Holds(tree', Without(s, Range(Pre(Idle(tree), m))))
    BY <1>0, <1>5, <2>1, Appended
  <2> QED
    BY <2>2
<1>6. CASE UNCHANGED vars
  BY <1>0, <1>6 DEF vars
<1> QED
  BY <1>1, <1>2, <1>3, <1>4, <1>5, <1>6 DEF Next

(* Theorem.  In every state the nodes that have a file are linked in both  *)
(* directions, in one order, without a gap or a circle; what is allocated  *)
(* is found by its name; the counters are those of the list and within the *)
(* capacity.  treeFileInsert, removeFile, appendToFile and manageRequest   *)
(* keep it.                                                                *)
THEOREM Invariance == Spec => []IInv
BY IInvInit, IInvNext, PTL DEF Spec

LEMMA IInvFacts ==
  ASSUME IInv
  PROVE  LET s == OldestFirst(tree)
         IN /\ Sound(tree, s, tree.heap) /\ Range(s) = WithAFile(tree)
            /\ tree.fileCount <= MaxFileNum /\ tree.filedim <= MaxFileDim
            /\ s \in Seq(Nodes) /\ Distinct(s) /\ Len(s) \in Nat
            /\ Cardinality(Range(s)) = Len(s)
            /\ tree.filedim \in Nat /\ tree.fileCount \in Nat
            /\ tree \in Shaped /\ Linked(tree, s) /\ Searching(tree, tree.heap)
<1>1. Sound(tree, OldestFirst(tree), tree.heap)
  BY DEF IInv, Holds
<1> QED
  BY <1>1, SoundFacts DEF IInv, Holds, Sound

(* Theorem.  The fields of tree.h keep their types; above all no counter   *)
(* falls below zero.                                                       *)
THEOREM TypeCorrect == Spec => []TypeOK
<1>1. IInv => TypeOK
  BY IInvFacts, Typed
<1> QED
  BY <1>1, Invariance, PTL

(* Theorem.  The two directions of the list by use agree and meet each     *)
(* stored file once (so the loops of tree.c over it end, evictions and     *)
(* reads see every file), and every allocated node is found under its      *)
(* name.                                                                   *)
THEOREM ListAndSearch == Spec => []WellFormed
<1>1. ASSUME IInv PROVE ListLinked
  <2> DEFINE s == OldestFirst(tree)
             down == Walk(tree.mostRecentLRU, tree.lessRecentLRU)
  <2>1. /\ Linked(tree, s) /\ tree \in Shaped /\ s \in Seq(Nodes)
        /\ Cardinality(Range(s)) = Len(s)
        /\ Range(s) = {n \in Nodes : tree.sFile[n] # NULL}
    BY <1>1, IInvFacts DEF WithAFile
  <2>2. down = Reverse(s)
    BY <2>1, LinkedWalks
  <2>3. Reverse(Reverse(s)) = s
    BY <2>1, ReverseFacts
  <2> HIDE DEF s, down
  <2>4. s = Reverse(down)
    BY <2>2, <2>3
  <2> QED
    BY <2>1, <2>4 DEF ListLinked, s, down
<1>2. ASSUME IInv PROVE Searchable
  <2> DEFINE s == OldestFirst(tree)
  <2>1. /\ Searching(tree, tree.heap) /\ Range(s) = WithAFile(tree)
        /\ Range(s) \subseteq tree.heap
    BY <1>2, IInvFacts DEF Sound
  <2> HIDE DEF s
  <2>2. \A n \in tree.heap : noMutexGetNode(tree, tree.name[n]) = n
    BY <2>1 DEF Searching
  <2>3. \A n \in Nodes \ tree.heap : tree.sFile[n] = NULL
    BY <2>1 DEF WithAFile
  <2> QED
    BY <2>2, <2>3 DEF Searchable
<1>3. IInv => WellFormed
  BY <1>1, <1>2 DEF WellFormed
<1> QED
  BY <1>3, Invariance, PTL

(* Theorem.  fileCount and filedim are the number and the size of the      *)
(* files stored, whatever was inserted, evicted, put back or removed, and  *)
(* stay within the capacity of the configuration.                          *)
THEOREM Accounting == Spec => []Accounts
<1>1. ASSUME IInv PROVE Accounts
  <2> DEFINE s == OldestFirst(tree)
  <2>1. /\ Cardinality(Range(s)) = Len(s) /\ Range(s) = WithAFile(tree)
        /\ tree.fileCount = Len(s) /\ tree.filedim = Sum(tree.sFile, Range(s))
        /\ tree.fileCount <= MaxFileNum /\ tree.filedim <= MaxFileDim
    BY <1>1, IInvFacts DEF Sound
  <2>2. Space(tree, WithAFile(tree)) = Sum(tree.sFile, WithAFile(tree))
    BY SpaceIsSum
  <2> HIDE DEF s
  <2> QED
    BY <2>1, <2>2 DEF Accounts, WithAFile
<1> QED
  BY <1>1, Invariance, PTL

-----------------------------------------------------------------------------
(* The store as LRUStore sees it *)

Labels == [Nodes -> Names \cup {NULL}]
Named(f, s) == [i \in DOMAIN s |-> f[s[i]]]

(* The names of the nodes of a list; leaving out nodes leaves out their    *)
(* names.                                                                  *)
LEMMA NamedFacts ==
  ASSUME NEW s \in Seq(Nodes), NEW f \in Labels
  PROVE  /\ Named(f, s) \in Seq(Names \cup {NULL}) /\ Len(Named(f, s)) = Len(s)
         /\ \A i \in 1..Len(s) : Named(f, s)[i] = f[s[i]]
         /\ Range(Named(f, s)) = {f[x] : x \in Range(s)}
         /\ \A x \in Nodes : Named(f, Append(s, x)) = Append(Named(f, s), f[x])
<1> DEFINE q == Named(f, s)
<1>1. /\ DOMAIN s = 1..Len(s) /\ Len(s) \in Nat /\ \A i \in 1..Len(s) : s[i] \in Nodes
  OBVIOUS
<1>2. /\ q = [i \in 1..Len(s) |-> f[s[i]]]
  BY <1>1 DEF Named
<1>2a. \A i \in 1..Len(s) : f[s[i]] \in Names \cup {NULL}
  BY <1>1 DEF Labels
<1>3. q \in Seq(Names \cup {NULL}) /\ Len(q) = Len(s) /\ DOMAIN q = 1..Len(s)
  BY <1>1, <1>2, <1>2a
<1>4. \A i \in 1..Len(s) : q[i] = f[s[i]]
  BY <1>2
<1> HIDE DEF q
<1>5. Range(q) = {f[x] : x \in Range(s)}
  BY <1>1, <1>3, <1>4 DEF Range
<1>6. ASSUME NEW x \in Nodes PROVE Named(f, Append(s, x)) = Append(q, f[x])
  <2> DEFINE a == Append(s, x)
             b == Append(q, f[x])
             c == Named(f, a)
  <2>1. /\ DOMAIN a = 1..(Len(s) + 1) /\ a[Len(s) + 1] = x
        /\ \A i \in 1..Len(s) : a[i] = s[i]
    OBVIOUS
  <2>2. /\ c = [i \in 1..(Len(s) + 1) |-> f[a[i]]]
    BY <2>1 DEF Named
  <2>3. /\ b = [i \in 1..(Len(s) + 1) |-> IF i <= Len(s) THEN q[i] ELSE f[x]]
    BY <1>3
  <2> HIDE DEF a, b, c
  <2>4. \A i \in 1..(Len(s) + 1) : f[a[i]] = IF i <= Len(s) THEN q[i] ELSE f[x]
    <3> SUFFICES ASSUME NEW i \in 1..(Len(s) + 1)
                 PROVE f[a[i]] = IF i <= Len(s) THEN q[i] ELSE f[x]
      OBVIOUS
    <3>1. CASE i <= Len(s)
      <4>1. i \in 1..Len(s)
        BY <1>1, <3>1
      <4> QED
        BY <1>4, <2>1, <3>1, <4>1
    <3>2. CASE ~(i <= Len(s))
      <4>1. i = Len(s) + 1
        BY <1>1, <3>2
      <4> QED
        BY <2>1, <3>2, <4>1
    <3> QED
      BY <3>1, <3>2
  <2>5. b = c
    BY <2>2, <2>3, <2>4
  <2> QED
    BY <2>5 DEF a, b, c
<1> QED
  BY <1>3, <1>4, <1>5, <1>6 DEF q

LEMMA NamedAppend ==
  ASSUME NEW s \in Seq(Nodes), NEW x \in Nodes, NEW f \in Labels
  PROVE  Named(f, Append(s, x)) = Append(Named(f, s), f[x])
BY NamedFacts

LEMMA NamedWithout ==
  ASSUME NEW s \in Seq(Nodes), NEW f \in Labels, NEW S, NEW B,
         \A x \in Range(s) : f[x] \in S <=> x \in B
  PROVE  Without(Named(f, s), S) = Named(f, Without(s, B))
<1> DEFINE q == Named(f, s)
           Fine(n) == /\ Without(Pre(s, n), B) \in Seq(Nodes)
                      /\ Without(Pre(q, n), S) = Named(f, Without(Pre(s, n), B))
           bad == {n \in 0..Len(s) : ~Fine(n)}
<1>0. /\ q \in Seq(Names \cup {NULL}) /\ Len(q) = Len(s) /\ \A i \in 1..Len(s) : q[i] = f[s[i]]
  <2>1. s \in Seq(Nodes) /\ f \in Labels
    OBVIOUS
  <2> QED
    BY ONLY <2>1, NamedFacts
<1> HIDE DEF q
<1>1. bad = {}
  <2> SUFFICES ASSUME bad # {} PROVE FALSE
    OBVIOUS
  <2> DEFINE n == Min(bad)
  <2>1. n \in bad /\ \A y \in bad : n <= y
    <3>1. bad \in SUBSET Nat
      OBVIOUS
    <3> HIDE DEF bad
    <3> QED
      BY <3>1, MinInSet
  <2> HIDE DEF n
  <2>2. n \in 0..Len(s) /\ ~Fine(n)
    BY <2>1
  <2>3. n # 0
    <3>1. /\ Without(Pre(s, 0), B) = <<>> /\ Without(Pre(q, 0), S) = <<>>
      BY <1>0, PrefixFacts, WithoutEmpty
    <3>2. Named(f, <<>>) = <<>> /\ <<>> \in Seq(Nodes)
      BY DEF Named
    <3>3. Fine(0)
      BY <3>1, <3>2
    <3> HIDE DEF Fine
    <3> QED
      BY <2>2, <3>3
  <2>4. n \in 1..Len(s) /\ n - 1 \in 0..Len(s) /\ ~(n <= n - 1) /\ s[n] \in Nodes
        /\ s[n] \in Range(s)
    BY <2>2, <2>3 DEF Range
  <2>5. Fine(n - 1)
    <3> HIDE DEF Fine
    <3> QED
      BY <2>1, <2>4
  <2> DEFINE w == Without(Pre(s, n - 1), B)
             v == Without(Pre(q, n - 1), S)
             x == s[n]
  <2>6. Without(Pre(s, n), B) = IF x \in B THEN w ELSE Append(w, x)
    BY <2>4, WithoutPrefix
  <2>7. Without(Pre(q, n), S) = IF q[n] \in S THEN v ELSE Append(v, q[n])
    <3>1. n \in 1..Len(q)
      BY <1>0, <2>4
    <3> QED
      BY <1>0, <3>1, WithoutPrefix
  <2>8. q[n] = f[x] /\ (f[x] \in S <=> x \in B) /\ x \in Nodes
    BY <1>0, <2>4
  <2>9. w \in Seq(Nodes) /\ v = Named(f, w)
    BY <2>5
  <2> HIDE DEF w, v, x
  <2>10. Named(f, Append(w, x)) = Append(Named(f, w), f[x])
    <3>1. w \in Seq(Nodes) /\ f \in Labels /\ x \in Nodes
      BY <2>8, <2>9
    <3> QED
      BY ONLY <3>1, NamedAppend
  <2>11. Append(w, x) \in Seq(Nodes)
    BY <2>8, <2>9
  <2>12. Fine(n)
    BY <2>6, <2>7, <2>8, <2>9, <2>10, <2>11
  <2> HIDE DEF Fine
  <2> QED
    BY <2>2, <2>12
<1>2. Len(s) \in 0..Len(s) /\ Pre(s, Len(s)) = s /\ Pre(q, Len(s)) = q
  <2>1. Pre(q, Len(q)) = q
    BY <1>0, PrefixFacts
  <2> QED
    BY <1>0, <2>1, PrefixFacts
<1>3. Fine(Len(s))
  BY <1>1, <1>2
<1> QED
  BY <1>2, <1>3 DEF q

LEMMA LRUWithout == \A seq, S : LRU!Without(seq, S) = Without(seq, S)
BY DEF LRU!Without, Without, LRU!FoldLeft, FoldLeft, LRU!MapThenFoldSet,
       MapThenFoldSet, LRU!Max, Max

Filed(t) == {n \in t.heap : t.sFile[n] # NULL}
OrderOf(t) == LET nodes == OldestFirst(t)
              IN [i \in DOMAIN nodes |-> t.name[nodes[i]]]
SizeOf(t) == [name \in Names |->
                LET n == noMutexGetNode(t, name)
                IN IF n \in Filed(t) THEN t.sFile[n].dim ELSE 0]
UseOf(t) == {t.name[n] : n \in {m \in Filed(t) : t.sFile[m].flagUse}}

(* A search ends nowhere, or at the name. *)
LEMMA FindName ==
  ASSUME NEW t \in Shaped, Grounded(t), t.root \in Nodes \cup {NULL}, NEW name
  PROVE  LET n == noMutexGetNode(t, name)
         IN n = NULL \/ (n \in Nodes /\ t.name[n] = name)
<1>1. PICK f : Finding(t, name, f) /\ noMutexGetNode(t, name) = f[t.root]
  BY FindingExists, FindIs
<1> DEFINE Right(n) == f[n] = NULL \/ (f[n] \in Nodes /\ t.name[f[n]] = name)
           bad == {n \in Nodes : ~Right(n)}
<1>2. /\ f[NULL] = NULL
      /\ \A n \in Nodes : f[n] = IF t.name[n] = name THEN n
                                 ELSE f[Child(t, n, name)]
  <2>1. \A n \in Nodes : n # NULL
    BY NULLAssumption
  <2> QED
    BY <1>1, <2>1 DEF Finding
<1>2a. Right(NULL) /\ \A n \in Nodes \ bad : Right(n)
  <2>1. Right(NULL)
    BY <1>2
  <2> HIDE DEF Right
  <2> QED
    BY <2>1
<1>2b. \A n \in Nodes : Right(Child(t, n, name)) => Right(n)
  <2> SUFFICES ASSUME NEW n \in Nodes, Right(Child(t, n, name)) PROVE Right(n)
    OBVIOUS
  <2>1. CASE t.name[n] = name
    BY <1>2, <2>1
  <2>2. CASE t.name[n] # name
    <3>1. f[n] = f[Child(t, n, name)]
      BY <1>2, <2>2
    <3> QED
      BY <3>1
  <2> QED
    BY <2>1, <2>2
<1>3. bad = {}
  <2> SUFFICES ASSUME bad # {} PROVE FALSE
    OBVIOUS
  <2>1. PICK m \in bad : t.leftPtr[m] \notin bad /\ t.rightPtr[m] \notin bad
    BY DEF Grounded
  <2>2. m \in Nodes /\ ~Right(m)
    OBVIOUS
  <2>3. /\ Child(t, m, name) \in {t.leftPtr[m], t.rightPtr[m]}
        /\ Child(t, m, name) \in Nodes \cup {NULL}
    BY <2>2, ChildIsNode
  <2>4. Child(t, m, name) \notin bad
    BY <2>1, <2>3
  <2>5. Right(Child(t, m, name))
    <3> HIDE DEF Right, bad
    <3> QED
      BY <1>2a, <2>3, <2>4
  <2> HIDE DEF Right, bad
  <2> QED
    BY <1>2b, <2>2, <2>5
<1>4. Right(t.root)
  <2> HIDE DEF Right, bad
  <2> QED
    BY <1>2a, <1>3
<1> QED
  BY <1>1, <1>4

(* What the store looks like, under the invariant *)
LEMMA Seen ==
  ASSUME NEW t, NEW s, Holds(t, s)
  PROVE  /\ OrderOf(t) = Named(t.name, s) /\ t.name \in Labels
         /\ s \in Seq(Nodes) /\ Filed(t) = Range(s)
         /\ \A n \in Range(s) : t.name[n] \in Names
         /\ \A m, n \in Range(s) : t.name[m] = t.name[n] => m = n
         /\ UseOf(t) = {t.name[n] : n \in {m \in Range(s) : t.sFile[m].flagUse}}
<1>1. /\ OldestFirst(t) = s /\ s \in Seq(Nodes) /\ Range(s) \in SUBSET t.heap
      /\ t \in Shaped /\ Searching(t, t.heap) /\ t.heap \in SUBSET Nodes
      /\ Range(s) = WithAFile(t)
  BY SoundFacts DEF Holds, Sound
<1>2. Filed(t) = Range(s)
  BY <1>1 DEF Filed, WithAFile
<1>3. \A m, n \in t.heap : t.name[m] = t.name[n] => m = n
  BY <1>1, NamesDiffer
<1>4. \A n \in t.heap : t.name[n] \in Names
  BY <1>1 DEF Searching
<1>5. OrderOf(t) = Named(t.name, s)
  BY <1>1 DEF OrderOf, Named
<1>6. t.name \in Labels
  BY <1>1 DEF Shaped, Labels
<1> QED
  BY <1>1, <1>2, <1>3, <1>4, <1>5, <1>6 DEF UseOf

(* SizeOf is the only such function. *)
LEMMA SizesAre ==
  ASSUME NEW t, NEW s, Holds(t, s), NEW z,
         z = [name \in Names |-> z[name]],
         \A n \in Range(s) : z[t.name[n]] = t.sFile[n].dim,
         \A name \in Names : (\A n \in Range(s) : t.name[n] # name) => z[name] = 0
  PROVE  SizeOf(t) = z
<1>1. /\ t \in Shaped /\ Searching(t, t.heap) /\ Grounded(t)
      /\ t.root \in Nodes \cup {NULL} /\ t.heap \in SUBSET Nodes
      /\ Range(s) \in SUBSET t.heap
  BY DEF Holds, Sound, Searching
<1>2. ASSUME NEW name \in Names
      PROVE  LET n == noMutexGetNode(t, name)
             IN z[name] = IF n \in Filed(t) THEN t.sFile[n].dim ELSE 0
  <2> DEFINE n == noMutexGetNode(t, name)
  <2>1. n = NULL \/ (n \in Nodes /\ t.name[n] = name)
    BY <1>1, FindName
  <2>2. \A m \in Range(s) : t.name[m] = name => m = n
    BY <1>1 DEF Searching
  <2>3. Filed(t) = Range(s) /\ NULL \notin Range(s)
    BY <1>1, Seen, NULLAssumption
  <2> HIDE DEF n
  <2>4. CASE n \in Range(s)
    <3>1. t.name[n] = name
      BY <2>1, <2>3, <2>4
    <3> QED
      BY <2>3, <2>4, <3>1 DEF n
  <2>5. CASE n \notin Range(s)
    <3>1. \A m \in Range(s) : t.name[m] # name
      BY <2>2, <2>5
    <3>2. z[name] = 0
      BY <3>1
    <3> QED
      BY <2>3, <2>5, <3>2 DEF n
  <2> QED
    BY <2>4, <2>5
<1>3. SizeOf(t) = [name \in Names |-> z[name]]
  BY <1>2 DEF SizeOf
<1> QED
  BY <1>3

LEMMA SizeFacts ==
  ASSUME NEW t, NEW s, Holds(t, s)
  PROVE  /\ SizeOf(t) = [name \in Names |-> SizeOf(t)[name]]
         /\ \A n \in Range(s) : SizeOf(t)[t.name[n]] = t.sFile[n].dim
         /\ \A name \in Names :
              (\A n \in Range(s) : t.name[n] # name) => SizeOf(t)[name] = 0
<1>1. /\ t \in Shaped /\ Searching(t, t.heap) /\ Grounded(t)
      /\ t.root \in Nodes \cup {NULL} /\ t.heap \in SUBSET Nodes
      /\ Range(s) \in SUBSET t.heap
  BY DEF Holds, Sound, Searching
<1>2. Filed(t) = Range(s) /\ NULL \notin Range(s)
      /\ \A n \in Range(s) : t.name[n] \in Names
  BY <1>1, Seen, NULLAssumption
<1>3. ASSUME NEW n \in Range(s)
      PROVE  SizeOf(t)[t.name[n]] = t.sFile[n].dim
  <2>1. noMutexGetNode(t, t.name[n]) = n
    BY <1>1 DEF Searching
  <2> QED
    BY <1>2, <2>1 DEF SizeOf
<1>4. ASSUME NEW name \in Names, \A n \in Range(s) : t.name[n] # name
      PROVE  SizeOf(t)[name] = 0
  <2> DEFINE n == noMutexGetNode(t, name)
  <2>1. n = NULL \/ (n \in Nodes /\ t.name[n] = name)
    BY <1>1, FindName
  <2> HIDE DEF n
  <2>2. n \notin Filed(t)
    BY <1>2, <1>4, <2>1
  <2> QED
    BY <2>2 DEF SizeOf, n
<1>5. SizeOf(t) = [name \in Names |-> SizeOf(t)[name]]
  BY DEF SizeOf
<1> QED
  BY <1>3, <1>4, <1>5

(* The idle files of LRUStore are the names of the idle nodes. *)
LEMMA IdleNames ==
  ASSUME NEW t, NEW s, Holds(t, s)
  PROVE  Without(OrderOf(t), UseOf(t)) = Named(t.name, Idle(t))
<1>1. Idle(t) = Without(s, Busy(t))
  BY IdleFacts
<1>2. /\ OrderOf(t) = Named(t.name, s) /\ t.name \in Labels /\ s \in Seq(Nodes)
      /\ \A m, n \in Range(s) : t.name[m] = t.name[n] => m = n
      /\ UseOf(t) = {t.name[n] : n \in {m \in Range(s) : t.sFile[m].flagUse}}
  BY Seen
<1>3. Range(s) \subseteq Nodes /\ \A n \in Range(s) : t.sFile[n] # NULL
  BY SoundFacts DEF Holds, WithAFile
<1>4. \A x \in Range(s) : t.name[x] \in UseOf(t) <=> x \in Busy(t)
  BY <1>2, <1>3 DEF Busy
<1>5. s \in Seq(Nodes) /\ t.name \in Labels
  BY <1>2
<1>6. Without(Named(t.name, s), UseOf(t)) = Named(t.name, Without(s, Busy(t)))
  BY ONLY <1>4, <1>5, NamedWithout
<1> QED
  BY <1>1, <1>2, <1>6

LEMMA LRUOrder == LRU!Idle = Without(OrderOf(tree), UseOf(tree))
BY LRUWithout DEF LRU!Idle, OrderOf, UseOf, Filed, WithFile

(* Theorem.  getNElement (readNFilesW) yields the N least recently used of *)
(* the idle files, oldest first, all of them when the N received is 0 or   *)
(* more than there are.                                                    *)
THEOREM OldestAreRead == Spec => []ReadsOldest
<1>1. ASSUME IInv PROVE ReadsOldest
  <2> DEFINE s == OldestFirst(tree)
             idle == Idle(tree)
             free == {n \in Nodes : tree.sFile[n] # NULL /\ ~tree.sFile[n].flagUse}
  <2>1. Holds(tree, s)
    BY <1>1 DEF IInv
  <2>2. /\ idle \in Seq(Nodes) /\ Distinct(idle) /\ Len(idle) \in Nat
        /\ Range(idle) = Range(s) \ Busy(tree)
        /\ \A m \in 0..Len(idle) : /\ Pre(idle, m) \in Seq(Nodes)
                                   /\ Len(Pre(idle, m)) = m
    BY <2>1, IdleFacts
  <2>3. Range(idle) = free
    BY <2>1, <2>2 DEF Holds, WithAFile, Busy
  <2>4. LRU!Idle = Named(tree.name, idle) /\ tree.name \in Labels
    BY <2>1, LRUOrder, IdleNames, Seen
  <2> HIDE DEF s, idle
  <2>5. Cardinality(free) = Len(idle)
    BY <2>2, <2>3, DistinctCount
  <2>6. \A i \in 1..Len(idle) : LRU!Idle[i] = tree.name[idle[i]]
    BY <2>2, <2>4, NamedFacts
  <2>7. ASSUME NEW N \in 0..Cardinality(Nodes)
        PROVE  /\ Len(getNElement(N)) =
                    IF N = 0 THEN Len(idle) ELSE Min({N, Len(idle)})
               /\ \A i \in DOMAIN getNElement(N) :
                    tree.name[getNElement(N)[i]] = LRU!Idle[i]
    <3>1. CASE N = 0
      <4>1. getNElement(N) = idle
        BY <3>1 DEF getNElement, idle
      <4>2. DOMAIN idle = 1..Len(idle)
        BY <2>2
      <4> QED
        BY <2>6, <3>1, <4>1, <4>2
    <3>2. CASE N # 0
      <4> DEFINE m == Min({N, Len(idle)})
                 read == Pre(idle, m)
      <4>1. N \in Nat /\ ~(N <= 0)
        BY <3>2
      <4>2. m \in {N, Len(idle)} /\ m <= N /\ m <= Len(idle)
        <5>1. {N, Len(idle)} \in SUBSET Nat
          BY <2>2, <4>1
        <5> QED
          BY <5>1, MinInSet
      <4>3. getNElement(N) = read
        BY <4>1 DEF getNElement, Pre, idle
      <4> HIDE DEF m
      <4>4. m \in 0..Len(idle)
        BY <2>2, <4>1, <4>2
      <4>5. /\ read \in Seq(Nodes) /\ Len(read) = m
            /\ \A i \in 1..m : read[i] = idle[i]
        BY <2>2, <4>4, PrefixFacts
      <4> HIDE DEF read
      <4>6. DOMAIN read = 1..m /\ \A i \in 1..m : i \in 1..Len(idle)
        BY <4>4, <4>5
      <4> QED
        BY <2>6, <3>2, <4>3, <4>5, <4>6 DEF m
    <3> QED
      BY <3>1, <3>2
  <2> QED
    BY <2>5, <2>7 DEF ReadsOldest
<1> QED
  BY <1>1, Invariance, PTL

-----------------------------------------------------------------------------
(* The steps of LRUStore *)

(* The operations of LRUStore, said of the order, the sizes and the uses   *)
(* that the tree stands for.                                               *)
LEMMA LRURange == \A s : LRU!Range(s) = Range(s)
BY DEF LRU!Range, Range

LEMMA LRUStored == LRU!Stored = Range(OrderOf(tree))
BY LRURange DEF LRU!Stored, OrderOf

LEMMA LRUInsert ==
  ASSUME NEW n, Len(OrderOf(tree)) < MaxFileNum,
         OrderOf(tree') = Append(OrderOf(tree), n),
         UseOf(tree') \in {UseOf(tree) \cup {n}, UseOf(tree) \ {n}},
         SizeOf(tree') = SizeOf(tree)
  PROVE  LRU!Insert(n)
BY DEF LRU!Insert, LRU!InUseOrNot, OrderOf, UseOf, SizeOf, Filed, WithFile

LEMMA LRUReplace ==
  ASSUME NEW n, NEW q, q = Without(OrderOf(tree), UseOf(tree)),
         Len(OrderOf(tree)) = MaxFileNum, q # <<>>,
         n \notin Range(OrderOf(tree)) \ {Head(q)},
         OrderOf(tree') = Append(Without(OrderOf(tree), {Head(q)}), n),
         SizeOf(tree') = [SizeOf(tree) EXCEPT ![Head(q)] = 0],
         UseOf(tree') \in {UseOf(tree) \cup {n}, UseOf(tree) \ {n}}
  PROVE  LRU!Replace(n)
BY LRUOrder, LRUStored, LRUWithout
   DEF LRU!Replace, LRU!InUseOrNot, OrderOf, UseOf, SizeOf, Filed, WithFile

LEMMA LRUExists ==
  ASSUME NEW n, NEW q, q = Without(OrderOf(tree), UseOf(tree)),
         Len(OrderOf(tree)) = MaxFileNum, q # <<>>, n # Head(q),
         OrderOf(tree') = Append(Without(OrderOf(tree), {Head(q)}), Head(q)),
         UseOf(tree') = UseOf(tree) \cup {Head(q)},
         SizeOf(tree') = SizeOf(tree)
  PROVE  LRU!Exists(n)
BY LRUOrder, LRUWithout
   DEF LRU!Exists, OrderOf, UseOf, SizeOf, Filed, WithFile

LEMMA LRUDelete ==
  ASSUME NEW n,
         OrderOf(tree') = Without(OrderOf(tree), {n}),
         SizeOf(tree') = [SizeOf(tree) EXCEPT ![n] = 0],
         UseOf(tree') = UseOf(tree) \ {n}
  PROVE  LRU!Delete(n)
BY LRUWithout DEF LRU!Delete, OrderOf, UseOf, SizeOf, Filed, WithFile

LEMMA LRUTouch ==
  ASSUME NEW n, n \notin UseOf(tree),
         OrderOf(tree') = Append(Without(OrderOf(tree), {n}), n),
         UseOf(tree') = UseOf(tree), SizeOf(tree') = SizeOf(tree)
  PROVE  LRU!Touch(n)
BY LRUWithout DEF LRU!Touch, OrderOf, UseOf, SizeOf, Filed, WithFile

LEMMA LRUUse ==
  ASSUME NEW n,
         UseOf(tree') \in {UseOf(tree) \cup {n}, UseOf(tree) \ {n}},
         OrderOf(tree') = OrderOf(tree), SizeOf(tree') = SizeOf(tree)
  PROVE  LRU!Use(n)
BY DEF LRU!Use, LRU!InUseOrNot, OrderOf, UseOf, SizeOf, Filed, WithFile

LEMMA LRUStutters ==
  ASSUME UseOf(tree') = UseOf(tree),
         OrderOf(tree') = OrderOf(tree), SizeOf(tree') = SizeOf(tree)
  PROVE  UNCHANGED LRU!vars
BY DEF LRU!vars, OrderOf, UseOf, SizeOf, Filed, WithFile

Measured(z) == [name \in Names |-> [dim |-> z[name]]]

(* A sum over names in LRUStore is a sum in the sense used here. *)
LEMMA LRUTotal ==
  ASSUME NEW S \in SUBSET Names
  PROVE  LRU!Total(S) = Sum(Measured(SizeOf(tree)), S)
<1> DEFINE z == SizeOf(tree)
           g == Measured(z)
           Direct(f) == f = [s \in SUBSET S |->
                               IF s = {} THEN 0
                               ELSE z[Pick(s)] + f[s \ {Pick(s)}]]
<1>1. LRU!Total(S) = (CHOOSE f : Direct(f))[S]
  BY DEF LRU!Total, LRU!MapThenSumSet, LRU!MapThenFoldSet, SizeOf, Pick,
         Filed, WithFile
<1>2. ASSUME NEW s \in SUBSET S, s # {} PROVE g[Pick(s)].dim = z[Pick(s)]
  <2>1. Pick(s) \in Names
    BY <1>2 DEF Pick
  <2> HIDE DEF z
  <2> QED
    BY <2>1 DEF Measured
<1> HIDE DEF g, z
<1>3. ASSUME NEW f PROVE Direct(f) <=> Adding(g, S, f)
  <2> DEFINE a == [s \in SUBSET S |-> IF s = {} THEN 0
                                      ELSE z[Pick(s)] + f[s \ {Pick(s)}]]
             b == [s \in SUBSET S |-> IF s = {} THEN 0
                                      ELSE g[Pick(s)].dim + f[s \ {Pick(s)}]]
  <2>1. a = b
    BY <1>2
  <2>2. Direct(f) <=> f = a
    OBVIOUS
  <2>3. Adding(g, S, f) <=> f = b
    BY DEF Adding
  <2> HIDE DEF a, b, Direct
  <2> QED
    BY <2>1, <2>2, <2>3
<1>4. IsFiniteSet(S)
  BY NamesAssumption, FS_Subset
<1>5. \E f : Adding(g, S, f)
  BY <1>4, AddingExists
<1> DEFINE h == CHOOSE f : Direct(f)
           k == CHOOSE f : Adding(g, S, f)
<1>6. Adding(g, S, k)
  BY <1>5
<1>7. Adding(g, S, h)
  <2> HIDE DEF Direct
  <2>1. \E f : Direct(f)
    BY <1>3, <1>5
  <2>2. Direct(h)
    BY <2>1
  <2> HIDE DEF h
  <2> QED
    BY <1>3, <2>2
<1> HIDE DEF h, k
<1>8. h = k
  BY <1>4, <1>6, <1>7, AddingUnique
<1> QED
  BY <1>1, <1>8 DEF h, k, g, z, Sum

(* A sum over the names of nodes is the sum over the nodes. *)
LEMMA SumOfNames ==
  ASSUME NEW S, IsFiniteSet(S), NEW f, NEW g, NEW h,
         \A x, y \in S : f[x] = f[y] => x = y,
         \A x \in S : /\ g[x].dim \in Nat /\ h[f[x]].dim = g[x].dim
                       /\ f[x] \in Names
  PROVE  Sum(h, {f[x] : x \in S}) = Sum(g, S)
<1> DEFINE Image(T) == {f[x] : x \in T}
           Bad == {T \in SUBSET S : Sum(h, Image(T)) # Sum(g, T)}
<1> SUFFICES ASSUME Bad # {} PROVE FALSE
  OBVIOUS
<1>1. \A T \in Bad : IsFiniteSet(T)
  BY FS_Subset
<1>2. PICK T \in Bad : \A x \in T : T \ {x} \notin Bad
  BY <1>1, MinimalSet
<1>3. T # {}
  <2>1. Image({}) = {}
    OBVIOUS
  <2> QED
    BY <2>1, SumEmpty
<1>4. PICK x \in T : TRUE
  BY <1>3
<1>5. Sum(h, Image(T \ {x})) = Sum(g, T \ {x})
  BY <1>2, <1>4
<1>6. Sum(g, T) = g[x].dim + Sum(g, T \ {x})
  BY <1>1, <1>4, SumWithout
<1>7. Image(T \ {x}) = Image(T) \ {f[x]} /\ f[x] \in Image(T)
  BY <1>4
<1>8. IsFiniteSet(Image(T)) /\ \A y \in Image(T) : h[y].dim \in Nat
  <2>1. Image(T) \in SUBSET Names
    OBVIOUS
  <2>2. IsFiniteSet(Image(T))
    BY <2>1, NamesAssumption, FS_Subset
  <2> QED
    BY <2>2
<1>9. Sum(h, Image(T)) = h[f[x]].dim + Sum(h, Image(T) \ {f[x]})
  BY <1>7, <1>8, SumWithout
<1> QED
  BY <1>2, <1>4, <1>5, <1>6, <1>7, <1>9

(* The order of the names when nodes are left out, or one is put last.     *)
LEMMA NamesWithout ==
  ASSUME NEW t, NEW s, Holds(t, s), NEW B \in SUBSET Range(s)
  PROVE  Without(OrderOf(t), {t.name[x] : x \in B}) = Named(t.name, Without(s, B))
<1>1. /\ OrderOf(t) = Named(t.name, s) /\ t.name \in Labels /\ s \in Seq(Nodes)
      /\ \A m, n \in Range(s) : t.name[m] = t.name[n] => m = n
  BY Seen
<1> DEFINE S == {t.name[x] : x \in B}
<1>2. \A x \in Range(s) : t.name[x] \in S <=> x \in B
  BY <1>1
<1> HIDE DEF S
<1>3. s \in Seq(Nodes) /\ t.name \in Labels
  BY <1>1
<1>4. Without(Named(t.name, s), S) = Named(t.name, Without(s, B))
  BY ONLY <1>2, <1>3, NamedWithout
<1> QED
  BY <1>1, <1>4 DEF S

LEMMA NameWithout ==
  ASSUME NEW t, NEW s, Holds(t, s), NEW n \in Range(s)
  PROVE  Without(OrderOf(t), {t.name[n]}) = Named(t.name, Without(s, {n}))
<1>1. {n} \in SUBSET Range(s) /\ {t.name[x] : x \in {n}} = {t.name[n]}
  OBVIOUS
<1> QED
  BY <1>1, NamesWithout

LEMMA NodeWithout ==
  ASSUME NEW t, NEW s, Holds(t, s), NEW n \in Range(s)
  PROVE  /\ Without(s, {n}) \in Seq(Nodes) /\ n \in Nodes
         /\ Distinct(Without(s, {n})) /\ Range(Without(s, {n})) = Range(s) \ {n}
         /\ Range(Append(Without(s, {n}), n)) = Range(s)
<1>1. s \in Seq(Nodes) /\ Distinct(s) /\ Range(s) \in SUBSET Nodes
  BY SoundFacts DEF Holds
<1>2. /\ Without(s, {n}) \in Seq(Nodes) /\ Distinct(Without(s, {n}))
      /\ Range(Without(s, {n})) = Range(s) \ {n}
  BY <1>1, WithoutFacts
<1> DEFINE w == Without(s, {n})
<1> HIDE DEF w
<1>3. w \in Seq(Nodes) /\ Distinct(w) /\ n \notin Range(w) /\ n \in Nodes
  BY <1>1, <1>2 DEF w
<1>4. Range(Append(w, n)) = Range(w) \cup {n}
  BY ONLY <1>3, AppendDistinct
<1> QED
  BY <1>1, <1>2, <1>4 DEF w

LEMMA NameMoved ==
  ASSUME NEW t, NEW s, Holds(t, s), NEW n \in Range(s)
  PROVE  Append(Without(OrderOf(t), {t.name[n]}), t.name[n])
           = Named(t.name, Append(Without(s, {n}), n))
<1> DEFINE w == Without(s, {n})
<1>1. w \in Seq(Nodes) /\ n \in Nodes /\ t.name \in Labels
  BY NodeWithout, Seen
<1>2. Without(OrderOf(t), {t.name[n]}) = Named(t.name, w)
  BY NameWithout
<1> HIDE DEF w
<1>3. Named(t.name, Append(w, n)) = Append(Named(t.name, w), t.name[n])
  BY ONLY <1>1, NamedAppend
<1> QED
  BY <1>2, <1>3 DEF w

(* The order and the uses, each for itself. *)
LEMMA OrderIs ==
  ASSUME NEW t, NEW s, Holds(t, s)
  PROVE  OrderOf(t) = Named(t.name, s)
BY Seen

InUse(name, sFile, S) == {name[n] : n \in {m \in S : sFile[m].flagUse}}

LEMMA UseIs ==
  ASSUME NEW t, NEW s, Holds(t, s)
  PROVE  UseOf(t) = InUse(t.name, t.sFile, Range(s))
BY Seen DEF InUse

LEMMA StoredNames ==
  ASSUME NEW t, NEW s, Holds(t, s)
  PROVE  /\ Range(OrderOf(t)) = {t.name[n] : n \in Range(s)}
         /\ Len(OrderOf(t)) = Len(s)
<1>1. OrderOf(t) = Named(t.name, s) /\ t.name \in Labels /\ s \in Seq(Nodes)
  BY Seen
<1> QED
  BY <1>1, NamedFacts

(* removeFile deletes the name. *)
LEMMA Deletes ==
  ASSUME NEW t, NEW s, Holds(t, s), NEW n \in Range(s), NEW r, r = Evict(t, n)
  PROVE  /\ OrderOf(r) = Without(OrderOf(t), {t.name[n]})
         /\ SizeOf(r) = [SizeOf(t) EXCEPT ![t.name[n]] = 0]
         /\ UseOf(r) = UseOf(t) \ {t.name[n]}
<1> DEFINE w == Without(s, {n})
           name == t.name
           z == [SizeOf(t) EXCEPT ![name[n]] = 0]
<1>1. /\ Holds(r, w) /\ r.name = name
      /\ r.sFile = [t.sFile EXCEPT ![n] = NULL]
  BY Removed
<1>2. /\ Filed(t) = Range(s)
      /\ \A m \in Range(s) : name[m] \in Names /\ m \in Nodes
      /\ \A l, m \in Range(s) : name[l] = name[m] => l = m
      /\ UseOf(t) = {name[l] : l \in {m \in Range(s) : t.sFile[m].flagUse}}
      /\ t.sFile \in [Nodes -> Files \cup {NULL}]
  <2>1. t \in Shaped /\ Range(s) \in SUBSET Nodes
    BY SoundFacts DEF Holds, Sound
  <2> QED
    BY <2>1, Seen DEF Shaped
<1>3. /\ Without(OrderOf(t), {name[n]}) = Named(name, w)
      /\ Range(w) = Range(s) \ {n}
  <2>1. Without(OrderOf(t), {t.name[n]}) = Named(t.name, Without(s, {n}))
    BY NameWithout
  <2>2. Range(Without(s, {n})) = Range(s) \ {n}
    BY NodeWithout
  <2> QED
    BY <2>1, <2>2
<1> HIDE DEF w, name
<1>4. /\ OrderOf(r) = Named(name, w)
      /\ UseOf(r) = {name[l] : l \in {m \in Range(w) : r.sFile[m].flagUse}}
  <2>1. OrderOf(r) = Named(r.name, w)
    BY <1>1, OrderIs
  <2>2. UseOf(r) = InUse(r.name, r.sFile, Range(w))
    BY <1>1, UseIs
  <2> QED
    BY <1>1, <2>1, <2>2 DEF InUse
<1>5. \A m \in Range(w) : r.sFile[m] = t.sFile[m]
  BY <1>1, <1>2, <1>3
<1>6. UseOf(r) = UseOf(t) \ {name[n]}
  BY <1>2, <1>3, <1>4, <1>5
<1>7. SizeOf(r) = z
  <2>1. /\ SizeOf(t) = [x \in Names |-> SizeOf(t)[x]]
        /\ \A m \in Range(s) : SizeOf(t)[name[m]] = t.sFile[m].dim
        /\ \A x \in Names : (\A m \in Range(s) : name[m] # x) => SizeOf(t)[x] = 0
    BY SizeFacts DEF name
  <2>2. /\ \A x \in Names : z[x] = IF x = name[n] THEN 0 ELSE SizeOf(t)[x]
        /\ z = [x \in Names |-> z[x]]
    BY <1>2, <2>1
  <2> HIDE DEF z
  <2>3. \A m \in Range(w) : z[r.name[m]] = r.sFile[m].dim
    BY <1>1, <1>2, <1>3, <1>5, <2>1, <2>2
  <2>4. \A x \in Names : (\A m \in Range(w) : r.name[m] # x) => z[x] = 0
    BY <1>1, <1>2, <1>3, <2>1, <2>2
  <2>5. z = [x \in Names |-> z[x]]
    BY <2>2
  <2>6. Holds(r, w)
    BY <1>1
  <2> QED
    BY ONLY <2>3, <2>4, <2>5, <2>6, SizesAre
<1> QED
  BY <1>3, <1>4, <1>6, <1>7 DEF name

(* The same files with the same dims have the same sizes. *)
LEMMA SameSizes ==
  ASSUME NEW t, NEW s, Holds(t, s), NEW r, NEW q, Holds(r, q),
         Range(q) = Range(s), \A n \in Range(s) : r.name[n] = t.name[n],
         \A n \in Range(s) : r.sFile[n].dim = t.sFile[n].dim
  PROVE  SizeOf(r) = SizeOf(t)
BY SizeFacts, SizesAre

(* The end of manageRequest touches the name. *)
LEMMA Touches ==
  ASSUME NEW t, NEW s, Holds(t, s), NEW n \in Range(s), ~t.sFile[n].flagUse,
         NEW r, r = moveToFrontLRU(t, n)
  PROVE  /\ t.name[n] \notin UseOf(t)
         /\ OrderOf(r) = Append(Without(OrderOf(t), {t.name[n]}), t.name[n])
         /\ UseOf(r) = UseOf(t) /\ SizeOf(r) = SizeOf(t)
<1> DEFINE q == Append(Without(s, {n}), n)
           name == t.name
<1>1. Holds(r, q) /\ r.name = name /\ r.sFile = t.sFile
  BY Touched
<1>2. /\ Append(Without(OrderOf(t), {name[n]}), name[n]) = Named(name, q)
      /\ Range(q) = Range(s)
  BY NameMoved, NodeWithout
<1> HIDE DEF q, name
<1>3. /\ OrderOf(r) = Named(name, q)
      /\ UseOf(r) = {name[l] : l \in {m \in Range(q) : r.sFile[m].flagUse}}
  <2>1. OrderOf(r) = Named(r.name, q)
    BY <1>1, OrderIs
  <2>2. UseOf(r) = InUse(r.name, r.sFile, Range(q))
    BY <1>1, UseIs
  <2> QED
    BY <1>1, <2>1, <2>2 DEF InUse
<1>4. /\ UseOf(t) = {name[l] : l \in {m \in Range(s) : t.sFile[m].flagUse}}
      /\ \A l, m \in Range(s) : name[l] = name[m] => l = m
  BY Seen DEF name
<1>5. UseOf(r) = UseOf(t) /\ name[n] \notin UseOf(t)
  BY <1>1, <1>2, <1>3, <1>4
<1>6. SizeOf(r) = SizeOf(t)
  BY <1>1, <1>2, SameSizes DEF name
<1> QED
  BY <1>2, <1>3, <1>5, <1>6 DEF name

(* One file begins or ceases to be in use. *)
LEMMA UseChanged ==
  ASSUME NEW S, NEW name, NEW f, NEW g, NEW n \in S,
         \A l, m \in S : name[l] = name[m] => l = m,
         \A m \in S \ {n} : g[m] = f[m]
  PROVE  /\ g[n].flagUse => InUse(name, g, S) = InUse(name, f, S) \cup {name[n]}
         /\ ~g[n].flagUse => InUse(name, g, S) = InUse(name, f, S) \ {name[n]}
<1> DEFINE U(h) == {m \in S : h[m].flagUse}
<1>1. ASSUME g[n].flagUse PROVE U(g) = U(f) \cup {n}
  BY <1>1
<1>2. ASSUME ~g[n].flagUse PROVE U(g) = U(f) \ {n}
  BY <1>2
<1>3. InUse(name, g, S) = {name[m] : m \in U(g)}
      /\ InUse(name, f, S) = {name[m] : m \in U(f)}
  BY DEF InUse
<1>4. U(g) \in SUBSET S /\ U(f) \in SUBSET S
  OBVIOUS
<1> HIDE DEF U
<1> QED
  BY <1>1, <1>2, <1>3, <1>4

LEMMA Uses ==
  ASSUME NEW t, NEW s, Holds(t, s), NEW n \in Range(s),
         NEW r, r = [t EXCEPT !.sFile[n].flagUse = ~@]
  PROVE  /\ OrderOf(r) = OrderOf(t) /\ SizeOf(r) = SizeOf(t)
         /\ UseOf(r) \in {UseOf(t) \cup {t.name[n]}, UseOf(t) \ {t.name[n]}}
<1> DEFINE name == t.name
<1>1. /\ Holds(r, s) /\ r.name = name
      /\ r.sFile = [t.sFile EXCEPT ![n].flagUse = ~@]
  BY Used
<1> HIDE DEF name
<1>2. /\ OrderOf(r) = Named(name, s)
      /\ UseOf(r) = {name[l] : l \in {m \in Range(s) : r.sFile[m].flagUse}}
  <2>1. OrderOf(r) = Named(r.name, s)
    BY <1>1, OrderIs
  <2>2. UseOf(r) = InUse(r.name, r.sFile, Range(s))
    BY <1>1, UseIs
  <2> QED
    BY <1>1, <2>1, <2>2 DEF InUse
<1>3. /\ UseOf(t) = {name[l] : l \in {m \in Range(s) : t.sFile[m].flagUse}}
      /\ OrderOf(t) = Named(name, s)
      /\ \A l, m \in Range(s) : name[l] = name[m] => l = m
  BY Seen DEF name
<1>4. /\ n \in Nodes /\ t.sFile \in [Nodes -> Files \cup {NULL}]
      /\ t.sFile[n] \in Files /\ Range(s) \in SUBSET Nodes
  BY SoundFacts DEF Holds, Sound, Shaped
<1> DEFINE file == [t.sFile[n] EXCEPT !.flagUse = ~@]
<1>5. \A m \in Range(s) : r.sFile[m] = IF m = n THEN file ELSE t.sFile[m]
  BY <1>1, <1>4
<1>6. file.dim = t.sFile[n].dim /\ file.flagUse = ~t.sFile[n].flagUse
  BY <1>4 DEF Files
<1>7. UseOf(r) \in {UseOf(t) \cup {name[n]}, UseOf(t) \ {name[n]}}
  <2> DEFINE S == Range(s)
             f == t.sFile
             g == r.sFile
  <2>1. UseOf(r) = InUse(name, g, S) /\ UseOf(t) = InUse(name, f, S)
    BY <1>2, <1>3 DEF InUse
  <2>2. /\ \A m \in S \ {n} : g[m] = f[m]
        /\ \A l, m \in S : name[l] = name[m] => l = m
        /\ n \in S
    BY <1>3, <1>5
  <2> HIDE DEF S, f, g
  <2>3. /\ g[n].flagUse => InUse(name, g, S) = InUse(name, f, S) \cup {name[n]}
        /\ ~g[n].flagUse => InUse(name, g, S) = InUse(name, f, S) \ {name[n]}
    BY ONLY <2>2, UseChanged
  <2> QED
    BY <2>1, <2>3
<1>8. SizeOf(r) = SizeOf(t)
  <2>1. \A m \in Range(s) : r.sFile[m].dim = t.sFile[m].dim
    BY <1>5, <1>6
  <2>2. \A m \in Range(s) : r.name[m] = t.name[m]
    BY <1>1 DEF name
  <2>3. Holds(t, s) /\ Holds(r, s)
    BY <1>1
  <2> QED
    BY ONLY <2>1, <2>2, <2>3, SameSizes
<1> QED
  BY <1>2, <1>3, <1>7, <1>8 DEF name

(* An append in LRUStore: the fewest of its idle files that free what is   *)
(* missing.                                                                *)
LEMMA LRUMin == \A S : LRU!Min(S) = Min(S)
BY DEF LRU!Min, Min

Larger(z, victims, n, d) ==
  [m \in Names |-> CASE m \in victims -> 0
                     [] m = n         -> z[m] + d
                     [] OTHER         -> z[m]]

Missing(d) == LRU!Total(LRU!Stored) + d - MaxFileDim

LEMMA LRUGrow ==
  ASSUME NEW n, NEW d,
         Len(LRU!Idle) \in Nat, NEW m \in 0..Len(LRU!Idle),
         LRU!Freed(m) >= Missing(d),
         \A j \in 0..Len(LRU!Idle) : j < m => ~(LRU!Freed(j) >= Missing(d)),
         NEW victims, victims = Range(SubSeq(LRU!Idle, 1, m)),
         OrderOf(tree') = Without(OrderOf(tree), victims),
         SizeOf(tree') = Larger(SizeOf(tree), victims, n, d),
         UseOf(tree') = UseOf(tree)
  PROVE  LRU!Grow(n, d)
<1> DEFINE L == Len(LRU!Idle)
           enough == {k \in 0..L : LRU!Freed(k) >= Missing(d)}
<1>1. enough \in SUBSET Nat /\ m \in enough
  OBVIOUS
<1>2. Min(enough) \in enough /\ Min(enough) <= m
  <2> HIDE DEF enough
  <2> QED
    BY <1>1, MinInSet
<1>3. Min(enough) = m
  BY <1>2
<1>4. LRU!Min(enough) = m /\ enough # {}
  BY <1>1, <1>3, LRUMin
<1> DEFINE V == LRU!Range(SubSeq(LRU!Idle, 1, LRU!Min(enough)))
<1>5. V = victims
  BY <1>4, LRURange
<1>6. /\ OrderOf(tree') = LRU!Without(OrderOf(tree), V)
      /\ SizeOf(tree') = Larger(SizeOf(tree), V, n, d)
  BY <1>5, LRUWithout
<1>7. /\ LRU!Without(OrderOf(tree), V) = OrderOf(tree')
      /\ SizeOf(tree') = [x \in Names |->
            CASE x \in V -> 0
              [] x = n   -> SizeOf(tree)[x] + d
              [] OTHER   -> SizeOf(tree)[x]]
  BY <1>6 DEF Larger
<1> QED
  BY <1>4, <1>7
     DEF LRU!Grow, Missing, OrderOf, UseOf, SizeOf, Filed, WithFile

(* What names free is what their nodes free. *)
LEMMA TotalOf ==
  ASSUME NEW s, Holds(tree, s), NEW S \in SUBSET Range(s)
  PROVE  LRU!Total({tree.name[x] : x \in S}) = Sum(tree.sFile, S)
<1> DEFINE f == tree.name
           g == tree.sFile
           h == Measured(SizeOf(tree))
<1>1. /\ \A x \in Range(s) : f[x] \in Names
      /\ \A x, y \in Range(s) : f[x] = f[y] => x = y
  BY Seen
<1>2. \A x \in Range(s) : SizeOf(tree)[f[x]] = g[x].dim
  BY SizeFacts
<1>3. IsFiniteSet(Range(s)) /\ \A x \in Range(s) : g[x].dim \in Nat
  BY SoundFacts DEF Holds
<1>4. IsFiniteSet(S)
  BY <1>3, FS_Subset
<1> HIDE DEF f, g
<1>5. \A x \in S : h[f[x]].dim = g[x].dim
  BY <1>1, <1>2 DEF Measured
<1> HIDE DEF h
<1>6. Sum(h, {f[x] : x \in S}) = Sum(g, S)
  BY <1>1, <1>3, <1>4, <1>5, SumOfNames
<1>7. {f[x] : x \in S} \in SUBSET Names
  BY <1>1
<1>8. LRU!Total({f[x] : x \in S}) = Sum(h, {f[x] : x \in S})
  BY <1>7, LRUTotal DEF h
<1> QED
  BY <1>6, <1>8 DEF f, g

LEMMA NamedPrefix ==
  ASSUME NEW s \in Seq(Nodes), NEW f \in Labels, NEW k \in 0..Len(s)
  PROVE  /\ Pre(Named(f, s), k) = Named(f, Pre(s, k))
         /\ Range(Pre(Named(f, s), k)) = {f[x] : x \in Range(Pre(s, k))}
<1> DEFINE q == Named(f, s)
           p == Pre(s, k)
           a == Pre(q, k)
           b == Named(f, p)
<1>1. /\ q \in Seq(Names \cup {NULL}) /\ Len(q) = Len(s)
      /\ \A i \in 1..Len(s) : q[i] = f[s[i]]
  BY NamedFacts
<1>2. p \in Seq(Nodes) /\ Len(p) = k /\ \A i \in 1..k : p[i] = s[i]
  BY PrefixFacts
<1> HIDE DEF q, p
<1>3. /\ a \in Seq(Names \cup {NULL}) /\ Len(a) = k
      /\ \A i \in 1..k : a[i] = q[i]
  BY <1>1, PrefixFacts
<1>4. /\ b \in Seq(Names \cup {NULL}) /\ Len(b) = k
      /\ \A i \in 1..k : b[i] = f[p[i]]
      /\ Range(b) = {f[x] : x \in Range(p)}
  BY <1>2, NamedFacts
<1> HIDE DEF a, b
<1>5. a = b
  <2>1. \A i \in 1..k : i \in 1..Len(s)
    OBVIOUS
  <2> QED
    BY <1>1, <1>2, <1>3, <1>4, <2>1
<1> QED
  BY <1>4, <1>5 DEF a, b, p, q

LEMMA Freeing ==
  ASSUME NEW s, Holds(tree, s), NEW k \in 0..Len(Idle(tree))
  PROVE  /\ Range(SubSeq(LRU!Idle, 1, k))
              = {tree.name[x] : x \in Range(Pre(Idle(tree), k))}
         /\ LRU!Freed(k) = Sum(tree.sFile, Range(Pre(Idle(tree), k)))
         /\ Len(LRU!Idle) = Len(Idle(tree))
<1> DEFINE q == Idle(tree)
           S == Range(Pre(q, k))
<1>1. /\ q \in Seq(Nodes) /\ tree.name \in Labels
      /\ S \in SUBSET Range(s)
  <2>1. /\ q \in Seq(Nodes)
        /\ \A m \in 0..Len(q) : Range(Pre(q, m)) \subseteq Range(s) \ Busy(tree)
    BY IdleFacts
  <2>2. tree.name \in Labels
    BY Seen
  <2> QED
    BY <2>1, <2>2
<1>2. LRU!Idle = Named(tree.name, q)
  BY LRUOrder, IdleNames
<1>3. LRU!Total({tree.name[x] : x \in S}) = Sum(tree.sFile, S)
  BY <1>1, TotalOf
<1> HIDE DEF q
<1>4. Range(Pre(LRU!Idle, k)) = {tree.name[x] : x \in S}
  <2>1. k \in 0..Len(q)
    BY DEF q
  <2> QED
    BY <1>1, <1>2, <2>1, NamedPrefix
<1>5. Len(LRU!Idle) = Len(q)
  BY <1>1, <1>2, NamedFacts
<1>6. LRU!Freed(k) = LRU!Total(Range(Pre(LRU!Idle, k)))
  BY LRURange DEF LRU!Freed, Pre
<1> HIDE DEF S
<1> QED
  BY <1>3, <1>4, <1>5, <1>6 DEF Pre, q, S

LEMMA StoredTotal ==
  ASSUME NEW s, Holds(tree, s)
  PROVE  LRU!Total(LRU!Stored) = tree.filedim
<1>1. LRU!Stored = {tree.name[x] : x \in Range(s)}
  BY LRUStored, StoredNames
<1>2. Range(s) \in SUBSET Range(s) /\ tree.filedim = Sum(tree.sFile, Range(s))
  BY DEF Holds, Sound
<1> QED
  BY <1>1, <1>2, TotalOf

FilesAfter(r, t, gone, n, size) ==
  \A x \in Nodes : r.sFile[x] =
    IF x \in gone THEN NULL
    ELSE IF x = n THEN [t.sFile[n] EXCEPT !.dim = @ + size]
    ELSE t.sFile[x]
GrownAs(r, t, victims, n, size) ==
  /\ OrderOf(r) = Without(OrderOf(t), victims)
  /\ SizeOf(r) = Larger(SizeOf(t), victims, n, size)
  /\ UseOf(r) = UseOf(t)

(* What an append does to the names, sizes and uses. *)
LEMMA Grown3 ==
  ASSUME NEW t, NEW s, Holds(t, s), NEW r, NEW n, NEW size \in Nat,
         NEW gone, gone \in SUBSET Range(s), n \in Range(s) \ gone,
         \A x \in gone : ~t.sFile[x].flagUse,
         Holds(r, Without(s, gone)), r.name = t.name,
         FilesAfter(r, t, gone, n, size)
  PROVE  GrownAs(r, t, {t.name[x] : x \in gone}, t.name[n], size)
<1> DEFINE victims == {t.name[x] : x \in gone}
           w == Without(s, gone)
           f == t.name
           z == SizeOf(t)
           Z == Larger(z, victims, f[n], size)
<1>1. /\ \A x \in Range(s) : f[x] \in Names /\ x \in Nodes /\ t.sFile[x] \in Files
      /\ \A x, y \in Range(s) : f[x] = f[y] => x = y
  BY Seen, SoundFacts DEF Holds
<1>2. Range(w) = Range(s) \ gone
  <2>1. s \in Seq(Nodes) /\ Distinct(s)
    BY SoundFacts DEF Holds
  <2> QED
    BY <2>1, WithoutFacts
<1>3. OrderOf(r) = Without(OrderOf(t), victims)
  <2>1. OrderOf(r) = Named(r.name, w)
    BY OrderIs
  <2>2. Without(OrderOf(t), victims) = Named(f, w)
    BY NamesWithout
  <2> QED
    BY <2>1, <2>2
<1> DEFINE file == [t.sFile[n] EXCEPT !.dim = @ + size]
<1>4. /\ \A x \in Range(w) : r.sFile[x] = IF x = n THEN file ELSE t.sFile[x]
      /\ file.flagUse = t.sFile[n].flagUse /\ file.dim = t.sFile[n].dim + size
  BY <1>1, <1>2 DEF Files, FilesAfter
<1>5. UseOf(r) = UseOf(t)
  <2>1. UseOf(r) = InUse(r.name, r.sFile, Range(w)) /\ UseOf(t) = InUse(f, t.sFile, Range(s))
    BY UseIs
  <2>2. {m \in Range(w) : r.sFile[m].flagUse} = {m \in Range(s) : t.sFile[m].flagUse}
    <3> HIDE DEF file, w
    <3>1. \A m \in Range(w) : r.sFile[m].flagUse <=> t.sFile[m].flagUse
      BY <1>4
    <3> QED
      BY <1>2, <3>1
  <2> QED
    BY <2>1, <2>2 DEF InUse
<1>6. SizeOf(r) = Z
  <2>1. /\ \A x \in Range(s) : z[f[x]] = t.sFile[x].dim
        /\ \A x \in Names : (\A m \in Range(s) : f[m] # x) => z[x] = 0
    BY SizeFacts
  <2> HIDE DEF z, f, w, file, victims
  <2>1a. f[n] \notin victims
    BY <1>1 DEF victims, f
  <2> DEFINE y == f[n]
  <2>2. \A x \in Names : Z[x] = IF x \in victims THEN 0
                                ELSE IF x = f[n] THEN z[x] + size ELSE z[x]
    <3> HIDE DEF y
    <3>1. Z = [x \in Names |-> CASE x \in victims -> 0
                                 [] x = y         -> z[x] + size
                                 [] OTHER         -> z[x]]
      BY DEF Larger, y
    <3> HIDE DEF Z
    <3>2. \A x \in Names : Z[x] = IF x \in victims THEN 0
                                  ELSE IF x = y THEN z[x] + size ELSE z[x]
      BY <2>1a, <3>1 DEF y
    <3> QED
      BY <3>2 DEF y
  <2>3. Z = [x \in Names |-> Z[x]]
    BY DEF Larger
  <2> HIDE DEF Z
  <2>4. \A x \in Range(s) : f[x] \in victims <=> x \in gone
    BY <1>1 DEF victims, f
  <2>5. \A x \in Range(w) : Z[f[x]] = r.sFile[x].dim
    <3> SUFFICES ASSUME NEW x \in Range(w) PROVE Z[f[x]] = r.sFile[x].dim
      OBVIOUS
    <3>1. x \in Range(s) /\ f[x] \notin victims /\ f[x] \in Names
          /\ (f[x] = f[n] <=> x = n)
      BY <1>1, <1>2, <2>4
    <3> QED
      BY <1>4, <2>1, <2>2, <3>1
  <2>6. \A x \in Names : (\A m \in Range(w) : f[m] # x) => Z[x] = 0
    <3> SUFFICES ASSUME NEW x \in Names, \A m \in Range(w) : f[m] # x
                 PROVE  Z[x] = 0
      OBVIOUS
    <3>1. n \in Range(w)
      BY <1>2
    <3>2. CASE x \in victims
      BY <2>2, <3>2
    <3>3. CASE x \notin victims
      <4>1. \A m \in Range(s) : f[m] # x
        BY <1>2, <2>4, <3>3
      <4> QED
        BY <2>1, <2>2, <3>1, <3>3, <4>1
    <3> QED
      BY <3>2, <3>3
  <2>7. /\ Holds(r, w) /\ \A x \in Range(w) : Z[r.name[x]] = r.sFile[x].dim
        /\ \A x \in Names : (\A m \in Range(w) : r.name[m] # x) => Z[x] = 0
    BY <2>5, <2>6 DEF w, f
  <2> QED
    BY ONLY <2>3, <2>7, SizesAre
<1> QED
  BY <1>3, <1>5, <1>6 DEF GrownAs

(* appendToFile makes the name grow, at the cost of the oldest idle ones.  *)
LEMMA Grows ==
  ASSUME NEW s, Holds(tree, s), NEW n \in Nodes, NEW size \in Sizes,
         AppendToFile(n, size)
  PROVE  LRU!Grow(tree.name[n], size) /\ tree.name[n] \in UseOf(tree)
<1> DEFINE missing == tree.filedim + size - MaxFileDim
           q == Idle(tree)
           Gone(m) == Range(Pre(q, m))
<1>0. size \in Nat
  BY CapacityAssumption
<1>1. PICK m \in 0..Len(q) :
        /\ Holds(tree', Without(s, Gone(m)))
        /\ tree'.heap = tree.heap /\ tree'.name = tree.name
        /\ n \in Range(s) \ Gone(m)
        /\ \A x \in Nodes : tree'.sFile[x] =
             IF x \in Gone(m) THEN NULL
             ELSE IF x = n THEN [tree.sFile[n] EXCEPT !.dim = @ + size]
             ELSE tree.sFile[x]
        /\ Sum(tree.sFile, Gone(m)) >= missing
        /\ \A j \in 0..Len(q) : j < m => ~(Sum(tree.sFile, Gone(j)) >= missing)
  BY <1>0, Appended
<1> DEFINE gone == Gone(m)
           victims == {tree.name[x] : x \in gone}
<1>2. /\ gone \in SUBSET Range(s) /\ Range(s) \in SUBSET Nodes
      /\ \A x \in gone : ~tree.sFile[x].flagUse
      /\ Len(q) \in Nat
  <2>1. Len(q) \in Nat /\ Range(Pre(q, m)) \subseteq Range(s) \ Busy(tree)
    BY IdleFacts
  <2>2. Range(s) \in SUBSET Nodes
    BY SoundFacts DEF Holds
  <2> QED
    BY <2>1, <2>2 DEF Busy
<1>3. /\ OrderOf(tree') = Without(OrderOf(tree), victims)
      /\ SizeOf(tree') = Larger(SizeOf(tree), victims, tree.name[n], size)
      /\ UseOf(tree') = UseOf(tree)
  <2>1. /\ Holds(tree, s) /\ Holds(tree', Without(s, gone))
        /\ n \in Range(s) \ gone /\ tree'.name = tree.name
        /\ FilesAfter(tree', tree, gone, n, size)
    BY <1>1 DEF FilesAfter
  <2> HIDE DEF gone
  <2>2. GrownAs(tree', tree, {tree.name[x] : x \in gone}, tree.name[n], size)
    BY ONLY <1>0, <1>2, <2>1, Grown3
  <2> QED
    BY <2>2 DEF GrownAs
<1>4. \A j \in 0..Len(q) : LRU!Freed(j) = Sum(tree.sFile, Gone(j))
  BY Freeing
<1>5. Len(LRU!Idle) = Len(q) /\ victims = Range(SubSeq(LRU!Idle, 1, m))
  BY Freeing
<1>6. Missing(size) = missing
  BY StoredTotal DEF Missing
<1> HIDE DEF q, missing, Gone
<1>7. /\ Len(LRU!Idle) \in Nat /\ m \in 0..Len(LRU!Idle)
      /\ LRU!Freed(m) >= Missing(size)
      /\ \A j \in 0..Len(LRU!Idle) : j < m => ~(LRU!Freed(j) >= Missing(size))
  BY <1>1, <1>2, <1>4, <1>5, <1>6
<1>8. LRU!Grow(tree.name[n], size)
  <2> HIDE DEF victims
  <2> QED
    BY <1>3, <1>5, <1>7, LRUGrow
<1>9. tree.name[n] \in UseOf(tree)
  <2>1. UseOf(tree) = InUse(tree.name, tree.sFile, Range(s))
    BY UseIs
  <2>2. tree.sFile[n].flagUse /\ n \in Range(s)
    BY <1>1 DEF AppendToFile
  <2> QED
    BY <2>1, <2>2 DEF InUse
<1> QED
  BY <1>8, <1>9

LEMMA NamedSame ==
  ASSUME NEW s \in Seq(Nodes), NEW f, NEW g, \A x \in Range(s) : f[x] = g[x]
  PROVE  Named(f, s) = Named(g, s)
<1>1. DOMAIN s = 1..Len(s) /\ \A i \in 1..Len(s) : s[i] \in Range(s)
  BY DEF Range
<1>2. \A i \in 1..Len(s) : f[s[i]] = g[s[i]]
  BY <1>1
<1> QED
  BY <1>1, <1>2 DEF Named

Cleared(z, S) == [m \in Names |-> IF m \in S THEN 0 ELSE z[m]]
NewAs(r, t, old, kept, name) ==
  /\ OrderOf(r) = Append(Without(OrderOf(t), old), name)
  /\ SizeOf(r) = Cleared(SizeOf(t), old)
  /\ UseOf(r) \in {UseOf(t) \cup {name}, UseOf(t) \ {name}}
  /\ name \notin kept

(* A new file, after the victims B are gone. *)
LEMMA NewFile ==
  ASSUME NEW t, NEW s, Holds(t, s), NEW B \in SUBSET Range(s),
         \A x \in B : ~t.sFile[x].flagUse,
         NEW r, NEW name \in Names, NEW file, file.dim = 0,
         NewFileAs(r, t, Without(s, B), name, file)
  PROVE  NewAs(r, t, {t.name[x] : x \in B}, {t.name[x] : x \in Range(s) \ B}, name)
<1> DEFINE base == Without(s, B)
           S == Range(s) \ B
           f == t.name
           old == {f[x] : x \in B}
           z == SizeOf(t)
           Z == Cleared(z, old)
<1>1. /\ base \in Seq(Nodes) /\ Distinct(base) /\ Range(base) = S
      /\ s \in Seq(Nodes) /\ f \in Labels /\ Range(s) \in SUBSET Nodes
  <2>1. s \in Seq(Nodes) /\ Distinct(s) /\ Range(s) \in SUBSET Nodes
    BY SoundFacts DEF Holds
  <2> QED
    BY <2>1, WithoutFacts, Seen
<1>2. PICK x \in Nodes \ S :
        /\ Holds(r, Append(base, x)) /\ r.name[x] = name /\ r.sFile[x] = file
        /\ \A m \in S : r.name[m] = f[m] /\ r.sFile[m] = t.sFile[m]
  BY <1>1 DEF NewFileAs
<1>3. Without(OrderOf(t), old) = Named(f, base)
  BY NamesWithout
<1>4. /\ \A m \in Range(s) : f[m] \in Names
      /\ \A l, m \in Range(s) : f[l] = f[m] => l = m
  BY Seen
<1> HIDE DEF base, S, f, old
<1> DEFINE q == Append(base, x)
<1>5. Range(q) = S \cup {x}
  BY <1>1, <1>2, AppendDistinct
<1>6. /\ r.name \in Labels
      /\ \A l, m \in S \cup {x} : r.name[l] = r.name[m] => l = m
  <2>1. Holds(r, q)
    BY <1>2
  <2> HIDE DEF q
  <2> QED
    BY <1>5, <2>1, Seen
<1>7. \A m \in S : f[m] # name
  BY <1>2, <1>6
<1>8. OrderOf(r) = Append(Without(OrderOf(t), old), name)
  <2>1. OrderOf(r) = Named(r.name, q)
    <3>1. Holds(r, q)
      BY <1>2
    <3> HIDE DEF q
    <3> QED
      BY <3>1, OrderIs
  <2>2. Named(r.name, q) = Append(Named(r.name, base), r.name[x])
    BY <1>1, <1>2, <1>6, NamedAppend
  <2>3. Named(r.name, base) = Named(f, base)
    <3> DEFINE g == r.name
    <3>1. base \in Seq(Nodes) /\ \A m \in Range(base) : g[m] = f[m]
      BY <1>1, <1>2
    <3> HIDE DEF g
    <3>2. Named(g, base) = Named(f, base)
      BY ONLY <3>1, NamedSame
    <3> QED
      BY <3>2 DEF g
  <2> QED
    BY <1>2, <1>3, <2>1, <2>2, <2>3
<1>9. UseOf(r) \in {UseOf(t) \cup {name}, UseOf(t) \ {name}}
  <2>1. UseOf(r) = InUse(r.name, r.sFile, S \cup {x})
    <3>1. Holds(r, q)
      BY <1>2
    <3> HIDE DEF q
    <3>2. UseOf(r) = InUse(r.name, r.sFile, Range(q))
      BY <3>1, UseIs
    <3> QED
      BY <1>5, <3>2
  <2>2. UseOf(t) = InUse(f, t.sFile, S)
    <3>1. UseOf(t) = InUse(f, t.sFile, Range(s))
      BY UseIs DEF f
    <3>2. {m \in Range(s) : t.sFile[m].flagUse} = {m \in S : t.sFile[m].flagUse}
      BY DEF S
    <3> QED
      BY <3>1, <3>2 DEF InUse
  <2>3. CASE file.flagUse
    <3>1. {m \in S \cup {x} : r.sFile[m].flagUse}
            = {m \in S : t.sFile[m].flagUse} \cup {x}
      BY <1>2, <2>3
    <3> DEFINE U == {m \in S : t.sFile[m].flagUse}
    <3>2. /\ UseOf(t) = {f[m] : m \in U} /\ U \in SUBSET S
          /\ UseOf(r) = {r.name[m] : m \in U \cup {x}}
      BY <2>1, <2>2, <3>1 DEF InUse
    <3> HIDE DEF U
    <3>3. UseOf(r) = UseOf(t) \cup {name}
      BY <1>2, <3>2
    <3> QED
      BY <3>3
  <2>4. CASE ~file.flagUse
    <3>1. {m \in S \cup {x} : r.sFile[m].flagUse}
            = {m \in S : t.sFile[m].flagUse}
      BY <1>2, <2>4
    <3> DEFINE U == {m \in S : t.sFile[m].flagUse}
    <3>2. /\ UseOf(t) = {f[m] : m \in U} /\ U \in SUBSET S
          /\ UseOf(r) = {r.name[m] : m \in U}
      BY <2>1, <2>2, <3>1 DEF InUse
    <3> HIDE DEF U
    <3>3. UseOf(r) = UseOf(t) \ {name}
      BY <1>2, <1>7, <3>2
    <3> QED
      BY <3>3
  <2> QED
    BY <2>3, <2>4
<1>10. SizeOf(r) = Z
  <2>1. /\ \A m \in Range(s) : z[f[m]] = t.sFile[m].dim
        /\ \A y \in Names : (\A m \in Range(s) : f[m] # y) => z[y] = 0
    BY SizeFacts DEF f
  <2> HIDE DEF z
  <2>2. /\ \A y \in Names : Z[y] = IF y \in old THEN 0 ELSE z[y]
        /\ Z = [y \in Names |-> Z[y]]
    BY DEF Cleared
  <2> HIDE DEF Z
  <2>3. \A m \in Range(s) : f[m] \in old <=> m \in B
    BY <1>4 DEF old
  <2>4. \A m \in S : f[m] \in Names /\ f[m] \notin old /\ m \in Range(s)
    BY <1>4, <2>3 DEF S
  <2>5. \A y \in Names : (\A m \in S : f[m] # y) => Z[y] = 0
    <3> SUFFICES ASSUME NEW y \in Names, \A m \in S : f[m] # y PROVE Z[y] = 0
      OBVIOUS
    <3>1. CASE y \in old
      BY <2>2, <3>1
    <3>2. CASE y \notin old
      <4>1. \A m \in Range(s) : f[m] # y
        BY <2>3, <3>2 DEF S
      <4> QED
        BY <2>1, <2>2, <3>2, <4>1
    <3> QED
      BY <3>1, <3>2
  <2>6. \A m \in Range(q) : Z[r.name[m]] = r.sFile[m].dim
    <3>1. \A m \in S : Z[r.name[m]] = r.sFile[m].dim
      BY <1>2, <2>1, <2>2, <2>4
    <3>2. Z[name] = 0
      BY <1>7, <2>5
    <3> QED
      BY <1>2, <1>5, <3>1, <3>2
  <2>7. \A y \in Names : (\A m \in Range(q) : r.name[m] # y) => Z[y] = 0
    BY <1>2, <1>5, <2>5
  <2>8. Holds(r, q)
    BY <1>2
  <2> HIDE DEF q
  <2> QED
    BY ONLY <2>2, <2>6, <2>7, <2>8, SizesAre
<1> QED
  BY <1>7, <1>8, <1>9, <1>10 DEF NewAs, old, S, f

(* The victim is the oldest idle name. *)
LEMMA VictimName ==
  ASSUME NEW t, NEW s, Holds(t, s), Idle(t) # <<>>
  PROVE  LET q == Without(OrderOf(t), UseOf(t))
         IN /\ q # <<>> /\ Head(q) = t.name[Head(Idle(t))]
            /\ Head(Idle(t)) \in Range(s) /\ ~t.sFile[Head(Idle(t))].flagUse
<1> DEFINE idle == Idle(t)
           q == Named(t.name, idle)
<1>1. /\ idle \in Seq(Nodes) /\ Range(idle) = Range(s) \ Busy(t)
      /\ t.name \in Labels /\ Range(s) \in SUBSET Nodes
      /\ Without(OrderOf(t), UseOf(t)) = q
  BY IdleFacts, IdleNames, Seen, SoundFacts DEF Holds
<1> HIDE DEF idle
<1>2. /\ idle # <<>> /\ Len(idle) \in Nat /\ 1 \in 1..Len(idle)
      /\ Head(idle) = idle[1] /\ Head(idle) \in Range(idle)
  BY <1>1 DEF Range, idle
<1>3. /\ q \in Seq(Names \cup {NULL}) /\ Len(q) = Len(idle)
      /\ q[1] = t.name[idle[1]]
  BY <1>1, <1>2, NamedFacts
<1> HIDE DEF q
<1>4. q # <<>> /\ Head(q) = q[1]
  BY <1>2, <1>3
<1>5. Head(idle) \in Range(s) /\ ~t.sFile[Head(idle)].flagUse
  BY <1>1, <1>2 DEF Busy
<1> QED
  BY <1>1, <1>2, <1>3, <1>4, <1>5 DEF idle

LEMMA Stored ==
  ASSUME NEW t, NEW s, Holds(t, s)
  PROVE  /\ Len(OrderOf(t)) = t.fileCount
         /\ t.fileCount \in Nat /\ t.fileCount <= MaxFileNum
BY StoredNames, SoundFacts DEF Holds, Sound

(* treeFileInsert with room, and in a full tree. *)
LEMMA Inserts ==
  ASSUME NEW s, Holds(tree, s), tree.fileCount # MaxFileNum,
         NEW name \in Names, NEW file, file.dim = 0,
         NewFileAs(tree', tree, s, name, file)
  PROVE  LRU!Insert(name) /\ name \notin LRU!Stored
<1>1. s \in Seq(Nodes)
  BY SoundFacts DEF Holds
<1>2. Without(s, {}) = s /\ Range(s) \ {} = Range(s)
  BY <1>1, WithoutNone
<1>3. NewAs(tree', tree, {tree.name[x] : x \in {}},
            {tree.name[x] : x \in Range(s) \ {}}, name)
  <2>1. {} \in SUBSET Range(s) /\ \A x \in {} : ~tree.sFile[x].flagUse
    OBVIOUS
  <2>2. NewFileAs(tree', tree, Without(s, {}), name, file)
    BY <1>2
  <2>3. Holds(tree, s) /\ name \in Names /\ file.dim = 0
    OBVIOUS
  <2> QED
    BY ONLY <2>1, <2>2, <2>3, NewFile
<1>4. NewAs(tree', tree, {}, {tree.name[x] : x \in Range(s)}, name)
  <2>1. {tree.name[x] : x \in {}} = {}
    OBVIOUS
  <2> QED
    BY <1>2, <1>3, <2>1
<1>5. Without(OrderOf(tree), {}) = OrderOf(tree)
  <2>1. OrderOf(tree) \in Seq(Names \cup {NULL})
    BY <1>1, OrderIs, Seen, NamedFacts
  <2> QED
    BY <2>1, WithoutNone
<1>6. SizeOf(tree') = SizeOf(tree)
  <2>1. SizeOf(tree) = [m \in Names |-> SizeOf(tree)[m]]
    BY SizeFacts
  <2>2. Cleared(SizeOf(tree), {}) = [m \in Names |-> SizeOf(tree)[m]]
    BY DEF Cleared
  <2>3. SizeOf(tree') = Cleared(SizeOf(tree), {})
    BY <1>4 DEF NewAs
  <2> QED
    BY <2>1, <2>2, <2>3
<1>7. Len(OrderOf(tree)) < MaxFileNum
  BY Stored, CapacityAssumption
<1>8. /\ OrderOf(tree') = Append(OrderOf(tree), name)
      /\ UseOf(tree') \in {UseOf(tree) \cup {name}, UseOf(tree) \ {name}}
  BY <1>4, <1>5 DEF NewAs
<1>9. name \notin LRU!Stored
  <2>1. LRU!Stored = {tree.name[x] : x \in Range(s)}
    BY LRUStored, StoredNames
  <2> QED
    BY <1>4, <2>1 DEF NewAs
<1> QED
  BY <1>6, <1>7, <1>8, <1>9, LRUInsert

LEMMA Replaces ==
  ASSUME NEW s, Holds(tree, s), tree.fileCount = MaxFileNum, Idle(tree) # <<>>,
         NEW name \in Names, NEW file, file.dim = 0,
         NewFileAs(tree', tree, Without(s, {Head(Idle(tree))}), name, file)
  PROVE  LRU!Replace(name)
<1> DEFINE victim == Head(Idle(tree))
           q == Without(OrderOf(tree), UseOf(tree))
           vname == tree.name[victim]
<1>1. /\ q # <<>> /\ Head(q) = vname
      /\ victim \in Range(s) /\ ~tree.sFile[victim].flagUse
  BY VictimName
<1>2. NewFileAs(tree', tree, Without(s, {victim}), name, file)
  OBVIOUS
<1> HIDE DEF victim
<1>3. NewAs(tree', tree, {tree.name[x] : x \in {victim}},
            {tree.name[x] : x \in Range(s) \ {victim}}, name)
  <2>1. {victim} \in SUBSET Range(s) /\ \A x \in {victim} : ~tree.sFile[x].flagUse
    BY <1>1
  <2>2. Holds(tree, s) /\ name \in Names /\ file.dim = 0
    OBVIOUS
  <2> QED
    BY ONLY <1>2, <2>1, <2>2, NewFile
<1>4. /\ {tree.name[x] : x \in {victim}} = {vname}
      /\ {tree.name[x] : x \in Range(s) \ {victim}}
           = {tree.name[x] : x \in Range(s)} \ {vname}
  <2>1. \A l, m \in Range(s) : tree.name[l] = tree.name[m] => l = m
    BY Seen
  <2> QED
    BY <1>1, <2>1
<1>5. NewAs(tree', tree, {vname}, Range(OrderOf(tree)) \ {vname}, name)
  <2>1. Range(OrderOf(tree)) = {tree.name[x] : x \in Range(s)}
    BY StoredNames
  <2> QED
    BY <1>3, <1>4, <2>1
<1> HIDE DEF q, vname
<1>6. SizeOf(tree') = [SizeOf(tree) EXCEPT ![vname] = 0]
  <2> DEFINE z == SizeOf(tree)
  <2>1. z = [m \in Names |-> z[m]]
    BY SizeFacts
  <2>2. SizeOf(tree') = Cleared(z, {vname})
    BY <1>5 DEF NewAs
  <2> HIDE DEF z
  <2>3. Cleared(z, {vname}) = [z EXCEPT ![vname] = 0]
    BY <2>1 DEF Cleared
  <2> QED
    BY <2>2, <2>3 DEF z
<1>7. Len(OrderOf(tree)) = MaxFileNum
  BY Stored
<1>8. q = Without(OrderOf(tree), UseOf(tree)) /\ q # <<>>
      /\ name \notin Range(OrderOf(tree)) \ {Head(q)}
      /\ OrderOf(tree') = Append(Without(OrderOf(tree), {Head(q)}), name)
      /\ SizeOf(tree') = [SizeOf(tree) EXCEPT ![Head(q)] = 0]
      /\ UseOf(tree') \in {UseOf(tree) \cup {name}, UseOf(tree) \ {name}}
  BY <1>1, <1>5, <1>6 DEF NewAs, q
<1> QED
  BY ONLY <1>7, <1>8, LRUReplace

UsedAfter(r, t, n) ==
  /\ \A m \in t.heap : r.name[m] = t.name[m]
  /\ \A m \in t.heap : r.sFile[m] =
       IF m = n THEN [t.sFile[n] EXCEPT !.flagUse = TRUE] ELSE t.sFile[m]
KeptAs(r, t, name) ==
  /\ OrderOf(r) = Append(Without(OrderOf(t), {name}), name)
  /\ SizeOf(r) = SizeOf(t) /\ UseOf(r) = UseOf(t) \cup {name}

LEMMA Keeps ==
  ASSUME NEW t, NEW s, Holds(t, s), NEW n \in Range(s), NEW r,
         UsedAfter(r, t, n), Holds(r, Append(Without(s, {n}), n))
  PROVE  KeptAs(r, t, t.name[n])
<1> DEFINE q == Append(Without(s, {n}), n)
           file == [t.sFile[n] EXCEPT !.flagUse = TRUE]
           f == t.name
<1>1. /\ Range(s) \in SUBSET t.heap /\ t.sFile[n] \in Files
      /\ \A l, m \in Range(s) : f[l] = f[m] => l = m
  <2>1. Range(s) \in SUBSET t.heap /\ t.sFile[n] \in Files
    BY SoundFacts DEF Holds, Sound
  <2> QED
    BY <2>1, Seen
<1>2. /\ file.flagUse /\ file.dim = t.sFile[n].dim
      /\ \A m \in Range(s) : r.name[m] = f[m]
      /\ \A m \in Range(s) : r.sFile[m] = IF m = n THEN file ELSE t.sFile[m]
  BY <1>1 DEF Files, UsedAfter
<1>3. Range(q) = Range(s) /\ q \in Seq(Nodes)
  BY NodeWithout
<1>4. Append(Without(OrderOf(t), {f[n]}), f[n]) = Named(f, q)
  <2>1. Append(Without(OrderOf(t), {t.name[n]}), t.name[n])
          = Named(t.name, Append(Without(s, {n}), n))
    <3>1. Holds(t, s) /\ n \in Range(s)
      OBVIOUS
    <3> QED
      BY ONLY <3>1, NameMoved
  <2> QED
    BY <2>1
<1>5. Holds(r, q)
  OBVIOUS
<1> HIDE DEF q, file
<1>6. OrderOf(r) = Named(f, q)
  <2> DEFINE g == r.name
  <2>1. OrderOf(r) = Named(g, q)
    BY <1>5, OrderIs
  <2>2. q \in Seq(Nodes) /\ \A m \in Range(q) : g[m] = f[m]
    BY <1>2, <1>3
  <2> HIDE DEF g, f
  <2>3. Named(g, q) = Named(f, q)
    BY ONLY <2>2, NamedSame
  <2> QED
    BY <2>1, <2>3
<1>7. SizeOf(r) = SizeOf(t)
  <2>1. /\ Holds(t, s) /\ Holds(r, q) /\ Range(q) = Range(s)
        /\ \A m \in Range(s) : r.name[m] = t.name[m]
        /\ \A m \in Range(s) : r.sFile[m].dim = t.sFile[m].dim
    BY <1>2, <1>3, <1>5
  <2> QED
    BY ONLY <2>1, SameSizes
<1>8. UseOf(r) = UseOf(t) \cup {f[n]}
  <2> DEFINE S == Range(s)
             g == t.sFile
             h == r.sFile
  <2>1. UseOf(t) = InUse(f, g, S)
    BY UseIs
  <2>2. UseOf(r) = InUse(f, h, S)
    <3>1. UseOf(r) = InUse(r.name, r.sFile, Range(q))
      BY <1>5, UseIs
    <3>2. \A U \in SUBSET S : {r.name[m] : m \in U} = {f[m] : m \in U}
      BY <1>2
    <3> QED
      BY <1>3, <3>1, <3>2 DEF InUse
  <2>3. /\ \A m \in S \ {n} : h[m] = g[m]
        /\ \A l, m \in S : f[l] = f[m] => l = m
        /\ n \in S /\ h[n].flagUse
    BY <1>1, <1>2
  <2> HIDE DEF S, g, h, f
  <2>4. InUse(f, h, S) = InUse(f, g, S) \cup {f[n]}
    BY ONLY <2>3, UseChanged
  <2> QED
    BY <2>1, <2>2, <2>4
<1> QED
  BY <1>4, <1>6, <1>7, <1>8 DEF KeptAs

(* The name exists and the tree was full: the victim is the newest now. *)
LEMMA Existing ==
  ASSUME NEW s, Holds(tree, s), tree.fileCount = MaxFileNum, Idle(tree) # <<>>,
         NEW name \in Names, NEW victim, victim = Head(Idle(tree)),
         ExistsAs(tree', tree, s, Without(s, {victim}), name, TRUE, victim)
  PROVE  LRU!Exists(name) /\ name \in LRU!Stored
<1> DEFINE q == Without(OrderOf(tree), UseOf(tree))
           vname == tree.name[victim]
<1>1. /\ q # <<>> /\ Head(q) = vname
      /\ victim \in Range(s) /\ ~tree.sFile[victim].flagUse
  BY VictimName
<1>2. PICK at \in Range(Without(s, {victim})) : tree.name[at] = name
  BY DEF ExistsAs
<1>3. at \in Range(s) \ {victim}
  BY <1>1, <1>2, NodeWithout
<1>4. vname # name
  BY <1>1, <1>2, <1>3, Seen
<1>5. name \in LRU!Stored
  BY <1>2, <1>3, LRUStored, StoredNames
<1>6. /\ OrderOf(tree') = Append(Without(OrderOf(tree), {vname}), vname)
      /\ SizeOf(tree') = SizeOf(tree) /\ UseOf(tree') = UseOf(tree) \cup {vname}
  <2>1. /\ UsedAfter(tree', tree, victim)
        /\ Holds(tree', Append(Without(s, {victim}), victim))
    BY DEF ExistsAs, UsedAfter
  <2>2. Holds(tree, s) /\ victim \in Range(s)
    BY <1>1
  <2>3. KeptAs(tree', tree, tree.name[victim])
    BY ONLY <2>1, <2>2, Keeps
  <2> QED
    BY <2>3 DEF KeptAs
<1>7. Len(OrderOf(tree)) = MaxFileNum
  BY Stored
<1> HIDE DEF q, vname
<1>8. q = Without(OrderOf(tree), UseOf(tree)) /\ q # <<>> /\ name # Head(q)
      /\ OrderOf(tree') = Append(Without(OrderOf(tree), {Head(q)}), Head(q))
      /\ UseOf(tree') = UseOf(tree) \cup {Head(q)}
      /\ SizeOf(tree') = SizeOf(tree)
  BY <1>1, <1>4, <1>6 DEF q
<1>9. LRU!Exists(name)
  BY ONLY <1>7, <1>8, LRUExists
<1> QED
  BY <1>5, <1>9

(* The name exists and there was room: nothing has changed. *)
LEMMA Unaffected ==
  ASSUME NEW t, NEW s, Holds(t, s), NEW r, NEW base, NEW name, NEW victim,
         ExistsAs(r, t, s, base, name, FALSE, victim)
  PROVE  OrderOf(r) = OrderOf(t) /\ SizeOf(r) = SizeOf(t) /\ UseOf(r) = UseOf(t)
<1>1. /\ Holds(r, s)
      /\ \A m \in t.heap : r.name[m] = t.name[m] /\ r.sFile[m] = t.sFile[m]
  BY DEF ExistsAs
<1>2. Range(s) \in SUBSET t.heap /\ s \in Seq(Nodes)
  BY SoundFacts DEF Holds, Sound
<1> DEFINE f == t.name
           g == r.name
<1>3. \A m \in Range(s) : g[m] = f[m] /\ r.sFile[m] = t.sFile[m]
  BY <1>1, <1>2
<1>4. OrderOf(r) = OrderOf(t)
  <2>1. OrderOf(r) = Named(g, s) /\ OrderOf(t) = Named(f, s)
    BY <1>1, OrderIs
  <2> HIDE DEF f, g
  <2>2. Named(g, s) = Named(f, s)
    BY <1>2, <1>3, NamedSame
  <2> QED
    BY <2>1, <2>2
<1>5. SizeOf(r) = SizeOf(t)
  <2>1. /\ Holds(t, s) /\ Holds(r, s) /\ Range(s) = Range(s)
        /\ \A m \in Range(s) : r.name[m] = t.name[m]
        /\ \A m \in Range(s) : r.sFile[m].dim = t.sFile[m].dim
    BY <1>1, <1>3
  <2> QED
    BY ONLY <2>1, SameSizes
<1>6. UseOf(r) = UseOf(t)
  <2>1. /\ UseOf(t) = InUse(f, t.sFile, Range(s))
        /\ UseOf(r) = InUse(g, r.sFile, Range(s))
    BY <1>1, UseIs
  <2>2. {m \in Range(s) : r.sFile[m].flagUse} = {m \in Range(s) : t.sFile[m].flagUse}
    BY <1>3
  <2>3. \A U \in SUBSET Range(s) : {g[m] : m \in U} = {f[m] : m \in U}
    BY <1>3
  <2> HIDE DEF f, g
  <2> QED
    BY <2>1, <2>2, <2>3 DEF InUse
<1> QED
  BY <1>4, <1>5, <1>6

(* Every step of the pointers is a step of LRUStore, or none. *)
LEMMA InsertRefines ==
  ASSUME NEW s, Holds(tree, s), NEW name \in Names, NEW locked \in BOOLEAN,
         TreeFileinsert(name, locked)
  PROVE  [LRU!Next]_(LRU!vars)
<1> DEFINE full == tree.fileCount = MaxFileNum
           victim == Head(Idle(tree))
           base == IF full THEN Without(s, {victim}) ELSE s
           file == [dim |-> 0, flagUse |-> ~locked]
<1>1. InsertedAs(tree', tree, s, name, locked)
  BY Inserted
<1>2. /\ full => Idle(tree) # <<>> /\ victim \in Range(s)
      /\ \/ NewFileAs(tree', tree, base, name, file)
         \/ ExistsAs(tree', tree, s, base, name, full, victim)
  BY <1>1 DEF InsertedAs
<1>3. file.dim = 0
  OBVIOUS
<1> HIDE DEF file
<1>4. CASE ~full /\ NewFileAs(tree', tree, base, name, file)
  <2>1. NewFileAs(tree', tree, s, name, file) /\ tree.fileCount # MaxFileNum
    BY <1>4
  <2>2. LRU!Insert(name) /\ name \notin LRU!Stored
    BY <1>3, <2>1, Inserts
  <2> QED
    BY <2>2 DEF LRU!Next
<1>5. CASE full /\ NewFileAs(tree', tree, base, name, file)
  <2>1. /\ NewFileAs(tree', tree, Without(s, {Head(Idle(tree))}), name, file)
        /\ tree.fileCount = MaxFileNum /\ Idle(tree) # <<>>
    BY <1>2, <1>5
  <2>2. LRU!Replace(name)
    BY <1>3, <2>1, Replaces
  <2> QED
    BY <2>2 DEF LRU!Next
<1>6. CASE full /\ ExistsAs(tree', tree, s, base, name, full, victim)
  <2>1. /\ ExistsAs(tree', tree, s, Without(s, {victim}), name, TRUE, victim)
        /\ tree.fileCount = MaxFileNum /\ Idle(tree) # <<>>
    <3>1. full = TRUE
      BY <1>6
    <3>2. base = Without(s, {victim})
      BY <1>6
    <3> HIDE DEF base, victim
    <3> QED
      BY <1>2, <1>6, <3>1, <3>2
  <2>2. LRU!Exists(name) /\ name \in LRU!Stored
    BY <2>1, Existing
  <2> QED
    BY <2>2 DEF LRU!Next
<1>7. CASE ~full /\ ExistsAs(tree', tree, s, base, name, full, victim)
  <2>1. ExistsAs(tree', tree, s, base, name, FALSE, victim)
    <3>1. full = FALSE
      BY <1>7
    <3> HIDE DEF base, victim
    <3> QED
      BY <1>7, <3>1
  <2>2. UNCHANGED LRU!vars
    <3> HIDE DEF base, victim
    <3>1. OrderOf(tree') = OrderOf(tree) /\ SizeOf(tree') = SizeOf(tree)
          /\ UseOf(tree') = UseOf(tree)
      BY <2>1, Unaffected
    <3> QED
      BY <3>1, LRUStutters
  <2> QED
    BY <2>2
<1> QED
  BY <1>2, <1>4, <1>5, <1>6, <1>7

LEMMA NextRefines == IInv /\ [Next]_vars => [LRU!Next]_(LRU!vars)
<1> SUFFICES ASSUME IInv, [Next]_vars PROVE [LRU!Next]_(LRU!vars)
  OBVIOUS
<1> DEFINE s == OldestFirst(tree)
<1>0. Holds(tree, s)
  BY DEF IInv
<1> HIDE DEF s
<1>00. LRU!Stored = {tree.name[x] : x \in Range(s)}
  BY <1>0, LRUStored, StoredNames
<1>1. ASSUME NEW name \in Names, NEW locked \in BOOLEAN,
             TreeFileinsert(name, locked)
      PROVE  [LRU!Next]_(LRU!vars)
  BY <1>0, <1>1, InsertRefines
<1>2. ASSUME NEW n \in Nodes, TreeFileRemove(n) PROVE LRU!Next
  <2>1. n \in Range(s) /\ tree' = Evict(tree, n)
    BY <1>0, <1>2, FileIsListed DEF TreeFileRemove
  <2>2. /\ OrderOf(tree') = Without(OrderOf(tree), {tree.name[n]})
        /\ SizeOf(tree') = [SizeOf(tree) EXCEPT ![tree.name[n]] = 0]
        /\ UseOf(tree') = UseOf(tree) \ {tree.name[n]}
    BY <1>0, <2>1, Deletes
  <2>3. PICK name \in LRU!Stored : name = tree.name[n]
    BY <1>00, <2>1
  <2>4. LRU!Delete(name)
    BY <2>2, <2>3, LRUDelete
  <2> QED
    BY <2>4 DEF LRU!Next
<1>3. ASSUME NEW n \in Nodes, Touch(n) PROVE LRU!Next
  <2>1. n \in Range(s) /\ tree' = moveToFrontLRU(tree, n) /\ ~tree.sFile[n].flagUse
    BY <1>0, <1>3, FileIsListed DEF Touch
  <2>2. /\ tree.name[n] \notin UseOf(tree)
        /\ OrderOf(tree') =
             Append(Without(OrderOf(tree), {tree.name[n]}), tree.name[n])
        /\ UseOf(tree') = UseOf(tree) /\ SizeOf(tree') = SizeOf(tree)
    BY <1>0, <2>1, Touches
  <2>3. PICK name \in LRU!Stored : name = tree.name[n]
    BY <1>00, <2>1
  <2>4. LRU!Touch(name)
    BY <2>2, <2>3, LRUTouch
  <2> QED
    BY <2>4 DEF LRU!Next
<1>4. ASSUME NEW n \in Nodes, SetUse(n) PROVE LRU!Next
  <2>1. n \in Range(s) /\ tree' = [tree EXCEPT !.sFile[n].flagUse = ~@]
    BY <1>0, <1>4, FileIsListed DEF SetUse
  <2>2. /\ OrderOf(tree') = OrderOf(tree) /\ SizeOf(tree') = SizeOf(tree)
        /\ UseOf(tree') \in {UseOf(tree) \cup {tree.name[n]},
                             UseOf(tree) \ {tree.name[n]}}
    BY <1>0, <2>1, Uses
  <2>3. PICK name \in LRU!Stored : name = tree.name[n]
    BY <1>00, <2>1
  <2>4. LRU!Use(name)
    BY <2>2, <2>3, LRUUse
  <2> QED
    BY <2>4 DEF LRU!Next
<1>5. ASSUME NEW n \in Nodes, NEW size \in Sizes, AppendToFile(n, size)
      PROVE  LRU!Next
  <2>1. LRU!Grow(tree.name[n], size) /\ tree.name[n] \in UseOf(tree)
    BY <1>0, <1>5, Grows
  <2> QED
    BY <2>1 DEF LRU!Next, UseOf, Filed, WithFile
<1>6. CASE UNCHANGED vars
  <2>1. tree' = tree
    BY <1>6 DEF vars
  <2>2. UNCHANGED LRU!vars
    BY <2>1, LRUStutters
  <2> QED
    BY <2>2
<1> QED
  BY <1>1, <1>2, <1>3, <1>4, <1>5, <1>6 DEF Next

LEMMA InitRefines == Init => LRU!Init
<1> SUFFICES ASSUME Init PROVE LRU!Init
  OBVIOUS
<1>1. Holds(tree, <<>>) /\ Range(<<>>) = {}
  BY Empty DEF Range
<1>2. OrderOf(tree) = <<>>
  BY <1>1, OrderIs DEF Named
<1>3. UseOf(tree) = {}
  BY <1>1, UseIs DEF InUse
<1>4. SizeOf(tree) = [name \in Names |-> 0]
  <2> DEFINE z == [name \in Names |-> 0]
  <2>1. /\ z = [name \in Names |-> z[name]]
        /\ \A name \in Names : z[name] = 0
        /\ \A n \in Range(<<>>) : z[tree.name[n]] = tree.sFile[n].dim
    BY <1>1
  <2> HIDE DEF z
  <2>2. SizeOf(tree) = z
    BY <1>1, <2>1, SizesAre
  <2> QED
    BY <2>2 DEF z
<1> QED
  BY <1>2, <1>3, <1>4 DEF LRU!Init, OrderOf, UseOf, SizeOf, Filed, WithFile

(* Theorem.  The pointers of tree.c implement the store that tree.h        *)
(* promises (LRUStore): files in the order of their last use, of which     *)
(* only idle ones and only the oldest, as few as needed, make room; every  *)
(* operation on one file leaves the others, their order, sizes and uses    *)
(* alone.                                                                  *)
THEOREM StoreImplementsLRU == Spec => ImplementsLRU
BY InitRefines, NextRefines, Invariance, PTL DEF Spec, ImplementsLRU, LRU!Spec
================================================================================
