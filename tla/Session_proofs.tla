---------------------------- MODULE Session_proofs ----------------------------
(***************************************************************************)
(* Theorems about Session, for bounds of any size:                         *)
(*   SessionInvariance  the inductive invariant IInv                       *)
(*   TypesKept          the variables keep their types                     *)
(*   KeptInStep         neither end takes one thing for another            *)
(*   FatalErrorsClose   the errors called fatal end the connection, and    *)
(*                      no others do                                       *)
(*   CallsRefined       the calls implement RemoteCall                     *)
(*                                                                         *)
(* IInv says what is in each stream: as the worker will read it (UpFits),  *)
(* whether a payload is still to come (UpWaits), and as the client will    *)
(* read it, from the place where it is in its call (Sync) - unless it has  *)
(* left part of an answer, and will never get past that (Stuck).           *)
(*                                                                         *)
(* The files of an answer are FlattenSeq of a function; that the first is  *)
(* followed by the others (FlattenCons) is shown from its recursive        *)
(* definition, by the least number for which it would fail.                *)
(***************************************************************************)
EXTENDS Session, SequenceTheorems, WellFoundedInduction, TLAPS

-----------------------------------------------------------------------------
(* What is sent, and reading it one thing at a time *)

(* A set of numbers that is not empty has a least one: proofs by induction *)
(* take the least counterexample.                                          *)
LEMMA LeastNumber ==
  ASSUME NEW S \in SUBSET Nat, S # {}
  PROVE  \E m \in S : \A y \in S : m <= y
<1> DEFINE Less == {ss \in Nat \X Nat : ss[1] < ss[2]}
<1>1. IsWellFoundedOn(Less, Nat)
  BY NatLessThanWellFounded DEF OpToRel
<1>2. PICK x \in S : \A y \in S : ~(<<y, x>> \in Less)
  BY <1>1, WFMin
<1>3. ASSUME NEW y \in S PROVE x <= y
  <2>1. x \in Nat /\ y \in Nat
    OBVIOUS
  <2>2. y < x => <<y, x>> \in Less
    BY <2>1
  <2> QED
    BY <1>2, <2>1, <2>2
<1> QED
  BY <1>3

(* FlattenSeq is the last value of a function defined by recursion: the    *)
(* function exists.                                                        *)
Joined(q, n, f) ==
  f = [i \in 1..n |-> IF i = 1 THEN q[i] ELSE f[i-1] \o q[i]]

LEMMA JoinedExist ==
  ASSUME NEW q, NEW n \in Nat
  PROVE  \E f : Joined(q, n, f)
<1> DEFINE Bad == {m \in Nat : ~ \E f : Joined(q, m, f)}
<1> SUFFICES Bad = {}
  OBVIOUS
<1> SUFFICES ASSUME Bad # {} PROVE FALSE
  OBVIOUS
<1>1. PICK m \in Bad : \A y \in Bad : m <= y
  BY LeastNumber
<1>2. m # 0
  <2>1. Joined(q, 0, [i \in 1..0 |-> q[i]])
    BY DEF Joined
  <2> QED
    BY <2>1
<1>3. PICK f : Joined(q, m - 1, f)
  BY <1>1, <1>2
<1> DEFINE g == [i \in 1..m |-> IF i < m THEN f[i]
                                ELSE IF m = 1 THEN q[m] ELSE f[m - 1] \o q[m]]
<1>4. ASSUME NEW i \in 1..m
      PROVE  g[i] = IF i = 1 THEN q[i] ELSE g[i-1] \o q[i]
  <2>1. CASE i < m
    <3>1. i \in 1..m - 1 /\ m \in Nat
      BY <1>1, <2>1
    <3>2. f[i] = IF i = 1 THEN q[i] ELSE f[i-1] \o q[i]
      BY <1>3, <3>1 DEF Joined
    <3> QED
      BY <2>1, <3>1, <3>2
  <2>2. CASE i = m
    BY <2>2
  <2> QED
    BY <2>1, <2>2
<1>5. Joined(q, m, g)
  BY <1>4 DEF Joined
<1> QED
  BY <1>5

LEMMA JoinedFlatten ==
  ASSUME NEW S, NEW q \in Seq(Seq(S)), Len(q) > 0
  PROVE  \E f : Joined(q, Len(q), f) /\ FlattenSeq(q) = f[Len(q)]
<1> DEFINE F == CHOOSE f : f = [i \in 1..Len(q) |->
                             IF i = 1 THEN q[i] ELSE f[i-1] \o q[i]]
<1>1. FlattenSeq(q) = F[Len(q)]
  BY DEF FlattenSeq
<1>2. \E f : Joined(q, Len(q), f)
  <2>1. Len(q) \in Nat
    OBVIOUS
  <2> QED
    BY <2>1, JoinedExist
<1>3. Joined(q, Len(q), F)
  BY <1>2 DEF Joined
<1> QED
  BY <1>1, <1>3

LEMMA JoinedSteps ==
  ASSUME NEW q, NEW f, NEW n \in Nat, Joined(q, n, f)
  PROVE  /\ n > 0 => f[1] = q[1]
         /\ \A i \in 1..n - 1 : f[i + 1] = f[i] \o q[i + 1]
<1>1. \A j \in 1..n : f[j] = IF j = 1 THEN q[j] ELSE f[j - 1] \o q[j]
  BY DEF Joined
<1>3. n > 0 => f[1] = q[1]
  <2>1. n > 0 => 1 \in 1..n
    OBVIOUS
  <2> QED
    BY <1>1, <2>1
<1>2. ASSUME NEW i \in 1..n - 1 PROVE f[i + 1] = f[i] \o q[i + 1]
  <2>1. i + 1 \in 1..n /\ i + 1 # 1 /\ (i + 1) - 1 = i
    OBVIOUS
  <2>2. f[i + 1] = f[(i + 1) - 1] \o q[i + 1]
    BY <1>1, <2>1
  <2> QED
    BY <2>1, <2>2
<1> QED
  BY <1>2, <1>3

TailOf(S, q, p, n) ==
  /\ \A i \in 1..n + 1 : q[i] \in Seq(S)
  /\ \A i \in 1..n : p[i] = q[i + 1]

Splits(S, q, f, g, n) ==
  /\ f[n + 1] \in Seq(S) /\ g[n] \in Seq(S)
  /\ f[n + 1] = q[1] \o g[n]

(* The prefixes of a sequence are its head and the prefixes of its tail.   *)
LEMMA JoinedCons ==
  ASSUME NEW S, NEW q, NEW p, NEW f, NEW g, NEW n \in Nat, n > 0,
         Joined(q, n + 1, f), Joined(p, n, g), TailOf(S, q, p, n)
  PROVE  Splits(S, q, f, g, n)
<1> DEFINE Good(i) == /\ g[i] \in Seq(S) /\ f[i + 1] \in Seq(S)
                      /\ f[i + 1] = q[1] \o g[i]
           Bad == {i \in 1..n : ~Good(i)}
<1>1. Good(1)
  <2>1. f[1 + 1] = f[1] \o q[1 + 1] /\ f[1] = q[1] /\ g[1] = p[1]
    <3>1. n + 1 \in Nat /\ n + 1 > 0 /\ 1 \in 1..(n + 1) - 1
      OBVIOUS
    <3> QED
      BY <3>1, JoinedSteps
  <2>2. p[1] = q[1 + 1] /\ p[1] \in Seq(S) /\ q[1] \in Seq(S)
    BY DEF TailOf
  <2>3. q[1] \o p[1] \in Seq(S)
    BY <2>2, ConcatProperties
  <2> QED
    BY <2>1, <2>2, <2>3
<1>2. ASSUME NEW i \in 1..n - 1, Good(i) PROVE Good(i + 1)
  <2>1. /\ f[(i + 1) + 1] = f[i + 1] \o q[(i + 1) + 1]
        /\ g[i + 1] = g[i] \o p[i + 1]
    <3>1. n + 1 \in Nat /\ i + 1 \in 1..(n + 1) - 1
      OBVIOUS
    <3> QED
      BY <3>1, JoinedSteps
  <2>2. p[i + 1] = q[(i + 1) + 1] /\ p[i + 1] \in Seq(S) /\ q[1] \in Seq(S)
    BY DEF TailOf
  <2>3. (q[1] \o g[i]) \o p[i + 1] = q[1] \o (g[i] \o p[i + 1])
    <3>1. g[i] \in Seq(S) /\ p[i + 1] \in Seq(S) /\ q[1] \in Seq(S)
      BY <1>2, <2>2
    <3>2. PICK u, v, w : u = q[1] /\ v = g[i] /\ w = p[i + 1]
      OBVIOUS
    <3>3. u \in Seq(S) /\ v \in Seq(S) /\ w \in Seq(S)
      BY <3>1, <3>2
    <3>4. (u \o v) \o w = u \o (v \o w)
      BY <3>3, ConcatAssociative
    <3> QED
      BY <3>2, <3>4, Zenon
  <2>4. g[i] \o p[i + 1] \in Seq(S) /\ f[i + 1] \o p[i + 1] \in Seq(S)
    BY <1>2, <2>2, ConcatProperties
  <2> QED
    BY <1>2, <2>1, <2>2, <2>3, <2>4
<1> HIDE DEF Good
<1>3. ASSUME Bad # {} PROVE FALSE
  <2>1. PICK i \in Bad : \A y \in Bad : i <= y
    <3>1. Bad \in SUBSET Nat
      OBVIOUS
    <3> HIDE DEF Bad
    <3> QED
      BY <1>3, <3>1, LeastNumber
  <2>2. i \in 1..n /\ ~Good(i)
    OBVIOUS
  <2>3. CASE i = 1
    BY <1>1, <2>2, <2>3
  <2>4. CASE i # 1
    <3>1. i - 1 \in 1..n - 1 /\ i - 1 \in 1..n /\ i - 1 < i /\ (i - 1) + 1 = i
      BY <2>2, <2>4
    <3>2. i - 1 \notin Bad
      BY <2>1, <2>2, <3>1
    <3>3. Good(i - 1)
      BY <3>1, <3>2
    <3>4. Good((i - 1) + 1)
      BY <1>2, <3>1, <3>3
    <3> QED
      BY <2>2, <3>1, <3>4
  <2> QED
    BY <2>3, <2>4
<1>4. n \in 1..n /\ n \notin Bad
  BY <1>3
<1>5. Good(n)
  BY <1>4
<1> QED
  BY <1>5 DEF Good, Splits

(* Flattening a sequence of sequences flattens its tail after its head.    *)
LEMMA FlattenCons ==
  ASSUME NEW S, NEW q \in Seq(Seq(S)), Len(q) > 0
  PROVE  /\ FlattenSeq(q) \in Seq(S)
         /\ FlattenSeq(Tail(q)) \in Seq(S)
         /\ FlattenSeq(q) = q[1] \o FlattenSeq(Tail(q))
<1>0. /\ Len(q) \in Nat \ {0}
      /\ Tail(q) \in Seq(Seq(S)) /\ Len(Tail(q)) = Len(q) - 1
      /\ \A i \in 1..Len(q) - 1 : Tail(q)[i] = q[i + 1]
      /\ \A i \in 1..Len(q) : q[i] \in Seq(S)
  OBVIOUS
<1>1. PICK f : Joined(q, Len(q), f) /\ FlattenSeq(q) = f[Len(q)]
  BY JoinedFlatten
<1>2. CASE Len(q) = 1
  <2>1. FlattenSeq(q) = q[1]
    BY <1>0, <1>1, <1>2, JoinedSteps
  <2>2. Tail(q) = <<>>
    <3>1. Tail(q) \in Seq(Seq(S)) /\ Len(Tail(q)) = 0
      BY <1>0, <1>2
    <3> QED
      BY <3>1, EmptySeq
  <2>3. FlattenSeq(<<>>) = <<>>
    BY DEF FlattenSeq
  <2>4. q[1] \in Seq(S) /\ <<>> \in Seq(S)
    BY <1>0
  <2>5. q[1] \o <<>> = q[1]
    BY <2>4, ConcatEmptySeq
  <2> QED
    BY <2>1, <2>2, <2>3, <2>4, <2>5
<1>3. ASSUME Len(q) > 1
      PROVE  /\ FlattenSeq(q) \in Seq(S)
             /\ FlattenSeq(Tail(q)) \in Seq(S)
             /\ FlattenSeq(q) = q[1] \o FlattenSeq(Tail(q))
  <2> DEFINE p == Tail(q)
  <2>1. PICK n \in Nat : n > 0 /\ Len(q) = n + 1 /\ Len(p) = n
    <3>1. Len(q) - 1 \in Nat /\ Len(q) - 1 > 0 /\ Len(q) = (Len(q) - 1) + 1
      BY <1>0, <1>3
    <3> QED
      BY <1>0, <3>1
  <2>2. p \in Seq(Seq(S)) /\ Len(p) > 0
    BY <1>0, <2>1
  <2>3. TailOf(S, q, p, n)
    BY <1>0, <2>1 DEF TailOf
  <2> HIDE DEF p
  <2>4. PICK g : Joined(p, Len(p), g) /\ FlattenSeq(p) = g[Len(p)]
    BY <2>2, JoinedFlatten
  <2>5. Joined(q, n + 1, f) /\ Joined(p, n, g)
    BY <1>1, <2>1, <2>4
  <2>6. Splits(S, q, f, g, n)
    <3>1. n \in Nat /\ n > 0
      BY <2>1
    <3> QED
      BY <2>3, <2>5, <3>1, JoinedCons
  <2>7. /\ FlattenSeq(q) \in Seq(S)
        /\ FlattenSeq(p) \in Seq(S)
        /\ FlattenSeq(q) = q[1] \o FlattenSeq(p)
    BY <1>1, <2>1, <2>4, <2>6 DEF Splits
  <2> QED
    BY <2>7 DEF p
<1> QED
  BY <1>0, <1>2, <1>3

-----------------------------------------------------------------------------
(* The tokens of the streams, and the shapes of a request, its payload and *)
(* the files of an answer as they are read                                 *)

Piece(n) == [kind |-> "data", val |-> n]
Limit == 16 * Shift
UpToken == {Word(o, d) : o \in Ops, d \in BOOLEAN}
           \cup {Number(n) : n \in Sizes} \cup {Name} \cup {Piece(n) : n \in Sizes}
DownToken == {Number(n) : n \in 0..Limit - 1}
             \cup {Number(n) : n \in Sizes} \cup {Name} \cup {Piece(n) : n \in Sizes}

(* The contents, if there are any, and what follows.                       *)
Body(n, t) == IF n = 0 THEN t ELSE Cons(Piece(n), t)
Payload(n) == Cons(Number(n), Body(n, <<>>))
Payloads == {Payload(n) : n \in Sizes}
Contents(k) == {Sent(s) : s \in [1..k -> Sizes]}

(* A result holds a code and a number of files, and either can be read.    *)
LEMMA ShiftFacts ==
  /\ Shift \in Nat /\ Shift > 15 /\ Limit \in Nat /\ Limit > 15
  /\ MaxFiles < Shift
BY BoundsAssumption, SMT DEF Shift, Limit

LEMMA ResultOf ==
  ASSUME NEW c \in 0..15, NEW k \in 0..Shift - 1
  PROVE  /\ c * Shift + k \in 0..Limit - 1
         /\ (c * Shift + k) \div Shift = c /\ (c * Shift + k) % Shift = k
BY SMT DEF Shift, Limit

LEMMA ResultPlain ==
  ASSUME NEW c \in 0..15
  PROVE  /\ c \in 0..Limit - 1 /\ c * Shift \in 0..Limit - 1
         /\ c \div Shift = 0 /\ c % Shift = c
         /\ (c * Shift) \div Shift = c /\ (c * Shift) % Shift = 0
BY SMT DEF Shift, Limit

LEMMA ResultParts ==
  ASSUME NEW r \in 0..Limit - 1
  PROVE  r \div Shift \in 0..15 /\ r % Shift \in 0..Shift - 1
BY SMT DEF Shift, Limit

(* A sequence read from its first element on.                              *)
LEMMA ConsFacts ==
  ASSUME NEW S, NEW a \in S, NEW s \in Seq(S)
  PROVE  /\ Cons(a, s) \in Seq(S) /\ Cons(a, s) # <<>>
         /\ Head(Cons(a, s)) = a /\ Tail(Cons(a, s)) = s
         /\ Len(Cons(a, s)) = Len(s) + 1
BY DEF Cons

LEMMA ConsOne == ASSUME NEW a PROVE <<a>> = Cons(a, <<>>)
<1>1. a \in {a} /\ <<a>> \in Seq({a})
  OBVIOUS
<1> QED
  BY <1>1, ConcatEmptySeq DEF Cons

(* Concatenation under a name: the prover then takes it as it is.          *)
Cat(s, t) == s \o t

LEMMA CatFacts ==
  ASSUME NEW S, NEW s \in Seq(S), NEW t \in Seq(S)
  PROVE  /\ Cat(s, t) \in Seq(S)
         /\ Cat(<<>>, t) = t /\ Cat(s, <<>>) = s
         /\ s # <<>> => Cat(s, t) # <<>> /\ Head(Cat(s, t)) = Head(s)
BY DEF Cat

LEMMA CatCons ==
  ASSUME NEW S, NEW a \in S, NEW s \in Seq(S), NEW t \in Seq(S)
  PROVE  Cat(Cons(a, s), t) = Cons(a, Cat(s, t))
<1>1. <<a>> \in Seq(S)
  OBVIOUS
<1> QED
  BY <1>1, ConcatAssociative DEF Cons, Cat

LEMMA CatThree ==
  ASSUME NEW S, NEW a \in S, NEW b \in S, NEW c \in S, NEW s \in Seq(S)
  PROVE  Cat(<<a, b, c>>, s) = Cons(a, Cons(b, Cons(c, s)))
<1>1. <<a, b, c>> \o s = <<a>> \o (<<b>> \o (<<c>> \o s))
  <2>1. PICK u : u = <<c>> \o s
    OBVIOUS
  <2>2. PICK v : v = <<b>> \o u
    OBVIOUS
  <2>3. u \in Seq(S) /\ Len(u) = Len(s) + 1 /\ u[1] = c
        /\ \A i \in 1..Len(s) : u[i + 1] = s[i]
    BY <2>1
  <2>4. v \in Seq(S) /\ Len(v) = Len(u) + 1 /\ v[1] = b
        /\ \A i \in 1..Len(u) : v[i + 1] = u[i]
    BY <2>2, <2>3
  <2>5. v[2] = c /\ \A i \in 1..Len(s) : v[i + 2] = s[i]
    <3>1. 1 \in 1..Len(u) /\ v[1 + 1] = u[1]
      BY <2>3, <2>4
    <3>2. ASSUME NEW i \in 1..Len(s) PROVE v[i + 2] = s[i]
      <4>1. i + 1 \in 1..Len(u) /\ (i + 1) + 1 = i + 2
        BY <2>3
      <4>2. v[(i + 1) + 1] = u[i + 1]
        BY <2>4, <4>1
      <4> QED
        BY <2>3, <4>1, <4>2
    <3> QED
      BY <2>3, <3>1, <3>2
  <2>6. PICK x : x = <<a, b, c>> \o s
    OBVIOUS
  <2>7. PICK y : y = <<a>> \o v
    OBVIOUS
  <2>8. /\ x \in Seq(S) /\ Len(x) = Len(s) + 3
        /\ x[1] = a /\ x[2] = b /\ x[3] = c
        /\ \A i \in 1..Len(s) : x[i + 3] = s[i]
    BY <2>6
  <2>9. y \in Seq(S) /\ Len(y) = Len(v) + 1 /\ y[1] = a
        /\ \A i \in 1..Len(v) : y[i + 1] = v[i]
    BY <2>4, <2>7
  <2>10. Len(s) \in Nat /\ Len(v) = Len(s) + 2
    BY <2>3, <2>4
  <2>11. ASSUME NEW i \in 1..Len(x) PROVE x[i] = y[i]
    <3>1. CASE i = 1
      BY <2>8, <2>9, <3>1
    <3>2. CASE i > 1
      <4>1. i - 1 \in 1..Len(v) /\ (i - 1) + 1 = i
        BY <2>8, <2>10, <3>2
      <4>2. y[i] = v[i - 1]
        BY <2>9, <4>1
      <4>3. CASE i - 1 = 1
        BY <2>4, <2>8, <4>2, <4>3
      <4>4. CASE i - 1 = 2
        BY <2>5, <2>8, <4>2, <4>4
      <4>5. CASE i - 1 > 2
        <5>1. /\ i - 3 \in 1..Len(s) /\ (i - 3) + 3 = i /\ (i - 3) + 2 = i - 1
          BY <2>8, <4>5
        <5>2. x[(i - 3) + 3] = s[i - 3] /\ v[(i - 3) + 2] = s[i - 3]
          BY <2>5, <2>8, <5>1
        <5> QED
          BY <4>2, <5>1, <5>2
      <4> QED
        BY <3>2, <4>1, <4>3, <4>4, <4>5
    <3> QED
      BY <2>8, <3>1, <3>2
  <2>12. x = y
    BY <2>8, <2>9, <2>10, <2>11, SeqEqual
  <2> QED
    BY <2>1, <2>2, <2>6, <2>7, <2>12
<1> QED
  BY <1>1 DEF Cons, Cat

LEMMA TokenFacts ==
  /\ Name \in UpToken /\ Name \in DownToken
  /\ \A n \in Sizes : /\ Number(n) \in UpToken /\ Number(n) \in DownToken
                      /\ Piece(n) \in UpToken /\ Piece(n) \in DownToken
  /\ \A n \in 0..Limit - 1 : Number(n) \in DownToken
  /\ \A o \in Ops, d \in BOOLEAN : Word(o, d) \in UpToken
  /\ Number(1) \in DownToken
BY ShiftFacts DEF UpToken, DownToken

LEMMA BodyFacts ==
  ASSUME NEW S, NEW n \in Sizes, Piece(n) \in S, NEW t \in Seq(S)
  PROVE  /\ Body(n, t) \in Seq(S) /\ Data(n) \in Seq(S)
         /\ Cat(Data(n), t) = Body(n, t)
<1>1. CASE n = 0
  <2>1. Cat(<<>>, t) = t /\ <<>> \in Seq(S)
    BY CatFacts
  <2> QED
    BY <1>1, <2>1 DEF Body, Data
<1>2. CASE n # 0
  BY <1>2, ConsFacts DEF Body, Data, Cons, Cat, Piece
<1> QED
  BY <1>1, <1>2

LEMMA FileCons ==
  ASSUME NEW n \in Sizes, NEW t \in Seq(DownToken)
  PROVE  /\ File(n) \in Seq(DownToken)
         /\ Cat(File(n), t)
              = Cons(Number(1), Cons(Name, Cons(Number(n), Body(n, t))))
<1>1. /\ Number(1) \in DownToken /\ Name \in DownToken
      /\ Number(n) \in DownToken /\ Piece(n) \in DownToken
  BY TokenFacts
<1>2. /\ Data(n) \in Seq(DownToken) /\ Body(n, t) \in Seq(DownToken)
      /\ Cat(Data(n), t) = Body(n, t)
  BY <1>1, BodyFacts
<1> DEFINE v == Cons(Number(n), Data(n))
           w == Cons(Name, v)
<1>3. v \in Seq(DownToken) /\ Cat(v, t) = Cons(Number(n), Body(n, t))
  BY <1>1, <1>2, ConsFacts, CatCons
<1> HIDE DEF v
<1>4. w \in Seq(DownToken) /\ Cat(w, t) = Cons(Name, Cat(v, t))
  BY <1>1, <1>3, ConsFacts, CatCons
<1> HIDE DEF w
<1>5. /\ Cons(Number(1), w) \in Seq(DownToken)
      /\ Cat(Cons(Number(1), w), t) = Cons(Number(1), Cat(w, t))
  BY <1>1, <1>4, ConsFacts, CatCons
<1>6. File(n) = Cat(<<Number(1), Name, Number(n)>>, Data(n))
  BY DEF File, Cat
<1>7. File(n) = Cons(Number(1), w)
  BY <1>1, <1>2, <1>6, CatThree DEF v, w
<1> QED
  BY <1>3, <1>4, <1>5, <1>7

(* Nothing is sent for no file; the first of several files comes first.    *)
LEMMA SentNone == \A s \in [1..0 -> Sizes] : Sent(s) = <<>>
<1> SUFFICES ASSUME NEW s \in [1..0 -> Sizes] PROVE Sent(s) = <<>>
  OBVIOUS
<1> DEFINE q == [i \in DOMAIN s |-> File(s[i])]
<1>1. DOMAIN s = 1..0
  OBVIOUS
<1>2. q = <<>>
  <2>1. q \in Seq({q[i] : i \in 1..0}) /\ Len(q) = 0
    BY <1>1
  <2> QED
    BY <2>1, EmptySeq
<1>3. Sent(s) = FlattenSeq(q)
  BY DEF Sent
<1> QED
  BY <1>2, <1>3 DEF FlattenSeq

LEMMA SentSome ==
  ASSUME NEW k \in Nat, NEW s \in [1..k + 1 -> Sizes]
  PROVE  \E n \in Sizes, r \in [1..k -> Sizes] :
           /\ Sent(s) \in Seq(DownToken) /\ Sent(r) \in Seq(DownToken)
           /\ Sent(s) = Cat(File(n), Sent(r))
<1> DEFINE q == [i \in DOMAIN s |-> File(s[i])]
           r == [i \in 1..k |-> s[i + 1]]
           p == [i \in DOMAIN r |-> File(r[i])]
<1>1. DOMAIN s = 1..k + 1 /\ DOMAIN r = 1..k /\ r \in [1..k -> Sizes]
  OBVIOUS
<1>2. \A n \in Sizes : File(n) \in Seq(DownToken)
  <2>1. <<>> \in Seq(DownToken)
    OBVIOUS
  <2> QED
    BY <2>1, FileCons
<1>3. \A i \in 1..k + 1 : q[i] = File(s[i]) /\ q[i] \in Seq(DownToken)
  BY <1>1, <1>2
<1>4. q \in Seq(Seq(DownToken)) /\ Len(q) = k + 1 /\ Len(q) > 0
  <2>1. q \in [1..k + 1 -> Seq(DownToken)]
    BY <1>1, <1>3
  <2>2. k + 1 \in Nat
    OBVIOUS
  <2> HIDE DEF q
  <2> QED
    BY <2>1, <2>2
<1>5. \A i \in 1..k : p[i] = q[i + 1] /\ p[i] \in Seq(DownToken)
  BY <1>1, <1>3
<1>6. p \in Seq(Seq(DownToken)) /\ Len(p) = k
  <2>1. p \in [1..k -> Seq(DownToken)]
    BY <1>1, <1>5
  <2> HIDE DEF p
  <2> QED
    BY <2>1
<1>7. Sent(s) = FlattenSeq(q) /\ Sent(r) = FlattenSeq(p)
  BY DEF Sent
<1>8. q[1] = File(s[1]) /\ s[1] \in Sizes
  BY <1>1, <1>3
<1> HIDE DEF p, q
<1>9. p = Tail(q)
  <2>1. /\ Tail(q) \in Seq(Seq(DownToken)) /\ Len(Tail(q)) = k
        /\ \A i \in 1..k : Tail(q)[i] = q[i + 1]
    BY <1>4
  <2>2. \A i \in 1..Len(p) : p[i] = Tail(q)[i]
    BY <1>5, <1>6, <2>1
  <2>3. Len(p) = Len(Tail(q))
    BY <1>6, <2>1
  <2> QED
    BY <1>6, <2>1, <2>2, <2>3, SeqEqual
<1>10. /\ FlattenSeq(q) \in Seq(DownToken) /\ FlattenSeq(p) \in Seq(DownToken)
       /\ FlattenSeq(q) = Cat(q[1], FlattenSeq(p))
  BY <1>4, <1>9, FlattenCons DEF Cat
<1> QED
  BY <1>1, <1>7, <1>8, <1>10

LEMMA ContentsNone == \A t \in Contents(0) : t = <<>>
BY SentNone DEF Contents

LEMMA ContentsSome ==
  ASSUME NEW k \in Nat, NEW t \in Contents(k + 1)
  PROVE  \E n \in Sizes, r \in Contents(k) :
           /\ r \in Seq(DownToken) /\ Body(n, r) \in Seq(DownToken)
           /\ t = Cons(Number(1), Cons(Name, Cons(Number(n), Body(n, r))))
<1>1. PICK s \in [1..k + 1 -> Sizes] : t = Sent(s)
  BY DEF Contents
<1>2. PICK n \in Sizes, r \in [1..k -> Sizes] :
        /\ Sent(r) \in Seq(DownToken) /\ t = Cat(File(n), Sent(r))
  BY <1>1, SentSome
<1>3. Sent(r) \in Contents(k)
  BY DEF Contents
<1>4. Body(n, Sent(r)) \in Seq(DownToken)
  BY <1>2, TokenFacts, BodyFacts
<1>5. t = Cons(Number(1), Cons(Name, Cons(Number(n), Body(n, Sent(r)))))
  BY <1>2, FileCons
<1> QED
  BY <1>2, <1>3, <1>4, <1>5

LEMMA ContentsTyped ==
  ASSUME NEW k \in Nat, NEW t \in Contents(k)
  PROVE  t \in Seq(DownToken)
<1>1. CASE k = 0
  <2>1. t = <<>>
    BY <1>1, ContentsNone
  <2> QED
    BY <2>1
<1>2. CASE k # 0
  <2>1. PICK s \in [1..k -> Sizes] : t = Sent(s)
    BY DEF Contents
  <2>2. k - 1 \in Nat /\ (k - 1) + 1 = k
    BY <1>2
  <2>3. s \in [1..(k - 1) + 1 -> Sizes]
    BY <2>2
  <2> QED
    BY <2>1, <2>2, <2>3, SentSome
<1> QED
  BY <1>1, <1>2

(* What is left of an answer in the course of a file, with k files to      *)
(* follow: from its name, its length or its contents on.                   *)
AtData(n, k) == {Cons(Piece(n), t) : t \in Contents(k)}
AtDim(k) == {Cons(Number(n), Body(n, t)) : n \in Sizes, t \in Contents(k)}
AtName(k) == {Cons(Name, t) : t \in AtDim(k)}

(* What is left of a request, after its name, after its first word, and a  *)
(* whole one, if there is any.                                             *)
AfterName(o) == {<<>>} \cup (IF o \in Uploads THEN Payloads ELSE {})
AfterWord(o) ==
  IF o = "READ_N" THEN {<<>>} ELSE {Cons(Name, t) : t \in AfterName(o)}
Calls ==
  {c \in Seq(UpToken) :
     \/ c = <<>>
     \/ \E o \in Ops, d \in BOOLEAN : \E t \in AfterWord(o) : c = Cons(Word(o, d), t)}
(* A request to which the payload is still to come.                        *)
Bare == {Cons(Word(o, d), <<Name>>) : o \in Uploads, d \in BOOLEAN}

LEMMA TokenParts ==
  /\ \A n : Number(n).kind = "int" /\ Number(n).val = n
  /\ \A n : Piece(n).kind = "data" /\ Piece(n).val = n
  /\ \A o, d : /\ Word(o, d).kind = "word"
               /\ Word(o, d).op = o /\ Word(o, d).dir = d
  /\ Name.kind = "name"
BY DEF Number, Piece, Word, Name

LEMMA Kinds ==
  /\ \A s \in Seq(UpToken) : \A i \in DOMAIN s :
       s[i].kind \in {"word", "int", "name", "data"}
  /\ \A s \in Seq(DownToken) : \A i \in DOMAIN s :
       s[i].kind \in {"int", "name", "data"}
<1>1. \A t \in UpToken : t.kind \in {"word", "int", "name", "data"}
  BY TokenParts DEF UpToken
<1>2. \A t \in DownToken : t.kind \in {"int", "name", "data"}
  BY TokenParts DEF DownToken
<1>3. ASSUME NEW S, NEW s \in Seq(S), NEW i \in DOMAIN s PROVE s[i] \in S
  BY <1>3
<1> QED
  BY <1>1, <1>2, <1>3

LEMMA OneFacts ==
  ASSUME NEW a
  PROVE  <<a>> # <<>> /\ Head(<<a>>) = a /\ Tail(<<a>>) = <<>>
OBVIOUS

LEMMA DataRead ==
  ASSUME NEW k \in Nat, NEW n \in Sizes, NEW t \in AtData(n, k)
  PROVE  t # <<>> /\ Head(t) = Piece(n) /\ Tail(t) \in Contents(k)
<1>1. PICK r \in Contents(k) : t = Cons(Piece(n), r)
  BY DEF AtData
<1>2. r \in Seq(DownToken) /\ Piece(n) \in DownToken
  BY ContentsTyped, TokenFacts
<1> QED
  BY <1>1, <1>2, ConsFacts

LEMMA DimTyped ==
  ASSUME NEW k \in Nat, NEW n \in Sizes, NEW t \in Contents(k)
  PROVE  Number(n) \in DownToken /\ Body(n, t) \in Seq(DownToken)
BY ContentsTyped, TokenFacts, BodyFacts

LEMMA DimRead ==
  ASSUME NEW k \in Nat, NEW t \in AtDim(k)
  PROVE  /\ t # <<>>
         /\ \E n \in Sizes : /\ Head(t) = Number(n)
                             /\ n = 0 => Tail(t) \in Contents(k)
                             /\ n # 0 => Tail(t) \in AtData(n, k)
<1>1. PICK n \in Sizes, r \in Contents(k) : t = Cons(Number(n), Body(n, r))
  BY DEF AtDim
<1>2. t # <<>> /\ Head(t) = Number(n) /\ Tail(t) = Body(n, r)
  BY <1>1, DimTyped, ConsFacts
<1>3. n = 0 => Body(n, r) \in Contents(k)
  BY DEF Body
<1>4. n # 0 => Body(n, r) \in AtData(n, k)
  BY DEF Body, AtData
<1> QED
  BY <1>2, <1>3, <1>4

LEMMA NameRead ==
  ASSUME NEW k \in Nat, NEW t \in AtName(k)
  PROVE  t # <<>> /\ Head(t) = Name /\ Tail(t) \in AtDim(k)
<1>1. PICK r \in AtDim(k) : t = Cons(Name, r)
  BY DEF AtName
<1>2. PICK n \in Sizes, s \in Contents(k) : r = Cons(Number(n), Body(n, s))
  BY DEF AtDim
<1>3. r \in Seq(DownToken)
  BY <1>2, DimTyped, ConsFacts
<1> QED
  BY <1>1, <1>3, TokenFacts, ConsFacts

LEMMA ContentsRead ==
  ASSUME NEW k \in Nat, k > 0, NEW t \in Contents(k)
  PROVE  /\ t # <<>> /\ Head(t) = Number(1) /\ Tail(t) \in AtName(k - 1)
         /\ Len(t) > 1 /\ t[2] = Name
<1>1. k - 1 \in Nat /\ (k - 1) + 1 = k
  OBVIOUS
<1>2. PICK n \in Sizes, r \in Contents(k - 1) :
        /\ Body(n, r) \in Seq(DownToken)
        /\ t = Cons(Number(1), Cons(Name, Cons(Number(n), Body(n, r))))
  BY <1>1, ContentsSome
<1>3. PICK d : d = Cons(Number(n), Body(n, r))
  OBVIOUS
<1>4. d \in AtDim(k - 1)
  BY <1>3 DEF AtDim
<1>5. PICK e : e = Cons(Name, d)
  OBVIOUS
<1>6. e \in AtName(k - 1)
  BY <1>4, <1>5 DEF AtName
<1>7. d \in Seq(DownToken) /\ e \in Seq(DownToken)
  <2>1. d \in Seq(DownToken)
    BY <1>2, <1>3, TokenFacts, ConsFacts
  <2> QED
    BY <1>5, <2>1, TokenFacts, ConsFacts
<1>8. t = Cons(Number(1), e)
  BY <1>2, <1>3, <1>5
<1>9. t # <<>> /\ Head(t) = Number(1) /\ Tail(t) = e /\ Len(t) = Len(e) + 1
  BY <1>7, <1>8, TokenFacts, ConsFacts
<1>10. Len(e) > 0 /\ e[1] = Name
  <2>1. e # <<>> /\ Head(e) = Name
    BY <1>5, <1>7, TokenFacts, ConsFacts
  <2> QED
    BY <1>7, <2>1
<1>11. t \in Seq(DownToken)
  BY ContentsTyped
<1>12. t[2] = e[1]
  <2>1. Tail(t)[1] = t[2]
    BY <1>9, <1>10, <1>11
  <2> QED
    BY <1>9, <2>1
<1>13. Len(t) > 1
  BY <1>7, <1>9, <1>10
<1>14. Tail(t) \in AtName(k - 1)
  BY <1>6, <1>9
<1>15. t[2] = Name
  BY <1>10, <1>12
<1> QED
  BY <1>9, <1>13, <1>14, <1>15

LEMMA UpCons ==
  \A a \in UpToken : \A s \in Seq(UpToken) :
    /\ Cons(a, s) \in Seq(UpToken) /\ Cons(a, s) # <<>>
    /\ Head(Cons(a, s)) = a /\ Tail(Cons(a, s)) = s
    /\ \A t \in Seq(UpToken) : Cat(Cons(a, s), t) = Cons(a, Cat(s, t))
<1> SUFFICES ASSUME NEW a \in UpToken, NEW s \in Seq(UpToken)
             PROVE  /\ Cons(a, s) \in Seq(UpToken) /\ Cons(a, s) # <<>>
                    /\ Head(Cons(a, s)) = a /\ Tail(Cons(a, s)) = s
                    /\ \A t \in Seq(UpToken) :
                         Cat(Cons(a, s), t) = Cons(a, Cat(s, t))
  OBVIOUS
<1>1. /\ Cons(a, s) \in Seq(UpToken) /\ Cons(a, s) # <<>>
      /\ Head(Cons(a, s)) = a /\ Tail(Cons(a, s)) = s
  BY ConsFacts
<1>2. \A t \in Seq(UpToken) : Cat(Cons(a, s), t) = Cons(a, Cat(s, t))
  BY CatCons
<1> QED
  BY <1>1, <1>2

LEMMA UpOne ==
  \A a \in UpToken :
    /\ <<a>> = Cons(a, <<>>) /\ <<a>> \in Seq(UpToken) /\ <<>> \in Seq(UpToken)
    /\ \A s \in Seq(UpToken) : Cat(<<a>>, s) = Cons(a, s)
<1>1. <<>> \in Seq(UpToken)
  OBVIOUS
<1>2. \A s \in Seq(UpToken) : Cat(<<>>, s) = s
  BY <1>1, CatFacts
<1>3. \A a \in UpToken : <<a>> = Cons(a, <<>>)
  BY ConsOne
<1>4. ASSUME NEW a \in UpToken
      PROVE  /\ Cons(a, <<>>) \in Seq(UpToken)
             /\ \A s \in Seq(UpToken) : Cat(Cons(a, <<>>), s) = Cons(a, s)
  <2>1. ASSUME NEW s \in Seq(UpToken) PROVE Cat(Cons(a, <<>>), s) = Cons(a, s)
    <3>1. Cat(Cons(a, <<>>), s) = Cons(a, Cat(<<>>, s))
      BY <1>1, UpCons
    <3> QED
      BY <1>2, <3>1
  <2>2. Cons(a, <<>>) \in Seq(UpToken)
    BY <1>1, UpCons
  <2> QED
    BY <2>1, <2>2
<1> QED
  BY <1>1, <1>3, <1>4

LEMMA PayloadRead ==
  ASSUME NEW t \in Payloads
  PROVE  /\ t # <<>> /\ t \in Seq(UpToken) /\ t \in Seq(DownToken)
         /\ \E n \in Sizes : /\ Head(t) = Number(n)
                             /\ n = 0 => Tail(t) = <<>>
                             /\ n # 0 => Tail(t) = <<Piece(n)>>
<1>1. PICK n \in Sizes : t = Cons(Number(n), Body(n, <<>>))
  BY DEF Payloads, Payload
<1>2. PICK b : b = Body(n, <<>>)
  OBVIOUS
<1>3. <<>> \in Seq(UpToken) /\ <<>> \in Seq(DownToken)
  OBVIOUS
<1>4. b \in Seq(UpToken) /\ b \in Seq(DownToken)
  BY <1>2, <1>3, TokenFacts, BodyFacts
<1>5. /\ t # <<>> /\ Head(t) = Number(n) /\ Tail(t) = b
      /\ t \in Seq(DownToken)
  BY <1>1, <1>2, <1>4, TokenFacts, ConsFacts
<1>6. t \in Seq(UpToken)
  BY <1>1, <1>2, <1>4, TokenFacts, ConsFacts
<1>7. n = 0 => b = <<>>
  BY <1>2 DEF Body
<1>8. n # 0 => b = <<Piece(n)>>
  BY <1>2, ConsOne DEF Body
<1> QED
  BY <1>5, <1>6, <1>7, <1>8

LEMMA AfterNameFacts ==
  ASSUME NEW o \in Ops, NEW t \in AfterName(o)
  PROVE  /\ t \in Seq(UpToken)
         /\ t # <<>> => o \in Uploads /\ t \in Payloads
<1>1. <<>> \in Seq(UpToken)
  OBVIOUS
<1>2. t = <<>> \/ (o \in Uploads /\ t \in Payloads)
  BY DEF AfterName
<1> QED
  BY <1>1, <1>2, PayloadRead

LEMMA AfterWordRead ==
  ASSUME NEW o \in Ops, NEW t \in AfterWord(o)
  PROVE  /\ t \in Seq(UpToken)
         /\ o = "READ_N" => t = <<>>
         /\ o # "READ_N" => /\ t # <<>> /\ Head(t) = Name
                            /\ Tail(t) \in AfterName(o)
                            /\ Tail(t) = <<>> <=> t = <<Name>>
<1>1. CASE o = "READ_N"
  BY <1>1 DEF AfterWord
<1>2. CASE o # "READ_N"
  <2>1. PICK r \in AfterName(o) : t = Cons(Name, r)
    BY <1>2 DEF AfterWord
  <2>2. r \in Seq(UpToken)
    BY AfterNameFacts
  <2>3. /\ t # <<>> /\ Head(t) = Name /\ Tail(t) = r /\ t \in Seq(UpToken)
    BY <2>1, <2>2, TokenFacts, ConsFacts
  <2>4. r = <<>> <=> t = <<Name>>
    <3>1. r = <<>> => t = <<Name>>
      BY <2>1, ConsOne
    <3>2. t = <<Name>> => Tail(t) = <<>>
      BY OneFacts
    <3> QED
      BY <2>3, <3>1, <3>2
  <2> QED
    BY <1>2, <2>1, <2>3, <2>4
<1> QED
  BY <1>1, <1>2

LEMMA CallsRead ==
  ASSUME NEW t \in Calls, t # <<>>
  PROVE  \E o \in Ops, d \in BOOLEAN :
           /\ Head(t) = Word(o, d) /\ Tail(t) \in AfterWord(o)
           /\ t \in Bare <=> o \in Uploads /\ Tail(t) = <<Name>>
<1>1. PICK o \in Ops, d \in BOOLEAN :
       \E r \in AfterWord(o) : t = Cons(Word(o, d), r)
  BY DEF Calls
<1>6. PICK r \in AfterWord(o) : t = Cons(Word(o, d), r)
  BY <1>1
<1>2. r \in Seq(UpToken)
  BY AfterWordRead
<1>3. Head(t) = Word(o, d) /\ Tail(t) = r
  BY <1>2, <1>6, TokenFacts, ConsFacts
<1>4. ASSUME t \in Bare PROVE o \in Uploads /\ r = <<Name>>
  <2>1. PICK p \in Uploads, e \in BOOLEAN : t = Cons(Word(p, e), <<Name>>)
    BY <1>4 DEF Bare
  <2>2. p \in Ops /\ <<Name>> \in Seq(UpToken)
    BY TokenFacts DEF Ops
  <2>3. Head(t) = Word(p, e) /\ Tail(t) = <<Name>>
    BY <2>1, <2>2, TokenFacts, ConsFacts
  <2>4. o = p
    BY <1>3, <2>3, TokenParts
  <2> QED
    BY <1>3, <2>3, <2>4
<1>5. o \in Uploads /\ r = <<Name>> => t \in Bare
  BY <1>6 DEF Bare
<1> QED
  BY <1>3, <1>4, <1>5

LEMMA CallsHas ==
  ASSUME NEW o \in Ops, NEW d \in BOOLEAN, NEW r \in AfterWord(o)
  PROVE  Cons(Word(o, d), r) \in Calls
<1>1. Cons(Word(o, d), r) \in Seq(UpToken)
  BY AfterWordRead, TokenFacts, UpCons
<1> QED
  BY <1>1 DEF Calls

(* What SendRequest and SendPayload put in the stream.                     *)
RequestTokens(o, d) ==
  <<Word(o, d)>> \o (IF o = "READ_N" THEN <<>> ELSE <<Name>>)
PayloadTokens(n) == <<Number(n)>> \o Data(n)

LEMMA RequestFacts ==
  ASSUME NEW o \in Ops, NEW d \in BOOLEAN
  PROVE  /\ RequestTokens(o, d) \in Calls /\ RequestTokens(o, d) # <<>>
         /\ Head(RequestTokens(o, d)) = Word(o, d)
         /\ o \in Uploads <=> RequestTokens(o, d) \in Bare
<1>1. CASE o = "READ_N"
  <2>1. RequestTokens(o, d) = Cons(Word(o, d), <<>>) /\ <<>> \in AfterWord(o)
    BY <1>1 DEF RequestTokens, Cons, AfterWord
  <2>2. <<>> \in Seq(UpToken) /\ <<>> # <<Name>>
    OBVIOUS
  <2>3. /\ RequestTokens(o, d) \in Calls /\ RequestTokens(o, d) # <<>>
        /\ Head(RequestTokens(o, d)) = Word(o, d)
        /\ Tail(RequestTokens(o, d)) = <<>>
    <3>1. Word(o, d) \in UpToken
      BY TokenFacts
    <3>2. Cons(Word(o, d), <<>>) \in Calls
      BY <2>1, <2>2, CallsHas
    <3>3. /\ Cons(Word(o, d), <<>>) # <<>>
          /\ Head(Cons(Word(o, d), <<>>)) = Word(o, d)
          /\ Tail(Cons(Word(o, d), <<>>)) = <<>>
      BY <2>2, <3>1, UpCons
    <3> QED
      BY <2>1, <3>2, <3>3
  <2>4. o \notin Uploads
    BY <1>1 DEF Uploads
  <2> QED
    BY <2>2, <2>3, <2>4, CallsRead
<1>2. CASE o # "READ_N"
  <2>1. RequestTokens(o, d) = Cons(Word(o, d), <<Name>>)
    BY <1>2 DEF RequestTokens, Cons
  <2>2. <<Name>> \in AfterWord(o) /\ <<Name>> \in Seq(UpToken)
    <3>1. <<Name>> = Cons(Name, <<>>) /\ <<>> \in AfterName(o)
      BY ConsOne DEF AfterName
    <3> QED
      BY <1>2, <3>1, TokenFacts DEF AfterWord
  <2>3. /\ RequestTokens(o, d) \in Calls /\ RequestTokens(o, d) # <<>>
        /\ Head(RequestTokens(o, d)) = Word(o, d)
        /\ Tail(RequestTokens(o, d)) = <<Name>>
    <3>1. Word(o, d) \in UpToken
      BY TokenFacts
    <3>2. Cons(Word(o, d), <<Name>>) \in Calls
      BY <2>1, <2>2, CallsHas
    <3>3. /\ Cons(Word(o, d), <<Name>>) # <<>>
          /\ Head(Cons(Word(o, d), <<Name>>)) = Word(o, d)
          /\ Tail(Cons(Word(o, d), <<Name>>)) = <<Name>>
      BY <2>2, <3>1, UpCons
    <3> QED
      BY <2>1, <3>2, <3>3
  <2>4. PICK p \in Ops, e \in BOOLEAN :
          /\ Head(RequestTokens(o, d)) = Word(p, e)
          /\ RequestTokens(o, d) \in Bare
               <=> p \in Uploads /\ Tail(RequestTokens(o, d)) = <<Name>>
    BY <2>3, CallsRead
  <2>5. p = o
    BY <2>3, <2>4, TokenParts
  <2> QED
    BY <2>3, <2>4, <2>5
<1> QED
  BY <1>1, <1>2

LEMMA PayloadFacts ==
  ASSUME NEW n \in Sizes
  PROVE  PayloadTokens(n) \in Payloads
<1>1. <<>> \in Seq(UpToken)
  OBVIOUS
<1>2. /\ Data(n) \in Seq(UpToken) /\ Cat(Data(n), <<>>) = Body(n, <<>>)
      /\ Cat(Data(n), <<>>) = Data(n)
  <2>1. Data(n) \in Seq(UpToken) /\ Cat(Data(n), <<>>) = Body(n, <<>>)
    BY <1>1, TokenFacts, BodyFacts
  <2> QED
    BY <1>1, <2>1, CatFacts
<1>3. PayloadTokens(n) = Cons(Number(n), Data(n))
  BY DEF PayloadTokens, Cons
<1> QED
  BY <1>2, <1>3 DEF Payloads, Payload

(* A payload completes a bare request.                                     *)
LEMMA Completes ==
  ASSUME NEW t \in Bare, NEW p \in Payloads
  PROVE  /\ Cat(t, p) \in Calls /\ Cat(t, p) # <<>> /\ Cat(t, p) \notin Bare
         /\ t # <<>> /\ Head(Cat(t, p)) = Head(t)
<1>1. PICK o \in Uploads, d \in BOOLEAN : t = Cons(Word(o, d), <<Name>>)
  BY DEF Bare
<1>2. /\ o \in Ops /\ o # "READ_N" /\ <<Name>> \in Seq(UpToken)
      /\ <<>> \in Seq(UpToken) /\ p \in Seq(UpToken) /\ p # <<>>
  BY TokenFacts, PayloadRead DEF Ops, Uploads
<1>3. Cat(<<Name>>, p) = Cons(Name, p)
  BY <1>2, TokenFacts, UpOne
<1>4. Cat(t, p) = Cons(Word(o, d), Cons(Name, p))
  <2>1. Word(o, d) \in UpToken
    BY <1>2, TokenFacts
  <2> QED
    <3>1. \A u \in Seq(UpToken) :
            Cat(Cons(Word(o, d), u), p) = Cons(Word(o, d), Cat(u, p))
      BY <1>2, <2>1, UpCons
    <3>2. Cat(Cons(Word(o, d), <<Name>>), p) = Cons(Word(o, d), Cat(<<Name>>, p))
      BY <1>2, <3>1
    <3> QED
      BY <1>1, <1>3, <3>2
<1>5. Cons(Name, p) \in AfterWord(o)
  BY <1>2 DEF AfterWord, AfterName
<1>6. Cat(t, p) \in Calls
  BY <1>2, <1>4, <1>5, CallsHas
<1>7. Cons(Name, p) \in Seq(UpToken) /\ Tail(Cons(Name, p)) = p
  BY <1>2, TokenFacts, ConsFacts
<1>8. /\ Cat(t, p) # <<>> /\ Head(Cat(t, p)) = Word(o, d)
      /\ Tail(Cat(t, p)) = Cons(Name, p)
  <2>1. Word(o, d) \in UpToken
    BY <1>2, TokenFacts
  <2> QED
    BY <1>4, <1>7, <2>1, UpCons
<1>9. t # <<>> /\ Head(t) = Word(o, d)
  BY <1>1, <1>2, TokenFacts, ConsFacts
<1>10. Cat(t, p) \notin Bare
  <2>1. Cons(Name, p) # <<Name>>
    BY <1>2, <1>7, OneFacts
  <2> QED
    BY <1>6, <1>8, <2>1, CallsRead
<1> QED
  BY <1>6, <1>8, <1>9, <1>10

LEMMA CompletesName ==
  ASSUME NEW p \in Payloads
  PROVE  /\ Cat(<<Name>>, p) # <<Name>>
         /\ \A o \in Uploads : Cat(<<Name>>, p) \in AfterWord(o)
<1>1. <<>> \in Seq(UpToken) /\ p \in Seq(UpToken) /\ p # <<>>
  BY PayloadRead
<1>2. Cat(<<Name>>, p) = Cons(Name, p)
  BY <1>1, TokenFacts, UpOne
<1>3. Tail(Cons(Name, p)) = p
  BY <1>1, TokenFacts, ConsFacts
<1>4. Cons(Name, p) # <<Name>>
  BY <1>1, <1>3, OneFacts
<1>5. \A o \in Uploads : Cons(Name, p) \in AfterWord(o)
  BY DEF AfterWord, AfterName, Uploads
<1> QED
  BY <1>2, <1>4, <1>5

-----------------------------------------------------------------------------
(* The inductive invariant *)

Asking == {"send", "payload"}
Ended == spc \in {"closing", "closed"}
Idle == spc \in {"backlog", "listen"}
AtFile == spc \in {"find", "run", "parked"}

Typed == TypeOK /\ up \in Seq(UpToken) /\ down \in Seq(DownToken)

(* What goes with the place each end is at.                                *)
Placed ==
  /\ link # "open" => pc \in {"idle", "connect", "gone"}
  /\ link = "open" => pc \notin {"connect", "gone"} /\ spc # "none"
  /\ pc = "idle" => call = NoCall
  /\ pc = "connect" => call.op = "CONNECT"
  /\ pc \in Reading \cup Asking =>
       /\ call.op \in Ops
       /\ call.dir => call.op \in Uploads \cup {"READ_N"}
       /\ call.op = "READ_N" => call.dir
  /\ pc = "payload" => call.op \in Uploads
  /\ pc \in {"size", "data"} => call.op = "READ"
  /\ AtFile \/ spc = "name" => req.op \in Ops
  /\ spc \in {"name", "find", "parked"} => req.op # "READ_N"
  /\ spc \in {"size", "data", "store", "drain", "dropped"} => req.op \in Uploads

(* What the worker will take next from the stream: a new request, or the   *)
(* payload of the one it has.                                              *)
Fresh == Idle \/ spc = "store" \/ (AtFile /\ req.op \notin Uploads)
Owed == spc \in {"size", "drain", "dropped"} \/ (AtFile /\ req.op \in Uploads)
UpFits ==
  /\ Fresh => up \in Calls
  /\ Owed => up \in AfterName(req.op)
  /\ spc = "name" => up \in AfterWord(req.op)
  /\ spc = "data" => up = <<Piece(req.size)>>

(* A payload is still to come exactly when the client is about to send it. *)
Missing ==
  \/ Owed /\ up = <<>>
  \/ spc = "name" /\ req.op \in Uploads /\ up = <<Name>>
  \/ Fresh /\ up \in Bare
UpWaits ==
  link = "open" /\ ~Ended =>
    /\ pc = "send" => Fresh /\ up = <<>>
    /\ Missing <=> pc = "payload"

(* The whole of an answer: the server has carried out the call, or has not *)
(* for a reason that is not fatal, or has refused a WRITE.                 *)
Success(o, d, s) ==
  \/ o \notin Uploads \cup {"READ", "READ_N"} /\ s = <<Number(Code.SUCCESS)>>
  \/ o = "READ" /\ \E p \in Payloads : s = Cons(Number(Code.SUCCESS), p)
  \/ /\ o \in Uploads \cup {"READ_N"}
     /\ \E k \in 0..MaxFiles : \E t \in Contents(IF d THEN k ELSE 0) :
          s = Cons(Number(Code.SUCCESS * Shift + k), t)
Denied(o, s) ==
  \/ o \notin Uploads \cup {"READ_N"} /\ \E c \in 10..15 : s = <<Number(c)>>
  \/ o \in Uploads /\ \E c \in 10..15 : s = <<Number(c * Shift)>>
Answered ==
  \/ Success(call.op, call.dir, down) /\ done = 1
  \/ Denied(call.op, down) /\ done = 0
  \/ /\ call.op = "WRITE" /\ "refused" \in odd /\ done = 0
     /\ down = <<Number(Code.FILE_ALREADY_OPEN)>>

(* The server is done with the call, and with nothing else since.          *)
Over == \/ spc = "listen" /\ up = <<>>
        \/ spc = "closed" /\ serving = "down"

(* It has ended the connection, without an answer or with a fatal one.     *)
Sacked ==
  /\ Ended
  /\ \/ down = <<>>
     \/ down = <<Number(Code.SERVER_FULL)>>
     \/ call.op \notin Uploads \cup {"READ_N"} /\ down = <<Number(Code.NO_SUCH_FILE_F)>>
     \/ call.op \in Uploads /\ down = <<Number(Code.NO_SUCH_FILE_F * Shift)>>

(* It has the request, or will take it next.                               *)
Handled ==
  /\ down = <<>> /\ done = 0 /\ ~Ended
  /\ Idle => up # <<>> /\ Head(up) = Word(call.op, call.dir)
  /\ ~Idle => /\ req.op = call.op /\ req.dir = call.dir
              /\ Fresh => up = <<>>

(* The two are in step: what is in the streams is what the client is going *)
(* to read.                                                                *)
Rested ==
  \/ Idle /\ up = <<>> /\ down = <<>>
  \/ Ended /\ down \in {<<>>, <<Number(Code.SERVER_FULL)>>}
Saving ==
  /\ rest.files > 0
  /\ \/ /\ Over /\ done = 1 /\ rest.verdict = Code.SUCCESS
        /\ down \in Contents(rest.files)
     \/ /\ down = <<>> /\ rest.verdict = Code.NORET
        /\ Ended \/ (Over /\ "refused" \in odd /\ done = 0)
InFile == Over /\ done = 1 /\ rest.files > 0 /\ rest.verdict = Code.SUCCESS
Sync ==
  /\ pc # "astray"
  /\ pc \in {"idle", "send"} => Rested
  /\ pc = "send" => done = 0
  /\ pc = "payload" => Handled \/ Sacked
  /\ pc = "result" => Handled \/ Sacked \/ (Over /\ Answered)
  /\ pc = "size" => Over /\ done = 1 /\ down \in Payloads
  /\ pc = "data" => Over /\ done = 1 /\ down = <<Piece(rest.len)>>
  /\ pc \in {"chdir", "fnameLen"} => Saving
  /\ pc = "fname" => InFile /\ down \in AtName(rest.files - 1)
  /\ pc = "fdim" => InFile /\ down \in AtDim(rest.files - 1)
  /\ pc = "fdata" => InFile /\ down \in AtData(rest.len, rest.files - 1)

(* Or the client has left part of an answer: it will never get past it.    *)
Stuck ==
  /\ "slip" \in odd
  /\ pc # "astray" =>
       /\ down # <<>>
       /\ pc \in {"idle", "send", "payload", "result", "size", "chdir", "fnameLen"}
       /\ \/ Head(down).kind # "int"
          \/ /\ pc \in {"idle", "send", "payload", "result"}
             /\ Head(down) = Number(1) /\ Len(down) > 1 /\ down[2] = Name
Joint == link = "open" => Sync \/ Stuck

(* What the latest call returned says whether the connection has ended.    *)
Told ==
  pc = "idle" /\ outcome.code # NULL =>
    /\ link = "open"
    /\ odd \cap {"slip", "refused"} = {} =>
         IF Fatal(outcome.code) THEN Ended ELSE Over

IInv == Typed /\ Placed /\ UpFits /\ UpWaits /\ Joint /\ Told

LEMMA NoneTyped ==
  /\ NoCall \in [op: Ops \cup {"CONNECT", NULL}, dir: BOOLEAN, size: Sizes]
  /\ NoCall \in [op: Ops \cup {NULL}, dir: BOOLEAN, size: Sizes]
  /\ NoRest \in [files: 0..(Shift - 1), verdict: 0..15, len: Sizes]
<1>1. 0 \in Sizes /\ 0 \in 0..(Shift - 1)
  BY BoundsAssumption, ShiftFacts DEF Sizes
<1> QED
  BY <1>1 DEF NoCall, NoRest

THEOREM InitIInv == Init => IInv
<1> SUFFICES ASSUME Init PROVE IInv
  OBVIOUS
<1>1. Typed
  <2>1. call \in [op: Ops \cup {"CONNECT", NULL}, dir: BOOLEAN, size: Sizes]
    BY NoneTyped DEF Init
  <2>2. req \in [op: Ops \cup {NULL}, dir: BOOLEAN, size: Sizes]
    BY NoneTyped DEF Init
  <2>3. rest \in [files: 0..(Shift - 1), verdict: 0..15, len: Sizes]
    BY NoneTyped DEF Init
  <2>4. outcome.ret \in {"ok", "error", NULL} /\ outcome.code = NULL
    BY DEF Init
  <2>5. up \in Seq(UpToken) /\ down \in Seq(DownToken)
    BY DEF Init
  <2> QED
    BY <2>1, <2>2, <2>3, <2>4, <2>5, Kinds DEF Init, Typed, TypeOK
<1>2. Placed
  BY DEF Init, Placed, NoCall, Reading, Asking, AtFile
<1>3. UpFits /\ UpWaits
  BY DEF Init, UpFits, UpWaits, Fresh, Owed, Idle, AtFile
<1>4. Joint /\ Told
  BY DEF Init, Joint, Told
<1> QED
  BY <1>1, <1>2, <1>3, <1>4 DEF IInv

(* When the client stays where it is, and the streams and history too, the *)
(* two stay in step if the server's side of each case does.                *)
LEMMA JointServer ==
  ASSUME Joint, Told, UNCHANGED client, UNCHANGED <<down, done>>, odd \subseteq odd',
         Rested => Rested', Handled => Handled' \/ Sacked',
         Ended => Ended', Over => Over'
  PROVE  Joint' /\ Told'
<1>1. Sacked => Sacked'
  BY DEF Sacked, client
<1>2. Over /\ Answered => Over' /\ Answered'
  BY DEF Answered, client
<1>3. Saving => Saving'
  BY DEF Saving, client
<1>4. InFile => InFile'
  BY DEF InFile, client
<1>5. Sync => Sync'
  BY <1>1, <1>2, <1>3, <1>4 DEF Sync, client
<1>6. Stuck => Stuck'
  BY DEF Stuck, client
<1> QED
  BY <1>5, <1>6 DEF Joint, Told, client

Spots == Serving \cup {"none", "backlog", "listen", "parked", "dropped",
                       "closing", "closed"}
Requests == [op: Ops \cup {NULL}, dir: BOOLEAN, size: Sizes]

LEMMA TypedServer ==
  ASSUME Typed, UNCHANGED client,
         serving' \in {"starting", "up", "down"}, spc' \in Spots,
         req' \in Requests, up' \in Seq(UpToken), down' \in Seq(DownToken),
         done' \in Nat, odd' \subseteq {"slip", "refused", "drained", "dropped"}
  PROVE  Typed'
BY Kinds DEF Typed, TypeOK, client, Spots, Requests

LEMMA TypedServerFacts ==
  ASSUME Typed
  PROVE  /\ serving \in {"starting", "up", "down"} /\ spc \in Spots
         /\ req \in Requests /\ up \in Seq(UpToken) /\ down \in Seq(DownToken)
         /\ done \in Nat /\ odd \subseteq {"slip", "refused", "drained", "dropped"}
BY DEF Typed, TypeOK, Spots, Requests

(* The steps of the server before the answer                               *)

LEMMA StartStep == ASSUME IInv, Start PROVE IInv'
<1> USE DEF IInv, Start
<1>1. Typed'
  BY TypedServer, TypedServerFacts DEF client
<1>2. Placed'
  BY DEF Placed, AtFile, client
<1>3. UpFits' /\ UpWaits'
  BY DEF UpFits, UpWaits, Missing, Fresh, Owed, Idle, AtFile, Ended, client
<1>4. Joint' /\ Told'
  BY JointServer DEF Rested, Handled, Ended, Over, Idle, Fresh, AtFile, client
<1> QED
  BY <1>1, <1>2, <1>3, <1>4

LEMMA StopStep == ASSUME IInv, Stop PROVE IInv'
<1> USE DEF IInv, Stop
<1>0. spc' \in {"none", "closed"} /\ (spc # "none" => spc' = "closed")
  OBVIOUS
<1>1. Typed'
  BY <1>0, TypedServer, TypedServerFacts DEF client, Spots
<1>2. Placed'
  BY <1>0 DEF Placed, AtFile, client
<1>3. UpFits' /\ UpWaits'
  BY <1>0 DEF UpFits, UpWaits, Missing, Fresh, Owed, Idle, AtFile, Ended, client, Placed
<1>4. Joint' /\ Told'
  <2>1. spc = "none" => link # "open"
    BY DEF Placed
  <2>2. CASE spc = "none"
    BY <2>1, <2>2, <1>0 DEF Joint, Told, client
  <2>3. CASE spc # "none"
    BY <1>0, <2>3, JointServer
    DEF Rested, Handled, Sacked, Ended, Over, Idle, Fresh, AtFile, client, Serving
  <2> QED
    BY <2>2, <2>3
<1> QED
  BY <1>1, <1>2, <1>3, <1>4

LEMMA AcceptStep == ASSUME IInv, Accept PROVE IInv'
<1> USE DEF IInv, Accept, At
<1>1. Typed'
  BY TypedServer, TypedServerFacts DEF client, Spots
<1>2. Placed'
  BY DEF Placed, AtFile, client
<1>3. UpFits' /\ UpWaits'
  BY DEF UpFits, UpWaits, Missing, Fresh, Owed, Idle, AtFile, Ended, client
<1>4. Joint' /\ Told'
  BY JointServer DEF Rested, Handled, Ended, Over, Idle, Fresh, AtFile, client
<1> QED
  BY <1>1, <1>2, <1>3, <1>4

LEMMA CloseStep == ASSUME IInv, Close PROVE IInv'
<1> USE DEF IInv, Close, At
<1>1. Typed'
  BY TypedServer, TypedServerFacts DEF client, Spots
<1>2. Placed'
  BY DEF Placed, AtFile, client
<1>3. UpFits' /\ UpWaits'
  BY DEF UpFits, UpWaits, Missing, Fresh, Owed, Idle, AtFile, Ended, client
<1>4. Joint' /\ Told'
  BY JointServer DEF Rested, Handled, Ended, Over, Idle, Fresh, AtFile, client
<1> QED
  BY <1>1, <1>2, <1>3, <1>4

LEMMA PresentStep == ASSUME IInv, Present \/ Park \/ NextRequest PROVE IInv'
<1> USE DEF IInv, Present, Park, NextRequest, At
<1>0. AtFile /\ AtFile' /\ spc' # "find" /\ UNCHANGED <<client, serving, req, up, down, done, odd>>
  BY DEF AtFile
<1>1. Typed'
  BY TypedServer, TypedServerFacts DEF client, Spots, Serving
<1>2. Placed'
  BY DEF Placed, AtFile, client
<1>3. UpFits' /\ UpWaits'
  BY DEF UpFits, UpWaits, Missing, Fresh, Owed, Idle, AtFile, Ended, client
<1>4. Joint' /\ Told'
  BY JointServer DEF Rested, Handled, Ended, Over, Idle, Fresh, AtFile, client
<1> QED
  BY <1>1, <1>2, <1>3, <1>4

LEMMA RunUploadStep == ASSUME IInv, RunUpload PROVE IInv'
<1> USE DEF IInv, RunUpload, At
<1>1. Typed'
  BY TypedServer, TypedServerFacts DEF client, Spots, Serving
<1>2. Placed'
  BY DEF Placed, AtFile, client
<1>3. UpFits' /\ UpWaits'
  BY DEF UpFits, UpWaits, Missing, Fresh, Owed, Idle, AtFile, Ended, client
<1>4. Joint' /\ Told'
  BY JointServer DEF Rested, Handled, Ended, Over, Idle, Fresh, AtFile, client
<1> QED
  BY <1>1, <1>2, <1>3, <1>4

LEMMA HangupStep == ASSUME IInv, Hangup \/ Overdrain PROVE IInv'
<1> USE DEF IInv, Hangup, Overdrain, At
<1>0. /\ link = "closed" /\ spc' = "closing" /\ spc # "none" /\ up' = <<>>
      /\ UNCHANGED <<client, serving, req, down, done, odd>>
  OBVIOUS
<1>1. Typed'
  BY <1>0, TypedServer, TypedServerFacts DEF client, Spots
<1>2. Placed'
  BY <1>0 DEF Placed, AtFile, client
<1>3. UpFits' /\ UpWaits'
  BY <1>0 DEF UpFits, UpWaits, Missing, Fresh, Owed, Idle, AtFile, Ended, client
<1>4. Joint' /\ Told'
  BY <1>0 DEF Joint, Told, client
<1> QED
  BY <1>1, <1>2, <1>3, <1>4

LEMMA TailTyped ==
  /\ \A s \in Seq(UpToken) : s # <<>> => Tail(s) \in Seq(UpToken) /\ Head(s) \in UpToken
  /\ \A s \in Seq(DownToken) : s # <<>> => Tail(s) \in Seq(DownToken) /\ Head(s) \in DownToken
OBVIOUS

LEMMA GetRequestStep == ASSUME IInv, GetRequest PROVE IInv'
<1> USE DEF IInv
<1>0. /\ spc = "listen" /\ up # <<>> /\ up' = Tail(up)
      /\ UNCHANGED <<client, serving, down, done, odd>>
      /\ req' = [op |-> Head(up).op, dir |-> Head(up).dir, size |-> 0]
      /\ spc' = IF Head(up).op = "READ_N" THEN "run" ELSE "name"
  BY DEF GetRequest, Receive
<1>1. PICK o \in Ops, d \in BOOLEAN :
        /\ Head(up) = Word(o, d) /\ up' \in AfterWord(o)
        /\ up \in Bare <=> o \in Uploads /\ up' = <<Name>>
  <2>1. up \in Calls
    BY <1>0 DEF UpFits, Fresh, Idle
  <2> QED
    BY <1>0, <2>1, CallsRead
<1>2. /\ req' = [op |-> o, dir |-> d, size |-> 0]
      /\ spc' = IF o = "READ_N" THEN "run" ELSE "name"
  BY <1>0, <1>1, TokenParts
<1>3. o = "READ_N" => up' = <<>> /\ o \notin Uploads
  BY <1>1, AfterWordRead DEF Uploads
<1>4. 0 \in Sizes
  BY BoundsAssumption DEF Sizes
<1>5. Typed'
  <2>1. req' \in Requests
    BY <1>2, <1>4 DEF Requests
  <2>2. up' \in Seq(UpToken)
    BY <1>1, AfterWordRead
  <2> QED
    BY <1>0, <1>2, <2>1, <2>2, TypedServer, TypedServerFacts DEF client, Spots, Serving
<1>6. Placed'
  BY <1>0, <1>2, <1>3 DEF Placed, AtFile, client
<1>7. UpFits'
  <2>1. <<>> \in Calls
    BY DEF Calls
  <2> QED
    BY <1>1, <1>2, <1>3, <2>1 DEF UpFits, Fresh, Owed, Idle, AtFile
<1>8. UpWaits'
  <2>1. Missing <=> up \in Bare
    BY <1>0 DEF Missing, Fresh, Owed, Idle, AtFile
  <2>2. Missing' <=> o \in Uploads /\ up' = <<Name>>
    <3>1. <<>> # <<Name>> /\ <<>> \notin Bare
      BY Completes, PayloadFacts, BoundsAssumption DEF Sizes
    <3> QED
      BY <1>2, <1>3, <3>1 DEF Missing, Fresh, Owed, Idle, AtFile
  <2> QED
    BY <1>0, <1>1, <2>1, <2>2 DEF UpWaits, client, Ended
<1>9. Joint' /\ Told'
  <2>1. Handled => Handled'
    <3>1. ASSUME Handled PROVE o = call.op /\ d = call.dir
      BY <1>0, <1>1, <3>1, TokenParts DEF Handled, Idle
    <3> QED
      BY <1>0, <1>2, <1>3, <3>1 DEF Handled, Idle, Ended, Fresh, AtFile, client
  <2>2. ~Rested /\ ~Over /\ ~Ended
    BY <1>0 DEF Rested, Over, Ended
  <2> QED
    BY <1>0, <2>1, <2>2, JointServer
<1> QED
  BY <1>5, <1>6, <1>7, <1>8, <1>9

LEMMA GetFileNameStep == ASSUME IInv, GetFileName PROVE IInv'
<1> USE DEF IInv
<1>0. /\ spc = "name" /\ up # <<>> /\ up' = Tail(up) /\ spc' = "find"
      /\ UNCHANGED <<client, serving, req, down, done, odd>>
  BY DEF GetFileName, Receive
<1>1. req.op \in Ops /\ req.op # "READ_N"
  BY <1>0 DEF Placed, AtFile
<1>2. /\ up' \in AfterName(req.op)
      /\ up' = <<>> <=> up = <<Name>>
  <2>1. up \in AfterWord(req.op)
    BY <1>0 DEF UpFits
  <2> QED
    BY <1>0, <1>1, <2>1, AfterWordRead
<1>3. /\ up' \in Seq(UpToken)
      /\ up' # <<>> => req.op \in Uploads
      /\ <<>> \in Calls
  BY <1>1, <1>2, AfterNameFacts DEF Calls
<1>5. Typed'
  BY <1>0, <1>3, TypedServer, TypedServerFacts DEF client, Spots, Serving
<1>6. Placed'
  BY <1>0, <1>1 DEF Placed, AtFile, client
<1>7. UpFits'
  BY <1>0, <1>2, <1>3 DEF UpFits, Fresh, Owed, Idle, AtFile
<1>8. UpWaits'
  <2>1. <<>> \notin Bare
    BY Completes, PayloadFacts, BoundsAssumption DEF Sizes
  <2>2. Missing' <=> Missing
    BY <1>0, <1>2, <1>3, <2>1 DEF Missing, Fresh, Owed, Idle, AtFile
  <2> QED
    BY <1>0, <2>2 DEF UpWaits, client, Ended, Fresh, Idle, AtFile
<1>9. Joint' /\ Told'
  <2>1. Handled => Handled'
    BY <1>0, <1>3 DEF Handled, Idle, Ended, Fresh, AtFile, client
  <2>2. ~Rested /\ ~Over /\ ~Ended
    BY <1>0 DEF Rested, Over, Ended, Idle
  <2> QED
    BY <1>0, <2>1, <2>2, JointServer
<1> QED
  BY <1>5, <1>6, <1>7, <1>8, <1>9

LEMMA ReceiveSizeStep == ASSUME IInv, ReceiveSize PROVE IInv'
<1> USE DEF IInv
<1>0. /\ spc = "size" /\ up # <<>> /\ up' = Tail(up)
      /\ UNCHANGED <<client, serving, down, done, odd>>
      /\ spc' = IF Head(up).val > 0 THEN "data" ELSE "store"
      /\ req' = [req EXCEPT !.size = Head(up).val]
  BY DEF ReceiveSize, Receive
<1>1. req.op \in Uploads /\ Uploads \subseteq Ops
  BY <1>0 DEF Placed, Ops
<1>2. PICK n \in Sizes : /\ Head(up) = Number(n)
                         /\ n = 0 => up' = <<>>
                         /\ n # 0 => up' = <<Piece(n)>>
  <2>1. up \in AfterName(req.op)
    BY <1>0 DEF UpFits, Owed
  <2>2. up \in Payloads
    BY <1>0, <1>1, <2>1, AfterNameFacts
  <2> QED
    BY <1>0, <2>2, PayloadRead
<1>3. n \in Nat /\ Head(up).val = n
  BY <1>2, TokenParts, BoundsAssumption DEF Sizes
<1>4. /\ req \in Requests
      /\ req' = [req EXCEPT !.size = n]
      /\ spc' = IF n = 0 THEN "store" ELSE "data"
  <2>1. n > 0 <=> n # 0
    BY <1>3
  <2>2. req' = [req EXCEPT !.size = n] /\ spc' = IF n > 0 THEN "data" ELSE "store"
    BY <1>0, <1>3
  <2> QED
    BY <2>1, <2>2, TypedServerFacts
<1>10. req' \in Requests /\ req'.op = req.op /\ req'.dir = req.dir /\ req'.size = n
  BY <1>2, <1>4 DEF Requests
<1>5. Typed'
  <2>1. up' \in Seq(UpToken)
    BY <1>2, TokenFacts, UpOne
  <2> QED
    BY <1>0, <1>4, <1>10, <2>1, TypedServer, TypedServerFacts DEF client, Spots, Serving
<1>6. Placed'
  BY <1>0, <1>1, <1>3, <1>4, <1>10 DEF Placed, AtFile, client
<1>7. UpFits'
  <2>1. <<>> \in Calls
    BY DEF Calls
  <2> QED
    BY <1>2, <1>4, <1>10, <2>1 DEF UpFits, Fresh, Owed, Idle, AtFile
<1>8. UpWaits'
  <2>1. <<>> \notin Bare
    BY Completes, PayloadFacts, BoundsAssumption DEF Sizes
  <2>2. ~Missing' /\ ~Missing
    BY <1>0, <1>2, <1>4, <1>10, <2>1 DEF Missing, Fresh, Owed, Idle, AtFile
  <2> QED
    BY <1>0, <2>2 DEF UpWaits, client, Ended, Fresh, Idle, AtFile
<1>9. Joint' /\ Told'
  <2>1. Handled => Handled'
    BY <1>0, <1>2, <1>4, <1>10 DEF Handled, Idle, Ended, Fresh, AtFile, client
  <2>2. ~Rested /\ ~Over /\ ~Ended
    BY <1>0 DEF Rested, Over, Ended, Idle
  <2> QED
    BY <1>0, <2>1, <2>2, JointServer
<1> QED
  BY <1>5, <1>6, <1>7, <1>8, <1>9

LEMMA ReceiveDataStep == ASSUME IInv, ReceiveData PROVE IInv'
<1> USE DEF IInv
<1>0. /\ spc = "data" /\ up' = Tail(up) /\ spc' = "store"
      /\ UNCHANGED <<client, serving, req, down, done, odd>>
  BY DEF ReceiveData, Receive
<1>1. up' = <<>>
  BY <1>0, OneFacts DEF UpFits
<1>2. up' \in Calls /\ up' \in Seq(UpToken)
  BY <1>1 DEF Calls
<1>5. Typed'
  BY <1>0, <1>2, TypedServer, TypedServerFacts DEF client, Spots, Serving
<1>6. Placed'
  BY <1>0 DEF Placed, AtFile, client
<1>7. UpFits'
  BY <1>0, <1>2 DEF UpFits, Fresh, Owed, Idle, AtFile
<1>8. UpWaits'
  <2>1. <<>> \notin Bare
    BY Completes, PayloadFacts, BoundsAssumption DEF Sizes
  <2>2. ~Missing' /\ ~Missing
    BY <1>0, <1>1, <2>1 DEF Missing, Fresh, Owed, Idle, AtFile
  <2> QED
    BY <1>0, <2>2 DEF UpWaits, client, Ended, Fresh, Idle, AtFile
<1>9. Joint' /\ Told'
  <2>1. Handled => Handled'
    BY <1>0, <1>1 DEF Handled, Idle, Ended, Fresh, AtFile, client
  <2>2. ~Rested /\ ~Over /\ ~Ended
    BY <1>0 DEF Rested, Over, Ended, Idle
  <2> QED
    BY <1>0, <2>1, <2>2, JointServer
<1> QED
  BY <1>5, <1>6, <1>7, <1>8, <1>9

(* The answers                                                             *)

LEMMA NotBare == <<>> \notin Bare
BY Completes, PayloadFacts, BoundsAssumption DEF Sizes

LEMMA DownAppend ==
  ASSUME NEW s \in Seq(DownToken), NEW t \in Seq(DownToken)
  PROVE  /\ s \o t \in Seq(DownToken)
         /\ s = <<>> => s \o t = t
         /\ s # <<>> => s \o t # <<>> /\ Head(s \o t) = Head(s)
         /\ Len(s) > 1 => Len(s \o t) > 1 /\ (s \o t)[2] = s[2]
OBVIOUS

(* What is appended does not help a client that is stuck.                  *)
LEMMA StuckAppend ==
  ASSUME Typed, Stuck, pc' = pc, odd \subseteq odd',
         NEW t \in Seq(DownToken), down' = down \o t
  PROVE  Stuck'
<1>1. /\ down # <<>> => down' # <<>> /\ Head(down') = Head(down)
      /\ Len(down) > 1 => Len(down') > 1 /\ down'[2] = down[2]
  BY DownAppend DEF Typed
<1> QED
  BY <1>1 DEF Stuck

(* An answer that is whole, for a call that has no payload left to send,   *)
(* or a fatal one.                                                         *)
LEMMA AnswerStep ==
  ASSUME IInv, NEW l, NEW next, NEW tokens,
         Answer(l, tokens, next), tokens \in Seq(DownToken),
         l \in {"find", "run", "parked", "store"},
         next = "closing" \/ (next = "listen" /\ Fresh),
         done' \in Nat,
         odd \subseteq odd', odd' \subseteq {"slip", "refused", "drained", "dropped"},
         /\ down' = tokens /\ done = 0 /\ call' = call /\ spc' = next
         /\ req.op = call.op /\ req.dir = call.dir
         /\ (call.op = "READ_N" => call.dir)
         => IF next = "listen" THEN Answered' ELSE Sacked'
  PROVE  IInv'
<1>1. /\ spc = l /\ UNCHANGED <<client, serving, req, up>>
      /\ link = "open" => spc' = next /\ down' = down \o tokens
      /\ link # "open" => spc' = "closing" /\ down' = down
  BY DEF Answer, At
<1>2. Typed /\ Placed /\ UpFits /\ UpWaits /\ Joint /\ Told
  BY DEF IInv
<1>3. Typed'
  <2>1. down \in Seq(DownToken)
    BY <1>2 DEF Typed
  <2>2. down' \in Seq(DownToken)
    BY <1>1, <2>1, DownAppend
  <2>3. spc' \in Spots
    BY <1>1 DEF Spots
  <2> QED
    BY <1>1, <1>2, <2>2, <2>3, TypedServer, TypedServerFacts
<1>4. Placed'
  BY <1>1, <1>2 DEF Placed, AtFile, client
<1>5. UpFits'
  BY <1>1, <1>2 DEF UpFits, Fresh, Owed, Idle, AtFile
<1>6. UpWaits'
  <2>1. CASE link = "open" /\ next = "listen"
    <3>1. Missing' <=> up \in Bare
      BY <1>1, <2>1 DEF Missing, Fresh, Owed, Idle, AtFile
    <3>2. Missing <=> up \in Bare
      BY <1>1, <2>1 DEF Missing, Fresh, Owed, Idle, AtFile
    <3> QED
      BY <1>1, <1>2, <2>1, <3>1, <3>2 DEF UpWaits, Ended, Fresh, Idle, client
  <2>2. CASE link # "open" \/ next = "closing"
    BY <1>1, <2>2 DEF UpWaits, Ended, client
  <2> QED
    BY <2>1, <2>2
<1>7. ~Rested /\ ~Over /\ ~Ended /\ ~Sacked /\ ~Idle
  BY <1>1 DEF Rested, Over, Ended, Idle, Sacked
<1>8. Joint'
  <2> SUFFICES ASSUME link = "open" PROVE Sync' \/ Stuck'
    BY <1>1 DEF Joint, client
  <2>1. CASE Stuck
    BY <1>1, <1>2, <2>1, StuckAppend DEF client
  <2>2. CASE Sync
    <3>1. pc \in {"payload", "result"} /\ Handled
      BY <1>2, <1>7, <2>2 DEF Sync, Placed, InFile, Saving, Typed, TypeOK, Reading
    <3>2. down' = tokens
      BY <1>1, <3>1, DownAppend DEF Handled
    <3>3. /\ done = 0 /\ req.op = call.op /\ req.dir = call.dir /\ call' = call
          /\ (call.op = "READ_N" => call.dir)
      <4>1. call.op = "READ_N" => call.dir
        BY <1>2, <3>1 DEF Placed, Reading, Asking
      <4> QED
        BY <1>1, <1>7, <3>1, <4>1 DEF Handled, client
    <3>4. CASE next = "closing"
      <4>1. Sacked'
        BY <1>1, <3>2, <3>3, <3>4
      <4> QED
        BY <1>1, <3>1, <4>1 DEF Sync, client
    <3>5. CASE next = "listen"
      <4>1. Answered'
        BY <1>1, <3>2, <3>3, <3>5
      <4>2. up = <<>>
        BY <1>7, <3>1, <3>5 DEF Handled
      <4>3. ~Missing
        BY <1>1, <3>5, <4>2, NotBare DEF Missing, Fresh, Owed, Idle, AtFile
      <4>4. pc = "result"
        BY <1>2, <1>7, <3>1, <4>3 DEF UpWaits
      <4>5. Over'
        BY <1>1, <3>5, <4>2 DEF Over
      <4> QED
        BY <1>1, <4>1, <4>4, <4>5 DEF Sync, client
    <3> QED
      BY <3>4, <3>5
  <2> QED
    BY <1>2, <2>1, <2>2 DEF Joint
<1>9. Told'
  BY <1>1, <1>2, <1>7 DEF Told, client
<1> QED
  BY <1>3, <1>4, <1>5, <1>6, <1>8, <1>9 DEF IInv

LEMMA RefuseStep == ASSUME IInv, Refuse PROVE IInv'
<1>1. /\ spc = "backlog" /\ spc' = "closed"
      /\ UNCHANGED <<client, serving, req, up, done, odd>>
      /\ down' = Append(down, Number(Code.SERVER_FULL))
  BY DEF Refuse, At
<1>2. Typed /\ Placed /\ UpFits /\ UpWaits /\ Joint /\ Told
  BY DEF IInv
<1>3. /\ down \in Seq(DownToken) /\ <<Number(Code.SERVER_FULL)>> \in Seq(DownToken)
      /\ down' = down \o <<Number(Code.SERVER_FULL)>>
      /\ down' \in Seq(DownToken)
  <2>1. Code.SERVER_FULL \in 0..15
    BY DEF Code
  <2>2. Number(Code.SERVER_FULL) \in DownToken
    BY <2>1, ResultPlain, TokenFacts
  <2> QED
    BY <1>1, <1>2, <2>2 DEF Typed
<1>4. Typed'
  BY <1>1, <1>2, <1>3, TypedServer, TypedServerFacts DEF Spots
<1>5. Placed'
  BY <1>1, <1>2 DEF Placed, AtFile, client
<1>6. UpFits' /\ UpWaits'
  BY <1>1, <1>2 DEF UpFits, UpWaits, Fresh, Owed, Idle, AtFile, Ended
<1>7. Joint'
  <2> SUFFICES ASSUME link = "open" PROVE Sync' \/ Stuck'
    BY <1>1 DEF Joint, client
  <2>1. CASE Stuck
    BY <1>1, <1>2, <1>3, <2>1, StuckAppend DEF client
  <2>2. CASE Sync
    <3>1. ~Over /\ ~Ended /\ ~Sacked
      BY <1>1 DEF Over, Ended, Sacked
    <3>2. down = <<>> => down' = <<Number(Code.SERVER_FULL)>>
      BY <1>3, DownAppend
    <3>3. CASE pc \in {"idle", "send"}
      <4>1. down = <<>> /\ (pc = "send" => done = 0)
        BY <2>2, <3>1, <3>3 DEF Sync, Rested
      <4>2. Rested'
        BY <1>1, <3>2, <4>1 DEF Rested, Ended
      <4> QED
        BY <1>1, <3>3, <4>1, <4>2 DEF Sync, client
    <3>4. CASE pc \in {"payload", "result"}
      <4>1. down = <<>>
        BY <2>2, <3>1, <3>4 DEF Sync, Handled
      <4>2. Sacked'
        BY <1>1, <3>2, <4>1 DEF Sacked, Ended
      <4> QED
        BY <1>1, <3>4, <4>2 DEF Sync, client
    <3> QED
      BY <1>2, <2>2, <3>1, <3>3, <3>4
      DEF Sync, Placed, InFile, Saving, Typed, TypeOK, Reading
  <2> QED
    BY <1>2, <2>1, <2>2 DEF Joint
<1>8. Told'
  BY <1>1, <1>2 DEF Told, client, Over, Ended
<1> QED
  BY <1>4, <1>5, <1>6, <1>7, <1>8 DEF IInv

(* What the worker sends, as the client will read it.                      *)
LEMMA OneTyped ==
  \A n \in 0..Limit - 1 : <<Number(n)>> \in Seq(DownToken)
BY TokenFacts

LEMMA NoContents == <<>> \in Contents(0)
<1>1. [i \in 1..0 |-> 0] \in [1..0 -> Sizes]
  OBVIOUS
<1> QED
  BY <1>1, SentNone DEF Contents

LEMMA ReadAnswer ==
  ASSUME NEW n \in Sizes
  PROVE  LET t == <<Number(Code.SUCCESS), Number(n)>> \o Data(n) IN
         /\ t \in Seq(DownToken)
         /\ \E p \in Payloads : t = Cons(Number(Code.SUCCESS), p)
<1>1. PICK a : a = Number(Code.SUCCESS)
  OBVIOUS
<1>2. PICK b : b = Number(n)
  OBVIOUS
<1>3. PICK s : s = Data(n)
  OBVIOUS
<1>4. a \in DownToken /\ b \in DownToken /\ s \in Seq(DownToken)
  <2>1. Code.SUCCESS = 1 /\ <<>> \in Seq(DownToken)
    BY DEF Code
  <2> QED
    BY <1>1, <1>2, <1>3, <2>1, TokenFacts, BodyFacts
<1>5. PICK p : p = <<b>> \o s
  OBVIOUS
<1>6. p \in Payloads
  BY <1>2, <1>3, <1>5, PayloadFacts DEF PayloadTokens
<1>7. <<a, b>> \o s = <<a>> \o p
  <2>1. /\ p \in Seq(DownToken) /\ Len(p) = Len(s) + 1 /\ p[1] = b
        /\ \A i \in 1..Len(s) : p[i + 1] = s[i]
    BY <1>4, <1>5
  <2>2. PICK x : x = <<a, b>> \o s
    OBVIOUS
  <2>3. PICK y : y = <<a>> \o p
    OBVIOUS
  <2>4. /\ x \in Seq(DownToken) /\ Len(x) = Len(s) + 2 /\ x[1] = a /\ x[2] = b
        /\ \A i \in 1..Len(s) : x[i + 2] = s[i]
    BY <1>4, <2>2
  <2>5. /\ y \in Seq(DownToken) /\ Len(y) = Len(p) + 1 /\ y[1] = a
        /\ \A i \in 1..Len(p) : y[i + 1] = p[i]
    BY <1>4, <2>1, <2>3
  <2>6. Len(s) \in Nat
    BY <1>4
  <2>7. ASSUME NEW i \in 1..Len(x) PROVE x[i] = y[i]
    <3>1. CASE i = 1
      BY <2>4, <2>5, <3>1
    <3>2. CASE i = 2
      <4>1. 1 \in 1..Len(p) /\ y[1 + 1] = p[1]
        BY <2>1, <2>5, <2>6
      <4> QED
        BY <2>1, <2>4, <3>2, <4>1
    <3>3. CASE i > 2
      <4>1. /\ i - 2 \in 1..Len(s) /\ (i - 2) + 2 = i
            /\ (i - 2) + 1 = i - 1 /\ i - 1 \in 1..Len(p) /\ (i - 1) + 1 = i
        BY <2>1, <2>4, <2>6, <3>3
      <4>2. x[(i - 2) + 2] = s[i - 2] /\ p[(i - 2) + 1] = s[i - 2]
        BY <2>1, <2>4, <4>1
      <4>3. y[(i - 1) + 1] = p[i - 1]
        BY <2>5, <4>1
      <4> QED
        BY <4>1, <4>2, <4>3
    <3> QED
      BY <2>4, <2>6, <3>1, <3>2, <3>3
  <2>8. Len(x) = Len(y)
    BY <2>1, <2>4, <2>5, <2>6
  <2>9. x = y
    BY <2>4, <2>5, <2>7, <2>8, SeqEqual
  <2> QED
    BY <2>2, <2>3, <2>9
<1>8. <<a>> \o p = Cons(a, p) /\ Cons(a, p) \in Seq(DownToken)
  BY <1>4, <1>6, PayloadRead, ConsFacts DEF Cons
<1>9. <<Number(Code.SUCCESS), Number(n)>> \o Data(n) = Cons(Number(Code.SUCCESS), p)
  BY <1>1, <1>2, <1>3, <1>7, <1>8
<1> QED
  BY <1>1, <1>6, <1>8, <1>9

LEMMA FilesAnswer ==
  ASSUME NEW s \in SomeFiles, NEW d \in BOOLEAN
  PROVE  LET t == <<Number(Code.SUCCESS * Shift + Len(s))>>
                  \o (IF d THEN Sent(s) ELSE <<>>) IN
         /\ t \in Seq(DownToken)
         /\ \E k \in 0..MaxFiles : \E r \in Contents(IF d THEN k ELSE 0) :
              t = Cons(Number(Code.SUCCESS * Shift + k), r)
<1>1. PICK k \in 0..MaxFiles : s \in [1..k -> Sizes]
  BY DEF SomeFiles
<1>2. Len(s) = k /\ k \in Nat
  BY <1>1
<1>3. PICK r : r = IF d THEN Sent(s) ELSE <<>>
  OBVIOUS
<1>4. r \in Contents(IF d THEN k ELSE 0)
  BY <1>1, <1>3, NoContents DEF Contents
<1>5. r \in Seq(DownToken)
  BY <1>2, <1>4, ContentsTyped
<1>6. Number(Code.SUCCESS * Shift + k) \in DownToken
  <2>1. Code.SUCCESS \in 0..15 /\ k \in 0..Shift - 1
    BY <1>1, ShiftFacts, BoundsAssumption DEF Code
  <2> QED
    BY <2>1, ResultOf, TokenFacts
<1>7. Cons(Number(Code.SUCCESS * Shift + k), r) \in Seq(DownToken)
  BY <1>5, <1>6, ConsFacts
<1>8. <<Number(Code.SUCCESS * Shift + Len(s))>> \o (IF d THEN Sent(s) ELSE <<>>)
        = Cons(Number(Code.SUCCESS * Shift + k), r)
  BY <1>2, <1>3 DEF Cons
<1> QED
  BY <1>1, <1>4, <1>7, <1>8

LEMMA CodeFacts ==
  /\ Code.SUCCESS \in 0..15 /\ Code.NORET = 0 /\ Code.SUCCESS = 1
  /\ Code.NO_SUCH_FILE_F \in 0..15 /\ Code.SERVER_FULL \in 0..15
  /\ Code.FILE_ALREADY_OPEN \in 0..15
  /\ {Code.NO_SUCH_FILE, Code.FILE_NOT_OPEN, Code.NO_MEMORY, Code.UNKNOWN_ERROR,
      Code.FILE_ALREADY_EXISTS, Code.FILE_ALREADY_OPEN} \subseteq 10..15
  /\ 10..15 \subseteq 0..15
BY DEF Code

LEMMA CodeTyped ==
  \A c \in 0..15 : /\ <<Number(c)>> \in Seq(DownToken)
                   /\ <<Number(c * Shift)>> \in Seq(DownToken)
BY ResultPlain, OneTyped

(* A refusal that is not fatal, of a call without a payload or with one.   *)
LEMMA DenyStep ==
  ASSUME IInv, NEW l, NEW c \in 10..15, Fails,
         l \in {"find", "run", "parked", "store"}, Fresh, req.op \in Ops,
         \/ /\ sendClientError(l, c)
            /\ req.op \notin Uploads \cup {"READ_N"}
         \/ sendClientError(l, c * Shift) /\ req.op \in Uploads
  PROVE  IInv'
<1>1. done' = done /\ odd' = odd /\ c \in 0..15
  BY CodeFacts DEF Fails
<1>2. done \in Nat /\ odd \subseteq {"slip", "refused", "drained", "dropped"}
  BY TypedServerFacts DEF IInv
<1>3. CASE sendClientError(l, c) /\ req.op \notin Uploads \cup {"READ_N"}
  <2>1. /\ Answer(l, <<Number(c)>>, "listen")
        /\ <<Number(c)>> \in Seq(DownToken)
    BY <1>1, <1>3, CodeTyped DEF sendClientError
  <2>2. down' = <<Number(c)>> /\ done = 0 /\ call' = call /\ req.op = call.op
        => Answered'
    BY <1>1, <1>3 DEF Answered, Denied
  <2> QED
    BY <1>1, <1>2, <2>1, <2>2, AnswerStep
<1>4. CASE sendClientError(l, c * Shift) /\ req.op \in Uploads
  <2>1. /\ Answer(l, <<Number(c * Shift)>>, "listen")
        /\ <<Number(c * Shift)>> \in Seq(DownToken)
    BY <1>1, <1>4, CodeTyped DEF sendClientError
  <2>2. down' = <<Number(c * Shift)>> /\ done = 0 /\ call' = call /\ req.op = call.op
        => Answered'
    BY <1>1, <1>4 DEF Answered, Denied
  <2> QED
    BY <1>1, <1>2, <2>1, <2>2, AnswerStep
<1> QED
  BY <1>3, <1>4

(* An answer to a call that has been carried out.                          *)
LEMMA SucceedStep ==
  ASSUME IInv, NEW l, NEW t, Succeeds, sendClientResult(l, t),
         t \in Seq(DownToken), Success(req.op, req.dir, t) \/
                               (req.op = "READ_N" /\ Success(req.op, TRUE, t)),
         l \in {"find", "run", "parked", "store"}, Fresh
  PROVE  IInv'
<1>1. done' = done + 1 /\ odd' = odd /\ Answer(l, t, "listen")
  BY DEF Succeeds, sendClientResult
<1>2. done \in Nat /\ odd \subseteq {"slip", "refused", "drained", "dropped"}
  BY TypedServerFacts DEF IInv
<1>3. /\ down' = t /\ done = 0 /\ call' = call /\ spc' = "listen"
      /\ req.op = call.op /\ req.dir = call.dir
      /\ (call.op = "READ_N" => call.dir)
      => Answered'
  <2> SUFFICES ASSUME down' = t, done = 0, call' = call,
                      req.op = call.op, req.dir = call.dir,
                      call.op = "READ_N" => call.dir
               PROVE  Answered'
    OBVIOUS
  <2>1. call.dir \in BOOLEAN
    BY DEF IInv, Typed, TypeOK
  <2>2. Success(call.op, call.dir, t)
    <3>1. CASE Success(req.op, req.dir, t)
      BY <3>1
    <3>2. CASE req.op = "READ_N" /\ Success(req.op, TRUE, t)
      <4>1. call.dir = TRUE
        BY <2>1, <3>2
      <4> QED
        BY <3>2, <4>1
    <3> QED
      BY <3>1, <3>2
  <2>3. done' = 1
    BY <1>1
  <2> QED
    BY <2>2, <2>3 DEF Answered
<1> QED
  BY <1>1, <1>2, <1>3, AnswerStep

LEMMA AbsentStep == ASSUME IInv, Absent PROVE IInv'
<1>1. spc = "find" /\ Fails
  BY DEF Absent, Answer, At, sendClientError, sendClientFatalError
<1>2. req.op \in Ops /\ req.op # "READ_N" /\ req.op # "OPEN"
  BY <1>1 DEF IInv, Placed, AtFile, Absent
<1>3. CASE req.op \in {"LOCK", "UNLOCK"}
  <2>1. sendClientError("find", Code.NO_SUCH_FILE)
    BY <1>3 DEF Absent
  <2>2. Fresh /\ req.op \notin Uploads \cup {"READ_N"}
    BY <1>1, <1>3 DEF Fresh, AtFile, Uploads
  <2> QED
    BY <1>1, <1>2, <2>1, <2>2, CodeFacts, DenyStep
<1> DEFINE Tokens == IF req.op \in Uploads
                     THEN <<Number(Code.NO_SUCH_FILE_F * Shift)>>
                     ELSE <<Number(Code.NO_SUCH_FILE_F)>>
<1>4. CASE req.op \notin {"LOCK", "UNLOCK"}
  <2>1. Answer("find", Tokens, "closing")
    <3>1. CASE req.op \in {"READ", "CLOSE", "REMOVE"}
      <4>1. req.op \notin Uploads
        BY <3>1 DEF Uploads
      <4> QED
        BY <3>1, <4>1 DEF Absent, sendClientFatalError
    <3>2. CASE req.op \in Uploads
      BY <3>2 DEF Absent, sendClientFatalError, Uploads
    <3> QED
      BY <1>2, <1>4, <3>1, <3>2 DEF Ops
  <2>2. Tokens \in Seq(DownToken)
    BY CodeFacts, CodeTyped
  <2>3. down' = Tokens /\ call' = call /\ spc' = "closing" /\ req.op = call.op
        => Sacked'
    BY <1>2 DEF Sacked, Ended
  <2>4. /\ done' = done /\ odd' = odd /\ done \in Nat
        /\ odd \subseteq {"slip", "refused", "drained", "dropped"}
    BY <1>1, TypedServerFacts DEF IInv, Fails
  <2> HIDE DEF Tokens
  <2> QED
    BY <2>1, <2>2, <2>3, <2>4, AnswerStep
<1> QED
  BY <1>3, <1>4

LEMMA RunStep == ASSUME IInv, Run PROVE IInv'
<1>1. spc = "run"
  BY DEF Run, Answer, At, sendClientError, sendClientResult
<1>2. req.op \in Ops \ Uploads /\ Fresh
  BY <1>1 DEF IInv, Placed, AtFile, Run, Fresh
<1>3. ASSUME NEW t \in Results, sendClientResult("run", t), Succeeds PROVE IInv'
  <2>1. CASE req.op = "READ"
    <3>1. PICK n \in Sizes : t = <<Number(Code.SUCCESS), Number(n)>> \o Data(n)
      BY <2>1 DEF Results
    <3>2. /\ t \in Seq(DownToken)
          /\ \E p \in Payloads : t = Cons(Number(Code.SUCCESS), p)
      BY <3>1, ReadAnswer
    <3>3. Success(req.op, req.dir, t)
      BY <2>1, <3>2 DEF Success
    <3> QED
      BY <1>2, <1>3, <3>2, <3>3, SucceedStep
  <2>2. CASE req.op = "READ_N"
    <3>1. PICK s \in SomeFiles :
            t = <<Number(Code.SUCCESS * Shift + Len(s))>> \o Sent(s)
      BY <2>2 DEF Results
    <3>2. /\ t \in Seq(DownToken)
          /\ \E k \in 0..MaxFiles : \E r \in Contents(IF TRUE THEN k ELSE 0) :
               t = Cons(Number(Code.SUCCESS * Shift + k), r)
      BY <3>1, FilesAnswer
    <3>3. Success(req.op, TRUE, t)
      BY <2>2, <3>2 DEF Success
    <3> QED
      BY <1>2, <1>3, <2>2, <3>2, <3>3, SucceedStep
  <2>3. CASE req.op \notin {"READ", "READ_N"}
    <3>1. t = <<Number(Code.SUCCESS)>>
      BY <2>3 DEF Results
    <3>2. Success(req.op, req.dir, t) /\ t \in Seq(DownToken)
      BY <1>2, <2>3, <3>1, CodeFacts, CodeTyped DEF Success
    <3> QED
      BY <1>2, <1>3, <3>2, SucceedStep
  <2> QED
    BY <2>1, <2>2, <2>3
<1>4. ASSUME NEW r \in Refusals, sendClientError("run", r), Fails PROVE IInv'
  <2>1. r \in 10..15 /\ req.op # "READ_N"
    BY CodeFacts DEF Refusals
  <2>2. req.op \notin Uploads \cup {"READ_N"}
    BY <1>2, <2>1
  <2> QED
    BY <1>2, <1>4, <2>1, <2>2, DenyStep
<1> QED
  BY <1>3, <1>4 DEF Run

LEMMA StoreStep == ASSUME IInv, Store PROVE IInv'
<1>1. spc = "store"
  BY DEF Store, Answer, At, sendClientError, sendClientResult
<1>2. req.op \in Ops /\ req.op \in Uploads /\ Fresh /\ req.dir \in BOOLEAN
  BY <1>1, TypedServerFacts DEF IInv, Placed, Fresh, Ops, Requests
<1>3. ASSUME NEW s \in SomeFiles, sendClientResult("store", Expelled(s)), Succeeds
      PROVE  IInv'
  <2>1. /\ Expelled(s) \in Seq(DownToken)
        /\ \E k \in 0..MaxFiles : \E r \in Contents(IF req.dir THEN k ELSE 0) :
             Expelled(s) = Cons(Number(Code.SUCCESS * Shift + k), r)
    BY <1>2, FilesAnswer DEF Expelled
  <2>2. Success(req.op, req.dir, Expelled(s))
    BY <1>2, <2>1 DEF Success
  <2> QED
    BY <1>2, <1>3, <2>1, <2>2, SucceedStep
<1>4. ASSUME NEW c \in {Code.FILE_NOT_OPEN, Code.NO_MEMORY},
             sendClientError("store", c * Shift), Fails
      PROVE  IInv'
  <2>1. c \in 10..15
    BY CodeFacts
  <2> QED
    BY <1>2, <1>4, <2>1, DenyStep
<1> QED
  BY <1>3, <1>4 DEF Store

LEMMA RefuseWriteStep == ASSUME IInv, RefuseWrite PROVE IInv'
<1>1. /\ spc = "store" /\ req.op = "WRITE" /\ done' = done
      /\ odd' = odd \cup {"refused"}
      /\ Answer("store", <<Number(Code.FILE_ALREADY_OPEN)>>, "listen")
  BY DEF RefuseWrite, Answer, At, sendClientError
<1>2. done \in Nat /\ odd \subseteq {"slip", "refused", "drained", "dropped"}
  BY TypedServerFacts DEF IInv
<1>3. <<Number(Code.FILE_ALREADY_OPEN)>> \in Seq(DownToken)
  BY CodeFacts, CodeTyped
<1>4. /\ down' = <<Number(Code.FILE_ALREADY_OPEN)>> /\ done = 0 /\ call' = call
      /\ req.op = call.op
      => Answered'
  BY <1>1 DEF Answered
<1>5. Fresh
  BY <1>1 DEF Fresh
<1> QED
  BY <1>1, <1>2, <1>3, <1>4, <1>5, AnswerStep

LEMMA FileRemovedStep == ASSUME IInv, FileRemoved PROVE IInv'
<1>1. spc = "parked"
  BY DEF FileRemoved, Answer, At, sendClientError, sendClientResult
<1>2. req.op \in Ops /\ (req.op \notin Uploads => Fresh)
  BY <1>1 DEF IInv, Placed, AtFile, Fresh
<1>3. CASE /\ req.op \in {"REMOVE", "CLOSE"} /\ Succeeds
           /\ sendClientResult("parked", <<Number(Code.SUCCESS)>>)
  <2>1. req.op \notin Uploads
    BY <1>3 DEF Uploads
  <2>2. /\ Success(req.op, req.dir, <<Number(Code.SUCCESS)>>)
        /\ <<Number(Code.SUCCESS)>> \in Seq(DownToken)
    BY <1>3, <2>1, CodeFacts, CodeTyped DEF Success
  <2> QED
    BY <1>2, <1>3, <2>1, <2>2, SucceedStep
<1>4. CASE /\ req.op \in {"OPEN", "READ", "LOCK", "UNLOCK"} /\ Fails
           /\ sendClientError("parked", Code.NO_SUCH_FILE)
  <2>1. req.op \notin Uploads \cup {"READ_N"}
    BY <1>4 DEF Uploads
  <2> QED
    BY <1>2, <1>4, <2>1, CodeFacts, DenyStep
<1>5. ASSUME NEW l \in {"dropped", "drain"}, NEW e \in {"dropped", "drained"},
             req.op \in Uploads, odd' = odd \cup {e}, At("parked", l),
             UNCHANGED <<req, up, down, done>>
      PROVE  IInv'
  <2> USE DEF IInv
  <2>0. /\ spc' = l /\ UNCHANGED <<client, serving, req, up, down, done>>
        /\ odd \subseteq odd'
    BY <1>5 DEF At
  <2>1. Typed'
    <3>1. odd' \subseteq {"slip", "refused", "drained", "dropped"}
      BY <1>5, TypedServerFacts
    <3> QED
      BY <2>0, <3>1, TypedServer, TypedServerFacts DEF Spots, Serving
  <2>2. Placed'
    BY <1>1, <1>5, <2>0 DEF Placed, AtFile, client
  <2>3. UpFits' /\ UpWaits'
    BY <1>1, <1>5, <2>0
    DEF UpFits, UpWaits, Missing, Fresh, Owed, Idle, AtFile, Ended, client
  <2>4. Joint' /\ Told'
    BY <1>1, <1>5, <2>0, JointServer
    DEF Rested, Handled, Ended, Over, Idle, Fresh, AtFile, client
  <2> QED
    BY <2>1, <2>2, <2>3, <2>4
<1>6. CASE /\ req.op = "WRITE" /\ odd' = odd \cup {"dropped"}
           /\ At("parked", "dropped") /\ UNCHANGED <<req, up, down, done>>
  <2>1. req.op \in Uploads
    BY <1>6 DEF Uploads
  <2> QED
    BY <1>5, <1>6, <2>1
<1>7. CASE /\ req.op = "APPEND" /\ odd' = odd \cup {"drained"}
           /\ At("parked", "drain") /\ UNCHANGED <<req, up, down, done>>
  <2>1. req.op \in Uploads
    BY <1>7 DEF Uploads
  <2> QED
    BY <1>5, <1>7, <2>1
<1> QED
  BY <1>3, <1>4, <1>6, <1>7 DEF FileRemoved

-----------------------------------------------------------------------------
(* The steps of the client *)

Places == Reading \cup {"idle", "connect", "send", "payload", "gone", "astray"}
CallRecords == [op: Ops \cup {"CONNECT", NULL}, dir: BOOLEAN, size: Sizes]
Rests == [files: 0..(Shift - 1), verdict: 0..15, len: Sizes]

LEMMA TypedClient ==
  ASSUME Typed, UNCHANGED serving, spc' \in Spots, req' \in Requests,
         pc' \in Places, link' \in {"none", "open", "closed"},
         call' \in CallRecords, rest' \in Rests,
         outcome'.ret \in {"ok", "error", NULL},
         outcome'.code = NULL \/ outcome'.code \in Nat, late' \in BOOLEAN,
         up' \in Seq(UpToken), down' \in Seq(DownToken),
         done' \in Nat, odd' \subseteq {"slip", "refused", "drained", "dropped"}
  PROVE  Typed'
BY Kinds DEF Typed, TypeOK, Spots, Requests, Places, CallRecords, Rests

LEMMA TypedClientFacts ==
  ASSUME Typed
  PROVE  /\ pc \in Places /\ link \in {"none", "open", "closed"}
         /\ call \in CallRecords /\ rest \in Rests
         /\ outcome.ret \in {"ok", "error", NULL}
         /\ outcome.code = NULL \/ outcome.code \in Nat
         /\ late \in BOOLEAN
BY DEF Typed, TypeOK, Places, CallRecords, Rests

(* The client is not, or no longer, connected.                             *)
LEMMA Alone ==
  ASSUME IInv, UNCHANGED server, UNCHANGED up, link' # "open"
  PROVE  UpFits' /\ UpWaits' /\ Joint'
BY DEF IInv, UpFits, UpWaits, Joint, Fresh, Owed, Idle, AtFile, server

LEMMA openConnectionStep == ASSUME IInv, openConnection PROVE IInv'
<1>1. /\ link # "open" /\ link' = link /\ pc = "idle" /\ pc' = "connect" /\ late' = FALSE
      /\ call' = [op |-> "CONNECT", dir |-> FALSE, size |-> 0]
      /\ outcome' = [ret |-> NULL, code |-> NULL]
      /\ UNCHANGED <<rest, server, up, down, done, odd>>
  BY DEF openConnection, Begin
<1>2. Typed'
  <2>1. 0 \in Sizes
    BY BoundsAssumption DEF Sizes
  <2>2. call' \in CallRecords
    BY <1>1, <2>1 DEF CallRecords
  <2>3. pc' \in Places
    BY <1>1 DEF Places
  <2> QED
    BY <1>1, <2>2, <2>3, TypedClient, TypedClientFacts, TypedServerFacts DEF IInv, server
<1>3. Placed'
  BY <1>1 DEF IInv, Placed, server, Reading, Asking, AtFile
<1>4. Told'
  BY <1>1 DEF Told
<1> QED
  BY <1>1, <1>2, <1>3, <1>4, Alone DEF IInv

LEMMA ConnectFailsStep == ASSUME IInv, ConnectFails PROVE IInv'
<1>1. /\ link # "open" /\ link' = link /\ pc' = "idle" /\ UNCHANGED late
      /\ call' = NoCall /\ rest' = NoRest
      /\ outcome' = [ret |-> NULL, code |-> NULL]
      /\ UNCHANGED <<server, up, down, done, odd>>
  BY DEF ConnectFails, Return, IInv, Placed
<1>2. Typed'
  <2>1. call' \in CallRecords /\ rest' \in Rests
    BY <1>1, NoneTyped DEF CallRecords, Rests
  <2>2. pc' \in Places
    BY <1>1 DEF Places
  <2> QED
    BY <1>1, <2>1, <2>2, TypedClient, TypedClientFacts, TypedServerFacts DEF IInv, server
<1>3. Placed'
  BY <1>1 DEF IInv, Placed, server, Reading, Asking, AtFile
<1>4. Told'
  BY <1>1 DEF Told
<1> QED
  BY <1>1, <1>2, <1>3, <1>4, Alone DEF IInv

LEMMA ClockStep == ASSUME IInv, Clock PROVE IInv'
<1>1. /\ link # "open" /\ pc = "connect" /\ late' = TRUE
      /\ UNCHANGED <<pc, link, call, rest, outcome, server, up, down, done, odd>>
  BY DEF Clock, IInv, Placed
<1>2. Typed'
  BY <1>1, TypedClient, TypedClientFacts, TypedServerFacts DEF IInv, server
<1>3. Placed'
  BY <1>1 DEF IInv, Placed, server, Reading, Asking, AtFile
<1>4. Told'
  BY <1>1 DEF Told
<1> QED
  BY <1>1, <1>2, <1>3, <1>4, Alone DEF IInv

LEMMA closeConnectionStep == ASSUME IInv, closeConnection PROVE IInv'
<1>1. /\ pc = "idle" /\ link' = "closed" /\ outcome' = [ret |-> NULL, code |-> NULL]
      /\ UNCHANGED <<pc, call, rest, late, server, up, down, done, odd>>
  BY DEF closeConnection
<1>2. Typed'
  BY <1>1, TypedClient, TypedClientFacts, TypedServerFacts DEF IInv, server
<1>3. Placed'
  BY <1>1 DEF IInv, Placed, server, Reading, Asking, AtFile
<1>4. Told'
  BY <1>1 DEF Told
<1> QED
  BY <1>1, <1>2, <1>3, <1>4, Alone DEF IInv

(* The process ends by itself, or by writing to a closed connection.       *)
LEMMA Gone ==
  ASSUME IInv, pc' = "gone", link' = "closed",
         UNCHANGED <<call, rest, outcome, late, server, up, down, done, odd>>
  PROVE  IInv'
<1>2. Typed'
  <2>1. pc' \in Places
    BY DEF Places
  <2> QED
    BY <2>1, TypedClient, TypedClientFacts, TypedServerFacts DEF IInv, server
<1>3. Placed'
  BY DEF IInv, Placed, server, Reading, Asking, AtFile
<1>4. Told'
  BY DEF Told
<1> QED
  BY <1>2, <1>3, <1>4, Alone DEF IInv

LEMMA ConnectStep == ASSUME IInv, Connect PROVE IInv'
<1>1. /\ pc' = "idle" /\ link' = "open" /\ spc' = "backlog" /\ up' = <<>> /\ down' = <<>>
      /\ call' = NoCall /\ rest' = NoRest /\ req' = NoCall /\ done' = 0 /\ odd' = {}
      /\ outcome' = [ret |-> NULL, code |-> NULL] /\ UNCHANGED <<late, serving>>
  BY DEF Connect, Return
<1>2. Typed'
  <2>1. call' \in CallRecords /\ rest' \in Rests /\ req' \in Requests
    BY <1>1, NoneTyped DEF CallRecords, Rests, Requests
  <2>2. pc' \in Places /\ spc' \in Spots
    BY <1>1 DEF Places, Spots
  <2>3. up' \in Seq(UpToken) /\ down' \in Seq(DownToken)
    BY <1>1
  <2> QED
    BY <1>1, <2>1, <2>2, <2>3, TypedClient, TypedClientFacts DEF IInv
<1>3. Placed'
  BY <1>1 DEF Placed, Reading, Asking, AtFile
<1>4. UpFits' /\ UpWaits'
  <2>1. <<>> \in Calls
    BY DEF Calls
  <2> QED
    BY <1>1, <2>1, NotBare
    DEF UpFits, UpWaits, Missing, Fresh, Owed, Idle, AtFile, Ended
<1>5. Joint' /\ Told'
  <2>1. Rested' /\ Sync'
    BY <1>1 DEF Sync, Rested, Idle
  <2> QED
    BY <1>1, <2>1 DEF Joint, Told
<1> QED
  BY <1>2, <1>3, <1>4, <1>5 DEF IInv

(* The steps of the client that write                                      *)

LEMMA AskStep ==
  ASSUME IInv, NEW o \in Ops, NEW d \in BOOLEAN, NEW n \in Sizes, Ask(o, d, n)
  PROVE  IInv'
<1>1. /\ link = "open" /\ pc = "idle" /\ pc' = "send"
      /\ call' = [op |-> o, dir |-> d, size |-> n]
      /\ outcome' = [ret |-> NULL, code |-> NULL] /\ done' = 0
      /\ UNCHANGED <<link, rest, late, server, up, down, odd>>
  BY DEF Ask, Begin
<1>2. Typed'
  <2>1. call' \in CallRecords
    BY <1>1 DEF CallRecords
  <2>2. pc' \in Places
    BY <1>1 DEF Places
  <2> QED
    BY <1>1, <2>1, <2>2, TypedClient, TypedClientFacts, TypedServerFacts DEF IInv, server
<1>3. Placed'
  <2>1. call'.op \in Ops /\ (call'.dir => call'.op \in Uploads \cup {"READ_N"})
        /\ (call'.op = "READ_N" => call'.dir)
    BY <1>1 DEF Ask
  <2> QED
    BY <1>1, <2>1 DEF IInv, Placed, server, Reading, Asking, AtFile
<1>4. UpFits'
  BY <1>1 DEF IInv, UpFits, Fresh, Owed, Idle, AtFile, server
<1>5. Ended \/ up = <<>>
  BY <1>1 DEF IInv, Joint, Sync, Rested, Stuck, Ask
<1>6. Ended \/ Fresh
  <2> SUFFICES ASSUME ~Ended PROVE Fresh
    OBVIOUS
  <2>1. up = <<>> /\ ~Missing
    BY <1>1, <1>5 DEF IInv, UpWaits
  <2>2. ~Owed
    BY <2>1 DEF Missing
  <2>3. spc # "name"
    BY <2>1, AfterWordRead DEF IInv, UpFits, Placed
  <2>4. spc # "data"
    BY <2>1, OneFacts DEF IInv, UpFits
  <2>5. spc # "none" /\ spc \in Spots
    BY <1>1, TypedServerFacts DEF IInv, Placed
  <2> QED
    BY <2>2, <2>3, <2>4, <2>5 DEF Ended, Spots, Serving, Fresh, Owed, Idle, AtFile
<1>7. UpWaits'
  <2>1. /\ Ended' = Ended /\ Missing' = Missing /\ Fresh' = Fresh
    BY <1>1 DEF Ended, Missing, Fresh, Owed, Idle, AtFile, server
  <2> QED
    BY <1>1, <1>5, <1>6, <2>1 DEF IInv, UpWaits
<1>8. Joint'
  <2>1. Sync => Sync'
    BY <1>1 DEF Sync, Rested, Idle, Ended, server
  <2>2. Stuck => Stuck'
    BY <1>1 DEF Stuck
  <2> QED
    BY <1>1, <2>1, <2>2 DEF IInv, Joint
<1>9. Told'
  BY <1>1 DEF Told
<1> QED
  BY <1>2, <1>3, <1>4, <1>7, <1>8, <1>9 DEF IInv

(* What both sends keep.                                                   *)
LEMMA SendTyped ==
  ASSUME IInv, pc' \in {"payload", "result"}, pc \in Asking,
         pc' = "payload" => call.op \in Uploads,
         up' \in Seq(UpToken),
         UNCHANGED <<link, call, rest, outcome, late, server, down, done, odd>>
  PROVE  Typed' /\ Placed' /\ Told' /\ (Stuck => Stuck')
<1>1. Typed'
  <2>1. pc' \in Places
    BY DEF Places, Reading
  <2> QED
    BY <2>1, TypedClient, TypedClientFacts, TypedServerFacts DEF IInv, server
<1>2. Placed'
  BY DEF IInv, Placed, server, Reading, Asking, AtFile
<1>3. Told'
  BY DEF Told
<1>4. Stuck => Stuck'
  BY DEF Stuck, Asking
<1> QED
  BY <1>1, <1>2, <1>3, <1>4

LEMMA CallsTyped ==
  /\ Calls \subseteq Seq(UpToken) /\ Payloads \subseteq Seq(UpToken)
BY PayloadRead DEF Calls

LEMMA SendRequestStep == ASSUME IInv, SendRequest PROVE IInv'
<1> DEFINE Tokens == RequestTokens(call.op, call.dir)
<1>0. pc = "send" /\ link = "open" /\ call.op \in Ops /\ call.dir \in BOOLEAN
  BY DEF IInv, Placed, SendRequest, Send, Asking, Typed, TypeOK
<1>1. /\ spc = "closed" => pc' = "gone" /\ link' = "closed" /\ UNCHANGED up
      /\ spc # "closed" => /\ pc' = IF call.op \in Uploads THEN "payload" ELSE "result"
                           /\ up' = up \o Tokens /\ UNCHANGED link
      /\ UNCHANGED <<call, rest, outcome, late, server, down, done, odd>>
  BY DEF SendRequest, Send, RequestTokens
<1>2. /\ Tokens \in Calls /\ Tokens # <<>> /\ Head(Tokens) = Word(call.op, call.dir)
      /\ (call.op \in Uploads <=> Tokens \in Bare)
  BY <1>0, RequestFacts
<1> HIDE DEF Tokens
<1>3. CASE spc = "closed"
  BY <1>1, <1>3, Gone
<1>4. CASE spc # "closed"
  <2>1. up \in Seq(UpToken) /\ Tokens \in Seq(UpToken) /\ up' = Cat(up, Tokens)
    BY <1>1, <1>2, <1>4, CallsTyped DEF IInv, Typed, Cat
  <2>2. up' \in Seq(UpToken)
    BY <2>1, CatFacts
  <2>3. Typed' /\ Placed' /\ Told' /\ (Stuck => Stuck')
    BY <1>0, <1>1, <1>4, <2>2, SendTyped DEF Asking
  <2>4. CASE Ended
    <3>1. UpFits' /\ UpWaits'
      BY <1>1, <2>4 DEF UpFits, UpWaits, Ended, Fresh, Owed, Idle, AtFile, server
    <3>2. Sync => Sync'
      <4>1. Sync => Sacked'
        BY <1>0, <1>1, <2>4 DEF Sync, Rested, Sacked, Ended, Idle, server
      <4> QED
        BY <1>1, <1>4, <4>1 DEF Sync
    <3> QED
      BY <1>0, <2>3, <3>1, <3>2 DEF IInv, Joint
  <2>5. CASE ~Ended
    <3>1. Fresh /\ up = <<>>
      BY <1>0, <2>5 DEF IInv, UpWaits
    <3>2. up' = Tokens
      BY <2>1, <3>1, CatFacts
    <3>3. /\ Fresh' /\ ~Owed' /\ spc' # "name" /\ spc' # "data" /\ ~Ended'
          /\ spc' = spc
      BY <1>1, <2>5, <3>1 DEF Fresh, Owed, Idle, AtFile, Ended, server, Uploads
    <3>4. UpFits'
      BY <1>2, <3>2, <3>3 DEF UpFits
    <3>5. Missing' <=> up' \in Bare
      BY <3>3 DEF Missing
    <3>6. UpWaits'
      BY <1>1, <1>2, <1>4, <3>2, <3>3, <3>5 DEF UpWaits
    <3>7. Sync => Sync'
      <4>1. Sync => Handled'
        BY <1>0, <1>1, <1>2, <2>5, <3>2, <3>3
        DEF Sync, Rested, Handled, Ended, Idle, server
      <4> QED
        BY <1>1, <1>4, <4>1 DEF Sync
    <3> QED
      BY <1>0, <2>3, <3>4, <3>6, <3>7 DEF IInv, Joint
  <2> QED
    BY <2>4, <2>5
<1> QED
  BY <1>3, <1>4

LEMMA SendPayloadStep == ASSUME IInv, SendPayload PROVE IInv'
<1> DEFINE Tokens == PayloadTokens(call.size)
<1>0. /\ pc = "payload" /\ link = "open" /\ call.op \in Uploads /\ call.op \in Ops
      /\ call.size \in Sizes
  BY DEF IInv, Placed, SendPayload, Send, Asking, Typed, TypeOK, Ops
<1>1. /\ spc = "closed" => pc' = "gone" /\ link' = "closed" /\ UNCHANGED up
      /\ spc # "closed" => /\ pc' = "result"
                           /\ up' = up \o Tokens /\ UNCHANGED link
      /\ UNCHANGED <<call, rest, outcome, late, server, down, done, odd>>
  BY DEF SendPayload, Send, PayloadTokens
<1>2. Tokens \in Payloads
  BY <1>0, PayloadFacts
<1> HIDE DEF Tokens
<1>3. CASE spc = "closed"
  BY <1>1, <1>3, Gone
<1>4. CASE spc # "closed"
  <2>1. up \in Seq(UpToken) /\ Tokens \in Seq(UpToken) /\ up' = Cat(up, Tokens)
    BY <1>1, <1>2, <1>4, CallsTyped DEF IInv, Typed, Cat
  <2>2. up' \in Seq(UpToken)
    BY <2>1, CatFacts
  <2>3. Typed' /\ Placed' /\ Told' /\ (Stuck => Stuck')
    BY <1>0, <1>1, <1>4, <2>2, SendTyped DEF Asking
  <2>4. CASE Ended
    <3>1. UpFits' /\ UpWaits'
      BY <1>1, <2>4 DEF UpFits, UpWaits, Ended, Fresh, Owed, Idle, AtFile, server
    <3>2. Sync => Sync'
      <4>1. Sync => Sacked'
        BY <1>0, <1>1, <2>4 DEF Sync, Handled, Sacked, Ended, Idle, server
      <4> QED
        BY <1>1, <1>4, <4>1 DEF Sync
    <3> QED
      BY <1>0, <2>3, <3>1, <3>2 DEF IInv, Joint
  <2>5. CASE ~Ended
    <3>1. Missing
      BY <1>0, <2>5 DEF IInv, UpWaits
    <3>2. spc' = spc /\ req' = req /\ call' = call /\ down' = down /\ done' = done
      BY <1>1 DEF server
    <3>3. UpFits' /\ ~Missing' /\ (Handled => Handled')
      <4>1. CASE Owed /\ up = <<>>
        <5>1. up' = Tokens /\ up' # <<>>
          BY <1>2, <2>1, <4>1, CatFacts, PayloadRead
        <5>2. req.op \in Uploads
          BY <4>1 DEF IInv, Placed, Owed
        <5>3. up' \in AfterName(req.op)
          BY <1>2, <5>1, <5>2 DEF AfterName
        <5>4. Owed' /\ ~Fresh' /\ ~Idle' /\ spc \notin {"name", "data"} /\ ~Ended'
          BY <2>5, <3>2, <4>1 DEF Owed, Fresh, Idle, AtFile, Ended
        <5>5. ~Idle /\ ~Ended
          BY <4>1 DEF Owed, Idle, AtFile, Ended
        <5> QED
          BY <3>2, <5>1, <5>3, <5>4, <5>5 DEF UpFits, Missing, Handled
      <4>2. CASE spc = "name" /\ req.op \in Uploads /\ up = <<Name>>
        <5>1. up' # <<Name>> /\ up' \in AfterWord(req.op)
          BY <1>2, <2>1, <4>2, CompletesName
        <5>2. ~Owed' /\ ~Fresh' /\ ~Idle' /\ ~Idle /\ ~Ended'
          BY <3>2, <4>2 DEF Owed, Fresh, Idle, AtFile, Ended
        <5> QED
          BY <3>2, <4>2, <5>1, <5>2 DEF UpFits, Missing, Handled
      <4>3. CASE Fresh /\ up \in Bare
        <5>1. up' \in Calls /\ up' # <<>> /\ up' \notin Bare /\ Head(up') = Head(up)
          BY <1>2, <2>1, <4>3, Completes
        <5>2. ~Owed' /\ Fresh' /\ Idle' = Idle /\ spc \notin {"name", "data"} /\ ~Ended'
          BY <2>5, <3>2, <4>3 DEF Owed, Fresh, Idle, AtFile, Ended, Uploads
        <5>3. Handled => Idle
          BY <4>3, NotBare DEF Handled
        <5> QED
          BY <3>2, <5>1, <5>2, <5>3 DEF UpFits, Missing, Handled
      <4> QED
        BY <3>1, <4>1, <4>2, <4>3 DEF Missing
    <3>4. UpWaits'
      BY <1>1, <1>4, <3>3 DEF UpWaits
    <3>5. Sync => Sync'
      <4>1. Sync => Handled
        BY <1>0, <2>5 DEF Sync, Sacked
      <4> QED
        BY <1>1, <1>4, <3>3, <4>1 DEF Sync
    <3> QED
      BY <1>0, <2>3, <3>3, <3>4, <3>5 DEF IInv, Joint
  <2> QED
    BY <2>4, <2>5
<1> QED
  BY <1>3, <1>4

(* The steps of the client that read                                       *)

LEMMA ReadKeeps ==
  ASSUME IInv, UNCHANGED <<link, server, up>>, pc \notin Asking, pc' \notin Asking
  PROVE  UpFits' /\ UpWaits'
BY DEF IInv, UpFits, UpWaits, Missing, Fresh, Owed, Idle, AtFile, Ended, server, Asking

LEMMA InCallOpen == ASSUME IInv, pc \in Reading PROVE link = "open" /\ call.op \in Ops
BY DEF IInv, Placed, Reading

(* A call returns with both ends at rest, or with the client out of step.  *)
LEMMA ReturnStep ==
  ASSUME IInv, pc \in Reading, NEW r \in {"ok", "error", NULL}, NEW c, Return(r, c),
         c = NULL \/ c \in Nat,
         UNCHANGED <<link, late, server, up, done>>, down' \in Seq(DownToken),
         odd \subseteq odd', odd' \subseteq {"slip", "refused", "drained", "dropped"},
         \/ Rested'
         \/ /\ "slip" \in odd' /\ down' # <<>>
            /\ \/ Head(down').kind # "int"
               \/ Head(down') = Number(1) /\ Len(down') > 1 /\ down'[2] = Name,
         c # NULL /\ odd' \cap {"slip", "refused"} = {}
         => IF Fatal(c) THEN Ended ELSE Over
  PROVE  IInv'
<1>1. /\ pc' = "idle" /\ call' = NoCall /\ rest' = NoRest
      /\ outcome'.ret = r /\ outcome'.code = c
  BY DEF Return
<1>2. link = "open"
  BY InCallOpen
<1>3. Typed'
  <2>1. call' \in CallRecords /\ rest' \in Rests
    BY <1>1, NoneTyped DEF CallRecords, Rests
  <2>2. pc' \in Places
    BY <1>1 DEF Places
  <2> QED
    BY <1>1, <2>1, <2>2, TypedClient, TypedClientFacts, TypedServerFacts DEF IInv, server
<1>4. Placed'
  BY <1>1 DEF IInv, Placed, server, Reading, Asking, AtFile
<1>5. UpFits' /\ UpWaits'
  BY <1>1, ReadKeeps DEF Reading, Asking
<1>6. Joint'
  BY <1>1 DEF Joint, Sync, Stuck
<1>7. Told'
  <2>1. Ended' = Ended /\ Over' = Over
    BY DEF Ended, Over, server
  <2> QED
    BY <1>1, <1>2, <2>1 DEF Told
<1> QED
  BY <1>3, <1>4, <1>5, <1>6, <1>7 DEF IInv

LEMMA VerdictStep ==
  ASSUME IInv, pc \in Reading, NEW c \in 0..15, Verdict(c),
         UNCHANGED <<link, late, server, up, done, odd>>, down' \in Seq(DownToken),
         Rested' \/ ("slip" \in odd /\ down' # <<>> /\ Head(down').kind # "int"),
         odd \cap {"slip", "refused"} = {} => IF Fatal(c) THEN Ended ELSE Over
  PROVE  IInv'
<1>1. PICK r \in {"ok", "error"} : Return(r, c)
  BY DEF Verdict
<1>2. c \in Nat /\ odd' \subseteq {"slip", "refused", "drained", "dropped"}
  BY TypedServerFacts DEF IInv
<1> QED
  BY <1>1, <1>2, ReturnStep

(* The call goes on.                                                       *)
LEMMA GotoStep ==
  ASSUME IInv, pc \in Reading, NEW l \in Reading, Goto(l),
         l \in {"size", "data"} => call.op = "READ",
         rest' \in Rests, down' \in Seq(DownToken),
         UNCHANGED <<link, late, server, up, done, odd>>, Sync' \/ Stuck'
  PROVE  IInv'
<1>1. pc' = l /\ UNCHANGED <<call, outcome>>
  BY DEF Goto
<1>2. Typed'
  <2>1. pc' \in Places
    BY <1>1 DEF Places
  <2> QED
    BY <1>1, <2>1, TypedClient, TypedClientFacts, TypedServerFacts DEF IInv, server
<1>3. Placed'
  BY <1>1 DEF IInv, Placed, server, Reading, Asking, AtFile
<1>4. UpFits' /\ UpWaits'
  BY <1>1, ReadKeeps DEF Reading, Asking
<1>5. Joint' /\ Told'
  BY <1>1 DEF Joint, Told, Reading
<1> QED
  BY <1>2, <1>3, <1>4, <1>5 DEF IInv

LEMMA OverRests ==
  ASSUME UNCHANGED server, UNCHANGED up, down' = <<>>, Over \/ Ended
  PROVE  Rested'
BY DEF Over, Rested, Idle, Ended, server

(* What the client is about to read is what it expects.                    *)
LEMMA Expected ==
  ASSUME IInv, pc \in Reading, down # <<>>, Sync
  PROVE  /\ pc = "size" => down \in Payloads
         /\ pc = "data" => down = <<Piece(rest.len)>> /\ rest.len \in Sizes
         /\ pc \in {"chdir", "fnameLen"} => InFile /\ down \in Contents(rest.files)
         /\ pc = "fname" => down \in AtName(rest.files - 1)
         /\ pc = "fdim" => down \in AtDim(rest.files - 1)
         /\ pc = "fdata" => down \in AtData(rest.len, rest.files - 1) /\ rest.len \in Sizes
         /\ pc \in {"chdir", "fnameLen", "fname", "fdim", "fdata"} =>
              InFile /\ rest.files \in Nat /\ rest.files - 1 \in Nat
<1>1. rest.files \in Nat /\ rest.len \in Sizes
  BY ShiftFacts DEF IInv, Typed, TypeOK
<1> QED
  BY <1>1 DEF Sync, Saving, InFile

LEMMA AnsweredFits ==
  ASSUME Sacked \/ Answered, down # <<>>
  PROVE  Head(down).kind = "int"
<1>1. ASSUME NEW n, down = <<Number(n)>> PROVE Head(down).kind = "int"
  BY <1>1, TokenParts, OneFacts
<1>2. ASSUME NEW n, Number(n) \in DownToken, NEW t \in Seq(DownToken), down = Cons(Number(n), t)
      PROVE  Head(down).kind = "int"
  <2>1. Head(Cons(Number(n), t)) = Number(n)
    BY <1>2, ConsFacts
  <2> QED
    BY <1>2, <2>1, TokenParts
<1>3. CASE Sacked
  BY <1>1, <1>3 DEF Sacked
<1>4. CASE Denied(call.op, down) \/ down = <<Number(Code.FILE_ALREADY_OPEN)>>
  BY <1>1, <1>4 DEF Denied
<1>5. CASE Success(call.op, call.dir, down)
  <2>1. CASE down = <<Number(Code.SUCCESS)>>
    BY <1>1, <2>1
  <2>2. CASE \E p \in Payloads : down = Cons(Number(Code.SUCCESS), p)
    <3>1. PICK p \in Payloads : down = Cons(Number(Code.SUCCESS), p)
      BY <2>2
    <3>2. p \in Seq(DownToken) /\ Number(Code.SUCCESS) \in DownToken
      BY PayloadRead, TokenFacts DEF Code
    <3> QED
      BY <1>2, <3>1, <3>2
  <2>3. CASE \E k \in 0..MaxFiles : \E t \in Contents(IF call.dir THEN k ELSE 0) :
               down = Cons(Number(Code.SUCCESS * Shift + k), t)
    <3>1. PICK k \in 0..MaxFiles :
                 \E t \in Contents(IF call.dir THEN k ELSE 0) :
                   down = Cons(Number(Code.SUCCESS * Shift + k), t)
      BY <2>3
    <3>2. PICK t \in Contents(IF call.dir THEN k ELSE 0) :
                   down = Cons(Number(Code.SUCCESS * Shift + k), t)
      BY <3>1
    <3>3. t \in Seq(DownToken)
      BY ContentsTyped
    <3>4. k \in 0..Shift - 1 /\ Code.SUCCESS \in 0..15
      BY ShiftFacts, BoundsAssumption DEF Code
    <3>5. Number(Code.SUCCESS * Shift + k) \in DownToken
      BY <3>4, ResultOf, TokenFacts
    <3> QED
      BY <1>2, <3>2, <3>3, <3>5
  <2> QED
    BY <1>5, <2>1, <2>2, <2>3 DEF Success
<1> QED
  BY <1>3, <1>4, <1>5 DEF Answered

LEMMA AstrayStep == ASSUME IInv, Astray PROVE IInv'
<1>1. /\ pc \in Reading \ {"chdir"} /\ down # <<>> /\ ~Fits(Head(down)) /\ pc' = "astray"
      /\ UNCHANGED <<link, call, rest, outcome, late, server, up, down, done, odd>>
  BY DEF Astray
<1>2. link = "open"
  BY <1>1, InCallOpen
<1>3. ~Sync
  <2> SUFFICES ASSUME Sync PROVE Fits(Head(down))
    BY <1>1
  <2>1. CASE pc = "result"
    BY <1>1, <2>1, AnsweredFits DEF Sync, Handled, Fits
  <2>2. CASE pc = "size"
    BY <1>1, <2>2, Expected, PayloadRead, TokenParts DEF Fits
  <2>3. CASE pc = "data"
    BY <1>1, <2>3, Expected, OneFacts, TokenParts DEF Fits
  <2>4. CASE pc = "fnameLen"
    <3>1. rest.files > 0
      BY <1>1, <2>4, Expected DEF InFile
    <3> QED
      BY <1>1, <2>4, <3>1, Expected, ContentsRead, TokenParts DEF Fits
  <2>5. CASE pc = "fname"
    BY <1>1, <2>5, Expected, NameRead, TokenParts DEF Fits
  <2>6. CASE pc = "fdim"
    BY <1>1, <2>6, Expected, DimRead, TokenParts DEF Fits
  <2>7. CASE pc = "fdata"
    BY <1>1, <2>7, Expected, DataRead, TokenParts DEF Fits
  <2> QED
    BY <1>1, <2>1, <2>2, <2>3, <2>4, <2>5, <2>6, <2>7 DEF Reading
<1>4. Typed'
  <2>1. pc' \in Places
    BY <1>1 DEF Places
  <2> QED
    BY <1>1, <2>1, TypedClient, TypedClientFacts, TypedServerFacts DEF IInv, server
<1>5. Placed' /\ Told'
  BY <1>1, <1>2 DEF IInv, Placed, Told, server, Reading, Asking, AtFile
<1>6. UpFits' /\ UpWaits'
  BY <1>1, ReadKeeps DEF Reading, Asking
<1>7. Joint'
  BY <1>1, <1>2, <1>3 DEF IInv, Joint, Stuck
<1> QED
  BY <1>4, <1>5, <1>6, <1>7 DEF IInv

LEMMA ReadEOFStep == ASSUME IInv, ReadEOF PROVE IInv'
<1>1. /\ pc \in Reading \ {"chdir"} /\ down = <<>> /\ spc = "closed"
      /\ Return("error", NULL)
      /\ UNCHANGED <<link, late, server, up, down, done, odd>>
  BY DEF ReadEOF
<1>2. Rested' /\ down' \in Seq(DownToken)
  BY <1>1 DEF Rested, Ended, server
<1>3. odd' \subseteq {"slip", "refused", "drained", "dropped"}
  BY <1>1, TypedServerFacts DEF IInv
<1> QED
  BY <1>1, <1>2, <1>3, ReturnStep

LEMMA SlipStep == ASSUME IInv, Slip PROVE IInv'
<1>1. /\ pc \in {"chdir", "fname", "fdata", "data"} /\ "slip" \notin odd
      /\ Return("error", NULL) /\ odd' = odd \cup {"slip"}
      /\ UNCHANGED <<link, late, server, up, down, done>>
  BY DEF Slip
<1>2. Sync /\ pc \in Reading
  BY <1>1, InCallOpen DEF IInv, Joint, Stuck, Reading
<1>3. down' = down /\ down \in Seq(DownToken) /\ "slip" \in odd'
  BY <1>1 DEF IInv, Typed
<1>4. \/ Rested'
      \/ /\ down # <<>>
         /\ \/ Head(down).kind # "int"
            \/ Head(down) = Number(1) /\ Len(down) > 1 /\ down[2] = Name
  <2>1. CASE down = <<>> /\ pc = "chdir"
    <3>1. Over \/ Ended
      BY <1>2, <2>1 DEF Sync, Saving
    <3> QED
      BY <1>1, <2>1, <3>1, OverRests
  <2>2. CASE down = <<>> /\ pc # "chdir"
    <3>1. rest.files - 1 \in Nat \/ pc = "data"
      <4>1. pc # "data" => rest.files > 0
        BY <1>1, <1>2, <2>2 DEF Sync, InFile
      <4>2. rest.files \in Nat
        BY ShiftFacts DEF IInv, Typed, TypeOK
      <4> QED
        BY <4>1, <4>2
    <3>2. rest.len \in Sizes
      BY DEF IInv, Typed, TypeOK
    <3> QED
      BY <1>1, <1>2, <2>2, <3>1, <3>2, NameRead, DataRead, OneFacts DEF Sync
  <2>3. CASE down # <<>> /\ pc = "chdir"
    <3>1. rest.files > 0 /\ rest.files \in Nat /\ down \in Contents(rest.files)
      BY <1>2, <2>3, Expected DEF InFile
    <3> QED
      BY <2>3, <3>1, ContentsRead
  <2>4. CASE down # <<>> /\ pc = "fname"
    BY <1>2, <2>4, Expected, NameRead, TokenParts
  <2>5. CASE down # <<>> /\ pc = "data"
    BY <1>2, <2>5, Expected, OneFacts, TokenParts
  <2>6. CASE down # <<>> /\ pc = "fdata"
    BY <1>2, <2>6, Expected, DataRead, TokenParts
  <2> QED
    BY <1>1, <2>1, <2>2, <2>3, <2>4, <2>5, <2>6
<1>5. odd \subseteq odd' /\ odd' \subseteq {"slip", "refused", "drained", "dropped"}
  BY <1>1, TypedServerFacts DEF IInv
<1> QED
  BY <1>1, <1>2, <1>3, <1>4, <1>5, ReturnStep

(* What a step that reads finds, when the client is in step.               *)
LEMMA ReadFinds ==
  ASSUME IInv, NEW l \in Reading, Read(l)
  PROVE  /\ pc = l /\ pc \in Reading /\ link = "open" /\ down # <<>>
         /\ Fits(Head(down)) /\ down' = Tail(down) /\ down' \in Seq(DownToken)
         /\ UNCHANGED <<link, late, server, up, done, odd>>
         /\ l \in {"size", "data", "fnameLen", "fname", "fdim", "fdata"} => Sync
<1>1. /\ pc = l /\ down # <<>> /\ Fits(Head(down)) /\ down' = Tail(down)
      /\ UNCHANGED <<link, late, server, up, done, odd>>
  BY DEF Read
<1>2. down' \in Seq(DownToken)
  BY <1>1, TailTyped DEF IInv, Typed
<1>3. link = "open"
  BY <1>1, InCallOpen
<1>4. ASSUME l \in {"size", "data", "fnameLen", "fname", "fdim", "fdata"} PROVE Sync
  <2>1. l \in {"size", "fnameLen"} => Head(down).kind = "int"
    BY <1>1 DEF Fits
  <2> QED
    BY <1>1, <1>3, <1>4, <2>1 DEF IInv, Joint, Stuck
<1> QED
  BY <1>1, <1>2, <1>3, <1>4

(* The lengths and the number of files that are kept.                      *)
LEMMA RestTyped ==
  ASSUME IInv
  PROVE  /\ \A n \in Sizes : [rest EXCEPT !.len = n] \in Rests
         /\ \A n \in 0..Shift - 1, c \in 0..15 :
              [rest EXCEPT !.files = n, !.verdict = c] \in Rests
         /\ rest.files # 0 => [rest EXCEPT !.files = @ - 1, !.len = 0] \in Rests
<1>1. rest \in Rests
  BY DEF IInv, Typed, TypeOK, Rests
<1>2. 0 \in Sizes /\ Shift \in Nat
  BY BoundsAssumption, ShiftFacts DEF Sizes
<1>3. rest.files # 0 => rest.files - 1 \in 0..Shift - 1
  BY <1>1, <1>2 DEF Rests
<1> HIDE DEF Sizes
<1> QED
  BY <1>1, <1>2, <1>3 DEF Rests

LEMMA ChangeDirStep == ASSUME IInv, ChangeDir PROVE IInv'
<1>1. /\ pc = "chdir" /\ Goto("fnameLen") /\ pc' = "fnameLen"
      /\ UNCHANGED <<link, rest, late, server, up, down, done, odd>>
  BY DEF ChangeDir, Goto
<1>2. link = "open" /\ pc \in Reading
  BY <1>1, InCallOpen DEF Reading
<1>3. Sync' \/ Stuck'
  <2>1. Sync => Sync'
    BY <1>1 DEF Sync, Saving, Over, Ended, server
  <2>2. Stuck => Stuck'
    BY <1>1 DEF Stuck
  <2> QED
    BY <1>2, <2>1, <2>2 DEF IInv, Joint
<1>4. rest' \in Rests /\ down' \in Seq(DownToken)
  BY <1>1, TypedClientFacts DEF IInv, Typed
<1> QED
  BY <1>1, <1>2, <1>3, <1>4, GotoStep DEF Reading

LEMMA GetNameLenStep == ASSUME IInv, GetNameLen PROVE IInv'
<1>1. Read("fnameLen") /\ Goto("fname") /\ pc' = "fname" /\ UNCHANGED rest
  BY DEF GetNameLen, Goto
<1>2. /\ pc = "fnameLen" /\ pc \in Reading /\ down # <<>> /\ down' = Tail(down)
      /\ down' \in Seq(DownToken) /\ Sync
      /\ UNCHANGED <<link, late, server, up, done, odd>>
  BY <1>1, ReadFinds DEF Reading
<1>3. InFile /\ down \in Contents(rest.files) /\ rest.files \in Nat /\ rest.files > 0
  BY <1>2, Expected DEF InFile
<1>4. down' \in AtName(rest.files - 1)
  BY <1>2, <1>3, ContentsRead
<1>5. Sync'
  BY <1>1, <1>2, <1>3, <1>4 DEF Sync, InFile, Over, server
<1>6. rest' \in Rests
  BY <1>1, TypedClientFacts DEF IInv
<1> QED
  BY <1>1, <1>2, <1>5, <1>6, GotoStep DEF Reading

LEMMA GetNameStep == ASSUME IInv, GetName PROVE IInv'
<1>1. Read("fname") /\ Goto("fdim") /\ pc' = "fdim" /\ UNCHANGED rest
  BY DEF GetName, Goto
<1>2. /\ pc = "fname" /\ pc \in Reading /\ down # <<>> /\ down' = Tail(down)
      /\ down' \in Seq(DownToken) /\ Sync
      /\ UNCHANGED <<link, late, server, up, done, odd>>
  BY <1>1, ReadFinds DEF Reading
<1>3. InFile /\ down \in AtName(rest.files - 1) /\ rest.files - 1 \in Nat
  BY <1>2, Expected
<1>4. down' \in AtDim(rest.files - 1)
  BY <1>2, <1>3, NameRead
<1>5. Sync'
  BY <1>1, <1>2, <1>3, <1>4 DEF Sync, InFile, Over, server
<1>6. rest' \in Rests
  BY <1>1, TypedClientFacts DEF IInv
<1> QED
  BY <1>1, <1>2, <1>5, <1>6, GotoStep DEF Reading

LEMMA NextFileStep ==
  ASSUME IInv, pc \in Reading, NextFile, InFile,
         rest.files \in Nat, rest.files - 1 \in Nat,
         UNCHANGED <<link, late, server, up, done, odd>>, down' \in Seq(DownToken),
         down' \in Contents(rest.files - 1)
  PROVE  IInv'
<1>1. CASE rest.files = 1
  <2>1. Verdict(1)
    BY <1>1 DEF NextFile, InFile, Code
  <2>2. down' = <<>>
    BY <1>1, ContentsNone
  <2>3. Over /\ Rested'
    BY <2>2, OverRests DEF InFile
  <2>4. ~Fatal(1) /\ 1 \in 0..15
    BY DEF Fatal, Code
  <2> QED
    BY <2>1, <2>3, <2>4, VerdictStep
<1>2. CASE rest.files # 1
  <2>1. /\ Goto("fnameLen") /\ pc' = "fnameLen"
        /\ rest' = [rest EXCEPT !.files = @ - 1, !.len = 0]
    BY <1>2 DEF NextFile, Goto
  <2>2. rest.files # 0
    BY DEF InFile
  <2>3. rest' \in Rests
    BY <2>1, <2>2, RestTyped
  <2>4. rest'.files = rest.files - 1 /\ rest'.verdict = rest.verdict
    BY <2>1 DEF IInv, Typed, TypeOK
  <2>5. rest'.files > 0
    BY <1>2, <2>2, <2>4
  <2>6. Sync'
    BY <2>1, <2>4, <2>5 DEF Sync, Saving, InFile, Over, server
  <2> QED
    BY <2>1, <2>3, <2>6, GotoStep DEF Reading
<1> QED
  BY <1>1, <1>2

LEMMA GetContentsStep == ASSUME IInv, GetContents PROVE IInv'
<1>1. Read("fdata") /\ NextFile
  BY DEF GetContents
<1>2. /\ pc = "fdata" /\ pc \in Reading /\ down # <<>> /\ down' = Tail(down)
      /\ down' \in Seq(DownToken) /\ Sync
      /\ UNCHANGED <<link, late, server, up, done, odd>>
  BY <1>1, ReadFinds DEF Reading
<1>3. /\ InFile /\ down \in AtData(rest.len, rest.files - 1) /\ rest.len \in Sizes
      /\ rest.files - 1 \in Nat /\ rest.files \in Nat
  BY <1>2, Expected
<1>4. down' \in Contents(rest.files - 1)
  BY <1>2, <1>3, DataRead
<1> QED
  BY <1>1, <1>2, <1>3, <1>4, NextFileStep

LEMMA GetDimStep == ASSUME IInv, GetDim PROVE IInv'
<1>1. /\ Read("fdim")
      /\ Head(down).val = 0 => NextFile
      /\ Head(down).val # 0 => /\ Goto("fdata") /\ pc' = "fdata"
                               /\ rest' = [rest EXCEPT !.len = Head(down).val]
  BY DEF GetDim, Length, Goto
<1>2. /\ pc = "fdim" /\ pc \in Reading /\ down # <<>> /\ down' = Tail(down)
      /\ down' \in Seq(DownToken) /\ Sync
      /\ UNCHANGED <<link, late, server, up, done, odd>>
  BY <1>1, ReadFinds DEF Reading
<1>3. /\ InFile /\ down \in AtDim(rest.files - 1)
      /\ rest.files - 1 \in Nat /\ rest.files \in Nat
  BY <1>2, Expected
<1>4. PICK n \in Sizes : /\ Head(down) = Number(n)
                         /\ n = 0 => Tail(down) \in Contents(rest.files - 1)
                         /\ n # 0 => Tail(down) \in AtData(n, rest.files - 1)
  BY <1>3, DimRead
<1>5. Head(down).val = n
  BY <1>4, TokenParts
<1>6. CASE n = 0
  BY <1>1, <1>2, <1>3, <1>4, <1>5, <1>6, NextFileStep
<1>7. CASE n # 0
  <2>1. /\ Goto("fdata") /\ pc' = "fdata" /\ rest' = [rest EXCEPT !.len = n]
        /\ down' \in AtData(n, rest.files - 1)
    BY <1>1, <1>2, <1>4, <1>5, <1>7
  <2>2. rest' \in Rests
    BY <2>1, RestTyped
  <2>3. /\ rest'.files = rest.files /\ rest'.verdict = rest.verdict
        /\ rest'.len = n
    BY <2>1 DEF IInv, Typed, TypeOK
  <2>4. Sync'
    BY <1>2, <1>3, <2>1, <2>3 DEF Sync, InFile, Over, server
  <2> QED
    BY <1>2, <2>1, <2>2, <2>4, GotoStep DEF Reading
<1> QED
  BY <1>6, <1>7

LEMMA SuccessEnds ==
  ASSUME IInv, pc \in Reading, Over, Verdict(Code.SUCCESS),
         UNCHANGED <<link, late, server, up, done, odd>>, down' = <<>>
  PROVE  IInv'
<1>1. Rested' /\ down' \in Seq(DownToken)
  BY OverRests
<1>2. ~Fatal(1) /\ 1 \in 0..15 /\ Verdict(1)
  BY DEF Fatal, Code
<1> QED
  BY <1>1, <1>2, VerdictStep

LEMMA GetDataStep == ASSUME IInv, GetData PROVE IInv'
<1>1. Read("data") /\ Verdict(Code.SUCCESS)
  BY DEF GetData
<1>2. /\ pc = "data" /\ pc \in Reading /\ down # <<>> /\ down' = Tail(down) /\ Sync
      /\ UNCHANGED <<link, late, server, up, done, odd>>
  BY <1>1, ReadFinds DEF Reading
<1>3. Over /\ down' = <<>>
  BY <1>2, Expected, OneFacts DEF Sync
<1> QED
  BY <1>1, <1>2, <1>3, SuccessEnds

LEMMA GetSizeStep == ASSUME IInv, GetSize PROVE IInv'
<1>1. /\ Read("size")
      /\ Head(down).val = 0 => Verdict(Code.SUCCESS)
      /\ Head(down).val # 0 => /\ Goto("data") /\ pc' = "data"
                               /\ rest' = [rest EXCEPT !.len = Head(down).val]
  BY DEF GetSize, Length, Goto
<1>2. /\ pc = "size" /\ pc \in Reading /\ down # <<>> /\ down' = Tail(down)
      /\ down' \in Seq(DownToken) /\ Sync
      /\ UNCHANGED <<link, late, server, up, done, odd>>
  BY <1>1, ReadFinds DEF Reading
<1>3. Over /\ done = 1 /\ down \in Payloads /\ call.op = "READ"
  BY <1>2 DEF Sync, IInv, Placed
<1>4. PICK n \in Sizes : /\ Head(down) = Number(n)
                         /\ n = 0 => Tail(down) = <<>>
                         /\ n # 0 => Tail(down) = <<Piece(n)>>
  BY <1>3, PayloadRead
<1>5. Head(down).val = n
  BY <1>4, TokenParts
<1>6. CASE n = 0
  BY <1>1, <1>2, <1>3, <1>4, <1>5, <1>6, SuccessEnds
<1>7. CASE n # 0
  <2>1. /\ Goto("data") /\ pc' = "data" /\ rest' = [rest EXCEPT !.len = n]
        /\ down' = <<Piece(n)>>
    BY <1>1, <1>2, <1>4, <1>5, <1>7
  <2>2. rest' \in Rests /\ rest'.len = n
    <3>1. rest'.len = n
      BY <2>1 DEF IInv, Typed, TypeOK
    <3> QED
      BY <2>1, <3>1, RestTyped
  <2>3. Sync'
    BY <1>2, <1>3, <2>1, <2>2 DEF Sync, Over, server
  <2> QED
    BY <1>2, <1>3, <2>1, <2>2, <2>3, GotoStep DEF Reading
<1> QED
  BY <1>6, <1>7

(* The result, and the files it announces.                                 *)
Lost == "slip" \in odd /\ down' # <<>> /\ Head(down').kind # "int"

LEMMA SaveFilesStep ==
  ASSUME IInv, pc = "result", NEW n \in 0..Shift - 1, NEW c \in 0..15, SaveFiles(n, c),
         UNCHANGED <<link, late, server, up, done, odd>>, down' \in Seq(DownToken),
         n = 0 => /\ Rested' \/ Lost
                  /\ odd \cap {"slip", "refused"} = {}
                     => IF Fatal(c) THEN Ended ELSE Over,
         n # 0 => \/ /\ Over /\ done = 1 /\ c = Code.SUCCESS
                     /\ down' \in Contents(n)
                  \/ /\ down' = <<>> /\ c = Code.NORET
                     /\ Ended \/ (Over /\ "refused" \in odd /\ done = 0)
                  \/ Lost
  PROVE  IInv'
<1>0. pc \in Reading
  BY DEF Reading
<1>1. CASE n = 0
  BY <1>0, <1>1, VerdictStep DEF SaveFiles, Lost
<1>2. CASE n # 0
  <2>1. /\ Goto("chdir") /\ pc' = "chdir"
        /\ rest' = [rest EXCEPT !.files = n, !.verdict = c]
    BY <1>2 DEF SaveFiles, Goto
  <2>2. rest' \in Rests
    BY <2>1, RestTyped
  <2>3. rest'.files = n /\ rest'.verdict = c
    BY <2>1 DEF IInv, Typed, TypeOK
  <2>4. rest'.files > 0
    BY <1>2, <2>3, ShiftFacts
  <2>5. Lost => Stuck'
    BY <2>1 DEF Lost, Stuck
  <2>6. ~Lost => Sync'
    <3>1. Over' = Over /\ Ended' = Ended
      BY DEF Over, Ended, server
    <3>2. ~Lost => Saving'
      BY <1>2, <2>3, <2>4, <3>1 DEF Saving
    <3> QED
      BY <2>1, <3>2 DEF Sync
  <2> QED
    BY <1>0, <2>1, <2>2, <2>5, <2>6, GotoStep DEF Reading
<1> QED
  BY <1>1, <1>2

LEMMA OneRead ==
  ASSUME NEW n, down = <<Number(n)>>
  PROVE  Head(down).val = n /\ Tail(down) = <<>>
BY OneFacts, TokenParts

LEMMA ConsRead ==
  ASSUME NEW n \in 0..Limit - 1, NEW t \in Seq(DownToken), down = Cons(Number(n), t)
  PROVE  Head(down).val = n /\ Tail(down) = t
<1>1. Head(down) = Number(n) /\ Tail(down) = t
  BY TokenFacts, ConsFacts
<1> QED
  BY <1>1, TokenParts

(* What the library does with the result.                                  *)
LEMMA ResultUsed ==
  ASSUME IInv, GetResult, NEW r, r = Head(down).val
  PROVE  /\ pc = "result" /\ pc \in Reading /\ link = "open" /\ down # <<>>
         /\ call.op \in Ops /\ call.dir \in BOOLEAN
         /\ Head(down).kind = "int" /\ down' = Tail(down) /\ down' \in Seq(DownToken)
         /\ UNCHANGED <<link, late, server, up, done, odd>>
         /\ call.op \in Uploads =>
              SaveFiles(IF call.dir THEN r % Shift ELSE 0, r \div Shift)
         /\ call.op = "READ_N" =>
              /\ SaveFiles(IF r \div Shift = 1 THEN r % Shift ELSE 0, r \div Shift)
              /\ call.dir
         /\ call.op = "READ" /\ r = 1 => Goto("size") /\ pc' = "size" /\ UNCHANGED rest
         /\ call.op \notin Uploads \cup {"READ_N"} /\ ~(call.op = "READ" /\ r = 1) =>
              Verdict(r)
<1>1. Read("result")
  BY DEF GetResult
<1>2. /\ pc = "result" /\ pc \in Reading /\ link = "open" /\ down # <<>>
      /\ Fits(Head(down)) /\ down' = Tail(down) /\ down' \in Seq(DownToken)
      /\ UNCHANGED <<link, late, server, up, done, odd>>
  BY <1>1, ReadFinds DEF Reading
<1>3. Head(down).kind = "int"
  BY <1>2 DEF Fits
<1>4. call.op \in Ops /\ (call.op = "READ_N" => call.dir) /\ call.dir \in BOOLEAN
  BY <1>2 DEF IInv, Placed, Typed, TypeOK
<1>5. call.op \in Uploads =>
        SaveFiles(IF call.dir THEN r % Shift ELSE 0, r \div Shift)
  BY DEF GetResult, nFile, Uploads
<1>6. call.op = "READ_N" =>
        SaveFiles(IF r \div Shift = 1 THEN r % Shift ELSE 0, r \div Shift)
  BY DEF GetResult, nFile, Uploads, Code
<1>7. call.op = "READ" /\ r = 1 => Goto("size") /\ pc' = "size" /\ UNCHANGED rest
  BY DEF GetResult, Uploads, Code, Goto
<1>8. call.op \notin Uploads \cup {"READ_N"} /\ ~(call.op = "READ" /\ r = 1) => Verdict(r)
  BY DEF GetResult, Code
<1> QED
  BY <1>2, <1>3, <1>4, <1>5, <1>6, <1>7, <1>8

LEMMA SecondRead ==
  ASSUME NEW S, NEW s \in Seq(S), Len(s) > 1
  PROVE  Tail(s) # <<>> /\ Head(Tail(s)) = s[2]
<1>1. PICK t : t = Tail(s)
  OBVIOUS
<1>2. t \in Seq(S) /\ Len(t) = Len(s) - 1 /\ t[1] = s[2]
  BY <1>1
<1>3. t # <<>> /\ Head(t) = t[1]
  BY <1>2
<1> QED
  BY <1>1, <1>2, <1>3

LEMMA OneSmall == 1 \in 0..15 /\ 1 \div Shift = 0 /\ 1 % Shift = 1 /\ 0 \in 0..15
                  /\ 0 \in 0..Shift - 1 /\ 1 \in 0..Shift - 1
BY ResultPlain, ShiftFacts

LEMMA ResultStuck == ASSUME IInv, GetResult, Stuck PROVE IInv'
<1> DEFINE r == Head(down).val
<1> USE ResultUsed
<1>1. "slip" \in odd /\ Head(down) = Number(1) /\ Len(down) > 1 /\ down[2] = Name
  BY DEF Stuck
<1>2. r = 1
  BY <1>1, TokenParts
<1>3. down' # <<>> /\ Head(down') = Name
  <2>1. down \in Seq(DownToken)
    BY DEF IInv, Typed
  <2>2. Tail(down) # <<>> /\ Head(Tail(down)) = down[2]
    BY <1>1, <2>1, SecondRead
  <2> QED
    BY <1>1, <2>2
<1>4. Lost
  BY <1>1, <1>3, TokenParts DEF Lost
<1>5. CASE call.op \in Uploads
  <2>1. SaveFiles(IF call.dir THEN 1 ELSE 0, 0)
    BY <1>2, <1>5, OneSmall
  <2> QED
    BY <1>1, <1>4, <2>1, OneSmall, SaveFilesStep
<1>6. CASE call.op = "READ_N"
  <2>1. SaveFiles(0, 0)
    BY <1>2, <1>6, OneSmall
  <2> QED
    BY <1>1, <1>4, <2>1, OneSmall, SaveFilesStep
<1>7. CASE call.op = "READ"
  <2>1. Goto("size") /\ pc' = "size" /\ UNCHANGED rest
    BY <1>2, <1>7
  <2>2. Stuck'
    BY <1>4, <2>1 DEF Lost, Stuck
  <2>3. rest' \in Rests
    BY <2>1, TypedClientFacts DEF IInv
  <2> QED
    BY <1>7, <2>1, <2>2, <2>3, GotoStep DEF Reading
<1>8. CASE call.op \notin Uploads \cup {"READ_N", "READ"}
  <2>1. Verdict(1)
    BY <1>2, <1>8
  <2> QED
    BY <1>1, <1>4, <2>1, OneSmall, VerdictStep DEF Lost
<1> QED
  BY <1>5, <1>6, <1>7, <1>8

LEMMA ResultSacked == ASSUME IInv, GetResult, Sacked PROVE IInv'
<1> DEFINE r == Head(down).val
<1> USE ResultUsed
<1>0. Ended
  BY DEF Sacked
<1>1. CASE down = <<Number(Code.SERVER_FULL)>>
  <2>1. r = 9 /\ down' = <<>>
    BY <1>1, OneRead DEF Code
  <2>2. 9 \div Shift = 0 /\ 9 % Shift = 9 /\ 9 \in 0..15 /\ 9 \in 0..Shift - 1
    BY ResultPlain, ShiftFacts
  <2>3. Rested'
    BY <1>0, <2>1, OverRests
  <2>4. Fatal(9) /\ Fatal(0) /\ Code.NORET = 0
    BY DEF Fatal, Code
  <2>5. CASE call.op \in Uploads
    <3>1. SaveFiles(IF call.dir THEN 9 ELSE 0, 0)
      BY <2>1, <2>2, <2>5
    <3> QED
      BY <1>0, <2>1, <2>2, <2>3, <2>4, <3>1, OneSmall, SaveFilesStep
  <2>6. CASE call.op = "READ_N"
    <3>1. SaveFiles(0, 0)
      BY <2>1, <2>2, <2>6
    <3> QED
      BY <1>0, <2>1, <2>2, <2>3, <2>4, <3>1, OneSmall, SaveFilesStep
  <2>7. CASE call.op \notin Uploads \cup {"READ_N"}
    <3>1. Verdict(9)
      BY <2>1, <2>7
    <3> QED
      BY <1>0, <2>1, <2>2, <2>3, <2>4, <3>1, VerdictStep
  <2> QED
    BY <2>5, <2>6, <2>7
<1>2. CASE call.op \notin Uploads \cup {"READ_N"} /\ down = <<Number(Code.NO_SUCH_FILE_F)>>
  <2>1. r = 6 /\ down' = <<>> /\ Fatal(6) /\ 6 \in 0..15
    BY <1>2, OneRead DEF Code, Fatal
  <2>2. Verdict(6)
    BY <1>2, <2>1
  <2>3. Rested'
    BY <1>0, <2>1, OverRests
  <2> QED
    BY <1>0, <2>1, <2>2, <2>3, VerdictStep
<1>3. CASE call.op \in Uploads /\ down = <<Number(Code.NO_SUCH_FILE_F * Shift)>>
  <2>1. r = 6 * Shift /\ down' = <<>> /\ Fatal(6) /\ 6 \in 0..15
    BY <1>3, OneRead DEF Code, Fatal
  <2>2. SaveFiles(0, 6)
    <3>1. (6 * Shift) \div Shift = 6 /\ (6 * Shift) % Shift = 0
      BY <2>1, ResultPlain
    <3> QED
      BY <1>3, <2>1, <3>1
  <2>3. Rested'
    BY <1>0, <2>1, OverRests
  <2> QED
    BY <1>0, <2>1, <2>2, <2>3, OneSmall, SaveFilesStep
<1> QED
  BY <1>1, <1>2, <1>3 DEF Sacked

LEMMA ResultDenied == ASSUME IInv, GetResult, Over, Denied(call.op, down) PROVE IInv'
<1> DEFINE r == Head(down).val
<1> USE ResultUsed
<1>1. CASE call.op \notin Uploads \cup {"READ_N"} /\ \E c \in 10..15 : down = <<Number(c)>>
  <2>1. PICK c \in 10..15 : down = <<Number(c)>>
    BY <1>1
  <2>2. r = c /\ down' = <<>> /\ ~Fatal(c) /\ c # 1 /\ c \in 0..15
    BY <2>1, OneRead DEF Fatal
  <2>3. Verdict(c)
    BY <1>1, <2>2
  <2>4. Rested'
    BY <2>2, OverRests
  <2> QED
    BY <2>2, <2>3, <2>4, VerdictStep
<1>2. CASE call.op \in Uploads /\ \E c \in 10..15 : down = <<Number(c * Shift)>>
  <2>1. PICK c \in 10..15 : down = <<Number(c * Shift)>>
    BY <1>2
  <2>2. r = c * Shift /\ down' = <<>> /\ ~Fatal(c) /\ c \in 0..15
    BY <2>1, OneRead DEF Fatal
  <2>3. SaveFiles(0, c)
    <3>1. (c * Shift) \div Shift = c /\ (c * Shift) % Shift = 0
      BY <2>2, ResultPlain
    <3> QED
      BY <1>2, <2>2, <3>1
  <2>4. Rested'
    BY <2>2, OverRests
  <2> QED
    BY <2>2, <2>3, <2>4, OneSmall, SaveFilesStep
<1> QED
  BY <1>1, <1>2 DEF Denied

LEMMA ResultRefused ==
  ASSUME IInv, GetResult, Over, call.op = "WRITE", "refused" \in odd, done = 0,
         down = <<Number(Code.FILE_ALREADY_OPEN)>>
  PROVE  IInv'
<1> DEFINE r == Head(down).val
<1>1. r = 11 /\ down' = <<>>
  BY OneRead, ResultUsed DEF Code
<1>2. 11 \div Shift = 0 /\ 11 % Shift = 11 /\ 11 \in 0..Shift - 1
  BY ResultPlain, ShiftFacts
<1>3. SaveFiles(IF call.dir THEN 11 ELSE 0, 0)
  BY <1>1, <1>2, ResultUsed DEF Uploads
<1>4. Rested'
  BY <1>1, OverRests, ResultUsed
<1>5. Code.NORET = 0 /\ odd \cap {"slip", "refused"} # {}
  BY DEF Code
<1> QED
  BY <1>1, <1>2, <1>3, <1>4, <1>5, OneSmall, SaveFilesStep, ResultUsed

LEMMA ResultSuccess ==
  ASSUME IInv, GetResult, Over, Success(call.op, call.dir, down), done = 1
  PROVE  IInv'
<1> DEFINE r == Head(down).val
<1> USE ResultUsed
<1>0. Code.SUCCESS = 1 /\ ~Fatal(1)
  BY DEF Code, Fatal
<1>1. CASE call.op \notin Uploads \cup {"READ", "READ_N"} /\ down = <<Number(Code.SUCCESS)>>
  <2>1. r = 1 /\ down' = <<>>
    BY <1>0, <1>1, OneRead
  <2>2. Verdict(Code.SUCCESS)
    BY <1>0, <1>1, <2>1
  <2> QED
    BY <2>1, <2>2, SuccessEnds
<1>2. CASE call.op = "READ" /\ \E p \in Payloads : down = Cons(Number(Code.SUCCESS), p)
  <2>1. PICK p \in Payloads : down = Cons(Number(1), p)
    BY <1>0, <1>2
  <2>2. r = 1 /\ down' = p
    <3>1. 1 \in 0..Limit - 1 /\ p \in Seq(DownToken)
      BY PayloadRead, ShiftFacts
    <3> QED
      BY <2>1, <3>1, ConsRead
  <2>3. Goto("size") /\ pc' = "size" /\ UNCHANGED rest
    BY <1>2, <2>2
  <2>4. Sync'
    BY <2>2, <2>3 DEF Sync, Over, server
  <2>5. rest' \in Rests
    BY <2>3, TypedClientFacts DEF IInv
  <2> QED
    BY <1>2, <2>3, <2>4, <2>5, GotoStep DEF Reading
<1>3. CASE /\ call.op \in Uploads \cup {"READ_N"}
           /\ \E k \in 0..MaxFiles : \E t \in Contents(IF call.dir THEN k ELSE 0) :
                down = Cons(Number(Code.SUCCESS * Shift + k), t)
  <2>1. PICK k \in 0..MaxFiles : \E t \in Contents(IF call.dir THEN k ELSE 0) :
               down = Cons(Number(Code.SUCCESS * Shift + k), t)
    BY <1>3
  <2>2. PICK t \in Contents(IF call.dir THEN k ELSE 0) :
               down = Cons(Number(1 * Shift + k), t)
    BY <1>0, <2>1
  <2>3. /\ k \in 0..Shift - 1 /\ k \in Nat
        /\ 1 * Shift + k \in 0..Limit - 1
        /\ (1 * Shift + k) \div Shift = 1 /\ (1 * Shift + k) % Shift = k
    <3>1. k \in 0..Shift - 1 /\ k \in Nat
      BY ShiftFacts, BoundsAssumption
    <3> QED
      BY <3>1, OneSmall, ResultOf
  <2>4. t \in Seq(DownToken)
    BY <2>3, ContentsTyped
  <2>5. r = 1 * Shift + k /\ down' = t
    BY <2>2, <2>3, <2>4, ConsRead
  <2> DEFINE n == IF call.dir THEN k ELSE 0
  <2>6. SaveFiles(n, 1)
    BY <1>3, <2>3, <2>5
  <2>7. down' \in Contents(n) /\ n \in 0..Shift - 1
    BY <2>3, <2>5, OneSmall
  <2> HIDE DEF n
  <2>8. n = 0 => Rested'
    BY <2>7, ContentsNone, OverRests
  <2> QED
    BY <1>0, <2>6, <2>7, <2>8, OneSmall, SaveFilesStep
<1> QED
  BY <1>1, <1>2, <1>3 DEF Success

LEMMA GetResultStep == ASSUME IInv, GetResult PROVE IInv'
<1>1. pc = "result" /\ link = "open" /\ down # <<>>
  BY ResultUsed
<1>2. Sync => Sacked \/ (Over /\ Answered)
  BY <1>1 DEF Sync, Handled
<1>3. Sync \/ Stuck
  BY <1>1 DEF IInv, Joint
<1> QED
  BY <1>2, <1>3, ResultStuck, ResultSacked, ResultDenied, ResultRefused, ResultSuccess
  DEF Answered

-----------------------------------------------------------------------------
(* The invariant and what follows from it *)

LEMMA StutterStep == ASSUME IInv, UNCHANGED vars PROVE IInv'
<1>1. UNCHANGED <<pc, link, call, rest, outcome, late, serving, spc, req, up, down, done, odd>>
  BY DEF vars, client, server
<1>2. Typed'
  BY <1>1, TypedClient, TypedClientFacts, TypedServerFacts DEF IInv
<1>3. Placed'
  BY <1>1 DEF IInv, Placed, AtFile
<1>4. UpFits' /\ UpWaits'
  BY <1>1 DEF IInv, UpFits, UpWaits, Missing, Fresh, Owed, Idle, AtFile, Ended
<1>5. Joint' /\ Told'
  <2>1. Ended' = Ended /\ Over' = Over /\ Rested' = Rested /\ Handled' = Handled
    BY <1>1 DEF Ended, Over, Rested, Handled, Idle, Fresh, AtFile
  <2> QED
    BY <1>1, <2>1, JointServer DEF IInv, client
<1> QED
  BY <1>2, <1>3, <1>4, <1>5 DEF IInv

LEMMA SendStep == ASSUME IInv, SendRequest \/ SendPayload PROVE IInv'
BY SendRequestStep, SendPayloadStep

LEMMA ClientStep == ASSUME IInv, Client PROVE IInv'
<1>1. Die => IInv'
  BY Gone DEF Die
<1>2. InCall => IInv'
  BY ConnectStep, ConnectFailsStep, SendStep, GetResultStep, GetSizeStep, GetDataStep,
     ChangeDirStep, GetNameLenStep, GetNameStep, GetDimStep, GetContentsStep,
     AstrayStep, ReadEOFStep, SlipStep
  DEF InCall
<1> QED
  BY <1>1, <1>2, openConnectionStep, closeConnectionStep, ClockStep, AskStep DEF Client

LEMMA ServerStep == ASSUME IInv, Server \/ Start \/ Stop PROVE IInv'
<1>1. Worker => IInv'
  BY GetRequestStep, GetFileNameStep, HangupStep, AbsentStep, PresentStep, RunStep,
     RunUploadStep, ReceiveSizeStep, ReceiveDataStep, StoreStep, RefuseWriteStep
  DEF Worker
<1> QED
  BY <1>1, AcceptStep, RefuseStep, PresentStep, FileRemovedStep, CloseStep,
     StartStep, StopStep
  DEF Server

THEOREM SessionInvariance == Spec => []IInv
<1>1. IInv /\ [Next]_vars => IInv'
  BY StutterStep, ClientStep, ServerStep DEF Next
<1> QED
  BY <1>1, InitIInv, PTL DEF Spec

(* Every variable has its type; what announces a number of files has 24    *)
(* bits for it, and is never out of them.                                  *)
THEOREM TypesKept == Spec => []TypeOK
<1>1. IInv => TypeOK
  BY DEF IInv, Typed
<1> QED
  BY <1>1, SessionInvariance, PTL

(* What the worker finds in the stream is what it waits for; the client    *)
(* is never astray unless it left an answer half read, and between calls   *)
(* both streams are empty.                                                 *)
LEMMA WantedComes == ASSUME IInv, up # <<>> PROVE Wanted(Head(up))
<1>0. up \in Seq(UpToken) /\ UpFits /\ Placed
  BY DEF IInv, Typed
<1>1. CASE spc = "listen"
  <2>1. up \in Calls
    BY <1>0, <1>1 DEF UpFits, Fresh, Idle
  <2> QED
    BY <1>1, <2>1, CallsRead, TokenParts DEF Wanted
<1>2. CASE spc = "name"
  <2>1. req.op \in Ops /\ req.op # "READ_N" /\ up \in AfterWord(req.op)
    BY <1>0, <1>2 DEF UpFits, Placed
  <2> QED
    BY <1>2, <2>1, AfterWordRead, TokenParts DEF Wanted
<1>3. CASE spc \in {"size", "drain"}
  <2>1. req.op \in Uploads /\ req.op \in Ops /\ up \in AfterName(req.op)
    BY <1>0, <1>3 DEF UpFits, Placed, Owed, Ops
  <2>2. up \in Payloads
    BY <2>1, AfterNameFacts
  <2> QED
    BY <1>3, <2>2, PayloadRead, TokenParts DEF Wanted
<1>4. CASE spc = "data"
  <2>1. up = <<Piece(req.size)>>
    BY <1>0, <1>4 DEF UpFits
  <2> QED
    BY <1>4, <2>1, OneFacts, TokenParts DEF Wanted
<1>5. CASE spc \notin {"listen", "name", "size", "drain", "data"}
  BY <1>5 DEF Wanted
<1> QED
  BY <1>1, <1>2, <1>3, <1>4, <1>5

THEOREM KeptInStep == Spec => []InStep
<1>1. ASSUME IInv PROVE InStep
  <2>1. up # <<>> => Wanted(Head(up))
    BY <1>1, WantedComes
  <2>2. ASSUME "slip" \notin odd PROVE pc # "astray"
    <3>1. pc = "astray" => link = "open"
      BY <1>1 DEF IInv, Placed
    <3>2. link = "open" => Sync
      BY <1>1, <2>2 DEF IInv, Joint, Stuck
    <3> QED
      BY <3>1, <3>2 DEF Sync
  <2>3. ASSUME "slip" \notin odd, pc = "idle", link = "open", spc \notin {"closing", "closed"}
        PROVE  up = <<>> /\ down = <<>> /\ spc \in {"backlog", "listen"}
    <3>1. Sync
      BY <1>1, <2>3 DEF IInv, Joint, Stuck
    <3> QED
      BY <2>3, <3>1 DEF Sync, Rested, Idle, Ended
  <2> QED
    BY <2>1, <2>2, <2>3 DEF InStep
<1> QED
  BY <1>1, SessionInvariance, PTL

(* After an error that the library calls fatal the server closes the       *)
(* connection, and after no other answer.                                  *)
THEOREM FatalErrorsClose == Spec => []FatalCloses
<1>1. IInv => FatalCloses
  BY DEF IInv, Told, FatalCloses, Ended, Over
<1> QED
  BY <1>1, SessionInvariance, PTL

-----------------------------------------------------------------------------
(* The calls of the library implement RemoteCall *)

Asked == IF call.op = "CONNECT" THEN NULL ELSE call.op
Together == /\ link = "open" /\ "slip" \notin odd
            /\ spc \notin {"closing", "closed"}
Refines == Call!Next \/ UNCHANGED Call!vars

LEMMA CallInit == Init => Call!Init
BY DEF Init, Call!Init, NoCall

LEMMA Stutters ==
  ASSUME Together' = Together, Asked' = Asked, done' = done, outcome'.ret = outcome.ret
  PROVE  Refines
BY DEF Refines, Together, Asked, Call!vars

LEMMA Parts ==
  ASSUME ~Together', Asked' = Asked, done' = done,
         outcome'.ret = outcome.ret \/ (Asked = NULL /\ outcome'.ret = NULL)
  PROVE  Refines
BY DEF Refines, Together, Asked, Call!Next, Call!Part

LEMMA Meets ==
  ASSUME Asked = NULL, Asked' = NULL, Together', done' = 0, outcome'.ret = NULL
  PROVE  Refines
BY DEF Refines, Together, Asked, Call!Next, Call!Meet

LEMMA Asks ==
  ASSUME NEW o \in Ops, Asked = NULL, Asked' = o, Together' = Together, done' = 0,
         outcome'.ret = NULL
  PROVE  Refines
BY DEF Refines, Together, Asked, Call!Next, Call!Call

LEMMA Executes ==
  ASSUME Together => Asked # NULL /\ done = 0, done' = done + 1, Asked' = Asked,
         Together' = Together, outcome'.ret = outcome.ret
  PROVE  Refines
BY DEF Refines, Together, Asked, Call!Next, Call!Execute

LEMMA Succeeded ==
  ASSUME Asked # NULL, Asked' = NULL, outcome'.ret = "ok", done' = done,
         Together' = Together, Together => done = 1
  PROVE  Refines
BY DEF Refines, Together, Asked, Call!Next, Call!Succeed, Call!Return

LEMMA Failed ==
  ASSUME Asked # NULL, Asked' = NULL, outcome'.ret = "error", done' = done,
         Together' => Together /\ done = 0
  PROVE  Refines
BY DEF Refines, Together, Asked, Call!Next, Call!Fail, Call!Return

(* A call is in progress where the client is not idle.                     *)
LEMMA AskedFacts ==
  ASSUME IInv
  PROVE  /\ pc \in {"idle", "connect"} => Asked = NULL
         /\ pc \in Reading \cup Asking => Asked = call.op /\ Asked # NULL
         /\ Together => Sync
<1>1. pc = "idle" => call.op = NULL
  BY DEF IInv, Placed, NoCall
<1>2. pc = "connect" => call.op = "CONNECT"
  BY DEF IInv, Placed
<1>3. pc \in Reading \cup Asking => call.op \in Ops
  BY DEF IInv, Placed
<1>4. "CONNECT" \notin Ops /\ NULL \notin Ops
  BY NullAssumption DEF Ops, Uploads
<1>5. Together => Sync
  BY DEF IInv, Joint, Stuck, Together
<1> QED
  BY <1>1, <1>2, <1>3, <1>4, <1>5 DEF Asked

LEMMA Idles ==
  ASSUME call' = NoCall
  PROVE  Asked' = NULL
BY DEF Asked, NoCall

(* Steps of the client                                                     *)

LEMMA CallOutside ==
  ASSUME IInv, openConnection \/ Connect \/ ConnectFails \/ Clock \/ closeConnection
  PROVE  Refines
<1>1. CASE openConnection
  <2>1. ~Together' /\ Asked = NULL /\ Asked' = NULL /\ done' = done /\ outcome'.ret = NULL
    BY <1>1, AskedFacts DEF openConnection, Begin, Together, Asked
  <2> QED
    BY <2>1, Parts
<1>2. CASE Connect
  <2>1. Together' /\ Asked = NULL /\ Asked' = NULL /\ done' = 0 /\ outcome'.ret = NULL
    BY <1>2, AskedFacts, Idles DEF Connect, Return, Together
  <2> QED
    BY <2>1, Meets
<1>3. CASE ConnectFails
  <2>1. ~Together' /\ Asked = NULL /\ Asked' = NULL /\ done' = done /\ outcome'.ret = NULL
    BY <1>3, AskedFacts, Idles DEF ConnectFails, Return, Together, IInv, Placed
  <2> QED
    BY <2>1, Parts
<1>4. CASE Clock
  <2>1. Together' = Together /\ Asked' = Asked /\ done' = done /\ outcome'.ret = outcome.ret
    BY <1>4 DEF Clock, Together, Asked, server
  <2> QED
    BY <2>1, Stutters
<1>5. CASE closeConnection
  <2>1. ~Together' /\ Asked = NULL /\ Asked' = Asked /\ done' = done /\ outcome'.ret = NULL
    BY <1>5, AskedFacts DEF closeConnection, Together, Asked
  <2> QED
    BY <2>1, Parts
<1> QED
  BY <1>1, <1>2, <1>3, <1>4, <1>5

LEMMA CallAsk ==
  ASSUME IInv, NEW o \in Ops, NEW d \in BOOLEAN, NEW n \in Sizes, Ask(o, d, n)
  PROVE  Refines
<1>1. /\ pc = "idle" /\ call' = [op |-> o, dir |-> d, size |-> n] /\ done' = 0
      /\ outcome'.ret = NULL /\ UNCHANGED <<link, server, odd>>
  BY DEF Ask, Begin
<1>2. Together' = Together
  BY <1>1 DEF Together, server
<1>3. Asked' = o
  BY <1>1 DEF Asked, Ops, Uploads
<1> QED
  BY <1>1, <1>2, <1>3, AskedFacts, Asks

LEMMA CallDie ==
  ASSUME link' = "closed", UNCHANGED <<call, outcome, done>>
  PROVE  Refines
<1>1. ~Together' /\ Asked' = Asked
  BY DEF Together, Asked
<1> QED
  BY <1>1, Parts

LEMMA CallSend == ASSUME IInv, SendRequest \/ SendPayload PROVE Refines
<1>1. /\ link' = "closed" \/ UNCHANGED link
      /\ UNCHANGED <<call, outcome, server, done, odd>>
  BY DEF SendRequest, SendPayload, Send
<1>2. CASE link' = "closed"
  BY <1>1, <1>2, CallDie
<1>3. CASE UNCHANGED link
  <2>1. Together' = Together /\ Asked' = Asked
    BY <1>1, <1>3 DEF Together, Asked, server
  <2> QED
    BY <1>1, <2>1, Stutters
<1> QED
  BY <1>1, <1>2, <1>3

LEMMA CallGoto ==
  ASSUME NEW l, Goto(l), UNCHANGED <<link, server, done, odd>>
  PROVE  Refines
<1>1. Together' = Together /\ Asked' = Asked /\ outcome'.ret = outcome.ret
  BY DEF Together, Asked, Goto, server
<1> QED
  BY <1>1, Stutters

LEMMA CallVerdict ==
  ASSUME IInv, pc \in Reading, NEW c, Verdict(c), UNCHANGED <<link, server, done, odd>>,
         Together => IF c = Code.SUCCESS THEN done = 1 ELSE done = 0
  PROVE  Refines
<1>1. Together' = Together
  BY DEF Together, server
<1>2. Asked # NULL /\ Asked' = NULL
  BY AskedFacts, Idles DEF Verdict, Return
<1>3. outcome'.ret = IF c = Code.SUCCESS THEN "ok" ELSE "error"
  BY DEF Verdict, Return
<1> QED
  BY <1>1, <1>2, <1>3, Succeeded, Failed

LEMMA CallLost == ASSUME IInv, Astray \/ ReadEOF \/ Slip PROVE Refines
<1>1. CASE Astray
  <2>1. Together' = Together /\ Asked' = Asked /\ done' = done /\ outcome'.ret = outcome.ret
    BY <1>1 DEF Astray, Together, Asked, server
  <2> QED
    BY <2>1, Stutters
<1>2. CASE ReadEOF \/ Slip
  <2>1. pc \in Reading
    BY <1>2 DEF ReadEOF, Slip, Reading
  <2>2. Asked # NULL /\ Asked' = NULL
    BY <1>2, <2>1, AskedFacts, Idles DEF ReadEOF, Slip, Return
  <2>3. outcome'.ret = "error" /\ done' = done
    BY <1>2 DEF ReadEOF, Slip, Return
  <2>4. ~Together'
    BY <1>2 DEF ReadEOF, Slip, Together, server
  <2> QED
    BY <2>2, <2>3, <2>4, Failed
<1> QED
  BY <1>1, <1>2

LEMMA CallNextFile ==
  ASSUME IInv, pc \in Reading, NextFile, Together => InFile,
         UNCHANGED <<link, server, done, odd>>
  PROVE  Refines
<1>1. CASE rest.files = 1
  <2>1. Verdict(rest.verdict)
    BY <1>1 DEF NextFile
  <2>2. Together => rest.verdict = Code.SUCCESS /\ done = 1
    BY DEF InFile
  <2> QED
    BY <2>1, <2>2, CallVerdict
<1>2. CASE rest.files # 1
  BY <1>2, CallGoto DEF NextFile
<1> QED
  BY <1>1, <1>2

LEMMA CallRead ==
  ASSUME IInv,
         \/ ChangeDir \/ GetNameLen \/ GetName \/ GetDim \/ GetContents
         \/ GetSize \/ GetData
  PROVE  Refines
<1>1. CASE ChangeDir \/ GetNameLen \/ GetName
  BY <1>1, CallGoto DEF ChangeDir, GetNameLen, GetName, Read
<1>2. CASE GetDim \/ GetContents
  <2>1. /\ pc \in {"fdim", "fdata"} /\ pc \in Reading
        /\ UNCHANGED <<link, server, done, odd>>
        /\ NextFile \/ Goto("fdata")
    BY <1>2 DEF GetDim, GetContents, Length, Read, Reading
  <2>2. Together => InFile
    BY <2>1, AskedFacts DEF Sync
  <2> QED
    BY <2>1, <2>2, CallNextFile, CallGoto
<1>3. CASE GetSize \/ GetData
  <2>1. /\ pc \in {"size", "data"} /\ pc \in Reading
        /\ UNCHANGED <<link, server, done, odd>>
        /\ Verdict(Code.SUCCESS) \/ Goto("data")
    BY <1>3 DEF GetSize, GetData, Length, Read, Reading
  <2>2. Together => done = 1
    BY <2>1, AskedFacts DEF Sync
  <2> QED
    BY <2>1, <2>2, CallVerdict, CallGoto
<1> QED
  BY <1>1, <1>2, <1>3

(* The code of an answer says whether the call was carried out.            *)
CodeIn(r) == IF call.op \in Uploads \cup {"READ_N"} THEN r \div Shift ELSE r

LEMMA CodeTells ==
  ASSUME IInv, Answered, NEW r, r = Head(down).val
  PROVE  IF CodeIn(r) = Code.SUCCESS THEN done = 1 ELSE done = 0
<1>1. CASE Success(call.op, call.dir, down) /\ done = 1
  <2>1. CASE call.op \notin Uploads \cup {"READ", "READ_N"} /\ down = <<Number(Code.SUCCESS)>>
    <3>1. r = Code.SUCCESS
      BY <2>1, OneRead
    <3> QED
      BY <1>1, <2>1, <3>1 DEF CodeIn
  <2>2. CASE call.op = "READ" /\ \E p \in Payloads : down = Cons(Number(Code.SUCCESS), p)
    <3>1. PICK p \in Payloads : down = Cons(Number(Code.SUCCESS), p)
      BY <2>2
    <3>2. Code.SUCCESS \in 0..Limit - 1 /\ p \in Seq(DownToken)
      BY PayloadRead, ShiftFacts DEF Code
    <3>3. r = Code.SUCCESS
      BY <3>1, <3>2, ConsRead
    <3> QED
      BY <1>1, <2>2, <3>3 DEF CodeIn, Uploads
  <2>3. CASE /\ call.op \in Uploads \cup {"READ_N"}
             /\ \E k \in 0..MaxFiles : \E t \in Contents(IF call.dir THEN k ELSE 0) :
                  down = Cons(Number(Code.SUCCESS * Shift + k), t)
    <3>1. PICK k \in 0..MaxFiles : \E t \in Contents(IF call.dir THEN k ELSE 0) :
                 down = Cons(Number(Code.SUCCESS * Shift + k), t)
      BY <2>3
    <3>2. PICK t \in Contents(IF call.dir THEN k ELSE 0) :
                 down = Cons(Number(Code.SUCCESS * Shift + k), t)
      BY <3>1
    <3>3. Code.SUCCESS \in 0..15 /\ k \in 0..Shift - 1 /\ k \in Nat
      BY ShiftFacts, BoundsAssumption DEF Code
    <3>4. /\ Code.SUCCESS * Shift + k \in 0..Limit - 1
          /\ (Code.SUCCESS * Shift + k) \div Shift = Code.SUCCESS
      BY <3>3, ResultOf
    <3>5. t \in Seq(DownToken)
      BY <3>3, ContentsTyped
    <3>6. r = Code.SUCCESS * Shift + k
      BY <3>2, <3>4, <3>5, ConsRead
    <3> QED
      BY <1>1, <2>3, <3>4, <3>6 DEF CodeIn
  <2> QED
    BY <1>1, <2>1, <2>2, <2>3 DEF Success
<1>2. CASE Denied(call.op, down) /\ done = 0
  <2>1. CASE call.op \notin Uploads \cup {"READ_N"} /\ \E c \in 10..15 : down = <<Number(c)>>
    <3>1. PICK c \in 10..15 : down = <<Number(c)>>
      BY <2>1
    <3>2. r = c /\ c # Code.SUCCESS
      BY <3>1, OneRead DEF Code
    <3> QED
      BY <1>2, <2>1, <3>2 DEF CodeIn
  <2>2. CASE call.op \in Uploads /\ \E c \in 10..15 : down = <<Number(c * Shift)>>
    <3>1. PICK c \in 10..15 : down = <<Number(c * Shift)>>
      BY <2>2
    <3>2. r = c * Shift /\ c # Code.SUCCESS /\ c \in 0..15
      BY <3>1, OneRead DEF Code
    <3>3. r \div Shift = c
      BY <3>2, ResultPlain
    <3> QED
      BY <1>2, <2>2, <3>2, <3>3 DEF CodeIn
  <2> QED
    BY <1>2, <2>1, <2>2 DEF Denied
<1>3. CASE call.op = "WRITE" /\ done = 0 /\ down = <<Number(Code.FILE_ALREADY_OPEN)>>
  <2>1. r = 11 /\ 11 \in 0..15
    BY <1>3, OneRead DEF Code
  <2>2. r \div Shift = 0 /\ Code.SUCCESS = 1
    BY <2>1, ResultPlain DEF Code
  <2> QED
    BY <1>3, <2>2 DEF CodeIn, Uploads
<1> QED
  BY <1>1, <1>2, <1>3 DEF Answered

LEMMA CallResult == ASSUME IInv, GetResult PROVE Refines
<1> DEFINE r == Head(down).val
<1>1. /\ pc = "result" /\ pc \in Reading /\ down # <<>>
      /\ UNCHANGED <<link, server, done, odd>>
  BY ResultUsed
<1>2. Verdict(CodeIn(r)) \/ \E l : Goto(l)
  <2>1. CASE call.op \in Uploads
    <3>1. SaveFiles(IF call.dir THEN r % Shift ELSE 0, r \div Shift)
      BY <2>1, ResultUsed
    <3> QED
      BY <2>1, <3>1 DEF SaveFiles, CodeIn
  <2>2. CASE call.op = "READ_N"
    <3>1. SaveFiles(IF r \div Shift = 1 THEN r % Shift ELSE 0, r \div Shift)
      BY <2>2, ResultUsed
    <3> QED
      BY <2>2, <3>1 DEF SaveFiles, CodeIn
  <2>3. CASE call.op = "READ" /\ r = 1
    BY <2>3, ResultUsed
  <2>4. CASE call.op \notin Uploads \cup {"READ_N"} /\ ~(call.op = "READ" /\ r = 1)
    <3>1. Verdict(r)
      BY <2>4, ResultUsed
    <3> QED
      BY <2>4, <3>1 DEF CodeIn
  <2> QED
    BY <2>1, <2>2, <2>3, <2>4 DEF Uploads
<1>3. Together => IF CodeIn(r) = Code.SUCCESS THEN done = 1 ELSE done = 0
  <2>1. Together => Answered
    BY <1>1, AskedFacts DEF Sync, Handled, Sacked, Ended, Together
  <2> QED
    BY <2>1, CodeTells
<1> QED
  BY <1>1, <1>2, <1>3, CallVerdict, CallGoto

(* Steps of the server                                                     *)

LEMMA CallServer ==
  ASSUME UNCHANGED client, done' = done, "slip" \in odd' <=> "slip" \in odd,
         Ended => Ended'
  PROVE  Refines
<1>1. Asked' = Asked /\ outcome'.ret = outcome.ret
  BY DEF Asked, client
<1>2. CASE Ended'
  <2>1. ~Together'
    BY <1>2 DEF Together, Ended
  <2> QED
    BY <1>1, <2>1, Parts
<1>3. CASE ~Ended'
  <2>1. Together' = Together
    BY <1>3 DEF Together, Ended, client
  <2> QED
    BY <1>1, <2>1, Stutters
<1> QED
  BY <1>2, <1>3

(* Only to a call in progress is there an answer.                          *)
LEMMA CallExecute ==
  ASSUME IInv, NEW l \in {"run", "parked", "store"}, NEW t, sendClientResult(l, t), Succeeds
  PROVE  Refines
<1>1. /\ spc = l /\ UNCHANGED client /\ odd' = odd /\ done' = done + 1
      /\ spc' = IF link = "open" THEN "listen" ELSE "closing"
  BY DEF sendClientResult, Answer, At, Succeeds
<1>2. Asked' = Asked /\ outcome'.ret = outcome.ret /\ Together' = Together
  BY <1>1 DEF Asked, Together, client
<1>3. ASSUME Together PROVE Asked # NULL /\ done = 0
  <2>1. Sync /\ link = "open"
    BY <1>3, AskedFacts DEF Together
  <2>2. ~Rested /\ ~Over /\ ~Ended /\ ~Sacked
    BY <1>1 DEF Rested, Over, Ended, Idle, Sacked
  <2>3. pc \in {"payload", "result"} /\ Handled
    BY <2>1, <2>2 DEF Sync, IInv, Placed, InFile, Saving, Typed, TypeOK, Reading
  <2> QED
    BY <2>3, AskedFacts DEF Handled, Reading, Asking
<1> QED
  BY <1>1, <1>2, <1>3, Executes

LEMMA CallAnswer ==
  ASSUME NEW l, NEW t, NEW next, Answer(l, t, next), l \notin {"closing", "closed"},
         done' = done, "slip" \in odd' <=> "slip" \in odd
  PROVE  Refines
<1>1. UNCHANGED client /\ ~Ended
  BY DEF Answer, At, Ended
<1> QED
  BY <1>1, CallServer

LEMMA CallWorker == ASSUME IInv, Worker PROVE Refines
<1>1. CASE GetRequest \/ GetFileName \/ ReceiveSize \/ ReceiveData
  BY <1>1, CallServer DEF GetRequest, GetFileName, ReceiveSize, ReceiveData, Receive, Ended
<1>2. CASE Hangup \/ Present \/ Park \/ RunUpload \/ Overdrain
  BY <1>2, CallServer DEF Hangup, Present, Park, RunUpload, Overdrain, At, Ended
<1>3. CASE Absent
  <2>1. PICK t, next : Answer("find", t, next)
    BY <1>3 DEF Absent, sendClientError, sendClientFatalError, IInv, Placed
  <2> QED
    BY <1>3, <2>1, CallAnswer DEF Absent, Fails
<1>4. CASE Run
  <2>1. CASE (\E t \in Results : sendClientResult("run", t)) /\ Succeeds
    BY <2>1, CallExecute
  <2>2. CASE (\E r \in Refusals : sendClientError("run", r)) /\ Fails
    <3>1. PICK t, next : Answer("run", t, next)
      BY <2>2 DEF sendClientError
    <3> QED
      BY <2>2, <3>1, CallAnswer DEF Fails
  <2> QED
    BY <1>4, <2>1, <2>2 DEF Run
<1>5. CASE Store
  <2>1. CASE (\E s \in SomeFiles : sendClientResult("store", Expelled(s))) /\ Succeeds
    BY <2>1, CallExecute
  <2>2. CASE /\ \E c \in {Code.FILE_NOT_OPEN, Code.NO_MEMORY} :
                  sendClientError("store", c * Shift)
             /\ Fails
    <3>1. PICK t, next : Answer("store", t, next)
      BY <2>2 DEF sendClientError
    <3> QED
      BY <2>2, <3>1, CallAnswer DEF Fails
  <2> QED
    BY <1>5, <2>1, <2>2 DEF Store
<1>6. CASE RefuseWrite
  <2>1. PICK t, next : Answer("store", t, next)
    BY <1>6 DEF RefuseWrite, sendClientError
  <2>2. done' = done /\ ("slip" \in odd' <=> "slip" \in odd)
    BY <1>6 DEF RefuseWrite
  <2> QED
    BY <2>1, <2>2, CallAnswer
<1> QED
  BY <1>1, <1>2, <1>3, <1>4, <1>5, <1>6 DEF Worker

LEMMA CallRemoved == ASSUME IInv, FileRemoved PROVE Refines
<1>1. CASE Succeeds /\ sendClientResult("parked", <<Number(Code.SUCCESS)>>)
  BY <1>1, CallExecute
<1>2. CASE Fails /\ sendClientError("parked", Code.NO_SUCH_FILE)
  <2>1. PICK t, next : Answer("parked", t, next)
    BY <1>2 DEF sendClientError
  <2> QED
    BY <1>2, <2>1, CallAnswer DEF Fails
<1>3. CASE /\ odd' = odd \cup {"dropped"} \/ odd' = odd \cup {"drained"}
           /\ At("parked", "dropped") \/ At("parked", "drain")
           /\ UNCHANGED <<req, up, down, done>>
  BY <1>3, CallServer DEF At, Ended
<1> QED
  BY <1>1, <1>2, <1>3 DEF FileRemoved

LEMMA CallRefined == ASSUME IInv, [Next]_vars PROVE Refines
<1>1. CASE Client
  <2>1. CASE Die
    BY <2>1, CallDie DEF Die
  <2>2. CASE InCall
    BY <2>2, CallOutside, CallSend, CallResult, CallRead, CallLost DEF InCall
  <2> QED
    BY <1>1, <2>1, <2>2, CallOutside, CallAsk DEF Client
<1>2. CASE Server
  <2>1. CASE Accept \/ Refuse \/ NextRequest \/ Close
    BY <2>1, CallServer DEF Accept, Refuse, NextRequest, Close, At, Ended
  <2> QED
    BY <1>2, <2>1, CallWorker, CallRemoved DEF Server
<1>3. CASE Start
  BY <1>3, CallServer DEF Start, Ended
<1>4. CASE Stop
  <2>1. UNCHANGED client /\ done' = done /\ odd' = odd /\ (Ended => Ended')
    BY <1>4 DEF Stop, Ended
  <2> QED
    BY <2>1, CallServer
<1>5. CASE UNCHANGED vars
  BY <1>5, CallServer DEF vars, client, server, Ended
<1> QED
  BY <1>1, <1>2, <1>3, <1>4, <1>5 DEF Next

(* The calls keep the promises of api.h, as long as the client reads its   *)
(* answers to the end: the server carries each out at most once, before it *)
(* returns 0, and never if it returns -1.                                  *)
THEOREM CallsRefined == Spec => ImplementsCall
<1>1. Init => Call!Init
  BY CallInit
<1>2. IInv /\ [Next]_vars => [Call!Next]_(Call!vars)
  BY CallRefined DEF Refines
<1> QED
  BY <1>1, <1>2, SessionInvariance, PTL DEF Spec, ImplementsCall, Call!Spec

=============================================================================
